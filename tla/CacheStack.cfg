SPECIFICATION Spec
CONSTANTS
  CodeLines <- MCCode
  DataLines <- MCData
  Words <- MCWord
  NumSet <- MCOne
  NumWay <- MCWays
  RqSize <- MCRq
  WqSize <- MCOne
  PqSize <- MCOne
  MshrSize <- MCMshr
  ProcessedSize = 3
  MemorySize = 2
  NumIndices = 2
  Prefetchers <- MCPrefetchers
  MaxFetches = 1
  MaxLoads = 1
  MaxStores = 2
  MaxPrefetches = 1
INVARIANTS
  TypeOK
  OneAnswerPerMiss
  NextFillIsDue
  LoadsConserved
  FilledOnce
  LruStacks
  NoWaitCycle
PROPERTIES
  DirtyDataKept
CHECK_DEADLOCK FALSE
