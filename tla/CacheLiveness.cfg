SPECIFICATION FairSpec
CONSTANTS
  CodeLines <- MCCode
  DataLines <- MCData
  Words <- MCWord
  NumSet <- MCOne
  NumWay <- MCOne
  RqSize <- MCRq
  WqSize <- MCOne
  PqSize <- MCOne
  MshrSize <- MCMshr
  ProcessedSize = 2
  MemorySize = 1
  NumIndices = 1
  Prefetchers <- MCAllPrefetchers
  MaxFetches = 1
  MaxLoads = 1
  MaxStores = 1
  MaxPrefetches = 1
PROPERTIES
  Drains
CHECK_DEADLOCK FALSE
