SPECIFICATION Spec
CONSTANTS
  CodeLines <- MCCode
  DataLines <- MCData
  Words <- MCWord
  NumSet <- MCOne
  NumWay <- MCOne
  RqSize <- MCRq
  WqSize <- MCOne
  PqSize <- MCOne
  MshrSize <- MCMshr
  ProcessedSize = 5
  MemorySize = 1
  NumIndices = 1
  Prefetchers <- MCNextLine
  MaxFetches = 1
  MaxLoads = 1
  MaxStores = 1
  MaxPrefetches = 1
PROPERTY StoresReachLine
CHECK_DEADLOCK FALSE
