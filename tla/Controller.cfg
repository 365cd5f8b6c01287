SPECIFICATION FairSpec
CONSTANTS
  Addr <- MCLines
  RqSize = 2
  WqSize = 3
  HighWM = 3
  LowWM = 2
  Banks = 2
  Columns = 1
  tCAS = 1
  tOpen = 1
  BusReturn = 2
  TurnAround = 1
  MaxRequests = 5
INVARIANTS
  TypeOK
  BankOwnsRequest
  CountersMatch
  CachedIndicesFresh
  ReadReturnsOnce
PROPERTIES
  ImplementsMemoryPort
  NeitherStarves
