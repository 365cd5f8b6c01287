SPECIFICATION FairSpec
CONSTANTS
  Pages = {1, 2, 3, 4, 5}
  DRAM_PAGES = 4
  Draws = {1, 2, 5}
  Runs = {1}
  TlbSize <- MCTlbSize
  MshrSize <- MCMshrSize
  RqSize = 2
  MaxAccesses = 3
  MaxCode = 3
INVARIANTS
  TypeOK
  TablesInverse
  WithinMemory
  StaleOnlyIfOvertaken
PROPERTIES
  TranslationsArrive
CHECK_DEADLOCK FALSE
