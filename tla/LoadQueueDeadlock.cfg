\* Loads that wait for a store fill the load queue before a load the store needs.
CONSTANTS
  Programs <- MCLoadsAhead
  ROB_SIZE = 7
  SCHEDULER_SIZE = 6
  LQ_SIZE = 6
  SQ_SIZE = 2
  WQ_SIZE = 2
SPECIFICATION FairSpec
PROPERTY AllRetire
CHECK_DEADLOCK FALSE
