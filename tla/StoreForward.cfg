\* A store finds a load that waits for a later store to the address.
CONSTANTS
  Programs <- MCTwoStores
  ROB_SIZE = 7
  SCHEDULER_SIZE = 6
  LQ_SIZE = 6
  SQ_SIZE = 4
  WQ_SIZE = 2
SPECIFICATION FairSpec
INVARIANT ForwardsToWaiting
CHECK_DEADLOCK FALSE
