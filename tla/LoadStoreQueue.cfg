\* Two programs through queues smaller than they are.
CONSTANTS
  Programs <- MCPrograms
  ROB_SIZE = 5
  SCHEDULER_SIZE = 4
  LQ_SIZE = 3
  SQ_SIZE = 3
  WQ_SIZE = 2
SPECIFICATION FairSpec
INVARIANTS TypeOK ReadsInProgramOrder OperandsCounted NoLoadStranded StoresInOrder
PROPERTY AllRetire
CHECK_DEADLOCK FALSE
