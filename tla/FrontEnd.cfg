\* Three lines through a read queue of one request; every page has a frame.
CONSTANTS
  Trace <- MCTrace
  Frames = {f1, f2, f3}
  FETCH_WIDTH = 2
  DECODE_WIDTH = 1
  ROB_SIZE = 2
  RQ_SIZE = 1
  MSHR_SIZE = 2
SPECIFICATION FairSpec
INVARIANTS TypeOK AnswerComing
PROPERTY ImplementsFairStream
CHECK_DEADLOCK FALSE
