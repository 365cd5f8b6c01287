\* Two pages of code that take the one frame from each other.
CONSTANTS
  Trace <- MCSwapTrace
  Frames = {f1}
  FETCH_WIDTH = 2
  DECODE_WIDTH = 1
  ROB_SIZE = 2
  RQ_SIZE = 2
  MSHR_SIZE = 2
SPECIFICATION Spec
INVARIANT AnswerComing
CHECK_DEADLOCK FALSE
