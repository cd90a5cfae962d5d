CONSTANTS
  num_threads_ = 1
  OthersStop = FALSE
SPECIFICATION Spec
INVARIANT StartAssertHolds
CHECK_DEADLOCK FALSE
