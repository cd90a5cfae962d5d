CONSTANTS
  num_threads_ = 1
  OthersStop = FALSE
SPECIFICATION Spec
INVARIANT NoUseAfterExit
CHECK_DEADLOCK FALSE
