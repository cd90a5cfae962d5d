CONSTANTS
  num_threads_ = 3
  OthersStop = TRUE
SPECIFICATION FairSpec
INVARIANT LoopOutlivesOwner
PROPERTIES
  StartCompletes
  DestructorCompletes
CHECK_DEADLOCK FALSE
