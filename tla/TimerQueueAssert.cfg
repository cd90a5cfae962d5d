CONSTANTS
  Timers = {1, 2}
  Whens = {0, 1, 2, 3}
  Intervals = {0, 2}
  MaxNow = 3
  StepsMax = 0
  QueueMax = 2
  NDEBUG = FALSE
SPECIFICATION Spec
CHECK_DEADLOCK FALSE
INVARIANTS
  ExpiryAssertHolds
