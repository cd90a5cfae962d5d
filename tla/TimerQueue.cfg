CONSTANTS
  Timers = {1, 2}
  Whens = {0, 3}
  Intervals = {1}
  MaxNow = 4
  StepsMax = 1
  QueueMax = 1
  NDEBUG = TRUE
SPECIFICATION FairSpec
INVARIANTS
  ArmedForEarliest
  KeysMatch
  CancelledStaysOut
PROPERTIES
  EveryTimerEnds
