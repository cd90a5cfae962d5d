CONSTANTS
  Callers = {t1, t2}
  Functors = {f1, f2}
  Channels = {c1, c2}
  WakeupChannel = wakeup
  EventfdMax = 2
  kEventsSize = 2
  NDEBUG = TRUE
SPECIFICATION FairSpec
INVARIANTS
  QueueOrder
  NoLostWakeup
  NoLostStop
PROPERTIES
  QueuedRuns
  StopStops
  ExecutorSafe
  ExecutorLive
