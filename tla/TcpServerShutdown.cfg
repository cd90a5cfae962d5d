CONSTANTS
  s1 = s1
  s2 = s2
  l1 = l1
  l2 = l2
  Servers = {s1}
  IoLoops <- TwoThreads
  FdMax = 4
  OthersMax = 0
  PeersMax = 2
  FatalErrors = FALSE
SPECIFICATION Spec
INVARIANTS
  DestroyedRemoved
CHECK_DEADLOCK FALSE
