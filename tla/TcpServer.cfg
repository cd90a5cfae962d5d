CONSTANTS
  s1 = s1
  s2 = s2
  l1 = l1
  l2 = l2
  Servers = {s1}
  IoLoops <- TwoThreads
  FdMax = 3
  OthersMax = 1
  PeersMax = 3
  FatalErrors = TRUE
SPECIFICATION FairSpec
INVARIANTS
  RegisteredIsHeld
  DestroyedAtEnd
  FunctorsMatchState
  RoundRobin
  IdleSurvivesFull
PROPERTIES
  ConnectionsLive
  PeersServed
  ClosedReleased
  DestructorEnds
CHECK_DEADLOCK FALSE
