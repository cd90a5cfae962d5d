CONSTANTS
  s1 = s1
  s2 = s2
  l1 = l1
  l2 = l2
  Servers = {s1, s2}
  IoLoops <- TwoServers
  FdMax = 9
  OthersMax = 0
  PeersMax = 4
  FatalErrors = FALSE
SPECIFICATION Spec
INVARIANTS
  EraseFindsOne
CHECK_DEADLOCK FALSE
