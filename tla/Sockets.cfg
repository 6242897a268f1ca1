CONSTANTS
  n1 = n1
  n2 = n2
  c1 = c1
  c2 = c2
  A = A
  B = B
  Nodes = {n1, n2}
  Conns = {c1, c2}
  Matches = {A}
  None = None
  Cap = 1
  MaxConnections = 2
  LeaseIntervals = 3
  MaxCrashes = 1
SPECIFICATION MCSpec
INVARIANT SettledIsWatched
INVARIANT LiveIsCounted
PROPERTY GhostsAgeOutWithHeartbeat
CHECK_DEADLOCK FALSE
