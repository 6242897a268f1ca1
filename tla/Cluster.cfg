CONSTANTS
  n1 = n1
  n2 = n2
  Nodes = {n1, n2}
  NoNode = NoNode
  Knows = {n1, n2}
  Slow = {n1, n2}
  MaxFaults = 1
  MaxStops = 1
SPECIFICATION Spec
SYMMETRY Alike
INVARIANT DriversHoldTheLease
INVARIANT RunsOnlyWhatItRenews
PROPERTY ImplementsLock
CHECK_DEADLOCK FALSE
