CONSTANTS
  n1 = n1
  n2 = n2
  Nodes = {n1, n2}
  NoNode = NoNode
  Knows = {n1, n2}
  Slow = {}
  MaxFaults = 1
  MaxStops = 1
SPECIFICATION FairSpec
PROPERTY SplitHeals
PROPERTY OrphanRecovered
PROPERTY AbandonedIsReleased
CHECK_DEADLOCK FALSE
