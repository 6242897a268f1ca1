CONSTANTS
  alice = alice
  bob = bob
  a1 = a1
  b1 = b1
  n1 = n1
  n2 = n2
  Users = {alice, bob}
  Tokens = {a1, b1}
  Nodes = {n1, n2}
  UserOf <- TwoUserOf
  NodeOf <- TwoNodeOf
  Host = alice
  NoUser = NoUser
  NoSeat = NoSeat
  Seats = {0, 1}
  MaxHands = 1
  Plies = 1
  MaxPending = 0
  MaxFailures = 0
SPECIFICATION FairSpec
INVARIANT CountdownFollowsPresence
INVARIANT EveryConnectionIsSwept
PROPERTY PresenceConverges
PROPERTY EmptyTableEnds
PROPERTY AiTurnIsPlayed
PROPERTY HandIsScored
CHECK_DEADLOCK FALSE
