CONSTANTS
  alice = alice
  bob = bob
  a1 = a1
  b1 = b1
  n1 = n1
  n2 = n2
  Users = {alice}
  Tokens = {a1}
  Nodes = {n1}
  UserOf <- OneUserOf
  NodeOf <- OneNodeOf
  Host = alice
  NoUser = NoUser
  NoSeat = NoSeat
  Seats = {0, 1}
  MaxHands = 2
  Plies = 1
  MaxPending = 2
  MaxFailures = 1
SPECIFICATION Spec
INVARIANT EachHandScoredOnce
PROPERTY OverIsFinal
PROPERTY StoreNeverGoesBack
CHECK_DEADLOCK FALSE
