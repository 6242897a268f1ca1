CONSTANTS
  n1 = n1
  n2 = n2
  u1 = u1
  u2 = u2
  r1 = r1
  r2 = r2
  g1 = g1
  g2 = g2
  s1 = s1
  t1 = t1
  t2 = t2
  k1 = k1
  AuthRequests = {r1, r2}
  Tokens = {t1, t2}
  Links = {k1}
  NoToken = NoToken
  GoodTicks = 2
  BadTicks = 1
  MaxPasswords = 1
  Nodes = {n1, n2}
  Users = {u1, u2}
  Requests = {r1, r2}
  Games = {g1, g2}
  None = None
  Gone = Gone
  Sessions = {s1}
  MaxSessions = 1
  MaxRevisions = 2
  MaxRepairs = 1
  MaxDrafts = 2
  Redis = Redis
  Keepers = {Redis, n1}
  Capacity = 3
  TokenTicks = 2
  SweepTicks = 2
  Callers = {r1, r2}
  MaxKeys = 3
  MaxMoves = 2
SPECIFICATION MCSpec
INVARIANT DeletedIsNotServed
CHECK_DEADLOCK FALSE
