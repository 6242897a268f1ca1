CONSTANTS
  s1 = s1
  s2 = s2
  s3 = s3
  A = A
  B = B
  Socks = {s1, s2, s3}
  Matches = {A, B}
  None = None
  QueueLimit = 1
  Burst = 4
  MaxRuns = 2
  MaxFaults = 2
  MaxActs = 3
  r1 = r1
  r2 = r2
  Asks = {r1, r2}
SPECIFICATION MCSpec
INVARIANT OneLink
PROPERTY LinkRecovers
PROPERTY EveryRequestSettles
CHECK_DEADLOCK FALSE
