CONSTANTS
  d1 = d1  d2 = d2  d3 = d3  d4 = d4
  s1 = s1  s2 = s2
  u1 = u1  u2 = u2  r1 = r1  b1 = b1
  None = None
  Disk = {d1, d2, d3}
  Registered = {d1, d2}
  StripeId = {s1}
  Stored = {s1}
  Scrubber = {}
  Reader = {r1}
  Rebuilder = b1
  K = 1
  M = 1
  Need = 2
  MaxDamage = 0
  MaxFaults = 0
  MaxCrashes = 1
SPECIFICATION RFairSpec

INVARIANTS JobTypeOK RetiredIsEmpty ReadsContinue
PROPERTIES TaskEnds
CHECK_DEADLOCK FALSE
