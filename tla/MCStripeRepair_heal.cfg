CONSTANTS
  d1 = d1  d2 = d2  d3 = d3  d4 = d4
  s1 = s1  s2 = s2
  u1 = u1  u2 = u2  r1 = r1  b1 = b1
  None = None
  Disk = {d1, d2}
  Registered = {d1, d2}
  StripeId = {s1}
  Stored = {}
  Scrubber = {u1}
  Reader = {}
  Rebuilder = b1
  K = 1
  M = 1
  Need = 2
  MaxDamage = 1
  MaxFaults = 1
  MaxCrashes = 1
SPECIFICATION FairSpec
PROPERTIES Healed
CHECK_DEADLOCK FALSE
