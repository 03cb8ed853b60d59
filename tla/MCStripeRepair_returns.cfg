CONSTANTS
  d1 = d1  d2 = d2  d3 = d3  d4 = d4
  s1 = s1  s2 = s2
  u1 = u1  u2 = u2  r1 = r1  b1 = b1
  None = None
  Disk = {d1, d2, d3}
  Registered = {d1, d2, d3}
  StripeId = {s1}
  Stored = {s1}
  Scrubber = {u1}
  Reader = {}
  Rebuilder = b1
  K = 1
  M = 2
  Need = 2
  MaxDamage = 0
  MaxFaults = 2
  MaxCrashes = 0
SPECIFICATION Spec
SYMMETRY Symmetry
INVARIANTS DistinctDisks
CHECK_DEADLOCK FALSE
