CONSTANTS
  k1 = k1  d1 = d1  d2 = d2  s1 = s1  s2 = s2
  None = None
  Key = {k1}
  Disk = {d1, d2}
  StripeId = {s1, s2}
  Reader = {}
  EcK = 4
  EcM = 2
  MinWriteExtra = 1
  MaxStripes = 2
  MaxObjId = 1
  MaxDown = 0
  MaxFaults = 0
  MaxCrashes = 0
SPECIFICATION LiveSpec
INVARIANT RecoveryKeepsCommitted
