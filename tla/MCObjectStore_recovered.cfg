CONSTANTS
  k1 = k1  k2 = k2
  d1 = d1  d2 = d2  d3 = d3
  s1 = s1  s2 = s2  s3 = s3  s4 = s4
  r1 = r1
  None = None
  Key = {k1}
  Disk = {d1, d2, d3}
  StripeId = {s1, s2, s3}
  Reader = {}
  EcK = 2
  EcM = 2
  MinWriteExtra = 1
  MaxStripes = 2
  MaxObjId = 1
  MaxDown = 2
  MaxFaults = 1
  MaxCrashes = 0
SPECIFICATION Spec
SYMMETRY Symmetry
INVARIANTS FailedPutLeavesNoFile RecoveredAnyway
CHECK_DEADLOCK FALSE
