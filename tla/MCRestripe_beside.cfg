CONSTANTS
  k1 = k1  k2 = k2
  d1 = d1  d2 = d2  d3 = d3
  s1 = s1  s2 = s2  s3 = s3  s4 = s4
  r1 = r1
  None = None
  Key = {k1, k2}
  Disk = {d1}
  StripeId = {s1, s2, s3}
  Reader = {}
  EcK = 2
  EcM = 1
  MinWriteExtra = 0
  MaxStripes = 1
  MaxObjId = 2
  MaxDown = 1
  MaxFaults = 0
  MaxCrashes = 1
  Beside = {"calls", "restart"}
SPECIFICATION RestripeSpec
SYMMETRY Symmetry
INVARIANTS ListedIsWhole VisibleInPlace
CHECK_DEADLOCK FALSE
