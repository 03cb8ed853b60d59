CONSTANTS
  c1 = c1  c2 = c2
  f1 = f1  f2 = f2  f3 = f3
  Gone = Gone
  Chunk = {c1, c2}
  File = {f1, f2}
  Reader = {c2}
  Body <- MCBody
  MaxBatch = 2
  Ratio = 100
  MaxFrames = 1
  MaxDicts = 2
  MaxTries = 1
  MaxFails = 1
  MaxCrashes = 1
SPECIFICATION FairSpec
INVARIANTS ChunksInPlace RefsAreExact LiveBytesCoverUse UnhitReadIsFound
PROPERTIES DueIsSealed
CHECK_DEADLOCK FALSE
