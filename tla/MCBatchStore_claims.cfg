CONSTANTS
  c1 = c1  c2 = c2
  f1 = f1  f2 = f2  f3 = f3
  Gone = Gone
  Chunk = {c1, c2}
  File = {f1, f2, f3}
  Reader = {c1, c2}
  Body <- MCBody
  MaxBatch = 2
  Ratio = 100
  MaxFrames = 1
  MaxDicts = 2
  MaxTries = 1
  MaxFails = 0
  MaxCrashes = 1
SPECIFICATION Spec
INVARIANTS TypeOK BloomIsComplete LiveChunkIsRead SealNeverFailsARead
CHECK_DEADLOCK FALSE
