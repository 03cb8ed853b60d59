CONSTANTS
  u1 = u1  u2 = u2  u3 = u3  c1 = c1  c2 = c2
  Gone = Gone
  Upload = {u1, u2}
  Client = {c1, c2}
  Length = 2
  MaxFailures = 1
  MaxAttempts = 2
  MaxTrouble = 2
SPECIFICATION Spec
INVARIANTS TypeOK SyncedIsVerified AcknowledgedIsKept SkippedIsKnown StagingIsKnown
CHECK_DEADLOCK FALSE
