CONSTANTS
  t1 = t1  t2 = t2  t3 = t3
  Null = Null
  File = {1, 2, 3}
  Near <- MCNear
  Thread = {t1, t2}
  Clash <- MCClash
  Sessions <- MCSessions
  MaxCrashes = 1
SPECIFICATION Spec
INVARIANTS TypeOK GroupsAreRelated NearIsGrouped
CHECK_DEADLOCK FALSE
