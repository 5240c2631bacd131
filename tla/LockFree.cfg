SPECIFICATION FairSpec
CONSTANTS
  Thread = {t1, t2}
  d1 = d1
  d2 = d2
  Desc = {d1, d2}
  Dummy = {m1, m2}
  NULL = NULL
  User = User
  Batches <- TwoBatches
  MaxCount = 2
  FreeAttempts = 1
CHECK_DEADLOCK FALSE
PROPERTY LockFree
