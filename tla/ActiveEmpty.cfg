SPECIFICATION Spec
CONSTANTS
  Thread = {t1, t2}
  d1 = d1
  d2 = d2
  Desc = {d1, d2}
  Dummy = {m1, m2}
  NULL = NULL
  User = User
  Batches <- OneBatch
  MaxCount = 2
  FreeAttempts = 3
SYMMETRY Symmetry
CHECK_DEADLOCK FALSE
INVARIANT ActiveIsPartial
