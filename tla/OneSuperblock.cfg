SPECIFICATION Spec
CONSTANTS
  Thread = {t1, t2, t3}
  d1 = d1
  d2 = d2
  Desc = {d1}
  Dummy = {m1, m2}
  NULL = NULL
  User = User
  Batches <- OneDesc
  MaxCount = 3
  FreeAttempts = 3
SYMMETRY Symmetry
CHECK_DEADLOCK FALSE
INVARIANTS
  SlotsAccounted
