SPECIFICATION FairSpec
CONSTANTS
  Threads = {t1, t2}
  Batches = {b1, b2}
  NUM_DESC_BATCH = 2
  NULL = NULL
CHECK_DEADLOCK FALSE
INVARIANTS
  DescsAccounted
PROPERTY LockFree
