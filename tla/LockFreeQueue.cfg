SPECIFICATION FairSpec
CONSTANTS
  Threads = {t1, t2}
  Nodes = {n1, n2}
  INVALID_NEXT = INVALID_NEXT
  END_MARKER = END_MARKER
  FREE_NEXT = FREE_NEXT
  NULL = NULL
  NUM_DUMMIES = 2
INVARIANTS
  GAsserts
  DummiesAccounted
  TailLagsByOne
PROPERTIES
  IsFifo
  LockFree
