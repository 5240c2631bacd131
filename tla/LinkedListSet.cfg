SPECIFICATION FairSpec
CONSTANTS
  Threads = {t1, t2}
  Nodes = {n1, n2}
  Keys = {1, 2}
  HEAD = HEAD
  NULL = NULL
  Iterators = {t2}
INVARIANTS
  Sorted
  NoUseAfterFree
  NodesAccounted
PROPERTIES
  Linearizable
  LockFree
