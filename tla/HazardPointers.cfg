SPECIFICATION ReadersFairSpec
CONSTANTS
  Threads = {t1, t2}
  Nodes = {n1, n2}
  Words = {w1}
  NULL = NULL
  MightLock = {n1}
  OnPlatform = "x86_64"
  FreeAttempts = 1
  BufferSize = 2
CHECK_DEADLOCK FALSE
INVARIANTS NoUseAfterFree OnePlace
PROPERTIES MightLockWaits AllFreed
