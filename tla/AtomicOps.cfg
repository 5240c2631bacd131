SPECIFICATION FairSpec
CONSTANTS
  Threads = {t1, t2}
  WordSize = 3
  Args = {1, 2}
  None = None
  Calls <- EveryCall
INVARIANT TypeOK
PROPERTIES IsAtomic LockFree ObstructionFree
