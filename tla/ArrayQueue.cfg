SPECIFICATION ThreadFairSpec
CONSTANTS
  Threads = {t1,t2}
  Items = {x1,x2}
  NoItem = NoItem
  Chunks = {c1,c2,c3}
  NoChunk = NoChunk
  NumEntries = 2
  MaxUsed = 3
CHECK_DEADLOCK FALSE
INVARIANTS
  BusyIsOwned
  NotStranded
  ChunksAccounted
PROPERTIES
  IsBag
  CallsReturn
