----------------------- MODULE MCLockFreeAllocProgress -----------------------
(* Instances of LockFreeAllocProgress for TLC: the operating system gives  *)
(* two batches of descriptors, of one each.                                *)
EXTENDS LockFreeAllocProgress

CONSTANTS d1, d2

TwoBatches == << <<d1>>, <<d2>> >>
=============================================================================
