-------------------------- MODULE MCLockFreeAlloc --------------------------
(* Instances of LockFreeAlloc for TLC: NUM_DESC_BATCH descriptors at a     *)
(* time are one or two here, and the operating system has one batch.       *)
EXTENDS LockFreeAlloc, TLC

CONSTANTS d1, d2

OneDesc == << <<d1>> >>
OneBatch == << <<d1, d2>> >>

Symmetry == Permutations(Thread) \cup Permutations(Dummy)
=============================================================================
