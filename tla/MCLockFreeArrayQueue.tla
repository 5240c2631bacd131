------------------------- MODULE MCLockFreeArrayQueue -------------------------
(* Instances of LockFreeArrayQueue for TLC. *)
EXTENDS LockFreeArrayQueue, TLC

(* Threads, items and chunks are interchangeable in Init, Next and the safety
   properties. *)
Symmetry ==
  Permutations(Threads) \cup Permutations(Items) \cup Permutations(Chunks)

=============================================================================
