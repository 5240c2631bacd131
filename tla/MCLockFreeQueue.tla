---------------------------- MODULE MCLockFreeQueue ----------------------------
(* Instances of LockFreeQueue for TLC. *)
EXTENDS LockFreeQueue, TLC

(* Threads and nodes are interchangeable in Init, Next and the safety
   properties. *)
Symmetry == Permutations(Threads) \cup Permutations(Nodes)

=============================================================================
