--------------------------- MODULE MCHazardPointers ---------------------------
(* Instances of HazardPointers for TLC. *)
EXTENDS HazardPointers, TLC

(* Threads and words are interchangeable in Init, Next and the invariants, and
   so are the nodes that MightLock does not tell apart. *)
Symmetry ==
  Permutations(Threads) \cup Permutations(Words)
    \cup Permutations(MightLock) \cup Permutations(Nodes \ MightLock)

=============================================================================
