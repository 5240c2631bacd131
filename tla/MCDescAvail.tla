------------------------------ MODULE MCDescAvail ------------------------------
(* Instances of DescAvail for TLC. *)
EXTENDS DescAvail, TLC

(* Threads and batches are interchangeable in Init, Next and the invariants. *)
Symmetry == Permutations(Threads) \cup Permutations(Batches)

=============================================================================
