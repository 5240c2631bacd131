------------------------------ MODULE MCSmallIds ------------------------------
(* Instances of SmallIds for TLC. *)
EXTENDS SmallIds, TLC

(* Threads are interchangeable in Init, Next and the properties. *)
Symmetry == Permutations(Threads)

=============================================================================
