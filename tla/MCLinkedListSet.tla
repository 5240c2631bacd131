---------------------------- MODULE MCLinkedListSet ----------------------------
(* Instances of LinkedListSet for TLC. *)
EXTENDS LinkedListSet, TLC

(* Nodes are interchangeable in Init, Next and the safety properties, and so
   are the threads that iterate and the others. *)
Symmetry ==
  Permutations(Nodes) \cup Permutations(Iterators) \cup Permutations(Threads \ Iterators)

=============================================================================
