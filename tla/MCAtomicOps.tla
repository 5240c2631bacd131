------------------------------ MODULE MCAtomicOps ------------------------------
(* Instances of AtomicOps for TLC. *)
EXTENDS AtomicOps

(* Everything but the InterlockedExchangeAdd of sparc, which answers the new
   value, and that of the Intel compiler for ia64, which answers nothing: a build
   with either is not a sound one, and nothing calls the function. *)
EveryCall == (Known \X Atomic!Kinds) \ {<<"sparc", "exchange_add">>, <<"ia64_intel", "exchange_add">>}

=============================================================================
