-------------------------------- MODULE Membar --------------------------------
(***************************************************************************)
(* mono-membar.h: for each processor and compiler the file distinguishes,  *)
(* the orders of memory accesses that its three barriers enforce.  A       *)
(* barrier with no instruction in it, or one that stops only the compiler, *)
(* enforces none.                                                          *)
(***************************************************************************)

Platform ==
  {"x86_64", "i386", "msvc", "sparc", "s390", "ppc", "arm", "ia64", "alpha",
   "mips", "cross_compile"}

(* Processors on which loads are made in program order, stores reach memory in
   program order, and a locked instruction waits for the stores before it.  On the
   others a compare and exchange is not a barrier, or loads pass one another: ppc,
   arm, ia64, alpha and mips, and sparc as far as its memory model is relaxed. *)
TotalStoreOrder == {"x86_64", "i386", "msvc"}

Loads == {"LoadLoad"}
Stores == {"StoreStore"}
All == {"LoadLoad", "LoadStore", "StoreStore", "StoreLoad"}

CompilerOnly == {"msvc", "mips", "cross_compile"}

(* mfence, lock addl, membar with all four, bcr 15, sync,
   __sync_synchronize, mf, mb *)
mono_memory_barrier(p) == IF p \in CompilerOnly THEN {} ELSE All

(* lfence, #LoadLoad; elsewhere the full barrier *)
mono_memory_read_barrier(p) ==
  CASE p = "x86_64" -> Loads \cup {"LoadStore"}
    [] p = "sparc" -> Loads
    [] OTHER -> mono_memory_barrier(p)

(* sfence, #StoreStore, eieio; elsewhere the full barrier *)
mono_memory_write_barrier(p) ==
  IF p \in {"x86_64", "sparc", "ppc"} THEN Stores ELSE mono_memory_barrier(p)

=============================================================================
