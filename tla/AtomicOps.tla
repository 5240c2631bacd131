------------------------------- MODULE AtomicOps -------------------------------
(***************************************************************************)
(* atomic.h: how InterlockedCompareExchange, InterlockedExchange,          *)
(* InterlockedIncrement, InterlockedDecrement and InterlockedExchangeAdd   *)
(* are made from what each processor has, one action per access to the     *)
(* word.  The variants for pointers have the same instructions, for wider  *)
(* words.                                                                  *)
(***************************************************************************)
EXTENDS Integers

CONSTANTS
  Threads,
  WordSize,
  Args,
  None,
  Calls         \* pairs of a build and a kind of operation

VARIABLES
  word, call, answer,   \* as in AtomicWord
  build,                \* the processor, or compiler, the program is built for
  pc,
  seen,                 \* register: what the word was when it was read
  new,                  \* register: what to store, of the builds that swap
  reserved              \* the threads whose reservation holds

Atomic == INSTANCE AtomicWord
Words == Atomic!Words
Known ==
  {"gcc", "netbsd", "x86", "sparc", "s390", "ppc", "arm6", "arm", "ia64",
   "ia64_intel", "alpha", "mips"}

ASSUME WordSizeIsPositive == WordSize \in Nat \ {0}
ASSUME ArgsAreWords == Args \subseteq Words
ASSUME CallsAreKnown == Calls \subseteq Known \X Atomic!Kinds
ASSUME NoneIsNone == None \notin Words \cup Atomic!Operations

Builds == {c[1] : c \in Calls}

regs == <<pc, seen, new>>
vars == <<word, call, answer, build, regs, reserved>>

-----------------------------------------------------------------------------
(* What an operation is made of, for each build: *)
(*   "instruction"  there is an instruction, or a builtin, for it *)
(*   "cas"          read, and compare and swap until it succeeds *)
(*   "cmpxchg"      the same, but a failing attempt is what reads again *)
(*   "reserve"      read with reservation, store if it still holds, or start over *)
(*   "swap"         read, exchange, and exchange back if it was something else *)

gcc(kind) == IF kind = "exchange" THEN "cas" ELSE "instruction"
netbsd(kind) == "instruction"
x86(kind) == IF kind = "exchange" THEN "cmpxchg" ELSE "instruction"
sparc(kind) == IF kind = "compare_exchange" THEN "instruction" ELSE "cas"
s390(kind) == IF kind = "compare_exchange" THEN "instruction" ELSE "cas"
ppc(kind) == "reserve"
arm6(kind) == "reserve"
arm(kind) == IF kind = "exchange" THEN "instruction" ELSE "swap"
ia64(kind) == IF kind = "compare_exchange" THEN "instruction" ELSE "cas"
ia64_intel(kind) == "instruction"
alpha(kind) == "reserve"
mips(kind) == "reserve"

By(b, kind) ==
  CASE b = "gcc" -> gcc(kind)
    [] b = "netbsd" -> netbsd(kind)
    [] b = "x86" -> x86(kind)
    [] b = "sparc" -> sparc(kind)
    [] b = "s390" -> s390(kind)
    [] b = "ppc" -> ppc(kind)
    [] b = "arm6" -> arm6(kind)
    [] b = "arm" -> arm(kind)
    [] b = "ia64" -> ia64(kind)
    [] b = "ia64_intel" -> ia64_intel(kind)
    [] b = "alpha" -> alpha(kind)
    [] b = "mips" -> mips(kind)

(* A compare and exchange that finds something else stores what it has found. *)
StoresAnyway == {"alpha"}

(* The exchange and add of sparc adds once more after the loop. *)
AddsTwice(b, kind) == b = "sparc" /\ kind = "exchange_add"

(* The one of the Intel compiler for ia64 returns nothing: its caller may find
   any value. *)
NoReturn(b, kind) == b = "ia64_intel" /\ kind = "exchange_add"

-----------------------------------------------------------------------------

Init ==
  /\ Atomic!Init
  /\ build \in Builds
  /\ pc = [t \in Threads |-> "load"]
  /\ seen = [t \in Threads |-> 0]
  /\ new = [t \in Threads |-> 0]
  /\ reserved = {}

At(t, label) == call[t] # None /\ answer[t] = None /\ pc[t] = label
Goto(t, label) == pc' = [pc EXCEPT ![t] = label]
Set(var, t, value) == [var EXCEPT ![t] = value]

Answers(t, w) ==
  IF NoReturn(build, call[t].kind) THEN Words
  ELSE {IF AddsTwice(build, call[t].kind) THEN Atomic!Stored(call[t], w)
        ELSE Atomic!Answered(call[t], w)}

(* t's operation takes effect on a word that was w. *)
Answer(t, w) ==
  \E a \in Answers(t, w) : answer' = Set(answer, t, a)

Stored_Overflows(t, w) == w + call[t].arg  (* a mutant *)
Stored(t, w) == Atomic!Stored(call[t], w)

(* A store ends the reservations of all threads. *)
Store(value) == word' = value /\ reserved' = {}

Call(t) ==
  /\ call[t] = None
  /\ \E op \in Atomic!Operations :
       /\ <<build, op.kind>> \in Calls
       /\ call' = Set(call, t, op)
       /\ new' = Set(new, t, op.arg)
       /\ Goto(t, IF By(build, op.kind) = "instruction" THEN "instruction" ELSE "load")
  /\ UNCHANGED <<word, answer, build, seen, reserved>>

Instruction(t) ==
  /\ At(t, "instruction")
  /\ Store(Stored(t, word))
  /\ Answer(t, word)
  /\ UNCHANGED <<call, build, regs>>

(* The first read; a compare and exchange that finds something else is done. *)
Load(t) ==
  LET by == By(build, call[t].kind)
      goes_on == Atomic!Matches(call[t], word) \/ build \in StoresAnyway IN
  /\ At(t, "load")
  /\ seen' = Set(seen, t, word)
  /\ new' = IF call[t].kind = "compare_exchange" THEN new ELSE Set(new, t, Stored(t, word))
  /\ Goto(t, by)
  /\ reserved' = IF by = "reserve" THEN reserved \cup {t} ELSE reserved
  /\ IF goes_on THEN UNCHANGED answer ELSE Answer(t, word)
  /\ UNCHANGED <<word, call, build>>

Unchanged_Inverted(t) == word # seen[t]  (* a mutant *)
Unchanged(t) == word = seen[t]

CompareAndSwap(t) ==
  /\ At(t, "cas") \/ At(t, "cmpxchg")
  /\ \/ /\ Unchanged(t)
        /\ Store(Stored(t, word))
        /\ Answer(t, word)
        /\ UNCHANGED regs
     \/ /\ ~Unchanged(t)
        /\ \/ At(t, "cas") /\ Goto(t, "load") /\ UNCHANGED seen
           \/ At(t, "cmpxchg") /\ seen' = Set(seen, t, word) /\ UNCHANGED pc
        /\ UNCHANGED <<word, answer, reserved, new>>
  /\ UNCHANGED <<call, build>>

Holds_Always(t) == TRUE  (* a mutant *)
Holds(t) == t \in reserved

StoreConditional(t) ==
  /\ At(t, "reserve")
  /\ \/ /\ Holds(t)
        /\ Store(Stored(t, seen[t]))
        /\ Answer(t, seen[t])
        /\ UNCHANGED pc
     \/ /\ ~Holds(t)
        /\ Goto(t, "load")
        /\ UNCHANGED <<word, answer, reserved>>
  /\ UNCHANGED <<call, build, seen, new>>

(* The processor may drop a reservation, as it does when it switches threads. *)
Interrupt(t) ==
  /\ t \in reserved
  /\ reserved' = reserved \ {t}
  /\ UNCHANGED <<word, call, answer, build, regs>>

Swap(t) ==
  /\ At(t, "swap")
  /\ Store(new[t])
  /\ \/ /\ Unchanged(t)
        /\ Answer(t, word)
        /\ UNCHANGED regs
     \/ /\ ~Unchanged(t)
        /\ seen' = Set(seen, t, word)
        /\ Goto(t, "swap_back")
        /\ UNCHANGED <<answer, new>>
  /\ UNCHANGED <<call, build>>

(* Exchanges the two again: what is found is what a compare and exchange stores next. *)
SwapBack(t) ==
  /\ At(t, "swap_back")
  /\ Store(seen[t])
  /\ new' = Set(new, t, word)
  /\ Goto(t, "load")
  /\ UNCHANGED <<call, answer, build, seen>>

Return(t) ==
  /\ Atomic!Return(t)
  /\ Goto(t, "load")
  /\ UNCHANGED <<build, seen, new, reserved>>

-----------------------------------------------------------------------------

Step(t) ==
  \/ Instruction(t) \/ Load(t) \/ CompareAndSwap(t) \/ StoreConditional(t)
  \/ Swap(t) \/ SwapBack(t) \/ Return(t)
Next == \E t \in Threads : Call(t) \/ Step(t) \/ Interrupt(t)
Spec == Init /\ [][Next]_vars

(* Some thread that is in a call goes on; the others may stop for ever. *)
FairSpec == Spec /\ WF_vars(\E t \in Threads : Step(t))

-----------------------------------------------------------------------------
(* Properties *)

Label == {"instruction", "load", "cas", "cmpxchg", "reserve", "swap", "swap_back"}

(* The variables keep their types: in particular additions wrap. *)
TypeOK ==
  /\ word \in Words
  /\ call \in [Threads -> Atomic!Operations \cup {None}]
  /\ answer \in [Threads -> Words \cup {None}]
  /\ build \in Builds
  /\ pc \in [Threads -> Label]
  /\ seen \in [Threads -> Words] /\ new \in [Threads -> Words]
  /\ reserved \subseteq Threads

(* Builds in which every operation that is called stores only what belongs to a
   word that has not changed, and answers what it has found. *)
Sound(c) == By(c[1], c[2]) # "swap" /\ ~AddsTwice(c[1], c[2]) /\ ~NoReturn(c[1], c[2])
SoundBuild == \A c \in Calls : c[1] = build => Sound(c)

(* In these builds every operation takes effect at one moment, whatever the other
   threads do between its accesses to the word, and answers what belongs to that
   moment: they implement the atomic word of AtomicWord. *)
IsAtomic == Atomic!Init /\ [][SoundBuild => Atomic!Next]_(Atomic!vars)

(* A call starts over only because another one has had its effect, or because a
   thread was interrupted: as long as somebody goes on, calls return. *)
Returns == \E t \in Threads : Return(t)
LockFree ==
  \/ ~SoundBuild
  \/ []<><<Returns>>_vars
  \/ []<><<\E t \in Threads : Interrupt(t)>>_vars
  \/ <>[](\A t \in Threads : call[t] = None)

(* Where operations are made of swp even that is not so: two of them can keep
   undoing each other's.  But in every build a thread returns that is left alone,
   wherever the others have stopped. *)
ObstructionFree ==
  \A t \in Threads : <>[][Call(t) \/ Step(t)]_vars => []<>(call[t] = None)

=============================================================================
