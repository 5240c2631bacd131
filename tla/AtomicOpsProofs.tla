---------------------------- MODULE AtomicOpsProofs ----------------------------
(***************************************************************************)
(* The functions of atomic.h are atomic, for every number of threads and   *)
(* every width of the word, in the builds that do not make them of swp and *)
(* answer what they should: every step of AtomicOps is a step of           *)
(* AtomicWord or leaves its variables alone.  The invariant this takes is  *)
(* that a word does not change while somebody holds a reservation.         *)
(***************************************************************************)
EXTENDS AtomicOps, TLAPS

(* The operation a thread has called is one this build has, and the thread is
   at an instruction of it. *)
Called ==
  \A t \in Threads : call[t] # None =>
    /\ <<build, call[t].kind>> \in Calls
    /\ pc[t] \in {"load", By(build, call[t].kind)}

Reserved == \A t \in Threads : At(t, "reserve") /\ t \in reserved => word = seen[t]

Inv == TypeOK /\ (SoundBuild => Called /\ Reserved)

USE WordSizeIsPositive, ArgsAreWords, NoneIsNone

-----------------------------------------------------------------------------
(* Operators *)

LEMMA OperationType ==
  \A op \in Atomic!Operations : op.kind \in Atomic!Kinds /\ op.arg \in Words /\ op # None
PROOF
  <1>1. 1 % WordSize \in Words /\ WordSize - 1 \in Words
    BY DEF Words, Atomic!Words
  <1> QED
    BY <1>1 DEF Words, Atomic!Words, Atomic!Operations, Atomic!Kinds

(* Sums wrap. *)
LEMMA StoredType ==
  ASSUME NEW op \in Atomic!Operations, NEW w \in Words
  PROVE  Atomic!Stored(op, w) \in Words /\ Atomic!Answered(op, w) \in Words
PROOF
  <1>1. op.arg \in Words
    BY OperationType
  <1>2. op.arg \in Int /\ w \in Int
    BY <1>1 DEF Words, Atomic!Words
  <1>3. (w + op.arg) % WordSize \in Words
    BY <1>2 DEF Words, Atomic!Words
  <1> QED
    BY <1>1, <1>3 DEF Atomic!Stored, Atomic!Answered

LEMMA ByType ==
  \A b \in Known, kind \in Atomic!Kinds : By(b, kind) \in {"instruction", "cas", "cmpxchg", "reserve", "swap"}
PROOF
  BY DEF Known, By, gcc, netbsd, x86, sparc, s390, ppc, arm6, arm, ia64, ia64_intel, alpha, mips

LEMMA CalledType ==
  ASSUME TypeOK, NEW t \in Threads, call[t] # None
  PROVE  /\ call[t] \in Atomic!Operations
         /\ \A w \in Words : Stored(t, w) \in Words
         /\ \A w \in Words : Atomic!Answered(call[t], w) \in Words
PROOF
  <1>1. call[t] \in Atomic!Operations
    BY DEF TypeOK
  <1> QED
    BY <1>1, StoredType DEF Stored

-----------------------------------------------------------------------------
(* Types *)

USE CallsAreKnown

LEMMA InitType == Init => TypeOK
PROOF
  <1>1. 0 \in Words
    BY DEF Words, Atomic!Words
  <1> QED
    BY <1>1 DEF Init, Atomic!Init, TypeOK, Label, Words

LEMMA AnswerType ==
  ASSUME TypeOK, NEW t \in Threads, call[t] # None, NEW w \in Words, Answer(t, w)
  PROVE  answer' \in [Threads -> Words \cup {None}]
PROOF
  <1>1. Atomic!Stored(call[t], w) \in Words /\ Atomic!Answered(call[t], w) \in Words
    BY CalledType DEF Stored
  <1> QED
    BY <1>1 DEF Answer, Answers, Set, TypeOK

LEMMA StepType ==
  ASSUME TypeOK, Next
  PROVE  TypeOK'
PROOF
  <1> PICK t \in Threads : Call(t) \/ Step(t) \/ Interrupt(t)
    BY DEF Next
  <1>1. CASE Call(t)
    <2>1. PICK op \in Atomic!Operations :
            /\ <<build, op.kind>> \in Calls
            /\ call' = [call EXCEPT ![t] = op]
            /\ new' = [new EXCEPT ![t] = op.arg]
            /\ pc' = [pc EXCEPT ![t] = IF By(build, op.kind) = "instruction" THEN "instruction" ELSE "load"]
      BY <1>1 DEF Call, Set, Goto
    <2>2. op.arg \in Words
      BY OperationType
    <2> QED
      BY <1>1, <2>1, <2>2 DEF Call, TypeOK, Label
  <1>2. CASE Instruction(t)
    <2>1. call[t] # None /\ word \in Words
      BY <1>2 DEF Instruction, At, TypeOK
    <2>2. word' \in Words
      BY <1>2, <2>1, CalledType DEF Instruction, Store
    <2>3. answer' \in [Threads -> Words \cup {None}]
      BY <1>2, <2>1, AnswerType DEF Instruction
    <2> QED
      BY <1>2, <2>2, <2>3 DEF Instruction, Store, TypeOK, regs
  <1>3. CASE Load(t)
    <2>1. call[t] # None /\ word \in Words
      BY <1>3 DEF Load, At, TypeOK
    <2>2. answer' \in [Threads -> Words \cup {None}]
      BY <1>3, <2>1, AnswerType DEF Load, TypeOK
    <2>3. Stored(t, word) \in Words
      BY <2>1, CalledType
    <2>4. new' \in [Threads -> Words]
      BY <1>3, <2>3 DEF Load, Set, TypeOK
    <2>5. seen' \in [Threads -> Words]
      BY <1>3, <2>1 DEF Load, Set, TypeOK
    <2>6. pc' = [pc EXCEPT ![t] = By(build, call[t].kind)]
      BY <1>3 DEF Load, Goto
    <2>7. By(build, call[t].kind) \in Label
      <3>1. call[t].kind \in Atomic!Kinds
        BY <2>1, CalledType, OperationType
      <3>2. build \in Known
        BY DEF TypeOK, Builds
      <3> QED
        BY <3>1, <3>2, ByType DEF Label
    <2>8. reserved' \subseteq Threads
      BY <1>3 DEF Load, TypeOK
    <2> QED
      BY <1>3, <2>2, <2>4, <2>5, <2>6, <2>7, <2>8 DEF Load, TypeOK
  <1>4. CASE CompareAndSwap(t)
    <2>1. call[t] # None /\ word \in Words
      BY <1>4 DEF CompareAndSwap, At, TypeOK
    <2>2. word' \in Words
      BY <1>4, <2>1, CalledType DEF CompareAndSwap, Store
    <2>3. answer' \in [Threads -> Words \cup {None}]
      BY <1>4, <2>1, AnswerType DEF CompareAndSwap, TypeOK
    <2>4. seen' \in [Threads -> Words] /\ new' \in [Threads -> Words]
      BY <1>4, <2>1 DEF CompareAndSwap, Set, TypeOK, regs
    <2>5. pc' \in [Threads -> Label] /\ reserved' \subseteq Threads
      BY <1>4 DEF CompareAndSwap, Goto, TypeOK, regs, Store, Label
    <2> QED
      BY <1>4, <2>2, <2>3, <2>4, <2>5 DEF CompareAndSwap, TypeOK
  <1>5. CASE StoreConditional(t)
    <2>1. call[t] # None /\ word \in Words /\ seen[t] \in Words
      BY <1>5 DEF StoreConditional, At, TypeOK
    <2>2. word' \in Words
      BY <1>5, <2>1, CalledType DEF StoreConditional, Store
    <2>3. answer' \in [Threads -> Words \cup {None}]
      BY <1>5, <2>1, AnswerType DEF StoreConditional, TypeOK
    <2>4. pc' \in [Threads -> Label] /\ reserved' \subseteq Threads
      BY <1>5 DEF StoreConditional, Goto, TypeOK, Store, Label
    <2> QED
      BY <1>5, <2>2, <2>3, <2>4 DEF StoreConditional, TypeOK
  <1>6. CASE Swap(t)
    <2>1. call[t] # None /\ word \in Words
      BY <1>6 DEF Swap, At, TypeOK
    <2>2. answer' \in [Threads -> Words \cup {None}]
      BY <1>6, <2>1, AnswerType DEF Swap, TypeOK
    <2> QED
      BY <1>6, <2>1, <2>2 DEF Swap, Set, Store, Goto, TypeOK, regs, Label
  <1>7. CASE SwapBack(t)
    BY <1>7 DEF SwapBack, Set, Store, Goto, TypeOK, Label
  <1>8. CASE Return(t)
    BY <1>8 DEF Return, Atomic!Return, Goto, TypeOK, Label
  <1>9. CASE Interrupt(t)
    BY <1>9 DEF Interrupt, TypeOK, regs
  <1> QED
    BY <1>1, <1>2, <1>3, <1>4, <1>5, <1>6, <1>7, <1>8, <1>9 DEF Step

LEMMA StutterType ==
  ASSUME TypeOK, UNCHANGED vars
  PROVE  TypeOK'
PROOF
  BY DEF TypeOK, vars, regs

(* Every variable keeps its type, for every width, number of threads and build:
   sums wrap, and no thread leaves the instructions of its operation. *)
THEOREM TypeCorrect == Spec => []TypeOK
PROOF
  <1>1. Init => TypeOK
    BY InitType
  <1>2. TypeOK /\ [Next]_vars => TypeOK'
    BY StepType, StutterType
  <1> QED
    BY <1>1, <1>2, PTL DEF Spec

-----------------------------------------------------------------------------
(* Where the threads are, and reservations *)

LEMMA InitInv == Init => Inv
PROOF
  BY InitType DEF Init, Atomic!Init, Inv, Called, Reserved, At

LEMMA StepCalled ==
  ASSUME SoundBuild, Inv, Next
  PROVE  Called'
PROOF
  <1> PICK t \in Threads : Call(t) \/ Step(t) \/ Interrupt(t)
    BY DEF Next
  <1> USE DEF Inv, TypeOK, Called
  <1>1. CASE Call(t)
    <2>1. PICK op \in Atomic!Operations :
            /\ <<build, op.kind>> \in Calls
            /\ call' = [call EXCEPT ![t] = op]
            /\ pc' = [pc EXCEPT ![t] = IF By(build, op.kind) = "instruction" THEN "instruction" ELSE "load"]
      BY <1>1 DEF Call, Set, Goto
    <2> QED
      BY <1>1, <2>1 DEF Call
  <1>2. CASE Instruction(t)
    BY <1>2 DEF Instruction, regs
  <1>3. CASE Load(t)
    BY <1>3 DEF Load, Goto
  <1>4. CASE CompareAndSwap(t)
    BY <1>4 DEF CompareAndSwap, Goto, regs
  <1>5. CASE StoreConditional(t)
    BY <1>5 DEF StoreConditional, Goto
  <1>6. CASE Swap(t)
    <2>1. <<build, call[t].kind>> \in Calls /\ By(build, call[t].kind) = "swap"
      BY <1>6 DEF Swap, At
    <2> QED
      BY <2>1 DEF SoundBuild, Sound
  <1>7. CASE SwapBack(t)
    <2>1. By(build, call[t].kind) = "swap_back"
      BY <1>7 DEF SwapBack, At
    <2>2. build \in Known /\ call[t].kind \in Atomic!Kinds
      BY <1>7 DEF SwapBack, At
    <2> QED
      BY <2>1, <2>2, ByType
  <1>8. CASE Return(t)
    BY <1>8 DEF Return, Atomic!Return, Goto
  <1>9. CASE Interrupt(t)
    BY <1>9 DEF Interrupt, regs
  <1> QED
    BY <1>1, <1>2, <1>3, <1>4, <1>5, <1>6, <1>7, <1>8, <1>9 DEF Step

(* A store ends all reservations, and who has just read has seen the word. *)
LEMMA StepReserved ==
  ASSUME SoundBuild, Inv, Next
  PROVE  Reserved'
PROOF
  <1> PICK t \in Threads : Call(t) \/ Step(t) \/ Interrupt(t)
    BY DEF Next
  <1> USE DEF Inv, TypeOK, Reserved, At
  <1>1. CASE Call(t)
    <2>1. pc' \in [Threads -> Label] /\ pc'[t] # "reserve"
      BY <1>1 DEF Call, Goto, Label
    <2>2. UNCHANGED <<word, answer, seen, reserved>>
      BY <1>1 DEF Call
    <2>3. \A u \in Threads \ {t} : call'[u] = call[u] /\ pc'[u] = pc[u]
      BY <1>1 DEF Call, Set, Goto
    <2> QED
      BY <2>1, <2>2, <2>3
  <1>2. CASE Instruction(t)
    BY <1>2 DEF Instruction, Store
  <1>3. CASE Load(t)
    <2>1. seen' = [seen EXCEPT ![t] = word] /\ UNCHANGED <<word, call>>
      BY <1>3 DEF Load, Set
    <2>2. \A u \in Threads \ {t} : pc'[u] = pc[u] /\ answer'[u] = answer[u]
      BY <1>3 DEF Load, Goto, Answer, Answers, Set
    <2>3. reserved' \subseteq reserved \cup {t}
      BY <1>3 DEF Load
    <2> QED
      BY <2>1, <2>2, <2>3
  <1>4. CASE CompareAndSwap(t)
    <2>1. CASE reserved' = {}
      BY <2>1
    <2>2. CASE UNCHANGED <<word, answer, reserved, call>>
      <3>1. pc' \in [Threads -> Label] /\ (pc'[t] # "reserve")
        BY <1>4 DEF CompareAndSwap, Goto, regs, Label
      <3>2. \A u \in Threads \ {t} : pc'[u] = pc[u] /\ seen'[u] = seen[u]
        BY <1>4 DEF CompareAndSwap, Goto, Set, regs
      <3> QED
        BY <2>2, <3>1, <3>2
    <2> QED
      BY <1>4, <2>1, <2>2 DEF CompareAndSwap, Store
  <1>5. CASE StoreConditional(t)
    BY <1>5 DEF StoreConditional, Store, Goto, Holds
  <1>6. CASE Swap(t)
    BY <1>6 DEF Swap, Store
  <1>7. CASE SwapBack(t)
    BY <1>7 DEF SwapBack, Store
  <1>8. CASE Return(t)
    BY <1>8 DEF Return, Atomic!Return, Goto
  <1>9. CASE Interrupt(t)
    BY <1>9 DEF Interrupt, regs
  <1> QED
    BY <1>1, <1>2, <1>3, <1>4, <1>5, <1>6, <1>7, <1>8, <1>9 DEF Step

(* Nobody changes the build. *)
LEMMA BuildStays == [Next]_vars => (SoundBuild' <=> SoundBuild)
PROOF
  <1>1. [Next]_vars => build' = build
    BY DEF Next, Step, Call, Instruction, Load, CompareAndSwap, StoreConditional,
           Swap, SwapBack, Return, Interrupt, vars
  <1> QED
    BY <1>1 DEF SoundBuild, Sound, AddsTwice, NoReturn, By, gcc, netbsd, x86, sparc, s390, ppc,
                arm6, arm, ia64, ia64_intel, alpha, mips

LEMMA StepInv ==
  ASSUME Inv, [Next]_vars
  PROVE  Inv'
PROOF
  <1>1. CASE Next
    <2>1. TypeOK'
      BY <1>1, StepType DEF Inv
    <2>2. SoundBuild => Called' /\ Reserved'
      BY <1>1, StepCalled, StepReserved
    <2> QED
      BY <2>1, <2>2, BuildStays DEF Inv
  <1>2. CASE UNCHANGED vars
    <2>1. Called /\ Reserved => Called' /\ Reserved'
      BY <1>2 DEF Called, Reserved, At, vars, regs
    <2> QED
      BY <1>2, <2>1, StutterType, BuildStays DEF Inv
  <1> QED
    BY <1>1, <1>2

-----------------------------------------------------------------------------
(* Steps *)

(* Whoever stores what belongs to the word as it is, and answers so, has the
   effect of its operation; so has one that stores nothing and needs to store
   nothing. *)
LEMMA IsEffect ==
  ASSUME SoundBuild, Inv, NEW t \in Threads, call[t] # None, answer[t] = None,
         word' = Stored(t, word), Answer(t, word), UNCHANGED call
  PROVE  Atomic!Effect(t)
PROOF
  <1>1. <<build, call[t].kind>> \in Calls
    BY DEF Inv, Called
  <1>2. ~AddsTwice(build, call[t].kind) /\ ~NoReturn(build, call[t].kind)
    BY <1>1 DEF SoundBuild, Sound
  <1>3. answer' = [answer EXCEPT ![t] = Atomic!Answered(call[t], word)]
    BY <1>2 DEF Answer, Answers, Set
  <1> QED
    BY <1>3 DEF Atomic!Effect, Stored

LEMMA StepRefines ==
  ASSUME SoundBuild, Inv, Next
  PROVE  Atomic!Next \/ UNCHANGED Atomic!vars
PROOF
  <1> PICK t \in Threads : Call(t) \/ Step(t) \/ Interrupt(t)
    BY DEF Next
  <1>1. CASE Call(t)
    <2>1. Atomic!Call(t)
      BY <1>1 DEF Call, Atomic!Call, Set
    <2> QED
      BY <2>1 DEF Atomic!Next
  <1>2. CASE Instruction(t)
    <2>1. Atomic!Effect(t)
      BY <1>2, IsEffect DEF Instruction, At, Store
    <2> QED
      BY <2>1 DEF Atomic!Next
  <1>3. CASE Load(t)
    <2>1. CASE UNCHANGED answer
      BY <1>3, <2>1 DEF Load, Atomic!vars
    <2>2. CASE ~Atomic!Matches(call[t], word) /\ Answer(t, word)
      <3>1. word' = Stored(t, word)
        BY <1>3, <2>2 DEF Load, Stored, Atomic!Stored
      <3>2. Atomic!Effect(t)
        BY <1>3, <2>2, <3>1, IsEffect DEF Load, At
      <3> QED
        BY <3>2 DEF Atomic!Next
    <2> QED
      BY <1>3, <2>1, <2>2 DEF Load
  <1>4. CASE CompareAndSwap(t)
    <2>1. CASE word' = Stored(t, word) /\ Answer(t, word)
      <3>1. Atomic!Effect(t)
        BY <1>4, <2>1, IsEffect DEF CompareAndSwap, At
      <3> QED
        BY <3>1 DEF Atomic!Next
    <2>2. CASE UNCHANGED <<word, answer>>
      BY <1>4, <2>2 DEF CompareAndSwap, Atomic!vars
    <2> QED
      BY <1>4, <2>1, <2>2 DEF CompareAndSwap, Store
  <1>5. CASE StoreConditional(t)
    <2>1. CASE Holds(t)
      <3>1. word = seen[t]
        BY <1>5, <2>1 DEF StoreConditional, Holds, Inv, Reserved
      <3>2. Atomic!Effect(t)
        BY <1>5, <2>1, <3>1, IsEffect DEF StoreConditional, At, Store
      <3> QED
        BY <3>2 DEF Atomic!Next
    <2>2. CASE ~Holds(t)
      BY <1>5, <2>2 DEF StoreConditional, Atomic!vars
    <2> QED
      BY <2>1, <2>2
  <1>6. CASE Swap(t)
    <2>1. <<build, call[t].kind>> \in Calls /\ By(build, call[t].kind) = "swap"
      BY <1>6 DEF Swap, At, Inv, Called
    <2> QED
      BY <2>1 DEF SoundBuild, Sound
  <1>7. CASE SwapBack(t)
    <2>1. <<build, call[t].kind>> \in Calls /\ By(build, call[t].kind) = "swap_back"
      BY <1>7 DEF SwapBack, At, Inv, Called
    <2> QED
      BY <2>1, ByType
  <1>8. CASE Return(t)
    BY <1>8 DEF Return, Atomic!Next
  <1>9. CASE Interrupt(t)
    BY <1>9 DEF Interrupt, Atomic!vars
  <1> QED
    BY <1>1, <1>2, <1>3, <1>4, <1>5, <1>6, <1>7, <1>8, <1>9 DEF Step

(* In every build that does not make its operations of swp, and answers what it
   should, the functions of atomic.h are atomic, whatever the number of threads
   and the width of the word. *)
THEOREM OpsAreAtomic == Spec => IsAtomic
PROOF
  <1>1. Init => Inv /\ Atomic!Init
    BY InitInv DEF Init
  <1>2. Inv /\ [Next]_vars => Inv'
    BY StepInv
  <1>3. Inv /\ [Next]_vars => [SoundBuild => Atomic!Next]_(Atomic!vars)
    <2>1. UNCHANGED vars => UNCHANGED Atomic!vars
      BY DEF vars, Atomic!vars
    <2> QED
      BY <2>1, StepRefines
  <1> QED
    BY <1>1, <1>2, <1>3, PTL DEF Spec, IsAtomic

=============================================================================
