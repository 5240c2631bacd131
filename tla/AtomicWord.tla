------------------------------- MODULE AtomicWord -------------------------------
(***************************************************************************)
(* What the functions of atomic.h promise: each has its effect on the word *)
(* of memory at one moment between its call and its return, and answers    *)
(* what the word was, or has become, at that moment.                       *)
(***************************************************************************)
EXTENDS Integers

CONSTANTS
  Threads,
  WordSize,     \* the number of values of a word, 2^32 or 2^64
  Args,         \* the values the callers pass
  None          \* neither an operation nor a value

Words == 0 .. WordSize - 1

Kinds == {"compare_exchange", "exchange", "increment", "decrement", "exchange_add"}

(* A decrement adds -1, which is WordSize - 1. *)
Operations ==
  [kind : {"compare_exchange"}, arg : Args, comp : Args]
  \cup [kind : {"exchange", "exchange_add"}, arg : Args, comp : {0}]
  \cup [kind : {"increment"}, arg : {1 % WordSize}, comp : {0}]
  \cup [kind : {"decrement"}, arg : {WordSize - 1}, comp : {0}]

VARIABLES
  word,
  call,         \* what each thread has called, or None
  answer        \* the answer it is about to return, or None

vars == <<word, call, answer>>

(* What op makes of a word w, and what it answers *)
Matches(op, w) == op.kind = "compare_exchange" => w = op.comp
Stored(op, w) ==
  IF ~Matches(op, w) THEN w
  ELSE IF op.kind \in {"compare_exchange", "exchange"} THEN op.arg
  ELSE (w + op.arg) % WordSize
Answered(op, w) == IF op.kind \in {"increment", "decrement"} THEN Stored(op, w) ELSE w

Init ==
  /\ word \in Words
  /\ call = [t \in Threads |-> None]
  /\ answer = [t \in Threads |-> None]

Call(t) ==
  /\ call[t] = None
  /\ \E op \in Operations : call' = [call EXCEPT ![t] = op]
  /\ UNCHANGED <<word, answer>>

Effect(t) ==
  /\ call[t] # None
  /\ answer[t] = None
  /\ word' = Stored(call[t], word)
  /\ answer' = [answer EXCEPT ![t] = Answered(call[t], word)]
  /\ UNCHANGED call

Return(t) ==
  /\ answer[t] # None
  /\ call' = [call EXCEPT ![t] = None]
  /\ answer' = [answer EXCEPT ![t] = None]
  /\ UNCHANGED word

Next == \E t \in Threads : Call(t) \/ Effect(t) \/ Return(t)
Spec == Init /\ [][Next]_vars

=============================================================================
