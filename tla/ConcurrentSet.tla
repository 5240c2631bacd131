----------------------------- MODULE ConcurrentSet -----------------------------
(***************************************************************************)
(* What the linked-list set promises: a set of keys.  An insertion says    *)
(* that it has inserted its key if it has, once; it refuses a key, and a   *)
(* search answers, in accordance with what was in the set at some time     *)
(* during the call.  A removal of a key that is there takes it out.        *)
(***************************************************************************)
EXTENDS FiniteSets

CONSTANTS
  Threads,
  Keys,
  NoKey         \* no member of Keys

VARIABLES
  set,
  call,         \* what each thread is doing: "none", "find", "insert" or "remove"
  arg,          \* the key of each call, or NoKey
  was,          \* whether the key was in the set: the answers during the call
  answer        \* what the call will return: {} as long as it is open

vars == <<set, call, arg, was, answer>>

Init ==
  /\ set = {}
  /\ call = [t \in Threads |-> "none"]
  /\ arg = [t \in Threads |-> NoKey]
  /\ was = [t \in Threads |-> {}]
  /\ answer = [t \in Threads |-> {}]

Begin(t) ==
  /\ call[t] = "none"
  /\ \E c \in {"find", "insert", "remove"} : call' = [call EXCEPT ![t] = c]
  /\ \E k \in Keys :
       /\ arg' = [arg EXCEPT ![t] = k]
       /\ was' = [was EXCEPT ![t] = {(k \in set)}]
  /\ UNCHANGED <<set, answer>>

(* Everybody whose call is about k sees the change. *)
Witness(k, b) == [t \in Threads |-> IF arg[t] = k THEN was[t] \cup {b} ELSE was[t]]

Insert(t) ==
  /\ call[t] = "insert"
  /\ answer[t] = {}
  /\ arg[t] \notin set
  /\ set' = set \cup {arg[t]}
  /\ was' = Witness(arg[t], TRUE)
  /\ answer' = [answer EXCEPT ![t] = {TRUE}]
  /\ UNCHANGED <<call, arg>>

Remove(t) ==
  /\ call[t] = "remove"
  /\ answer[t] = {}
  /\ arg[t] \in set
  /\ set' = set \ {arg[t]}
  /\ was' = Witness(arg[t], FALSE)
  /\ answer' = [answer EXCEPT ![t] = {TRUE}]
  /\ UNCHANGED <<call, arg>>

(* An insertion that is refused, a removal of nothing, and any search. *)
Answer(t) ==
  /\ answer[t] = {}
  /\ \/ /\ call[t] = "find"
        /\ \E b \in was[t] : answer' = [answer EXCEPT ![t] = {b}]
     \/ /\ \/ call[t] = "insert" /\ TRUE \in was[t]
           \/ call[t] = "remove" /\ FALSE \in was[t]
        /\ answer' = [answer EXCEPT ![t] = {FALSE}]
  /\ UNCHANGED <<set, call, arg, was>>

End(t) ==
  /\ call[t] # "none"
  /\ answer[t] # {}
  /\ call' = [call EXCEPT ![t] = "none"]
  /\ arg' = [arg EXCEPT ![t] = NoKey]
  /\ was' = [was EXCEPT ![t] = {}]
  /\ answer' = [answer EXCEPT ![t] = {}]
  /\ UNCHANGED set

Next == \E t \in Threads : Begin(t) \/ Insert(t) \/ Remove(t) \/ Answer(t) \/ End(t)
Spec == Init /\ [][Next]_vars

=============================================================================
