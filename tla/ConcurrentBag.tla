---------------------------- MODULE ConcurrentBag ----------------------------
(***************************************************************************)
(* What the delayed-free queue promises its callers: a bag of items.  It   *)
(* keeps every item put into it until the item is taken out, once.  In     *)
(* which order items come out is not promised, and a pop may say that it   *)
(* has found none although there are some, but only if each of those is    *)
(* the business of another call that is still under way.                   *)
(***************************************************************************)
EXTENDS Naturals, FiniteSets

CONSTANTS
  Threads,
  Items,
  NoItem        \* no member of Items

VARIABLES
  bag,          \* the items in the bag
  call,         \* what each thread is doing: "none", "push" or "pop"
  hand          \* the item in the hands of each thread, or NoItem

vars == <<bag, call, hand>>

Busy == {t \in Threads : call[t] # "none"}

Init ==
  /\ bag = {}
  /\ call = [t \in Threads |-> "none"]
  /\ hand = [t \in Threads |-> NoItem]

PushBegin(t) ==
  /\ call[t] = "none"
  /\ call' = [call EXCEPT ![t] = "push"]
  /\ \E x \in Items \ (bag \cup {hand[u] : u \in Threads}) :
       hand' = [hand EXCEPT ![t] = x]
  /\ UNCHANGED bag

Put(t) ==
  /\ call[t] = "push"
  /\ hand[t] # NoItem
  /\ bag' = bag \cup {hand[t]}
  /\ hand' = [hand EXCEPT ![t] = NoItem]
  /\ UNCHANGED call

PushEnd(t) ==
  /\ call[t] = "push"
  /\ hand[t] = NoItem
  /\ call' = [call EXCEPT ![t] = "none"]
  /\ UNCHANGED <<bag, hand>>

PopBegin(t) ==
  /\ call[t] = "none"
  /\ call' = [call EXCEPT ![t] = "pop"]
  /\ UNCHANGED <<bag, hand>>

Take(t) ==
  /\ call[t] = "pop"
  /\ hand[t] = NoItem
  /\ \E x \in bag :
       /\ bag' = bag \ {x}
       /\ hand' = [hand EXCEPT ![t] = x]
  /\ UNCHANGED call

PopEnd(t) ==
  /\ call[t] = "pop"
  /\ hand[t] # NoItem
  /\ call' = [call EXCEPT ![t] = "none"]
  /\ hand' = [hand EXCEPT ![t] = NoItem]
  /\ UNCHANGED bag

(* Each other call can hide at most one item from this one. *)
PopFails(t) ==
  /\ call[t] = "pop"
  /\ hand[t] = NoItem
  /\ Cardinality(bag) <= Cardinality(Busy \ {t})
  /\ call' = [call EXCEPT ![t] = "none"]
  /\ UNCHANGED <<bag, hand>>

(* At the end of the program, what is left in the bag is forgotten. *)
Forget ==
  /\ Busy = {}
  /\ bag' = {}
  /\ UNCHANGED <<call, hand>>

Next ==
  \/ Forget
  \/ \E t \in Threads :
       \/ PushBegin(t) \/ Put(t) \/ PushEnd(t)
       \/ PopBegin(t) \/ Take(t) \/ PopEnd(t) \/ PopFails(t)

Spec == Init /\ [][Next]_vars

=============================================================================
