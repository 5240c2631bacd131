---------------------------- MODULE ConcurrentQueue ----------------------------
(***************************************************************************)
(* What the partial queues promise the allocator: nodes come out once and  *)
(* in the order in which they went in.  A dequeue may come back with       *)
(* nothing although there are nodes, but only if another call was under    *)
(* way at some time during it, or if there was one node at most when it    *)
(* began.                                                                  *)
(***************************************************************************)
EXTENDS Naturals, Sequences

CONSTANTS
  Threads,
  Nodes,
  NoNode        \* no member of Nodes

VARIABLES
  queue,        \* the nodes, the oldest one first
  call,         \* what each thread is doing: "none", "enqueue" or "dequeue"
  hand,         \* the node in the hands of each thread, or NoNode
  may_fail      \* the threads whose dequeue may find nothing

vars == <<queue, call, hand, may_fail>>

Init ==
  /\ queue = <<>>
  /\ call = [t \in Threads |-> "none"]
  /\ hand = [t \in Threads |-> NoNode]
  /\ may_fail = {}

Others(t) == {u \in Threads \ {t} : call[u] # "none"}
Dequeuing == {u \in Threads : call[u] = "dequeue"}

EnqueueBegin(t) ==
  /\ call[t] = "none"
  /\ \E n \in Nodes \ {queue[i] : i \in DOMAIN queue} :
       /\ \A u \in Threads : hand[u] # n
       /\ hand' = [hand EXCEPT ![t] = n]
  /\ call' = [call EXCEPT ![t] = "enqueue"]
  /\ may_fail' = Dequeuing
  /\ UNCHANGED queue

Append1(t) ==
  /\ call[t] = "enqueue"
  /\ hand[t] # NoNode
  /\ queue' = Append(queue, hand[t])
  /\ hand' = [hand EXCEPT ![t] = NoNode]
  /\ UNCHANGED <<call, may_fail>>

EnqueueEnd(t) ==
  /\ call[t] = "enqueue"
  /\ hand[t] = NoNode
  /\ call' = [call EXCEPT ![t] = "none"]
  /\ UNCHANGED <<queue, hand, may_fail>>

DequeueBegin(t) ==
  /\ call[t] = "none"
  /\ call' = [call EXCEPT ![t] = "dequeue"]
  /\ may_fail' = Dequeuing \cup (IF Others(t) # {} \/ Len(queue) <= 1 THEN {t} ELSE {})
  /\ UNCHANGED <<queue, hand>>

Take(t) ==
  /\ call[t] = "dequeue"
  /\ hand[t] = NoNode
  /\ queue # <<>>
  /\ queue' = Tail(queue)
  /\ hand' = [hand EXCEPT ![t] = Head(queue)]
  /\ UNCHANGED <<call, may_fail>>

DequeueEnd(t) ==
  /\ call[t] = "dequeue"
  /\ hand[t] # NoNode
  /\ call' = [call EXCEPT ![t] = "none"]
  /\ hand' = [hand EXCEPT ![t] = NoNode]
  /\ may_fail' = may_fail \ {t}
  /\ UNCHANGED queue

DequeueFails(t) ==
  /\ t \in may_fail
  /\ hand[t] = NoNode
  /\ call' = [call EXCEPT ![t] = "none"]
  /\ may_fail' = may_fail \ {t}
  /\ UNCHANGED <<queue, hand>>

Next ==
  \E t \in Threads :
    \/ EnqueueBegin(t) \/ Append1(t) \/ EnqueueEnd(t)
    \/ DequeueBegin(t) \/ Take(t) \/ DequeueEnd(t) \/ DequeueFails(t)

Spec == Init /\ [][Next]_vars

=============================================================================
