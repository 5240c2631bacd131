----------------------------- MODULE LockFreeQueue -----------------------------
(***************************************************************************)
(* lock-free-queue.c, one action per access to shared memory: a linked     *)
(* list from head to tail, a tail that can lag one node behind, and dummy  *)
(* nodes that keep the list from being empty.                              *)
(*                                                                         *)
(* Of hazard-pointer.c the model takes what HazardPointers shows: a node   *)
(* is not freed while a thread has it from get_hazardous_pointer.  The     *)
(* callers do what the allocator does: a node that has come out is freed   *)
(* hazardously, and may be enqueued again when it is free.                 *)
(***************************************************************************)
EXTENDS Integers, FiniteSets, Sequences

CONSTANTS
  Threads,
  Nodes,                    \* of the callers
  INVALID_NEXT, END_MARKER, FREE_NEXT,
  NULL,
  NUM_DUMMIES               \* MONO_LOCK_FREE_QUEUE_NUM_DUMMIES

Dummies == 0 .. NUM_DUMMIES - 1
Markers == {INVALID_NEXT, END_MARKER, FREE_NEXT}
All == Nodes \cup Dummies

ASSUME NumDummiesIsPositive == NUM_DUMMIES \in Nat \ {0}
ASSUME MarkersAreMarkers ==
  /\ Cardinality(Markers) = 3
  /\ Nodes \cap (Dummies \cup Markers \cup {NULL}) = {}
  /\ Dummies \cap (Markers \cup {NULL}) = {}

ASSUME NodesAreFinite == IsFiniteSet(Nodes)

VARIABLES
  head, tail, next, in_use, has_dummy,
  unused,               \* nodes the callers can enqueue
  retired,              \* nodes and dummies waiting in the delayed-free queue
  pc,
  node,                 \* argument of enqueue
  hp,                   \* hazard pointer 0; the local `tail' or `head' it guards
  tl, nx,               \* locals `tail' and `next'
  dummy,                \* local of get_dummy and its callers
  may_fail              \* history: the threads whose dequeue may find nothing

shared == <<head, tail, next, in_use, has_dummy, unused, retired>>
locals == <<node, hp, tl, nx, dummy>>
vars == <<shared, pc, locals, may_fail>>

(* mono_lock_free_queue_init *)
Init ==
  /\ head = 0
  /\ tail = 0
  /\ next = [n \in All |->
               IF n = 0 THEN END_MARKER ELSE IF n \in Dummies THEN FREE_NEXT ELSE INVALID_NEXT]
  /\ in_use = [d \in Dummies |-> d = 0]
  /\ has_dummy = TRUE
  /\ unused = Nodes
  /\ retired = {}
  /\ pc = [t \in Threads |-> "idle"]
  /\ node = [t \in Threads |-> NULL]
  /\ hp = [t \in Threads |-> NULL]
  /\ tl = [t \in Threads |-> NULL]
  /\ nx = [t \in Threads |-> NULL]
  /\ dummy = [t \in Threads |-> NULL]
  /\ may_fail = {}

At(t, label) == pc[t] = label
Goto(t, label) == pc' = [pc EXCEPT ![t] = label]
Set(var, t, value) == [var EXCEPT ![t] = value]

is_dummy(n) == n \in Dummies

(* The nodes from head on *)
Listed ==
  LET path[k \in 0 .. Cardinality(All)] ==
        IF k = 0 THEN <<head>>
        ELSE LET p == path[k - 1] IN
             IF Len(p) = k /\ next[p[k]] \in All THEN Append(p, next[p[k]]) ELSE p
  IN path[Cardinality(All)]
Held ==
  LET l == Listed
      held[k \in 0 .. Len(l)] ==
        IF k = 0 THEN <<>>
        ELSE IF l[k] \in Nodes THEN Append(held[k - 1], l[k]) ELSE held[k - 1]
  IN held[Len(l)]

Enqueuing(t) == node[t] \in Nodes
Dequeuing == {t \in Threads : ~At(t, "idle") /\ ~Enqueuing(t)}
Others(t) == {u \in Threads \ {t} : ~At(u, "idle")}

-----------------------------------------------------------------------------
(* enqueue *)

(* mono_lock_free_queue_node_free and mono_lock_free_queue_enqueue, up to the
   loop; nobody else has the node. *)
EnqueueBegin(t) ==
  /\ At(t, "idle")
  /\ \E n \in unused :
       /\ unused' = unused \ {n}
       /\ node' = Set(node, t, n)
       /\ next' = [next EXCEPT ![n] = END_MARKER]
  /\ may_fail' = Dequeuing
  /\ Goto(t, "enq_get")
  /\ UNCHANGED <<head, tail, in_use, has_dummy, retired, hp, tl, nx, dummy>>

(* get_hazardous_pointer (&q->tail, hp, 0): read and set, then read again. *)
TailGet(t) ==
  /\ At(t, "enq_get")
  /\ hp' = Set(hp, t, tail)
  /\ Goto(t, "enq_check")
  /\ UNCHANGED <<shared, node, tl, nx, dummy, may_fail>>

TailCheck(t) ==
  /\ At(t, "enq_check")
  /\ IF tail = hp[t] THEN Goto(t, "enq_next") /\ UNCHANGED hp
     ELSE Goto(t, "enq_get") /\ hp' = Set(hp, t, NULL)
  /\ UNCHANGED <<shared, node, tl, nx, dummy, may_fail>>

TailNext(t) ==
  /\ At(t, "enq_next")
  /\ nx' = Set(nx, t, next[hp[t]])
  /\ Goto(t, "enq_consistent")
  /\ UNCHANGED <<shared, node, hp, tl, dummy, may_fail>>

(* Clear the hazard pointer and go round. *)
Again(t, label) == Goto(t, label) /\ hp' = Set(hp, t, NULL) /\ nx' = Set(nx, t, NULL)

TailConsistent(t) ==
  /\ At(t, "enq_consistent")
  /\ IF tail # hp[t] THEN Again(t, "enq_get")
     ELSE Goto(t, IF nx[t] = END_MARKER THEN "enq_cas" ELSE "enq_help") /\ UNCHANGED <<hp, nx>>
  /\ UNCHANGED <<shared, node, tl, dummy, may_fail>>

(* CAS of tail->next *)
Link(t) ==
  /\ At(t, "enq_cas")
  /\ \/ /\ next[hp[t]] = END_MARKER
        /\ next' = [next EXCEPT ![hp[t]] = node[t]]
        /\ Goto(t, "enq_swing")
        /\ UNCHANGED <<hp, nx>>
     \/ /\ next[hp[t]] # END_MARKER
        /\ Again(t, "enq_get")
        /\ UNCHANGED next
  /\ UNCHANGED <<head, tail, in_use, has_dummy, unused, retired, node, tl, dummy, may_fail>>

(* CAS of q->tail from `from' to `to' *)
SwingTail_Unchecked(from, to) == tail' = to  (* a mutant *)
SwingTail_Never(from, to) == tail' = tail  (* a mutant *)
SwingTail(from, to) == tail' = IF tail = from THEN to ELSE tail

TailHelp(t) ==
  /\ At(t, "enq_help")
  /\ SwingTail(hp[t], nx[t])
  /\ Again(t, "enq_get")
  /\ UNCHANGED <<head, next, in_use, has_dummy, unused, retired, node, tl, dummy, may_fail>>

(* The end of enqueue: back to the caller, or into the loop of dequeue. *)
Swing(t) ==
  /\ At(t, "enq_swing")
  /\ SwingTail(hp[t], node[t])
  /\ Again(t, IF is_dummy(node[t]) THEN "deq_get" ELSE "idle")
  /\ node' = Set(node, t, NULL)
  /\ UNCHANGED <<head, next, in_use, has_dummy, unused, retired, tl, dummy, may_fail>>

-----------------------------------------------------------------------------
(* dequeue *)

DequeueBegin(t) ==
  /\ At(t, "idle")
  /\ may_fail' = Dequeuing \cup (IF Others(t) # {} \/ Len(Held) <= 1 THEN {t} ELSE {})
  /\ Goto(t, "deq_get")
  /\ UNCHANGED <<shared, locals>>

HeadGet(t) ==
  /\ At(t, "deq_get")
  /\ hp' = Set(hp, t, head)
  /\ Goto(t, "deq_check")
  /\ UNCHANGED <<shared, node, tl, nx, dummy, may_fail>>

HeadCheck(t) ==
  /\ At(t, "deq_check")
  /\ IF head = hp[t] THEN Goto(t, "deq_tail") /\ UNCHANGED hp
     ELSE Goto(t, "deq_get") /\ hp' = Set(hp, t, NULL)
  /\ UNCHANGED <<shared, node, tl, nx, dummy, may_fail>>

HeadTail(t) ==
  /\ At(t, "deq_tail")
  /\ tl' = Set(tl, t, tail)
  /\ Goto(t, "deq_next")
  /\ UNCHANGED <<shared, node, hp, nx, dummy, may_fail>>

HeadNext(t) ==
  /\ At(t, "deq_next")
  /\ nx' = Set(nx, t, next[hp[t]])
  /\ Goto(t, "deq_consistent")
  /\ UNCHANGED <<shared, node, hp, tl, dummy, may_fail>>

Return(t) == Goto(t, "idle") /\ may_fail' = may_fail \ {t}
Behind(t) == hp[t] = tl[t]

(* head is still the same: the list is empty, or its tail is behind, or a node
   can be taken. *)
HeadConsistent(t) ==
  /\ At(t, "deq_consistent")
  /\ \/ /\ head # hp[t]
        /\ Again(t, "deq_get")
        /\ tl' = Set(tl, t, NULL)
        /\ UNCHANGED may_fail
     \/ /\ head = hp[t]
        /\ Behind(t) /\ nx[t] = END_MARKER
        /\ hp' = Set(hp, t, NULL) /\ nx' = Set(nx, t, NULL) /\ tl' = Set(tl, t, NULL)
        /\ IF is_dummy(hp[t]) THEN Return(t) ELSE Goto(t, "has_dummy") /\ UNCHANGED may_fail
     \/ /\ head = hp[t]
        /\ ~(Behind(t) /\ nx[t] = END_MARKER)
        /\ Goto(t, IF Behind(t) THEN "deq_help" ELSE "deq_cas")
        /\ UNCHANGED <<hp, nx, tl, may_fail>>
  /\ UNCHANGED <<shared, node, dummy>>

HeadHelp(t) ==
  /\ At(t, "deq_help")
  /\ SwingTail(tl[t], nx[t])
  /\ Again(t, "deq_get")
  /\ tl' = Set(tl, t, NULL)
  /\ UNCHANGED <<head, next, in_use, has_dummy, unused, retired, node, dummy, may_fail>>

(* CAS of q->head *)
Unlink(t) ==
  /\ At(t, "deq_cas")
  /\ \/ /\ head = hp[t]
        /\ head' = nx[t]
        /\ dummy' = Set(dummy, t, hp[t])
        /\ Again(t, "deq_taken")
     \/ /\ head # hp[t]
        /\ Again(t, "deq_get")
        /\ UNCHANGED <<head, dummy>>
  /\ tl' = Set(tl, t, NULL)
  /\ UNCHANGED <<tail, next, in_use, has_dummy, unused, retired, node, may_fail>>

(* Mark the node, and return it to the caller, who frees it hazardously. *)
Taken(t) ==
  /\ At(t, "deq_taken")
  /\ next' = [next EXCEPT ![dummy[t]] = INVALID_NEXT]
  /\ \/ /\ is_dummy(dummy[t])
        /\ Goto(t, "dummy_gone")
        /\ UNCHANGED <<retired, dummy, may_fail>>
     \/ /\ ~is_dummy(dummy[t])
        /\ retired' = retired \cup {dummy[t]}
        /\ dummy' = Set(dummy, t, NULL)
        /\ Return(t)
  /\ UNCHANGED <<head, tail, in_use, has_dummy, unused, node, hp, tl, nx>>

DummyGone(t) ==
  /\ At(t, "dummy_gone")
  /\ has_dummy' = FALSE
  /\ Goto(t, "dummy_free")
  /\ UNCHANGED <<head, tail, next, in_use, unused, retired, locals, may_fail>>

-----------------------------------------------------------------------------
(* mono_thread_hazardous_free_or_queue *)

(* No thread has n from get_hazardous_pointer. *)
Freeable_Always(n) == TRUE  (* a mutant *)
Freeable(n) == \A t \in Threads : hp[t] = n => pc[t] \in {"enq_check", "deq_check"}

(* free_dummy, and the free function of the nodes *)
FreeAll_KeepsInUse(S) ==  (* a mutant *)
  /\ next' = [n \in All |-> IF n \in S \cap Dummies THEN FREE_NEXT ELSE next[n]]
  /\ unused' = unused \cup (S \cap Nodes)
  /\ UNCHANGED in_use
FreeAll(S) ==
  /\ next' = [n \in All |-> IF n \in S \cap Dummies THEN FREE_NEXT ELSE next[n]]
  /\ in_use' = [d \in Dummies |-> in_use[d] /\ d \notin S]
  /\ unused' = unused \cup (S \cap Nodes)

(* Some delayed items are freed, and the dummy is freed or queued; everything
   is freed when there are no hazard pointers.  One step stands for the call of
   mono_thread_hazardous_free_or_queue, which tries three items and then the
   dummy, with the scans of HazardPointers and the loops of LockFreeArrayQueue:
   it always returns here, so LockFree speaks of the loops of the queue. *)
DummyFree(t) ==
  /\ At(t, "dummy_free")
  /\ \E S \in SUBSET {n \in retired \cup {dummy[t]} : Freeable(n)} :
       /\ (\A u \in Threads : hp[u] # dummy[t]) => dummy[t] \in S
       /\ (\A u \in Threads : hp[u] = NULL) => retired \subseteq S
       /\ FreeAll(S)
       /\ retired' = (retired \cup {dummy[t]}) \ S
  /\ dummy' = Set(dummy, t, NULL)
  /\ Goto(t, "has_dummy")
  /\ UNCHANGED <<head, tail, has_dummy, node, hp, tl, nx, may_fail>>

(* mono_thread_hazardous_try_free_all, by a thread that calls it in between. *)
TryFree ==
  /\ \E n \in retired :
       /\ Freeable(n)
       /\ FreeAll({n})
       /\ retired' = retired \ {n}
  /\ UNCHANGED <<head, tail, has_dummy, pc, locals, may_fail>>

-----------------------------------------------------------------------------
(* try_reenqueue_dummy *)

HasDummy(t) ==
  /\ At(t, "has_dummy")
  /\ \/ /\ has_dummy
        /\ Return(t)
        /\ UNCHANGED dummy
     \/ /\ ~has_dummy
        /\ dummy' = Set(dummy, t, 0)
        /\ Goto(t, "get_dummy")
        /\ UNCHANGED may_fail
  /\ UNCHANGED <<shared, node, hp, tl, nx>>

(* get_dummy: one dummy a step, taken with a CAS of in_use. *)
GetDummy(t) ==
  /\ At(t, "get_dummy")
  /\ \/ /\ dummy[t] = NUM_DUMMIES
        /\ dummy' = Set(dummy, t, NULL)
        /\ Return(t)
        /\ UNCHANGED in_use
     \/ /\ dummy[t] \in Dummies
        /\ in_use[dummy[t]]
        /\ dummy' = Set(dummy, t, dummy[t] + 1)
        /\ UNCHANGED <<in_use, pc, may_fail>>
     \/ /\ dummy[t] \in Dummies
        /\ ~in_use[dummy[t]]
        /\ in_use' = [in_use EXCEPT ![dummy[t]] = TRUE]
        /\ Goto(t, "dummy_cas")
        /\ UNCHANGED <<dummy, may_fail>>
  /\ UNCHANGED <<head, tail, next, has_dummy, unused, retired, node, hp, tl, nx>>

(* CAS of has_dummy: the winner enqueues its dummy, the loser gives it back. *)
DummyCas(t) ==
  /\ At(t, "dummy_cas")
  /\ \/ /\ has_dummy
        /\ in_use' = [in_use EXCEPT ![dummy[t]] = FALSE]
        /\ Return(t)
        /\ UNCHANGED <<next, has_dummy, node>>
     \/ /\ ~has_dummy
        /\ has_dummy' = TRUE
        /\ node' = Set(node, t, dummy[t])
        /\ next' = [next EXCEPT ![dummy[t]] = END_MARKER]
        /\ Goto(t, "enq_get")
        /\ UNCHANGED <<in_use, may_fail>>
  /\ dummy' = Set(dummy, t, NULL)
  /\ UNCHANGED <<head, tail, unused, retired, hp, tl, nx>>

-----------------------------------------------------------------------------

Enqueue(t) ==
  TailGet(t) \/ TailCheck(t) \/ TailNext(t) \/ TailConsistent(t) \/ Link(t) \/ TailHelp(t) \/ Swing(t)
Dequeue(t) ==
  \/ HeadGet(t) \/ HeadCheck(t) \/ HeadTail(t) \/ HeadNext(t) \/ HeadConsistent(t)
  \/ HeadHelp(t) \/ Unlink(t) \/ Taken(t) \/ DummyGone(t) \/ DummyFree(t)
  \/ HasDummy(t) \/ GetDummy(t) \/ DummyCas(t)
Step(t) == Enqueue(t) \/ Dequeue(t)

Next == TryFree \/ \E t \in Threads : EnqueueBegin(t) \/ DequeueBegin(t) \/ Step(t)

Spec == Init /\ [][Next]_vars

(* Some thread that is in a call goes on; the others may stop for ever. *)
FairSpec == Spec /\ WF_vars(\E t \in Threads : Step(t))

-----------------------------------------------------------------------------
(* Properties *)

Label ==
  {"idle", "enq_get", "enq_check", "enq_next", "enq_consistent", "enq_cas", "enq_help",
   "enq_swing", "deq_get", "deq_check", "deq_tail", "deq_next", "deq_consistent",
   "deq_help", "deq_cas", "deq_taken", "dummy_gone", "dummy_free", "has_dummy",
   "get_dummy", "dummy_cas"}

(* The variables keep their types, and the ends of the list are nodes. *)
TypeOK ==
  /\ head \in All /\ tail \in All
  /\ next \in [All -> All \cup Markers]
  /\ in_use \in [Dummies -> BOOLEAN]
  /\ has_dummy \in BOOLEAN
  /\ unused \subseteq Nodes
  /\ retired \subseteq All
  /\ pc \in [Threads -> Label]
  /\ node \in [Threads -> All \cup {NULL}]
  /\ hp \in [Threads -> All \cup {NULL}]
  /\ tl \in [Threads -> All \cup {NULL}]
  /\ nx \in [Threads -> All \cup Markers \cup {NULL}]
  /\ dummy \in [Threads -> All \cup {NUM_DUMMIES, NULL}]
  /\ may_fail \subseteq Threads

(* The assertions of the code, where they stand (lines 91, 110, 126, 127, 161,
   228, 229, 253, 271, 285). *)
Consistent(t) ==
  \/ At(t, "enq_consistent") /\ tail = hp[t]
  \/ At(t, "deq_consistent") /\ head = hp[t]
GAsserts ==
  /\ \A n \in unused : next[n] = INVALID_NEXT
  /\ \A n \in retired : next[n] = INVALID_NEXT /\ (n \in Dummies => in_use[n])
  /\ \A t \in Threads :
       /\ Consistent(t) => nx[t] \notin {INVALID_NEXT, FREE_NEXT, hp[t]}
       /\ At(t, "deq_consistent") /\ head = hp[t] /\ ~Behind(t) => nx[t] # END_MARKER
       /\ At(t, "dummy_cas") => next[dummy[t]] = FREE_NEXT
       /\ At(t, "dummy_gone") => has_dummy

(* The types, and: the list holds one dummy at most, and none when has_dummy says
   so; a dummy is free, in the list, delayed, or with one thread. *)
InList == LET l == Listed IN {l[i] : i \in DOMAIN l}
Carried(t) ==
  {d \in Dummies : \/ d = node[t] /\ ~At(t, "enq_swing")
                   \/ d = dummy[t] /\ ~At(t, "get_dummy")}
DummiesAccounted ==
  /\ TypeOK
  /\ Cardinality(InList \cap Dummies) <= 1
  /\ ~has_dummy => InList \cap Dummies = {}
  /\ \A d \in Dummies :
       Cardinality({d} \ {e \in Dummies : in_use[e]}) + Cardinality({d} \cap InList)
         + Cardinality({d} \cap retired) + Cardinality({t \in Threads : d \in Carried(t)}) = 1

(* tail is at most one node behind the end of the list, and never behind head. *)
TailLagsByOne ==
  LET l == Listed IN tail \in {l[i] : i \in (Len(l) - 1 .. Len(l)) \cap DOMAIN l}

(* The queue is first in, first out, and says that it is empty only when
   ConcurrentQueue allows it. *)
Fifo == INSTANCE ConcurrentQueue WITH
  queue <- Held,
  call <- [t \in Threads |->
             IF At(t, "idle") THEN "none" ELSE IF Enqueuing(t) THEN "enqueue" ELSE "dequeue"],
  hand <- [t \in Threads |->
             IF Enqueuing(t) /\ ~At(t, "enq_swing") THEN node[t]
             ELSE IF At(t, "deq_taken") /\ dummy[t] \in Nodes THEN dummy[t] ELSE NULL],
  NoNode <- NULL
IsFifo == Fifo!Spec

(* As long as somebody goes on, calls return: a thread that stops between
   linking its node and moving tail holds nobody up.  (As far as the loops of the
   queue go: see DummyFree.) *)
Returns == \E t \in Threads : ~At(t, "idle") /\ At(t, "idle")'
LockFree == []<><<Returns>>_vars \/ <>[](\A t \in Threads : At(t, "idle"))

=============================================================================
