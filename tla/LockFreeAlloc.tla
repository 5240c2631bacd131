---------------------------- MODULE LockFreeAlloc ----------------------------
(***************************************************************************)
(* The lock-free allocator of lock-free-alloc.c, together with the three   *)
(* services it shares with every thread: the list of available             *)
(* descriptors, the partial queue of lock-free-queue.c (with its dummies)  *)
(* and the hazardous free of hazard-pointer.c.                             *)
(*                                                                         *)
(* A thread executes one action per access to shared memory that another   *)
(* thread could separate from the next one.  The queue, the list of        *)
(* available descriptors and the delayed-free queue appear at the level of *)
(* their linearization points (a commit succeeds or is retried), with the  *)
(* hazard pointer a thread holds between reading a pointer and committing. *)
(* "aborted" says that the g_assert of desc_retire has stopped the program; *)
(* every other g_assert is an invariant of the model (GAsserts), stated at *)
(* the step that evaluates it.                                             *)
(***************************************************************************)
EXTENDS Integers, Sequences, FiniteSets

CONSTANTS
  Thread,        (* attached threads                                        *)
  Desc,          (* descriptors the operating system can hand out           *)
  Dummy,         (* the dummy nodes of the partial queue                    *)
  NULL,          (* the null pointer                                        *)
  User,          (* what a mutator keeps in the first word of its object    *)
  Batches,       (* the batches of descriptors, in the order of desc_alloc  *)
  MaxCount,      (* SB_USABLE_SIZE / slot_size                              *)
  FreeAttempts   (* delayed items tried by each hazardous free; 3 in C      *)

Node == Desc \cup Dummy
Slot == 0 .. MaxCount - 1
State == {"FULL", "PARTIAL", "EMPTY"}
Anchor == [avail : Slot, count : Int, state : State]
Word == Slot \cup {User}
Object == Desc \X Slot
FreeFunc == {"desc_enqueue_avail", "desc_put_partial", "free_dummy"}
Item == [p : Desc, fn : {"desc_enqueue_avail", "desc_put_partial"}]
          \cup [p : Dummy, fn : {"free_dummy"}]

ASSUME MaxCountAssumption ==     (* asserted by mono_lock_free_allocator_init_size_class *)
  MaxCount \in Nat /\ MaxCount >= 2
ASSUME FreeAttemptsAssumption == FreeAttempts \in Nat
ASSUME NodeAssumption ==
  Desc \cap Dummy = {} /\ NULL \notin Node /\ NULL \notin Item /\ User \notin Slot
ASSUME DummyAssumption == Dummy # {}
ASSUME BatchesAssumption ==
  Batches \in Seq(Seq(Desc)) /\ \A k \in DOMAIN Batches : Batches[k] # <<>>
ASSUME DistinctAssumption ==     (* every batch is fresh memory *)
  \A j, k \in DOMAIN Batches : \A i \in DOMAIN Batches[j], l \in DOMAIN Batches[k] :
    Batches[j][i] = Batches[k][l] => j = k /\ i = l

VARIABLES
  (* the allocator and its superblocks *)
  active,        (* heap->active                                            *)
  anchor,        (* desc->anchor                                            *)
  word,          (* the first word of every slot of desc->sb                *)
  in_use,        (* desc->in_use                                            *)
  mapped,        (* is desc->sb mapped?                                     *)
  batches,       (* number of batches taken from the operating system       *)
  live,          (* objects the mutators hold                               *)
  (* the shared services *)
  desc_avail,    (* the available descriptors, first one first              *)
  queue,         (* the nodes of the partial queue from head to tail        *)
  next,          (* what node->next says about the node                     *)
  has_dummy,     (* queue->has_dummy                                        *)
  dummy_in_use,  (* dummy->in_use                                           *)
  delayed,       (* delayed_free_queue                                      *)
  hp,            (* hazard pointers 0 and 1 of every thread                 *)
  (* the threads *)
  pc,            (* next step of every thread                               *)
  op,            (* locals of mono_lock_free_alloc and mono_lock_free_free  *)
  deq,           (* locals of mono_lock_free_queue_dequeue                  *)
  enq,           (* locals of mono_lock_free_queue_enqueue                  *)
  haz,           (* locals of mono_thread_hazardous_free_or_queue           *)
  aborted        (* has a g_assert stopped the program?                     *)

heapVars == <<active, anchor, word, in_use, mapped, batches, live>>
queueVars == <<queue, next, has_dummy, dummy_in_use>>
sharedVars == <<heapVars, desc_avail, queueVars, delayed, hp>>
frameVars == <<op, deq, enq, haz>>
vars == <<sharedVars, pc, frameVars, aborted>>

NoOp == [desc |-> NULL, old |-> NULL, slot |-> NULL, nxt |-> NULL, kept |-> 0]
NoDeq == [ret |-> "idle", res |-> NULL]
NoEnq == [node |-> NULL, ret |-> "idle"]
NoHaz == [self |-> NULL, item |-> NULL, tries |-> 0, ret |-> "idle"]

Init ==
  /\ active = NULL
  /\ anchor = [d \in Desc |-> [avail |-> 0, count |-> 0, state |-> "FULL"]]
  /\ word = [d \in Desc |-> [s \in Slot |-> 0]]
  /\ in_use = [d \in Desc |-> FALSE]
  /\ mapped = [d \in Desc |-> FALSE]
  /\ batches = 0
  /\ live = {}
  /\ desc_avail = <<>>
  /\ \E m \in Dummy :
        /\ queue = <<m>>
        /\ next = [n \in Node |->
                     CASE n = m -> "LINKED" [] n \in Dummy \ {m} -> "FREE" [] OTHER -> "NULL"]
        /\ dummy_in_use = [n \in Dummy |-> n = m]
  /\ has_dummy = TRUE
  /\ delayed = {}
  /\ hp = [t \in Thread |-> [i \in {0, 1} |-> NULL]]
  /\ pc = [t \in Thread |-> "idle"]
  /\ op = [t \in Thread |-> NoOp]
  /\ deq = [t \in Thread |-> NoDeq]
  /\ enq = [t \in Thread |-> NoEnq]
  /\ haz = [t \in Thread |-> NoHaz]
  /\ aborted = FALSE

-----------------------------------------------------------------------------
(* Control.                                                                *)

At(t, label) == ~aborted /\ pc[t] = label
Goto(t, label) == pc' = [pc EXCEPT ![t] = label] /\ aborted' = aborted

(* is_pointer_hazardous: some thread guards p.                             *)
Hazardous_FirstOnly(p) == \E u \in Thread : hp[u][0] = p        (* a mutant *)
Hazardous(p) == \E u \in Thread, i \in {0, 1} : hp[u][i] = p
SetHazard(t, i, p) == hp' = [hp EXCEPT ![t][i] = p]
ClearHazard(t, i) == SetHazard(t, i, NULL)

(* Calls: they set up the frame of the callee, which returns to label r.   *)
CallDequeue(t, r) ==
  deq' = [deq EXCEPT ![t] = [ret |-> r, res |-> NULL]] /\ Goto(t, "deq_head")
CallEnqueue(t, n, r) ==
  enq' = [enq EXCEPT ![t] = [node |-> n, ret |-> r]] /\ Goto(t, "enq_start")
FreeOrQueue(t, p, fn, r) ==
  /\ haz' = [haz EXCEPT ![t] =
               [self |-> [p |-> p, fn |-> fn], item |-> NULL, tries |-> 0, ret |-> r]]
  /\ Goto(t, "fq_try")

(* desc_retire: in_use is reset and the superblock unmapped before the     *)
(* descriptor goes through the hazardous free to the available list.       *)
CanRetire(d) == anchor[d].state = "EMPTY" /\ in_use[d]
DescRetire(t, d, r) ==
  /\ in_use' = [in_use EXCEPT ![d] = FALSE]
  /\ mapped' = [mapped EXCEPT ![d] = FALSE]
  /\ FreeOrQueue(t, d, "desc_enqueue_avail", r)

(* list_put_partial                                                        *)
ListPutPartial(t, d, r) == FreeOrQueue(t, d, "desc_put_partial", r)

(* Every CAS of heap->active compares it with the value it replaces.       *)
ActiveIs_Unchecked(d) == TRUE                                    (* a mutant *)
ActiveIs(d) == active = d

-----------------------------------------------------------------------------
(* mono_lock_free_alloc                                                    *)

(* A thread calls mono_lock_free_alloc.                                    *)
AllocBegin(t) ==
  /\ At(t, "idle")
  /\ Goto(t, "alloc_active")
  /\ UNCHANGED <<sharedVars, frameVars>>

(* desc = heap->active, else the partial queue.                            *)
AllocReadActive(t) ==
  /\ At(t, "alloc_active")
  /\ IF active # NULL
       THEN /\ op' = [op EXCEPT ![t].desc = active]
            /\ Goto(t, "alloc_take")
            /\ UNCHANGED deq
       ELSE CallDequeue(t, "alloc_partial") /\ UNCHANGED op
  /\ UNCHANGED <<sharedVars, enq, haz>>

(* CAS heap->active from desc to NULL: whoever succeeds owns desc.         *)
AllocTakeActive(t) ==
  /\ At(t, "alloc_take")
  /\ IF ActiveIs(op[t].desc)
       THEN active' = NULL /\ Goto(t, "alloc_anchor")
       ELSE active' = active /\ Goto(t, "alloc_active")
  /\ UNCHANGED <<anchor, word, in_use, mapped, batches, live>>
  /\ UNCHANGED <<desc_avail, queueVars, delayed, hp, frameVars>>

(* list_get_partial, after the dequeue.                                    *)
AllocGotPartial(t) ==
  /\ At(t, "alloc_partial")
  /\ LET d == deq[t].res IN
       \/ /\ d = NULL
          /\ Goto(t, "avail_peek")
          /\ UNCHANGED <<op, haz, in_use, mapped>>
       \/ /\ d # NULL /\ anchor[d].state # "EMPTY"
          /\ op' = [op EXCEPT ![t].desc = d]
          /\ Goto(t, "alloc_anchor")
          /\ UNCHANGED <<haz, in_use, mapped>>
       \/ /\ d # NULL /\ anchor[d].state = "EMPTY"
          /\ DescRetire(t, d, "alloc_again")
          /\ UNCHANGED op
  /\ deq' = [deq EXCEPT ![t] = NoDeq]
  /\ UNCHANGED <<active, anchor, word, batches, live>>
  /\ UNCHANGED <<desc_avail, queueVars, delayed, hp, enq>>

AllocDequeueAgain(t) ==
  /\ At(t, "alloc_again")
  /\ CallDequeue(t, "alloc_partial")
  /\ UNCHANGED <<sharedVars, op, enq, haz>>

(* The owner reads the anchor; an EMPTY descriptor is its to retire.       *)
AllocReadAnchor(t) ==
  /\ At(t, "alloc_anchor")
  /\ LET d == op[t].desc IN
       IF anchor[d].state = "EMPTY"
         THEN /\ DescRetire(t, d, "alloc_active")
              /\ op' = [op EXCEPT ![t] = NoOp]
         ELSE /\ op' = [op EXCEPT ![t].old = anchor[d], ![t].slot = anchor[d].avail]
              /\ Goto(t, "alloc_next")
              /\ UNCHANGED <<haz, in_use, mapped>>
  /\ UNCHANGED <<active, anchor, word, batches, live>>
  /\ UNCHANGED <<desc_avail, queueVars, delayed, hp, deq, enq>>

(* The owner reads the link stored in the slot it is about to take.        *)
AllocReadNext(t) ==
  /\ At(t, "alloc_next")
  /\ op' = [op EXCEPT ![t].nxt = word[op[t].desc][op[t].slot]]
  /\ Goto(t, "alloc_cas")
  /\ UNCHANGED <<sharedVars, deq, enq, haz>>

(* set_anchor succeeds if the anchor is still the one that was read.       *)
SetAnchorSucceeds_Unchecked(d, old) == TRUE                      (* a mutant *)
SetAnchorSucceeds(d, old) == anchor[d] = old

AllocatedAnchor(old, nxt) ==
  [avail |-> nxt, count |-> old.count - 1,
   state |-> IF old.count = 1 THEN "FULL" ELSE old.state]

(* set_anchor: the slot is taken.  The assertion on the link lets no other *)
(* value through; that it never fails is part of GAsserts.                 *)
AllocSetAnchor(t) ==
  /\ At(t, "alloc_cas") /\ op[t].nxt \in Slot
  /\ LET d == op[t].desc
         new == AllocatedAnchor(op[t].old, op[t].nxt)
     IN  IF SetAnchorSucceeds(d, op[t].old)
           THEN /\ anchor' = [anchor EXCEPT ![d] = new]
                /\ Goto(t, IF new.state = "PARTIAL" THEN "alloc_giveback" ELSE "alloc_done")
           ELSE /\ anchor' = anchor
                /\ Goto(t, "alloc_anchor")
  /\ op' = [op EXCEPT ![t].old = NULL, ![t].nxt = NULL]
  /\ UNCHANGED <<active, word, in_use, mapped, batches, live>>
  /\ UNCHANGED <<desc_avail, queueVars, delayed, hp, deq, enq, haz>>

(* A PARTIAL descriptor goes back to heap->active, else to the queue.      *)
AllocGiveBack(t) ==
  /\ At(t, "alloc_giveback")
  /\ IF ActiveIs(NULL)
       THEN /\ active' = op[t].desc
            /\ Goto(t, "alloc_done")
            /\ UNCHANGED haz
       ELSE ListPutPartial(t, op[t].desc, "alloc_done") /\ UNCHANGED active
  /\ UNCHANGED <<anchor, word, in_use, mapped, batches, live>>
  /\ UNCHANGED <<desc_avail, queueVars, delayed, hp, op, deq, enq>>

(* mono_lock_free_alloc returns; the mutator fills its object, after which *)
(* any thread may free it.                                                 *)
AllocReturn(t) ==
  /\ At(t, "alloc_done")
  /\ word' = [word EXCEPT ![op[t].desc][op[t].slot] = User]
  /\ live' = live \cup {<<op[t].desc, op[t].slot>>}
  /\ op' = [op EXCEPT ![t] = NoOp]
  /\ Goto(t, "idle")
  /\ UNCHANGED <<active, anchor, in_use, mapped, batches>>
  /\ UNCHANGED <<desc_avail, queueVars, delayed, hp, deq, enq, haz>>

-----------------------------------------------------------------------------
(* alloc_from_new_sb and desc_alloc                                        *)

(* get_hazardous_pointer (&desc_avail, hp, 1)                              *)
DescAllocPeek(t) ==
  /\ At(t, "avail_peek")
  /\ IF desc_avail = <<>>
       THEN Goto(t, "avail_batch") /\ UNCHANGED hp
       ELSE Goto(t, "avail_pop") /\ SetHazard(t, 1, Head(desc_avail))
  /\ UNCHANGED <<heapVars, desc_avail, queueVars, delayed, frameVars>>

(* CAS desc_avail from desc to desc->next, then clear the hazard pointer.  *)
DescAllocPop(t) ==
  /\ At(t, "avail_pop")
  /\ IF desc_avail # <<>> /\ Head(desc_avail) = hp[t][1]
       THEN /\ desc_avail' = Tail(desc_avail)
            /\ op' = [op EXCEPT ![t].desc = hp[t][1]]
            /\ Goto(t, "new_sb")
       ELSE /\ Goto(t, "avail_peek")
            /\ UNCHANGED <<desc_avail, op>>
  /\ ClearHazard(t, 1)
  /\ UNCHANGED <<heapVars, queueVars, delayed, deq, enq, haz>>

(* A fresh batch becomes the available list unless somebody was faster, in *)
(* which case it is unmapped again.  Bound: Len(Batches) batches.          *)
DescAllocBatch(t) ==
  /\ At(t, "avail_batch")
  /\ \/ /\ desc_avail = <<>> /\ batches < Len(Batches)
        /\ LET batch == Batches[batches + 1] IN
             /\ desc_avail' = Tail(batch)
             /\ next' = [n \in Node |->
                           IF \E i \in DOMAIN batch : batch[i] = n THEN "INVALID" ELSE next[n]]
             /\ op' = [op EXCEPT ![t].desc = Head(batch)]
        /\ batches' = batches + 1
        /\ Goto(t, "new_sb")
     \/ /\ desc_avail # <<>>
        /\ Goto(t, "avail_peek")
        /\ UNCHANGED <<desc_avail, next, op, batches>>
  /\ UNCHANGED <<active, anchor, word, in_use, mapped, live>>
  /\ UNCHANGED <<queue, has_dummy, dummy_in_use, delayed, hp, deq, enq, haz>>

(* The links of a fresh superblock: slot 0 is handed out at once, the last *)
(* link stays zero.                                                        *)
FreshLinks_OneMore ==                                            (* a mutant *)
  [s \in Slot |-> IF s \in 1 .. MaxCount - 1 THEN s + 1 ELSE 0]
FreshLinks == [s \in Slot |-> IF s \in 1 .. MaxCount - 2 THEN s + 1 ELSE 0]

(* The thread owns desc: it gives it a superblock and its anchor.          *)
AllocNewSb(t) ==
  /\ At(t, "new_sb")
  /\ LET d == op[t].desc IN
       /\ in_use' = [in_use EXCEPT ![d] = TRUE]
       /\ mapped' = [mapped EXCEPT ![d] = TRUE]
       /\ word' = [word EXCEPT ![d] = FreshLinks]
       /\ anchor' = [anchor EXCEPT ![d] =
                       [avail |-> 1, count |-> MaxCount - 1, state |-> "PARTIAL"]]
  /\ op' = [op EXCEPT ![t].slot = 0]
  /\ Goto(t, "new_publish")
  /\ UNCHANGED <<active, batches, live, desc_avail, queueVars, delayed, hp, deq, enq, haz>>

(* Make it active and return slot 0, or free it again and start over.      *)
AllocPublishSb(t) ==
  /\ At(t, "new_publish")
  /\ LET d == op[t].desc IN
       IF ActiveIs(NULL)
         THEN /\ active' = d
              /\ Goto(t, "alloc_done")
              /\ UNCHANGED <<anchor, in_use, mapped, op, haz>>
         ELSE /\ anchor' = [anchor EXCEPT ![d].state = "EMPTY"]
              /\ DescRetire(t, d, "alloc_active")
              /\ op' = [op EXCEPT ![t] = NoOp]
              /\ UNCHANGED active
  /\ UNCHANGED <<word, batches, live, desc_avail, queueVars, delayed, hp, deq, enq>>

-----------------------------------------------------------------------------
(* mono_lock_free_free                                                     *)

(* A thread takes an object out of circulation and frees it.               *)
FreeBegin(t) ==
  /\ At(t, "idle")
  /\ \E o \in live :
        /\ live' = live \ {o}
        /\ op' = [op EXCEPT ![t].desc = o[1], ![t].slot = o[2]]
  /\ Goto(t, "free_read")
  /\ UNCHANGED <<active, anchor, word, in_use, mapped, batches>>
  /\ UNCHANGED <<desc_avail, queueVars, delayed, hp, deq, enq, haz>>

(* Read the anchor and link the slot in front of its free slots.           *)
FreeReadAnchor(t) ==
  /\ At(t, "free_read")
  /\ LET d == op[t].desc IN
       /\ op' = [op EXCEPT ![t].old = anchor[d]]
       /\ word' = [word EXCEPT ![d][op[t].slot] = anchor[d].avail]
  /\ Goto(t, "free_cas")
  /\ UNCHANGED <<active, anchor, in_use, mapped, batches, live>>
  /\ UNCHANGED <<desc_avail, queueVars, delayed, hp, deq, enq, haz>>

FreedAnchor_EmptyEarly(old, slot) ==                             (* a mutant *)
  [avail |-> slot, count |-> old.count + 1,
   state |-> IF old.count + 1 >= MaxCount - 1 THEN "EMPTY" ELSE "PARTIAL"]
FreedAnchor_StaysFull(old, slot) ==                              (* a mutant *)
  [avail |-> slot, count |-> old.count + 1,
   state |-> IF old.count + 1 = MaxCount THEN "EMPTY" ELSE old.state]
FreedAnchor(old, slot) ==
  [avail |-> slot, count |-> old.count + 1,
   state |-> CASE old.count + 1 = MaxCount -> "EMPTY"
               [] old.count + 1 # MaxCount /\ old.state = "FULL" -> "PARTIAL"
               [] OTHER -> old.state]

(* set_anchor: from here on the descriptor may be retired by its owner.    *)
FreeSetAnchor(t) ==
  /\ At(t, "free_cas")
  /\ LET d == op[t].desc
         old == op[t].old
         new == FreedAnchor(old, op[t].slot)
     IN  \/ /\ ~SetAnchorSucceeds(d, old)
            /\ op' = [op EXCEPT ![t].old = NULL]
            /\ Goto(t, "free_read")
            /\ UNCHANGED anchor
         \/ /\ SetAnchorSucceeds(d, old)
            /\ anchor' = [anchor EXCEPT ![d] = new]
            /\ IF new.state = "EMPTY" \/ old.state = "FULL"
                 THEN /\ op' = [op EXCEPT ![t] = [NoOp EXCEPT !.desc = d]]
                      /\ Goto(t, IF new.state = "EMPTY" THEN "free_steal" ELSE "free_giveback")
                 ELSE /\ op' = [op EXCEPT ![t] = NoOp]
                      /\ Goto(t, "idle")
  /\ UNCHANGED <<active, word, in_use, mapped, batches, live>>
  /\ UNCHANGED <<desc_avail, queueVars, delayed, hp, deq, enq, haz>>

(* EMPTY: if heap->active still points to desc, take it; otherwise do some *)
(* freeing for others.                                                     *)
FreeSteal(t) ==
  /\ At(t, "free_steal")
  /\ IF ActiveIs(op[t].desc)
       THEN /\ active' = NULL
            /\ Goto(t, "free_retire")
            /\ UNCHANGED <<op, deq>>
       ELSE /\ op' = [op EXCEPT ![t] = NoOp]
            /\ CallDequeue(t, "rm_got")
            /\ UNCHANGED active
  /\ UNCHANGED <<anchor, word, in_use, mapped, batches, live>>
  /\ UNCHANGED <<desc_avail, queueVars, delayed, hp, enq, haz>>

(* desc_retire asserts that the descriptor is EMPTY.                       *)
FreeRetire(t) ==
  /\ At(t, "free_retire")
  /\ LET d == op[t].desc IN
       \/ /\ CanRetire(d)
          /\ DescRetire(t, d, "idle")
          /\ op' = [op EXCEPT ![t] = NoOp]
       \/ /\ ~CanRetire(d)
          /\ aborted' = TRUE
          /\ UNCHANGED <<in_use, mapped, pc, op, haz>>
  /\ UNCHANGED <<active, anchor, word, batches, live>>
  /\ UNCHANGED <<desc_avail, queueVars, delayed, hp, deq, enq>>

(* FULL to PARTIAL: nobody owned desc, now this thread does.               *)
FreeGiveBack(t) ==
  /\ At(t, "free_giveback")
  /\ IF ActiveIs(NULL)
       THEN /\ active' = op[t].desc
            /\ Goto(t, "idle")
            /\ UNCHANGED haz
       ELSE ListPutPartial(t, op[t].desc, "idle") /\ UNCHANGED active
  /\ op' = [op EXCEPT ![t] = NoOp]
  /\ UNCHANGED <<anchor, word, in_use, mapped, batches, live>>
  /\ UNCHANGED <<desc_avail, queueVars, delayed, hp, deq, enq>>

(* list_remove_empty_desc, after the dequeue: retire the EMPTY ones, put   *)
(* the others back.                                                        *)
RemoveEmptyGot(t) ==
  /\ At(t, "rm_got")
  /\ LET d == deq[t].res IN
       \/ /\ d = NULL
          /\ op' = [op EXCEPT ![t] = NoOp]
          /\ Goto(t, "idle")
          /\ UNCHANGED <<haz, in_use, mapped>>
       \/ /\ d # NULL /\ anchor[d].state = "EMPTY"
          /\ DescRetire(t, d, "rm_again")
          /\ UNCHANGED op
       \/ /\ d # NULL /\ anchor[d].state # "EMPTY"
          /\ ListPutPartial(t, d, "rm_again")
          /\ op' = [op EXCEPT ![t].kept = @ + 1]
          /\ UNCHANGED <<in_use, mapped>>
  /\ deq' = [deq EXCEPT ![t] = NoDeq]
  /\ UNCHANGED <<active, anchor, word, batches, live>>
  /\ UNCHANGED <<desc_avail, queueVars, delayed, hp, enq>>

(* Two non-empty descriptors end the search.                               *)
RemoveEmptyAgain(t) ==
  /\ At(t, "rm_again")
  /\ IF op[t].kept >= 2
       THEN op' = [op EXCEPT ![t] = NoOp] /\ Goto(t, "idle") /\ UNCHANGED deq
       ELSE CallDequeue(t, "rm_got") /\ UNCHANGED op
  /\ UNCHANGED <<sharedVars, enq, haz>>

-----------------------------------------------------------------------------
(* mono_lock_free_queue_dequeue and mono_lock_free_queue_enqueue           *)

DequeueReturn(t, n) ==
  deq' = [deq EXCEPT ![t].res = n] /\ Goto(t, deq[t].ret)

(* Head, tail and an END_MARKER meet in the last node.                     *)
AtLastNode_Never == FALSE                                        (* a mutant *)
AtLastNode == Len(queue) = 1

(* Without its dummy the queue cannot hand out its last node: dequeue does *)
(* not wait for whoever has the dummy.                                     *)
NoDummyToEnqueue_Wait(t) ==                                      (* a mutant *)
  deq' = [deq EXCEPT ![t].res = NULL] /\ Goto(t, "deq_head")
NoDummyToEnqueue(t) == DequeueReturn(t, NULL)

(* The CAS of has_dummy from 0 to 1.                                       *)
ClaimsDummy_Unchecked == TRUE                                    (* a mutant *)
ClaimsDummy == ~has_dummy

(* get_hazardous_pointer (&q->head, hp, 0)                                 *)
DequeueReadHead(t) ==
  /\ At(t, "deq_head")
  /\ SetHazard(t, 0, Head(queue))
  /\ Goto(t, "deq_try")
  /\ UNCHANGED <<heapVars, desc_avail, queueVars, delayed, frameVars>>

(* The last node stays: a real one may be hiding behind a missing dummy.   *)
(* Any other head is taken by a CAS of q->head.                            *)
DequeueTry(t) ==
  /\ At(t, "deq_try")
  /\ LET n == hp[t][0] IN
       \/ /\ Head(queue) # n
          /\ Goto(t, "deq_head")
          /\ UNCHANGED <<queue, next, deq>>
       \/ /\ Head(queue) = n /\ AtLastNode
          /\ IF n \in Dummy
               THEN DequeueReturn(t, NULL)
               ELSE Goto(t, "reenq_pick") /\ UNCHANGED deq
          /\ UNCHANGED <<queue, next>>
       \/ /\ Head(queue) = n /\ ~AtLastNode
          /\ queue' = Tail(queue)
          /\ next' = [next EXCEPT ![n] = "INVALID"]
          /\ IF n \in Dummy
               THEN Goto(t, "deq_dummy") /\ deq' = [deq EXCEPT ![t].res = n]
               ELSE DequeueReturn(t, n)
  /\ ClearHazard(t, 0)
  /\ UNCHANGED <<heapVars, desc_avail, has_dummy, dummy_in_use, delayed, op, enq, haz>>

(* A dummy came out: it is freed hazardously, then one is enqueued again.  *)
DequeueDummy(t) ==
  /\ At(t, "deq_dummy")
  /\ has_dummy' = FALSE
  /\ FreeOrQueue(t, deq[t].res, "free_dummy", "reenq_pick")
  /\ deq' = [deq EXCEPT ![t].res = NULL]
  /\ UNCHANGED <<heapVars, desc_avail, queue, next, dummy_in_use, delayed, hp, op, enq>>

(* try_reenqueue_dummy: get_dummy takes a dummy that is not in use ...     *)
(* It looks at one after the other, and they may change places meanwhile:  *)
(* a single one in use is enough for it to find none.                      *)
ReenqueuePickDummy(t) ==
  /\ At(t, "reenq_pick")
  /\ \/ /\ has_dummy \/ \E m \in Dummy : dummy_in_use[m]
        /\ NoDummyToEnqueue(t)
        /\ UNCHANGED dummy_in_use
     \/ /\ ~has_dummy
        /\ \E m \in Dummy :
             /\ ~dummy_in_use[m]
             /\ dummy_in_use' = [dummy_in_use EXCEPT ![m] = TRUE]
             /\ deq' = [deq EXCEPT ![t].res = m]
        /\ Goto(t, "reenq_claim")
  /\ UNCHANGED <<heapVars, desc_avail, queue, next, has_dummy, delayed, hp, op, enq, haz>>

(* ... and whoever sets has_dummy enqueues its dummy and dequeues again.   *)
ReenqueueClaim(t) ==
  /\ At(t, "reenq_claim")
  /\ IF ClaimsDummy
       THEN /\ has_dummy' = TRUE
            /\ CallEnqueue(t, deq[t].res, "deq_head")
            /\ deq' = [deq EXCEPT ![t].res = NULL]
            /\ UNCHANGED dummy_in_use
       ELSE /\ dummy_in_use' = [dummy_in_use EXCEPT ![deq[t].res] = FALSE]
            /\ NoDummyToEnqueue(t)
            /\ UNCHANGED <<has_dummy, enq>>
  /\ UNCHANGED <<heapVars, desc_avail, queue, next, delayed, hp, op, haz>>

EnqueueStart(t) ==
  /\ At(t, "enq_start")
  /\ next' = [next EXCEPT ![enq[t].node] = "LINKED"]
  /\ Goto(t, "enq_tail")
  /\ UNCHANGED <<heapVars, desc_avail, queue, has_dummy, dummy_in_use, delayed, hp, frameVars>>

(* get_hazardous_pointer (&q->tail, hp, 0)                                 *)
EnqueueReadTail(t) ==
  /\ At(t, "enq_tail")
  /\ SetHazard(t, 0, queue[Len(queue)])
  /\ Goto(t, "enq_link")
  /\ UNCHANGED <<heapVars, desc_avail, queueVars, delayed, frameVars>>

(* CAS tail->next from END_MARKER to node.                                 *)
EnqueueLink(t) ==
  /\ At(t, "enq_link")
  /\ IF queue[Len(queue)] = hp[t][0]
       THEN /\ queue' = Append(queue, enq[t].node)
            /\ enq' = [enq EXCEPT ![t] = NoEnq]
            /\ Goto(t, enq[t].ret)
       ELSE Goto(t, "enq_tail") /\ UNCHANGED <<queue, enq>>
  /\ ClearHazard(t, 0)
  /\ UNCHANGED <<heapVars, desc_avail, next, has_dummy, dummy_in_use, delayed, op, deq, haz>>

-----------------------------------------------------------------------------
(* mono_thread_hazardous_free_or_queue                                     *)

(* An item has been dealt with: the next delayed one is tried, after       *)
(* FreeAttempts of them the call's own item, and then the call returns.    *)
NextItem(t) ==
  IF haz[t].tries = FreeAttempts + 1
    THEN haz' = [haz EXCEPT ![t] = NoHaz] /\ Goto(t, haz[t].ret)
    ELSE haz' = [haz EXCEPT ![t].item = NULL] /\ Goto(t, "fq_try")

(* Another thread may be in a call of the delayed queue.                   *)
InCompany(t) == \E u \in Thread \ {t} : haz[u].self # NULL

(* mono_lock_free_array_queue_pop of some delayed item, or of none: in     *)
(* company it may find nothing though items are there, as ConcurrentBag    *)
(* says.  At last, the item the call is about.  The loops of the pop are   *)
(* in LockFreeAllocProgress.                                               *)
FreePop(t) ==
  /\ At(t, "fq_try")
  /\ \/ /\ haz[t].tries < FreeAttempts
        /\ delayed = {} \/ InCompany(t)
        /\ haz' = [haz EXCEPT ![t].tries = @ + 1]
        /\ UNCHANGED <<delayed, pc, aborted>>
     \/ /\ haz[t].tries < FreeAttempts
        /\ \E x \in delayed :
             /\ delayed' = delayed \ {x}
             /\ haz' = [haz EXCEPT ![t].item = x, ![t].tries = @ + 1]
        /\ Goto(t, "fq_check")
     \/ /\ haz[t].tries = FreeAttempts
        /\ haz' = [haz EXCEPT ![t].item = haz[t].self, ![t].tries = @ + 1]
        /\ Goto(t, "fq_check")
        /\ UNCHANGED delayed
  /\ UNCHANGED <<heapVars, desc_avail, queueVars, hp, op, deq, enq>>

(* A guarded pointer is pushed (back) on the delayed queue, another one is *)
(* handed to its free function.  The loops of the push, too, are in        *)
(* LockFreeAllocProgress.                                                  *)
FreeCheck(t) ==
  /\ At(t, "fq_check")
  /\ IF Hazardous(haz[t].item.p)
       THEN delayed' = delayed \cup {haz[t].item} /\ NextItem(t)
       ELSE Goto(t, haz[t].item.fn) /\ UNCHANGED <<delayed, haz>>
  /\ UNCHANGED <<heapVars, desc_avail, queueVars, hp, op, deq, enq>>

FreeDone(t) ==
  /\ At(t, "fq_done")
  /\ NextItem(t)
  /\ UNCHANGED <<sharedVars, op, deq, enq>>

(* free_dummy                                                              *)
FreeDummy(t) ==
  /\ At(t, "free_dummy")
  /\ next' = [next EXCEPT ![haz[t].item.p] = "FREE"]
  /\ dummy_in_use' = [dummy_in_use EXCEPT ![haz[t].item.p] = FALSE]
  /\ NextItem(t)
  /\ UNCHANGED <<heapVars, desc_avail, queue, has_dummy, delayed, hp, op, deq, enq>>

(* desc_put_partial                                                        *)
DescPutPartial(t) ==
  /\ At(t, "desc_put_partial")
  /\ next' = [next EXCEPT ![haz[t].item.p] = "FREE"]
  /\ CallEnqueue(t, haz[t].item.p, "fq_done")
  /\ UNCHANGED <<heapVars, desc_avail, queue, has_dummy, dummy_in_use, delayed, hp>>
  /\ UNCHANGED <<op, deq, haz>>

(* desc_enqueue_avail                                                      *)
DescEnqueueAvail(t) ==
  /\ At(t, "desc_enqueue_avail")
  /\ desc_avail' = <<haz[t].item.p>> \o desc_avail
  /\ NextItem(t)
  /\ UNCHANGED <<heapVars, queueVars, delayed, hp, op, deq, enq>>

-----------------------------------------------------------------------------
AllocStep(t) ==
  \/ AllocBegin(t) \/ AllocReadActive(t) \/ AllocTakeActive(t) \/ AllocGotPartial(t)
  \/ AllocDequeueAgain(t) \/ AllocReadAnchor(t) \/ AllocReadNext(t) \/ AllocSetAnchor(t)
  \/ AllocGiveBack(t) \/ AllocReturn(t)
NewSbStep(t) ==
  \/ DescAllocPeek(t) \/ DescAllocPop(t) \/ DescAllocBatch(t) \/ AllocNewSb(t)
  \/ AllocPublishSb(t)
FreeStep(t) ==
  \/ FreeBegin(t) \/ FreeReadAnchor(t) \/ FreeSetAnchor(t) \/ FreeSteal(t) \/ FreeRetire(t)
  \/ FreeGiveBack(t) \/ RemoveEmptyGot(t) \/ RemoveEmptyAgain(t)
QueueStep(t) ==
  \/ DequeueReadHead(t) \/ DequeueTry(t) \/ DequeueDummy(t) \/ ReenqueuePickDummy(t)
  \/ ReenqueueClaim(t) \/ EnqueueStart(t) \/ EnqueueReadTail(t) \/ EnqueueLink(t)
HazardStep(t) ==
  \/ FreePop(t) \/ FreeCheck(t) \/ FreeDone(t) \/ FreeDummy(t) \/ DescPutPartial(t)
  \/ DescEnqueueAvail(t)

Step(t) == AllocStep(t) \/ NewSbStep(t) \/ FreeStep(t) \/ QueueStep(t) \/ HazardStep(t)
Next == \E t \in Thread : Step(t)
Spec == Init /\ [][Next]_vars
-----------------------------------------------------------------------------
(* Type invariant.                                                         *)

Label ==
  {"idle", "alloc_active", "alloc_take", "alloc_partial", "alloc_again", "alloc_anchor",
   "alloc_next", "alloc_cas", "alloc_giveback", "alloc_done", "avail_peek", "avail_pop",
   "avail_batch", "new_sb", "new_publish", "free_read", "free_cas", "free_steal",
   "free_retire", "free_giveback", "rm_got", "rm_again", "deq_head", "deq_try", "deq_dummy",
   "reenq_pick", "reenq_claim", "enq_start", "enq_tail", "enq_link", "fq_try", "fq_check",
   "fq_done"} \cup FreeFunc

Op == [desc : Desc \cup {NULL}, old : Anchor \cup {NULL}, slot : Slot \cup {NULL},
       nxt : Word \cup {NULL}, kept : Nat]
Deq == [ret : {"idle", "alloc_partial", "rm_got"}, res : Node \cup {NULL}]
Enq == [node : Node \cup {NULL}, ret : {"idle", "deq_head", "fq_done"}]
HazReturn == {"idle", "alloc_again", "alloc_active", "alloc_done", "rm_again", "reenq_pick"}
Haz == [self : Item \cup {NULL}, item : Item \cup {NULL}, tries : 0 .. FreeAttempts + 1,
        ret : HazReturn]

HeapTypeOK ==
  /\ active \in Desc \cup {NULL}
  /\ anchor \in [Desc -> Anchor]
  /\ word \in [Desc -> [Slot -> Word]]
  /\ in_use \in [Desc -> BOOLEAN] /\ mapped \in [Desc -> BOOLEAN]
  /\ batches \in 0 .. Len(Batches)
  /\ live \subseteq Object

ServiceTypeOK ==
  /\ desc_avail \in Seq(Desc)
  /\ queue \in Seq(Node) /\ queue # <<>>
  /\ next \in [Node -> {"NULL", "INVALID", "FREE", "LINKED"}]
  /\ has_dummy \in BOOLEAN /\ dummy_in_use \in [Dummy -> BOOLEAN]
  /\ delayed \subseteq Item
  /\ hp \in [Thread -> [{0, 1} -> Node \cup {NULL}]]

ThreadTypeOK ==
  /\ pc \in [Thread -> Label]
  /\ op \in [Thread -> Op] /\ deq \in [Thread -> Deq]
  /\ enq \in [Thread -> Enq] /\ haz \in [Thread -> Haz]
  /\ aborted \in BOOLEAN

(* Every variable has its type; the partial queue is never empty, because  *)
(* mono_lock_free_queue_dequeue leaves its last node in place.             *)
TypeOK == HeapTypeOK /\ ServiceTypeOK /\ ThreadTypeOK

-----------------------------------------------------------------------------
(* Ownership: where a node can be.                                         *)

OwnerLabels ==
  {"alloc_anchor", "alloc_next", "alloc_cas", "alloc_giveback", "new_sb", "new_publish",
   "free_retire", "free_giveback"}

(* The places of a node: structures of the heap, and locals of a thread.   *)
InSequence(n, s) == \E i \in DOMAIN s : s[i] = n

HeapPlaces(n) ==
  {p \in {"active", "queue", "avail", "delayed"} :
     \/ p = "active"  /\ active = n
     \/ p = "queue"   /\ InSequence(n, queue)
     \/ p = "avail"   /\ InSequence(n, desc_avail)
     \/ p = "delayed" /\ \E x \in delayed : x.p = n}

Holds(n, t) ==
  {f \in {"op", "deq", "enq", "self", "item"} :
     \/ f = "op"   /\ pc[t] \in OwnerLabels /\ op[t].desc = n
     \/ f = "deq"  /\ deq[t].res = n
     \/ f = "enq"  /\ enq[t].node = n
     \/ f = "self" /\ haz[t].self # NULL /\ haz[t].tries <= FreeAttempts /\ haz[t].self.p = n
     \/ f = "item" /\ pc[t] \in FreeFunc \cup {"fq_check"} /\ haz[t].item.p = n}

PlacesOf(n) ==
  {<<"heap", p>> : p \in HeapPlaces(n)}
    \cup UNION {{<<t, f>> : f \in Holds(n, t)} : t \in Thread}

(* A descriptor or dummy is in at most one place: heap->active, the partial *)
(* queue, the available list, the delayed-free queue, or in the hands of    *)
(* one thread ("They can only be in at most one of those at one time",      *)
(* lock-free-alloc.c:45), and once only.                                    *)
OneOwner ==
  /\ \A n \in Node : \A p, q \in PlacesOf(n) : p = q
  /\ \A i, j \in DOMAIN queue : queue[i] = queue[j] => i = j
  /\ \A i, j \in DOMAIN desc_avail : desc_avail[i] = desc_avail[j] => i = j
  /\ \A x, y \in delayed : x.p = y.p => x = y

Acquired == {d \in Desc : \E k \in 1 .. batches : InSequence(d, Batches[k])}

(* No descriptor is lost: exactly the FULL ones in use, which their next    *)
(* free will give back, are referenced from nowhere (lock-free-alloc.c:56). *)
NoneLost ==
  \A d \in Acquired : (PlacesOf(d) = {}) <=> (in_use[d] /\ anchor[d].state = "FULL")

-----------------------------------------------------------------------------
(* Slots: what is handed out and what is linked.                           *)

HasSlot(t) ==
  \/ pc[t] \in {"new_publish", "alloc_giveback", "alloc_done", "free_read", "free_cas"}
  \/ haz[t].ret = "alloc_done"

(* The object a thread has taken and not yet returned, or is freeing.      *)
Holding(t) == IF HasSlot(t) THEN {<<op[t].desc, op[t].slot>>} ELSE {}

(* mono_lock_free_alloc never returns an object that is still in use: what  *)
(* a thread is about to return is neither live nor held by another thread.  *)
NoDoubleAllocation ==
  \A t \in Thread :
    /\ Holding(t) \cap live = {}
    /\ \A u \in Thread \ {t} : Holding(t) \cap Holding(u) = {}

Taken(d) ==
  {o[2] : o \in {x \in live \cup UNION {Holding(t) : t \in Thread} : x[1] = d}}

(* The slots linked from anchor.avail, count of them.                      *)
FreeChain(d) ==
  LET chain[i \in 1 .. anchor[d].count] ==
        IF i = 1 THEN anchor[d].avail
        ELSE IF chain[i - 1] \in Slot THEN word[d][chain[i - 1]] ELSE User
  IN  chain

(* descriptor_check_consistency at every moment, not only at rest: the      *)
(* anchor's state agrees with its count, and the chain of free slots holds  *)
(* every slot that nobody has, once.  Nothing is lost, nothing linked twice.*)
SlotsAccounted ==
  \A d \in Desc : mapped[d] =>
    LET chain == FreeChain(d)
        count == anchor[d].count
    IN  /\ count \in 0 .. MaxCount
        /\ anchor[d].state = CASE count = 0 -> "FULL"
                               [] count = MaxCount -> "EMPTY"
                               [] OTHER -> "PARTIAL"
        /\ \A i, j \in 1 .. count : chain[i] = chain[j] => i = j
        /\ {chain[i] : i \in 1 .. count} = Slot \ Taken(d)

(* What a mutator keeps in an object stays there until it frees the object  *)
(* (test.c:173), and no superblock is unmapped under an object, be it live, *)
(* about to be returned or being freed.                                     *)
ObjectsIntact ==
  /\ \A o \in live : word[o[1]][o[2]] = User
  /\ \A o \in live \cup UNION {Holding(t) : t \in Thread} : in_use[o[1]] /\ mapped[o[1]]

-----------------------------------------------------------------------------
(* The assertions of the code.                                             *)

(* Every g_assert holds when it is evaluated, but for the one of            *)
(* desc_retire after a free that took heap->active (FreeRetire).            *)
GAsserts ==
  \A t \in Thread :
    LET d == op[t].desc
        n == haz[t].item.p
        got == deq[t].res
    IN  /\ pc[t] = "new_sb" => ~in_use[d]                                     (* 199 *)
        /\ pc[t] = "desc_enqueue_avail" => anchor[n].state = "EMPTY" /\ ~in_use[n]
        /\ pc[t] \in {"alloc_partial", "rm_got"} /\ got # NULL =>             (* 225 *)
             in_use[got]
        /\ pc[t] = "alloc_anchor" =>                                          (* 225 *)
             CASE anchor[d].state = "EMPTY" -> in_use[d]
               [] OTHER -> anchor[d].state = "PARTIAL" /\ anchor[d].count > 0 (* 356 *)
        /\ pc[t] = "alloc_cas" => op[t].nxt \in Slot                          (* 364 *)
        /\ pc[t] \in {"alloc_giveback", "free_giveback"} =>                   (* 279 *)
             anchor[d].state # "FULL"
        /\ pc[t] = "free_cas" => op[t].old.state # "EMPTY"              (* 321, 468 *)
        /\ pc[t] = "desc_put_partial" =>                                      (* 270 *)
             anchor[n].state # "FULL" /\ next[n] = "INVALID"
        /\ pc[t] = "free_dummy" => next[n] = "INVALID" /\ dummy_in_use[n]
        /\ pc[t] = "enq_start" => next[enq[t].node] = "FREE"
        /\ pc[t] \in {"enq_link", "deq_try"} /\ InSequence(hp[t][0], queue) =>
             next[hp[t][0]] = "LINKED"
        /\ pc[t] = "deq_dummy" => has_dummy

-----------------------------------------------------------------------------
(* The shared services.                                                    *)

(* The dummy that has_dummy speaks of: in the queue, on its way in, or just *)
(* out of it and not yet reported.                                          *)
CurrentDummies ==
  {m \in Dummy : \/ InSequence(m, queue)
                 \/ \E t \in Thread : enq[t].node = m \/ (pc[t] = "deq_dummy" /\ deq[t].res = m)}

(* has_dummy tells whether the queue has its dummy, there is never a second *)
(* one, and a dummy's in_use flag is set exactly while somebody has it: no  *)
(* interleaving of dequeues loses a dummy or enqueues one twice.            *)
DummyAccount ==
  /\ has_dummy <=> CurrentDummies # {}
  /\ \A m, n \in CurrentDummies : m = n
  /\ \A m \in Dummy : dummy_in_use[m] <=> PlacesOf(m) # {}

Listed(n) == InSequence(n, queue) \/ InSequence(n, desc_avail)

(* The ABA rule of the hazard pointers: a node comes (back) to the queue or *)
(* the available list only while no thread guards it, so a commit that      *)
(* finds the node it read finds the structure it read.                      *)
RecycledUnguarded ==
  [][\A n \in Node : ~Listed(n) /\ Listed(n)' =>
       \A u \in Thread, i \in {0, 1} : hp[u][i] # n]_vars

(* An EMPTY anchor is final (set_anchor, lock-free-alloc.c:321): it changes *)
(* only when the descriptor, retired in between, gets a new superblock.     *)
EmptyIsFinal ==
  [][\A d \in Desc : anchor[d].state = "EMPTY" /\ anchor'[d] # anchor[d] =>
       ~in_use[d] /\ in_use'[d]]_vars

-----------------------------------------------------------------------------
(* What the code says and does not do.                                     *)

(* desc_retire's assertion at lock-free-alloc.c:224 never fails: "we own    *)
(* it", whoever took desc out of heap->active (line 471), and "the ABA      *)
(* problem cannot occur" (line 41).                                         *)
RetiresOnlyEmpty == ~aborted

(* mono_lock_free_allocator_check_consistency, line 572: when all threads   *)
(* are done the active descriptor is PARTIAL.                               *)
ActiveIsPartial ==
  (\A t \in Thread : pc[t] = "idle") /\ active # NULL => anchor[active].state = "PARTIAL"
=============================================================================
