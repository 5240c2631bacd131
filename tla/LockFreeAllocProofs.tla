------------------------- MODULE LockFreeAllocProofs -------------------------
(***************************************************************************)
(* What is proved of LockFreeAlloc for every number of threads,            *)
(* descriptors, dummies, slots and delayed items, in this order: the       *)
(* types; a descriptor or dummy has one owner, and comes to a list only    *)
(* while nobody guards it; the partial queue's account of its dummies is   *)
(* right; no slot is handed out twice, none is lost, an object keeps what  *)
(* its owner put there, no superblock goes away under an object, and an    *)
(* EMPTY anchor is final; the assertions of the code hold when they are    *)
(* evaluated, and no descriptor is lost.                                   *)
(***************************************************************************)
EXTENDS LockFreeAlloc, FiniteSetTheorems, WellFoundedInduction, TLAPS

-----------------------------------------------------------------------------
(* Type correctness.  TypeOK is not inductive: what an action reads from   *)
(* its thread's locals has been put there by an earlier action, so the     *)
(* strengthening says for each label which locals are set.                 *)

EnqLabels == {"enq_start", "enq_tail", "enq_link"}

(* The thread is inside mono_thread_hazardous_free_or_queue.               *)
InFree(t) ==
  \/ pc[t] \in {"fq_try", "fq_check", "fq_done"} \cup FreeFunc
  \/ pc[t] \in EnqLabels /\ enq[t].ret = "fq_done"

OpFrame(t) ==
  /\ pc[t] \in OwnerLabels \cup {"alloc_take", "alloc_done", "free_read", "free_cas",
                                 "free_steal"}
       => op[t].desc \in Desc
  /\ pc[t] \in {"alloc_next", "alloc_cas", "alloc_giveback", "alloc_done", "new_publish",
                "free_read", "free_cas"}
       => op[t].slot \in Slot
  /\ pc[t] \in {"alloc_next", "alloc_cas", "free_cas"} => op[t].old \in Anchor
  /\ haz[t].ret = "alloc_done" => op[t].desc \in Desc /\ op[t].slot \in Slot

QueueFrame(t) ==
  /\ pc[t] \in {"deq_try", "enq_link"} => hp[t][0] \in Node
  /\ pc[t] = "avail_pop" => hp[t][1] \in Desc
  /\ pc[t] \in {"alloc_partial", "rm_got"} => deq[t].res \in Desc \cup {NULL}
  /\ pc[t] \in {"deq_dummy", "reenq_claim"} => deq[t].res \in Dummy
  /\ pc[t] \in EnqLabels => enq[t].node \in Node

FreeFrame(t) ==
  /\ IF InFree(t) THEN haz[t].self \in Item ELSE haz[t] = NoHaz
  /\ pc[t] = "fq_try" => haz[t].tries <= FreeAttempts
  /\ pc[t] \in FreeFunc \cup {"fq_check"} => haz[t].item \in Item
  /\ pc[t] \in FreeFunc => haz[t].item.fn = pc[t]

Frames == \A t \in Thread : OpFrame(t) /\ QueueFrame(t) /\ FreeFrame(t)
TypeInv == TypeOK /\ Frames

USE DEF At, Goto, heapVars, queueVars, sharedVars, frameVars

(* A thread's frames depend on its own locals and hazard pointers only.    *)
SameLocals(u) ==
  /\ pc'[u] = pc[u] /\ op'[u] = op[u] /\ deq'[u] = deq[u] /\ enq'[u] = enq[u]
  /\ haz'[u] = haz[u] /\ hp'[u] = hp[u]

LEMMA OtherFrames ==
  ASSUME NEW t \in Thread, Frames, \A u \in Thread \ {t} : SameLocals(u),
         OpFrame(t)', QueueFrame(t)', FreeFrame(t)'
  PROVE  Frames'
  BY DEF Frames, OpFrame, SameLocals, QueueFrame, FreeFrame, InFree

(* The items desc_retire and list_put_partial hand over.                   *)
LEMMA DescItem ==
  ASSUME NEW d \in Desc
  PROVE  /\ [p |-> d, fn |-> "desc_enqueue_avail"] \in Item
         /\ [p |-> d, fn |-> "desc_put_partial"] \in Item
  BY DEF Item

(* After the call the frame is set up and names the return label.          *)
LEMMA FreeOrQueueType ==
  ASSUME NEW t \in Thread, NEW x, NEW fn, NEW r \in HazReturn, [p |-> x, fn |-> fn] \in Item,
         pc \in [Thread -> Label], haz \in [Thread -> Haz], FreeOrQueue(t, x, fn, r)
  PROVE  /\ haz' \in [Thread -> Haz] /\ pc' \in [Thread -> Label]
         /\ FreeFrame(t)' /\ pc'[t] = "fq_try" /\ haz'[t].ret = r
  BY FreeAttemptsAssumption DEF FreeOrQueue, Haz, Label, FreeFrame, InFree, FreeFunc, EnqLabels

(* The end of an item: the next one, or the return to the caller.          *)
LEMMA NextItemType ==
  ASSUME NEW t \in Thread, pc \in [Thread -> Label], haz \in [Thread -> Haz], NextItem(t)
  PROVE  /\ haz' \in [Thread -> Haz] /\ pc' \in [Thread -> Label] /\ aborted' = aborted
         /\ \/ haz'[t] = NoHaz /\ pc'[t] = haz[t].ret
            \/ /\ pc'[t] = "fq_try" /\ haz'[t].tries <= FreeAttempts
               /\ haz'[t].self = haz[t].self /\ haz'[t].ret = haz[t].ret
<1>1. haz[t] \in Haz /\ haz[t].ret \in Label
  BY DEF Haz, HazReturn, Label
<1>2. CASE haz[t].tries = FreeAttempts + 1
  BY <1>1, <1>2, FreeAttemptsAssumption DEF NextItem, NoHaz, Haz, HazReturn
<1>3. CASE haz[t].tries # FreeAttempts + 1
  BY <1>1, <1>3, FreeAttemptsAssumption DEF NextItem, Haz, Label
<1> QED BY <1>2, <1>3

(* Either way the frames are those the next label needs.                   *)
LEMMA NextItemFrames ==
  ASSUME NEW t \in Thread, pc \in [Thread -> Label], haz \in [Thread -> Haz], NextItem(t),
         OpFrame(t), FreeFrame(t), InFree(t), op' = op
  PROVE  OpFrame(t)' /\ QueueFrame(t)' /\ FreeFrame(t)'
  BY NextItemType DEF FreeFrame, Haz, OpFrame, QueueFrame, InFree, HazReturn, NoHaz, OwnerLabels,
    EnqLabels, FreeFunc

(* Updates of the locals of alloc and free: the descriptor,                *)
LEMMA OpDesc ==
  ASSUME NEW t \in Thread, op \in [Thread -> Op], NEW d \in Desc
  PROVE  [op EXCEPT ![t].desc = d] \in [Thread -> Op]
  BY DEF Op

(* ... the descriptor and the slot of an object,                           *)
LEMMA OpDescSlot ==
  ASSUME NEW t \in Thread, op \in [Thread -> Op], NEW d \in Desc, NEW s \in Slot
  PROVE  [op EXCEPT ![t].desc = d, ![t].slot = s] \in [Thread -> Op]
  BY DEF Op

(* ... the anchor that was read and its first free slot,                   *)
LEMMA OpOldSlot ==
  ASSUME NEW t \in Thread, op \in [Thread -> Op], NEW a \in Anchor, NEW s \in Slot
  PROVE  [op EXCEPT ![t].old = a, ![t].slot = s] \in [Thread -> Op]
  BY DEF Op

(* ... or neither any more.                                                *)
LEMMA OpForget ==
  ASSUME NEW t \in Thread, op \in [Thread -> Op]
  PROVE  [op EXCEPT ![t].old = NULL, ![t].nxt = NULL] \in [Thread -> Op]
  BY DEF Op

(* A sequence that has an element besides its first one.                   *)
LEMMA TailNotEmpty ==
  ASSUME NEW S, NEW s \in Seq(S), s # <<>>, Len(s) # 1
  PROVE  Tail(s) \in Seq(S) /\ Tail(s) # <<>>
<1>1. Len(s) \in Nat /\ Len(s) # 0
  OBVIOUS
<1>2. Len(Tail(s)) = Len(s) - 1 /\ Tail(s) \in Seq(S)
  OBVIOUS
<1>3. Len(Tail(s)) # 0
  BY <1>1, <1>2
<1>4. ASSUME Tail(s) = <<>> PROVE FALSE
  <2>1. Len(<<>>) = 0
    OBVIOUS
  <2> QED BY <1>3, <1>4, <2>1, Zenon
<1> QED BY <1>2, <1>4

(* What the actions that may call mono_thread_hazardous_free_or_queue do   *)
(* to the variables such a call sets.                                      *)
CallsOK(t) ==
  /\ in_use' \in [Desc -> BOOLEAN] /\ mapped' \in [Desc -> BOOLEAN]
  /\ pc' \in [Thread -> Label] /\ op' \in [Thread -> Op] /\ haz' \in [Thread -> Haz]
  /\ aborted' \in BOOLEAN
  /\ OpFrame(t)' /\ QueueFrame(t)' /\ FreeFrame(t)'
  /\ \A u \in Thread \ {t} : pc'[u] = pc[u] /\ op'[u] = op[u] /\ haz'[u] = haz[u]

(* What these actions find.                                                *)
Before(t) ==
  /\ in_use \in [Desc -> BOOLEAN] /\ mapped \in [Desc -> BOOLEAN]
  /\ pc \in [Thread -> Label] /\ op \in [Thread -> Op] /\ haz \in [Thread -> Haz]
  /\ aborted \in BOOLEAN

(* A call of mono_thread_hazardous_free_or_queue that returns to label r.  *)
LEMMA FreeOrQueueCalls ==
  ASSUME NEW t \in Thread, Before(t), NEW x, NEW fn, NEW r \in HazReturn,
         [p |-> x, fn |-> fn] \in Item, FreeOrQueue(t, x, fn, r),
         in_use' \in [Desc -> BOOLEAN], mapped' \in [Desc -> BOOLEAN],
         op' \in [Thread -> Op], \A u \in Thread \ {t} : op'[u] = op[u],
         r = "alloc_done" => op'[t].desc \in Desc /\ op'[t].slot \in Slot
  PROVE  CallsOK(t)
  BY FreeOrQueueType DEF Before, FreeOrQueue, OpFrame, OwnerLabels, QueueFrame, EnqLabels, CallsOK

(* A call of desc_retire by a thread with nothing else to return.          *)
LEMMA DescRetireCalls ==
  ASSUME NEW t \in Thread, Before(t), NEW d \in Desc, NEW r \in HazReturn \ {"alloc_done"},
         DescRetire(t, d, r), op' \in [Thread -> Op], \A u \in Thread \ {t} : op'[u] = op[u]
  PROVE  CallsOK(t)
  BY DescItem, FreeOrQueueCalls DEF Before, DescRetire

(* Resetting the locals, or setting the descriptor.                        *)
LEMMA OpReset ==
  ASSUME NEW t \in Thread, op \in [Thread -> Op],
         \/ op' = op
         \/ op' = [op EXCEPT ![t] = NoOp]
         \/ \E d \in Desc : op' = [op EXCEPT ![t].desc = d]
         \/ op' = [op EXCEPT ![t].kept = @ + 1]
  PROVE  op' \in [Thread -> Op] /\ \A u \in Thread \ {t} : op'[u] = op[u]
<1>1. CASE op' = op
  BY <1>1
<1>2. CASE op' = [op EXCEPT ![t] = NoOp]
  BY <1>2 DEF Op, NoOp
<1>3. CASE \E d \in Desc : op' = [op EXCEPT ![t].desc = d]
  BY <1>3, OpDesc
<1>4. CASE op' = [op EXCEPT ![t].kept = @ + 1]
  BY <1>4 DEF Op
<1> QED BY <1>1, <1>2, <1>3, <1>4

(* The rest of TypeInv, once the calls are accounted for.                  *)
LEMMA CallsType ==
  ASSUME NEW t \in Thread, TypeInv, CallsOK(t),
         active' \in Desc \cup {NULL}, anchor' \in [Desc -> Anchor],
         deq' \in [Thread -> Deq], \A u \in Thread \ {t} : deq'[u] = deq[u],
         UNCHANGED <<word, batches, live, desc_avail, queueVars, delayed, hp, enq>>
  PROVE  TypeInv'
  BY OtherFrames DEF TypeInv, TypeOK, HeapTypeOK, CallsOK, ServiceTypeOK, ThreadTypeOK, SameLocals

(* TypeInv says what these actions find.                                   *)
LEMMA TypeInvBefore ==
  ASSUME TypeInv, NEW t \in Thread
  PROVE  /\ Before(t)
         /\ active \in Desc \cup {NULL} /\ anchor \in [Desc -> Anchor]
         /\ deq \in [Thread -> Deq] /\ enq \in [Thread -> Enq]
         /\ OpFrame(t) /\ QueueFrame(t) /\ FreeFrame(t)
  BY DEF TypeInv, TypeOK, HeapTypeOK, ThreadTypeOK, Frames, Before

(* Everything but the locals of the hazardous free, the delayed queue and  *)
(* the structures a free function changes.                                 *)
LEMMA NextItemInv ==
  ASSUME NEW t \in Thread, TypeInv, InFree(t), NextItem(t), ServiceTypeOK',
         UNCHANGED <<heapVars, hp, op, deq, enq>>
  PROVE  TypeInv'
  BY NextItemType, NextItemFrames, OtherFrames DEF TypeInv, TypeOK, ThreadTypeOK, Frames,
    HeapTypeOK, SameLocals, NextItem

-----------------------------------------------------------------------------
(* mono_lock_free_alloc.                                                   *)

(* The call only moves the program counter.                                *)
LEMMA AllocBeginType ==
  ASSUME NEW t \in Thread, TypeInv, AllocBegin(t)
  PROVE  TypeInv'
<1> USE DEF AllocBegin
<1>1. HeapTypeOK /\ ServiceTypeOK /\ ThreadTypeOK /\ OpFrame(t) /\ QueueFrame(t) /\ FreeFrame(t)
  BY DEF TypeInv, TypeOK, Frames
<1>2. /\ pc \in [Thread -> Label] /\ op \in [Thread -> Op] /\ deq \in [Thread -> Deq]
      /\ enq \in [Thread -> Enq] /\ haz \in [Thread -> Haz]
  BY <1>1 DEF ThreadTypeOK
<1>3. haz[t] = NoHaz
  BY <1>1 DEF OpFrame, QueueFrame, FreeFrame, InFree, OwnerLabels, EnqLabels, FreeFunc
<1>4. HeapTypeOK'
  BY <1>1 DEF HeapTypeOK
<1>5. ServiceTypeOK'
  BY <1>1 DEF ServiceTypeOK
<1>6. ThreadTypeOK'
  BY <1>1, <1>2, <1>3 DEF Label, FreeFunc, ThreadTypeOK
<1>7. \A u \in Thread \ {t} : SameLocals(u)
  BY <1>1, <1>2 DEF SameLocals, ServiceTypeOK
<1>8. OpFrame(t)'
  BY <1>1, <1>2, <1>3 DEF OpFrame, NoHaz, OwnerLabels
<1>9. QueueFrame(t)'
  BY <1>1, <1>2, <1>3 DEF QueueFrame, EnqLabels
<1>10. FreeFrame(t)'
  BY <1>1, <1>2, <1>3 DEF FreeFrame, InFree, EnqLabels, FreeFunc, NoHaz
<1> QED BY <1>1, <1>4, <1>5, <1>6, <1>7, <1>8, <1>9, <1>10, OtherFrames DEF TypeInv, TypeOK

(* heap->active is a descriptor when it is not NULL.                       *)
LEMMA AllocReadActiveType ==
  ASSUME NEW t \in Thread, TypeInv, AllocReadActive(t)
  PROVE  TypeInv'
<1> USE DEF AllocReadActive, CallDequeue
<1>1. HeapTypeOK /\ ServiceTypeOK /\ ThreadTypeOK /\ OpFrame(t) /\ QueueFrame(t) /\ FreeFrame(t)
  BY DEF TypeInv, TypeOK, Frames
<1>2. /\ pc \in [Thread -> Label] /\ op \in [Thread -> Op] /\ deq \in [Thread -> Deq]
      /\ enq \in [Thread -> Enq] /\ haz \in [Thread -> Haz]
  BY <1>1 DEF ThreadTypeOK
<1>3. haz[t] = NoHaz
  BY <1>1 DEF OpFrame, QueueFrame, FreeFrame, InFree, OwnerLabels, EnqLabels, FreeFunc
<1>4. HeapTypeOK'
  BY <1>1 DEF HeapTypeOK
<1>5. ServiceTypeOK'
  BY <1>1 DEF ServiceTypeOK
<1>6. ThreadTypeOK'
  <2>1. pc' \in [Thread -> Label]
    BY <1>2, <1>3 DEF Label, FreeFunc
  <2>2. op' \in [Thread -> Op]
    <3>1. op' = op \/ (active \in Desc /\ op' = [op EXCEPT ![t].desc = active])
      BY <1>1 DEF HeapTypeOK
    <3> QED BY <1>2, <3>1 DEF Op
  <2>3. deq' \in [Thread -> Deq]
    BY <1>2, <1>3 DEF Deq, Node
  <2>4. enq' \in [Thread -> Enq]
    BY <1>2
  <2>5. haz' \in [Thread -> Haz]
    BY <1>2
  <2> QED BY <1>1, <2>1, <2>2, <2>3, <2>4, <2>5 DEF ThreadTypeOK
<1>7. \A u \in Thread \ {t} : SameLocals(u)
  BY <1>1, <1>2 DEF SameLocals, ServiceTypeOK
<1>8. OpFrame(t)'
  BY <1>1, <1>2, <1>3 DEF OpFrame, NoHaz, OwnerLabels, HeapTypeOK, Object, Op
<1>9. QueueFrame(t)'
  BY <1>1, <1>2, <1>3 DEF QueueFrame, EnqLabels, Deq
<1>10. FreeFrame(t)'
  BY <1>1, <1>2, <1>3 DEF FreeFrame, InFree, EnqLabels, FreeFunc, NoHaz
<1> QED BY <1>1, <1>4, <1>5, <1>6, <1>7, <1>8, <1>9, <1>10, OtherFrames DEF TypeInv, TypeOK

(* heap->active becomes NULL; the descriptor read before is the local one. *)
LEMMA AllocTakeActiveType ==
  ASSUME NEW t \in Thread, TypeInv, AllocTakeActive(t)
  PROVE  TypeInv'
<1> USE DEF AllocTakeActive, ActiveIs
<1>1. HeapTypeOK /\ ServiceTypeOK /\ ThreadTypeOK /\ OpFrame(t) /\ QueueFrame(t) /\ FreeFrame(t)
  BY DEF TypeInv, TypeOK, Frames
<1>2. /\ pc \in [Thread -> Label] /\ op \in [Thread -> Op] /\ deq \in [Thread -> Deq]
      /\ enq \in [Thread -> Enq] /\ haz \in [Thread -> Haz]
  BY <1>1 DEF ThreadTypeOK
<1>3. /\ op[t].desc \in Desc
      /\ haz[t] = NoHaz
  BY <1>1 DEF OpFrame, QueueFrame, FreeFrame, InFree, OwnerLabels, EnqLabels, FreeFunc
<1>4. HeapTypeOK'
  BY <1>1, <1>2, <1>3 DEF HeapTypeOK, Anchor, State, Word, Slot, Object
<1>5. ServiceTypeOK'
  BY <1>1 DEF ServiceTypeOK
<1>6. ThreadTypeOK'
  BY <1>1, <1>2, <1>3 DEF Label, FreeFunc, ThreadTypeOK
<1>7. \A u \in Thread \ {t} : SameLocals(u)
  BY <1>1, <1>2 DEF SameLocals, ServiceTypeOK
<1>8. OpFrame(t)'
  BY <1>1, <1>2, <1>3 DEF OpFrame, NoHaz, OwnerLabels
<1>9. QueueFrame(t)'
  BY <1>1, <1>2, <1>3 DEF QueueFrame, EnqLabels
<1>10. FreeFrame(t)'
  BY <1>1, <1>2, <1>3 DEF FreeFrame, InFree, EnqLabels, FreeFunc, NoHaz
<1> QED BY <1>1, <1>4, <1>5, <1>6, <1>7, <1>8, <1>9, <1>10, OtherFrames DEF TypeInv, TypeOK

(* list_get_partial hands on a descriptor, never a dummy, or retires it.   *)
LEMMA AllocGotPartialType ==
  ASSUME NEW t \in Thread, TypeInv, AllocGotPartial(t)
  PROVE  TypeInv'
<1>1. Before(t) /\ OpFrame(t) /\ QueueFrame(t) /\ FreeFrame(t)
  BY TypeInvBefore
<1>2. pc[t] = "alloc_partial" /\ deq[t].res \in Desc \cup {NULL} /\ haz[t] = NoHaz
  BY <1>1 DEF AllocGotPartial, QueueFrame, FreeFrame, InFree, EnqLabels, FreeFunc
<1>3. CallsOK(t)
  <2>1. op' \in [Thread -> Op] /\ \A u \in Thread \ {t} : op'[u] = op[u]
    BY <1>1, <1>2, OpReset DEF AllocGotPartial, Before
  <2>2. CASE pc' = [pc EXCEPT ![t] = "avail_peek"] /\ UNCHANGED <<haz, in_use, mapped, aborted>>
    BY <1>1, <1>2, <2>1, <2>2 DEF CallsOK, Before, OpFrame, QueueFrame, FreeFrame, InFree,
       OwnerLabels, EnqLabels, FreeFunc, NoHaz, Label
  <2>3. CASE /\ pc' = [pc EXCEPT ![t] = "alloc_anchor"]
             /\ UNCHANGED <<haz, in_use, mapped, aborted>>
             /\ op'[t].desc \in Desc
    BY <1>1, <1>2, <2>1, <2>3 DEF CallsOK, Before, OpFrame, QueueFrame, FreeFrame, InFree,
       OwnerLabels, EnqLabels, FreeFunc, NoHaz, Label
  <2>4. CASE DescRetire(t, deq[t].res, "alloc_again") /\ deq[t].res \in Desc
    BY <1>1, <2>1, <2>4, DescRetireCalls DEF HazReturn
  <2>5. op \in [Thread -> Op] /\ \A d : op' = [op EXCEPT ![t].desc = d] => op'[t].desc = d
    BY <1>1 DEF Before, Op
  <2> QED BY <1>2, <2>2, <2>3, <2>4, <2>5 DEF AllocGotPartial
<1>4. deq' \in [Thread -> Deq] /\ \A u \in Thread \ {t} : deq'[u] = deq[u]
  BY TypeInvBefore DEF AllocGotPartial, NoDeq, Deq
<1> QED BY <1>3, <1>4, CallsType, TypeInvBefore DEF AllocGotPartial

(* The dequeue is called again.                                            *)
LEMMA AllocDequeueAgainType ==
  ASSUME NEW t \in Thread, TypeInv, AllocDequeueAgain(t)
  PROVE  TypeInv'
<1> USE DEF AllocDequeueAgain, CallDequeue
<1>1. HeapTypeOK /\ ServiceTypeOK /\ ThreadTypeOK /\ OpFrame(t) /\ QueueFrame(t) /\ FreeFrame(t)
  BY DEF TypeInv, TypeOK, Frames
<1>2. /\ pc \in [Thread -> Label] /\ op \in [Thread -> Op] /\ deq \in [Thread -> Deq]
      /\ enq \in [Thread -> Enq] /\ haz \in [Thread -> Haz]
  BY <1>1 DEF ThreadTypeOK
<1>3. haz[t] = NoHaz
  BY <1>1 DEF OpFrame, QueueFrame, FreeFrame, InFree, OwnerLabels, EnqLabels, FreeFunc
<1>4. HeapTypeOK'
  BY <1>1 DEF HeapTypeOK
<1>5. ServiceTypeOK'
  BY <1>1 DEF ServiceTypeOK
<1>6. ThreadTypeOK'
  BY <1>1, <1>2, <1>3 DEF Label, FreeFunc, Deq, Node, ThreadTypeOK
<1>7. \A u \in Thread \ {t} : SameLocals(u)
  BY <1>1, <1>2 DEF SameLocals, ServiceTypeOK
<1>8. OpFrame(t)'
  BY <1>1, <1>2, <1>3 DEF OpFrame, NoHaz, OwnerLabels
<1>9. QueueFrame(t)'
  BY <1>1, <1>2, <1>3 DEF QueueFrame, EnqLabels, Deq
<1>10. FreeFrame(t)'
  BY <1>1, <1>2, <1>3 DEF FreeFrame, InFree, EnqLabels, FreeFunc, NoHaz
<1> QED BY <1>1, <1>4, <1>5, <1>6, <1>7, <1>8, <1>9, <1>10, OtherFrames DEF TypeInv, TypeOK

(* The copy of the anchor is an anchor, its avail a slot.                  *)
LEMMA AllocReadAnchorType ==
  ASSUME NEW t \in Thread, TypeInv, AllocReadAnchor(t)
  PROVE  TypeInv'
<1>1. /\ Before(t) /\ OpFrame(t) /\ QueueFrame(t) /\ FreeFrame(t)
      /\ anchor \in [Desc -> Anchor]
  BY TypeInvBefore
<1>2. pc[t] = "alloc_anchor" /\ op[t].desc \in Desc /\ haz[t] = NoHaz
  BY <1>1 DEF AllocReadAnchor, OpFrame, OwnerLabels, FreeFrame, InFree, EnqLabels, FreeFunc
<1>3. op \in [Thread -> Op]
  BY <1>1 DEF Before
<1>4. CallsOK(t)
  <2>1. CASE DescRetire(t, op[t].desc, "alloc_active") /\ op' = [op EXCEPT ![t] = NoOp]
    BY <1>1, <1>2, <1>3, <2>1, OpReset, DescRetireCalls DEF HazReturn
  <2>2. CASE /\ pc' = [pc EXCEPT ![t] = "alloc_next"]
             /\ UNCHANGED <<haz, in_use, mapped, aborted>>
             /\ op' = [op EXCEPT ![t].old = anchor[op[t].desc],
                                 ![t].slot = anchor[op[t].desc].avail]
    <3>1. anchor[op[t].desc] \in Anchor /\ anchor[op[t].desc].avail \in Slot
      BY <1>1, <1>2 DEF Anchor
    <3>2. op' \in [Thread -> Op]
      BY <1>3, <2>2, <3>1, OpOldSlot
    <3>3. /\ op'[t].old \in Anchor /\ op'[t].slot \in Slot /\ op'[t].desc \in Desc
          /\ \A u \in Thread \ {t} : op'[u] = op[u]
      BY <1>2, <1>3, <2>2, <3>1 DEF Op
    <3> QED BY <1>1, <1>2, <2>2, <3>2, <3>3 DEF CallsOK, Before, OpFrame, QueueFrame, FreeFrame,
        InFree, OwnerLabels, EnqLabels, FreeFunc, NoHaz, Label
  <2> QED BY <2>1, <2>2 DEF AllocReadAnchor
<1> QED BY <1>4, CallsType, TypeInvBefore DEF AllocReadAnchor

(* The link read is the word of a slot.                                    *)
LEMMA AllocReadNextType ==
  ASSUME NEW t \in Thread, TypeInv, AllocReadNext(t)
  PROVE  TypeInv'
<1> USE DEF AllocReadNext
<1>1. HeapTypeOK /\ ServiceTypeOK /\ ThreadTypeOK /\ OpFrame(t) /\ QueueFrame(t) /\ FreeFrame(t)
  BY DEF TypeInv, TypeOK, Frames
<1>2. /\ pc \in [Thread -> Label] /\ op \in [Thread -> Op] /\ deq \in [Thread -> Deq]
      /\ enq \in [Thread -> Enq] /\ haz \in [Thread -> Haz]
  BY <1>1 DEF ThreadTypeOK
<1>3. /\ op[t].desc \in Desc
      /\ op[t].slot \in Slot
      /\ op[t].old \in Anchor
      /\ haz[t] = NoHaz
  BY <1>1 DEF OpFrame, QueueFrame, FreeFrame, InFree, OwnerLabels, EnqLabels, FreeFunc
<1>4. HeapTypeOK'
  BY <1>1 DEF HeapTypeOK
<1>5. ServiceTypeOK'
  BY <1>1 DEF ServiceTypeOK
<1>6. ThreadTypeOK'
  <2>1. pc' \in [Thread -> Label]
    BY <1>2, <1>3 DEF Label, FreeFunc
  <2>2. op' \in [Thread -> Op]
    <3>1. word[op[t].desc][op[t].slot] \in Word
      BY <1>1, <1>3 DEF HeapTypeOK
    <3> QED BY <1>2, <3>1 DEF Op
  <2>3. deq' \in [Thread -> Deq]
    BY <1>2
  <2>4. enq' \in [Thread -> Enq]
    BY <1>2
  <2>5. haz' \in [Thread -> Haz]
    BY <1>2
  <2> QED BY <1>1, <2>1, <2>2, <2>3, <2>4, <2>5 DEF ThreadTypeOK
<1>7. \A u \in Thread \ {t} : SameLocals(u)
  BY <1>1, <1>2 DEF SameLocals, ServiceTypeOK
<1>8. OpFrame(t)'
  BY <1>1, <1>2, <1>3 DEF OpFrame, NoHaz, OwnerLabels, Op
<1>9. QueueFrame(t)'
  BY <1>1, <1>2, <1>3 DEF QueueFrame, EnqLabels
<1>10. FreeFrame(t)'
  BY <1>1, <1>2, <1>3 DEF FreeFrame, InFree, EnqLabels, FreeFunc, NoHaz
<1> QED BY <1>1, <1>4, <1>5, <1>6, <1>7, <1>8, <1>9, <1>10, OtherFrames DEF TypeInv, TypeOK

(* The new anchor is one because the asserted link is a slot.              *)
LEMMA AllocSetAnchorType ==
  ASSUME NEW t \in Thread, TypeInv, AllocSetAnchor(t)
  PROVE  TypeInv'
<1> USE DEF AllocSetAnchor, SetAnchorSucceeds, AllocatedAnchor
<1>1. HeapTypeOK /\ ServiceTypeOK /\ ThreadTypeOK /\ OpFrame(t) /\ QueueFrame(t) /\ FreeFrame(t)
  BY DEF TypeInv, TypeOK, Frames
<1>2. /\ pc \in [Thread -> Label] /\ op \in [Thread -> Op] /\ deq \in [Thread -> Deq]
      /\ enq \in [Thread -> Enq] /\ haz \in [Thread -> Haz]
  BY <1>1 DEF ThreadTypeOK
<1>3. /\ op[t].desc \in Desc
      /\ op[t].slot \in Slot
      /\ op[t].old \in Anchor
      /\ haz[t] = NoHaz
  BY <1>1 DEF OpFrame, QueueFrame, FreeFrame, InFree, OwnerLabels, EnqLabels, FreeFunc
<1>4. HeapTypeOK'
  <2>1. AllocatedAnchor(op[t].old, op[t].nxt) \in Anchor
    BY <1>3 DEF AllocatedAnchor, Anchor, State
  <2>2. anchor' \in [Desc -> Anchor]
    BY <1>1, <1>3, <2>1 DEF HeapTypeOK
  <2> QED BY <1>1, <2>2 DEF HeapTypeOK
<1>5. ServiceTypeOK'
  BY <1>1 DEF ServiceTypeOK
<1>6. ThreadTypeOK'
  <2>1. pc' \in [Thread -> Label]
    BY <1>2, <1>3 DEF Label, FreeFunc
  <2>2. op' \in [Thread -> Op]
    <3>1. op' = [op EXCEPT ![t].old = NULL, ![t].nxt = NULL]
      OBVIOUS
    <3> HIDE DEF AllocSetAnchor
    <3> QED BY <1>2, <3>1, OpForget
  <2>3. deq' \in [Thread -> Deq]
    BY <1>2
  <2>4. enq' \in [Thread -> Enq]
    BY <1>2
  <2>5. haz' \in [Thread -> Haz]
    BY <1>2
  <2> QED BY <1>1, <2>1, <2>2, <2>3, <2>4, <2>5 DEF ThreadTypeOK
<1>7. \A u \in Thread \ {t} : SameLocals(u)
  BY <1>1, <1>2 DEF SameLocals, ServiceTypeOK
<1>8. OpFrame(t)'
  BY <1>1, <1>2, <1>3 DEF OpFrame, NoHaz, OwnerLabels, Op
<1>9. QueueFrame(t)'
  BY <1>1, <1>2, <1>3 DEF QueueFrame, EnqLabels
<1>10. FreeFrame(t)'
  BY <1>1, <1>2, <1>3 DEF FreeFrame, InFree, EnqLabels, FreeFunc, NoHaz
<1> QED BY <1>1, <1>4, <1>5, <1>6, <1>7, <1>8, <1>9, <1>10, OtherFrames DEF TypeInv, TypeOK

(* heap->active gets a descriptor, or the hazardous free one to put on the *)
(* queue.                                                                  *)
LEMMA AllocGiveBackType ==
  ASSUME NEW t \in Thread, TypeInv, AllocGiveBack(t)
  PROVE  TypeInv'
<1>1. Before(t) /\ OpFrame(t) /\ QueueFrame(t) /\ FreeFrame(t) /\ active \in Desc \cup {NULL}
  BY TypeInvBefore
<1>2. pc[t] = "alloc_giveback" /\ op[t].desc \in Desc /\ op[t].slot \in Slot /\ haz[t] = NoHaz
  BY <1>1 DEF AllocGiveBack, OpFrame, OwnerLabels, FreeFrame, InFree, EnqLabels, FreeFunc
<1>3. CallsOK(t)
  <2>1. CASE FreeOrQueue(t, op[t].desc, "desc_put_partial", "alloc_done")
    BY <1>1, <1>2, <2>1, DescItem, FreeOrQueueCalls DEF HazReturn, Before, AllocGiveBack
  <2>2. CASE pc' = [pc EXCEPT ![t] = "alloc_done"] /\ UNCHANGED <<haz, aborted>>
    BY <1>1, <1>2, <2>2 DEF AllocGiveBack, CallsOK, Before, OpFrame, QueueFrame, FreeFrame,
       InFree, OwnerLabels, EnqLabels, FreeFunc, NoHaz, Label
  <2> QED BY <2>1, <2>2 DEF AllocGiveBack, ListPutPartial
<1>4. active' \in Desc \cup {NULL}
  BY <1>1, <1>2 DEF AllocGiveBack
<1> QED BY <1>3, <1>4, CallsType, TypeInvBefore DEF AllocGiveBack

(* The object returned is a slot of a descriptor.                          *)
LEMMA AllocReturnType ==
  ASSUME NEW t \in Thread, TypeInv, AllocReturn(t)
  PROVE  TypeInv'
<1> USE DEF AllocReturn, NoOp
<1>1. HeapTypeOK /\ ServiceTypeOK /\ ThreadTypeOK /\ OpFrame(t) /\ QueueFrame(t) /\ FreeFrame(t)
  BY DEF TypeInv, TypeOK, Frames
<1>2. /\ pc \in [Thread -> Label] /\ op \in [Thread -> Op] /\ deq \in [Thread -> Deq]
      /\ enq \in [Thread -> Enq] /\ haz \in [Thread -> Haz]
  BY <1>1 DEF ThreadTypeOK
<1>3. /\ op[t].desc \in Desc
      /\ op[t].slot \in Slot
      /\ haz[t] = NoHaz
  BY <1>1 DEF OpFrame, QueueFrame, FreeFrame, InFree, OwnerLabels, EnqLabels, FreeFunc
<1>4. HeapTypeOK'
  BY <1>1, <1>2, <1>3 DEF HeapTypeOK, Anchor, State, Word, Slot, Object
<1>5. ServiceTypeOK'
  BY <1>1 DEF ServiceTypeOK
<1>6. ThreadTypeOK'
  BY <1>1, <1>2, <1>3 DEF Label, FreeFunc, Op, ThreadTypeOK
<1>7. \A u \in Thread \ {t} : SameLocals(u)
  BY <1>1, <1>2 DEF SameLocals, ServiceTypeOK
<1>8. OpFrame(t)'
  BY <1>1, <1>2, <1>3 DEF OpFrame, NoHaz, OwnerLabels, Op
<1>9. QueueFrame(t)'
  BY <1>1, <1>2, <1>3 DEF QueueFrame, EnqLabels
<1>10. FreeFrame(t)'
  BY <1>1, <1>2, <1>3 DEF FreeFrame, InFree, EnqLabels, FreeFunc, NoHaz
<1> QED BY <1>1, <1>4, <1>5, <1>6, <1>7, <1>8, <1>9, <1>10, OtherFrames DEF TypeInv, TypeOK

-----------------------------------------------------------------------------
(* desc_alloc and alloc_from_new_sb.                                       *)

(* The hazard pointer guards a descriptor.                                 *)
LEMMA DescAllocPeekType ==
  ASSUME NEW t \in Thread, TypeInv, DescAllocPeek(t)
  PROVE  TypeInv'
<1> USE DEF DescAllocPeek, SetHazard
<1>1. HeapTypeOK /\ ServiceTypeOK /\ ThreadTypeOK /\ OpFrame(t) /\ QueueFrame(t) /\ FreeFrame(t)
  BY DEF TypeInv, TypeOK, Frames
<1>2. /\ pc \in [Thread -> Label] /\ op \in [Thread -> Op] /\ deq \in [Thread -> Deq]
      /\ enq \in [Thread -> Enq] /\ haz \in [Thread -> Haz]
  BY <1>1 DEF ThreadTypeOK
<1>3. haz[t] = NoHaz
  BY <1>1 DEF OpFrame, QueueFrame, FreeFrame, InFree, OwnerLabels, EnqLabels, FreeFunc
<1>4. HeapTypeOK'
  BY <1>1 DEF HeapTypeOK
<1>5. ServiceTypeOK'
  <2>1. hp' = hp \/ (desc_avail # <<>> /\ hp' = [hp EXCEPT ![t][1] = Head(desc_avail)])
    OBVIOUS
  <2> HIDE DEF DescAllocPeek
  <2>2. desc_avail # <<>> => Head(desc_avail) \in Node
    BY <1>1 DEF ServiceTypeOK, Node
  <2>3. hp' \in [Thread -> [{0, 1} -> Node \cup {NULL}]]
    BY <1>1, <2>1, <2>2 DEF ServiceTypeOK
  <2> USE DEF DescAllocPeek
  <2> QED BY <1>1, <2>3 DEF ServiceTypeOK
<1>6. ThreadTypeOK'
  BY <1>1, <1>2, <1>3 DEF Label, FreeFunc, ThreadTypeOK
<1>7. \A u \in Thread \ {t} : SameLocals(u)
  BY <1>1, <1>2 DEF SameLocals, ServiceTypeOK
<1>8. OpFrame(t)'
  BY <1>1, <1>2, <1>3 DEF OpFrame, NoHaz, OwnerLabels
<1>9. QueueFrame(t)'
  BY <1>1, <1>2, <1>3 DEF QueueFrame, EnqLabels, ServiceTypeOK, Node
<1>10. FreeFrame(t)'
  BY <1>1, <1>2, <1>3 DEF FreeFrame, InFree, EnqLabels, FreeFunc, NoHaz
<1> QED BY <1>1, <1>4, <1>5, <1>6, <1>7, <1>8, <1>9, <1>10, OtherFrames DEF TypeInv, TypeOK

(* The descriptor taken is the one the hazard pointer guards.              *)
LEMMA DescAllocPopType ==
  ASSUME NEW t \in Thread, TypeInv, DescAllocPop(t)
  PROVE  TypeInv'
<1> USE DEF DescAllocPop, ClearHazard, SetHazard
<1>1. HeapTypeOK /\ ServiceTypeOK /\ ThreadTypeOK /\ OpFrame(t) /\ QueueFrame(t) /\ FreeFrame(t)
  BY DEF TypeInv, TypeOK, Frames
<1>2. /\ pc \in [Thread -> Label] /\ op \in [Thread -> Op] /\ deq \in [Thread -> Deq]
      /\ enq \in [Thread -> Enq] /\ haz \in [Thread -> Haz]
  BY <1>1 DEF ThreadTypeOK
<1>3. /\ hp[t][1] \in Desc
      /\ haz[t] = NoHaz
  BY <1>1 DEF OpFrame, QueueFrame, FreeFrame, InFree, OwnerLabels, EnqLabels, FreeFunc
<1>4. HeapTypeOK'
  BY <1>1 DEF HeapTypeOK
<1>5. ServiceTypeOK'
  <2>1. desc_avail' = desc_avail \/ (desc_avail # <<>> /\ desc_avail' = Tail(desc_avail))
    OBVIOUS
  <2>2. hp' = [hp EXCEPT ![t][1] = NULL]
    OBVIOUS
  <2> HIDE DEF DescAllocPop
  <2>3. desc_avail' \in Seq(Desc)
    <3>1. desc_avail \in Seq(Desc)
      BY <1>1 DEF ServiceTypeOK
    <3>2. desc_avail # <<>> => Tail(desc_avail) \in Seq(Desc)
      BY <3>1
    <3> QED BY <2>1, <3>1, <3>2
  <2>4. hp' \in [Thread -> [{0, 1} -> Node \cup {NULL}]]
    BY <1>1, <2>2 DEF ServiceTypeOK
  <2> USE DEF DescAllocPop
  <2> QED BY <1>1, <2>3, <2>4 DEF ServiceTypeOK
<1>6. ThreadTypeOK'
  <2>1. pc' \in [Thread -> Label]
    BY <1>2, <1>3 DEF Label, FreeFunc
  <2>2. op' \in [Thread -> Op]
    <3>1. \/ op' = op
          \/ \E d \in Desc : op' = [op EXCEPT ![t].desc = d]
      BY <1>3
    <3> HIDE DEF DescAllocPop
    <3> QED BY <1>2, <3>1, OpDesc
  <2>3. deq' \in [Thread -> Deq]
    BY <1>2
  <2>4. enq' \in [Thread -> Enq]
    BY <1>2
  <2>5. haz' \in [Thread -> Haz]
    BY <1>2
  <2> QED BY <1>1, <2>1, <2>2, <2>3, <2>4, <2>5 DEF ThreadTypeOK
<1>7. \A u \in Thread \ {t} : SameLocals(u)
  BY <1>1, <1>2 DEF SameLocals, ServiceTypeOK
<1>8. OpFrame(t)'
  BY <1>1, <1>2, <1>3 DEF OpFrame, NoHaz, OwnerLabels, Op
<1>9. QueueFrame(t)'
  BY <1>1, <1>2, <1>3 DEF QueueFrame, EnqLabels, ServiceTypeOK, Node
<1>10. FreeFrame(t)'
  BY <1>1, <1>2, <1>3 DEF FreeFrame, InFree, EnqLabels, FreeFunc, NoHaz
<1> QED BY <1>1, <1>4, <1>5, <1>6, <1>7, <1>8, <1>9, <1>10, OtherFrames DEF TypeInv, TypeOK

(* A batch has a first descriptor; the others form the available list.     *)
LEMMA DescAllocBatchType ==
  ASSUME NEW t \in Thread, TypeInv, DescAllocBatch(t)
  PROVE  TypeInv'
<1> USE DEF DescAllocBatch
<1>1. HeapTypeOK /\ ServiceTypeOK /\ ThreadTypeOK /\ OpFrame(t) /\ QueueFrame(t) /\ FreeFrame(t)
  BY DEF TypeInv, TypeOK, Frames
<1>2. /\ pc \in [Thread -> Label] /\ op \in [Thread -> Op] /\ deq \in [Thread -> Deq]
      /\ enq \in [Thread -> Enq] /\ haz \in [Thread -> Haz]
  BY <1>1 DEF ThreadTypeOK
<1>3. haz[t] = NoHaz
  BY <1>1 DEF OpFrame, QueueFrame, FreeFrame, InFree, OwnerLabels, EnqLabels, FreeFunc
<1>batch. batches < Len(Batches) => /\ Tail(Batches[batches + 1]) \in Seq(Desc)
                                 /\ Head(Batches[batches + 1]) \in Desc
                                 /\ batches + 1 \in 0 .. Len(Batches)
  BY <1>1, BatchesAssumption DEF HeapTypeOK
<1>4. HeapTypeOK'
  BY <1>1, <1>batch DEF HeapTypeOK
<1>5. ServiceTypeOK'
  BY <1>1, <1>batch DEF ServiceTypeOK
<1>6. ThreadTypeOK'
  <2>1. pc' \in [Thread -> Label]
    BY <1>2, <1>3 DEF Label, FreeFunc
  <2>2. op' \in [Thread -> Op]
    <3>1. \/ op' = op
          \/ \E d \in Desc : op' = [op EXCEPT ![t].desc = d]
      BY <1>batch
    <3> HIDE DEF DescAllocBatch
    <3> QED BY <1>2, <3>1, OpDesc
  <2>3. deq' \in [Thread -> Deq]
    BY <1>2
  <2>4. enq' \in [Thread -> Enq]
    BY <1>2, BatchesAssumption
  <2>5. haz' \in [Thread -> Haz]
    BY <1>2, BatchesAssumption
  <2> QED BY <1>1, <2>1, <2>2, <2>3, <2>4, <2>5 DEF ThreadTypeOK
<1>7. \A u \in Thread \ {t} : SameLocals(u)
  BY <1>1, <1>2 DEF SameLocals, ServiceTypeOK
<1>8. OpFrame(t)'
  BY <1>2, <1>3, <1>batch DEF Op, OpFrame, OwnerLabels, NoHaz
<1>9. QueueFrame(t)'
  BY <1>1, <1>2, <1>3 DEF QueueFrame, EnqLabels, ServiceTypeOK, Node
<1>10. FreeFrame(t)'
  BY <1>1, <1>2, <1>3 DEF FreeFrame, InFree, EnqLabels, FreeFunc, NoHaz
<1> QED BY <1>1, <1>4, <1>5, <1>6, <1>7, <1>8, <1>9, <1>10, OtherFrames DEF TypeInv, TypeOK

(* The links of a fresh superblock are slots; with one slot, 1 would be    *)
(* none.                                                                   *)
LEMMA AllocNewSbType ==
  ASSUME NEW t \in Thread, TypeInv, AllocNewSb(t)
  PROVE  TypeInv'
<1> USE DEF AllocNewSb
<1>1. HeapTypeOK /\ ServiceTypeOK /\ ThreadTypeOK /\ OpFrame(t) /\ QueueFrame(t) /\ FreeFrame(t)
  BY DEF TypeInv, TypeOK, Frames
<1>2. /\ pc \in [Thread -> Label] /\ op \in [Thread -> Op] /\ deq \in [Thread -> Deq]
      /\ enq \in [Thread -> Enq] /\ haz \in [Thread -> Haz]
  BY <1>1 DEF ThreadTypeOK
<1>3. /\ op[t].desc \in Desc
      /\ haz[t] = NoHaz
  BY <1>1 DEF OpFrame, QueueFrame, FreeFrame, InFree, OwnerLabels, EnqLabels, FreeFunc
<1>4. HeapTypeOK'
  <2>1. FreshLinks \in [Slot -> Word]
    BY MaxCountAssumption DEF FreshLinks, Slot, Word
  <2>2. [avail |-> 1, count |-> MaxCount - 1, state |-> "PARTIAL"] \in Anchor
    BY MaxCountAssumption DEF Anchor, Slot, State
  <2>3. anchor' \in [Desc -> Anchor] /\ word' \in [Desc -> [Slot -> Word]]
    BY <1>1, <2>1, <2>2 DEF HeapTypeOK
  <2>4. in_use' \in [Desc -> BOOLEAN] /\ mapped' \in [Desc -> BOOLEAN]
    BY <1>1 DEF HeapTypeOK
  <2> QED BY <1>1, <2>3, <2>4 DEF HeapTypeOK
<1>5. ServiceTypeOK'
  BY <1>1 DEF ServiceTypeOK
<1>6. ThreadTypeOK'
  <2>1. pc' \in [Thread -> Label]
    BY <1>2, <1>3 DEF Label, FreeFunc
  <2>2. op' \in [Thread -> Op]
    BY <1>2, <1>3, MaxCountAssumption DEF Op, Slot
  <2>3. deq' \in [Thread -> Deq]
    BY <1>2
  <2>4. enq' \in [Thread -> Enq]
    BY <1>2
  <2>5. haz' \in [Thread -> Haz]
    BY <1>2
  <2> QED BY <1>1, <2>1, <2>2, <2>3, <2>4, <2>5 DEF ThreadTypeOK
<1>7. \A u \in Thread \ {t} : SameLocals(u)
  BY <1>1, <1>2 DEF SameLocals, ServiceTypeOK
<1>8. OpFrame(t)'
  BY <1>1, <1>2, <1>3, MaxCountAssumption DEF OpFrame, NoHaz, OwnerLabels, Op, Anchor, Slot
<1>9. QueueFrame(t)'
  BY <1>1, <1>2, <1>3 DEF QueueFrame, EnqLabels
<1>10. FreeFrame(t)'
  BY <1>1, <1>2, <1>3 DEF FreeFrame, InFree, EnqLabels, FreeFunc, NoHaz
<1> QED BY <1>1, <1>4, <1>5, <1>6, <1>7, <1>8, <1>9, <1>10, OtherFrames DEF TypeInv, TypeOK

(* A descriptor becomes active, or is emptied and retired.                 *)
LEMMA AllocPublishSbType ==
  ASSUME NEW t \in Thread, TypeInv, AllocPublishSb(t)
  PROVE  TypeInv'
<1>1. /\ Before(t) /\ OpFrame(t) /\ QueueFrame(t) /\ FreeFrame(t)
      /\ active \in Desc \cup {NULL} /\ anchor \in [Desc -> Anchor]
  BY TypeInvBefore
<1>2. pc[t] = "new_publish" /\ op[t].desc \in Desc /\ op[t].slot \in Slot /\ haz[t] = NoHaz
  BY <1>1 DEF AllocPublishSb, OpFrame, OwnerLabels, FreeFrame, InFree, EnqLabels, FreeFunc
<1>3. op \in [Thread -> Op]
  BY <1>1 DEF Before
<1>4. CallsOK(t)
  BY <1>1, <1>2, <1>3, OpReset, DescRetireCalls DEF HazReturn, CallsOK, Before, OpFrame, QueueFrame,
    FreeFrame, InFree, OwnerLabels, EnqLabels, FreeFunc, NoHaz, Label, AllocPublishSb
<1>5. active' \in Desc \cup {NULL} /\ anchor' \in [Desc -> Anchor]
  BY <1>1, <1>2 DEF AllocPublishSb, Anchor, State
<1> QED BY <1>4, <1>5, CallsType, TypeInvBefore DEF AllocPublishSb

-----------------------------------------------------------------------------
(* mono_lock_free_free.                                                    *)

(* The object freed has been live.                                         *)
LEMMA FreeBeginType ==
  ASSUME NEW t \in Thread, TypeInv, FreeBegin(t)
  PROVE  TypeInv'
<1> USE DEF FreeBegin
<1>1. HeapTypeOK /\ ServiceTypeOK /\ ThreadTypeOK /\ OpFrame(t) /\ QueueFrame(t) /\ FreeFrame(t)
  BY DEF TypeInv, TypeOK, Frames
<1>2. /\ pc \in [Thread -> Label] /\ op \in [Thread -> Op] /\ deq \in [Thread -> Deq]
      /\ enq \in [Thread -> Enq] /\ haz \in [Thread -> Haz]
  BY <1>1 DEF ThreadTypeOK
<1>3. haz[t] = NoHaz
  BY <1>1 DEF OpFrame, QueueFrame, FreeFrame, InFree, OwnerLabels, EnqLabels, FreeFunc
<1>4. HeapTypeOK'
  BY <1>1, <1>2, <1>3 DEF HeapTypeOK, Anchor, State, Word, Slot, Object
<1>5. ServiceTypeOK'
  BY <1>1 DEF ServiceTypeOK
<1>6. ThreadTypeOK'
  <2>1. pc' \in [Thread -> Label]
    BY <1>2, <1>3 DEF Label, FreeFunc
  <2>2. op' \in [Thread -> Op]
    <3>1. PICK o \in live : op' = [op EXCEPT ![t].desc = o[1], ![t].slot = o[2]]
      OBVIOUS
    <3>2. o[1] \in Desc /\ o[2] \in Slot
      BY <1>1 DEF HeapTypeOK, Object
    <3> HIDE DEF FreeBegin
    <3> QED BY <1>2, <3>1, <3>2, OpDescSlot
  <2>3. deq' \in [Thread -> Deq]
    BY <1>2
  <2>4. enq' \in [Thread -> Enq]
    BY <1>2
  <2>5. haz' \in [Thread -> Haz]
    BY <1>2
  <2> QED BY <1>1, <2>1, <2>2, <2>3, <2>4, <2>5 DEF ThreadTypeOK
<1>7. \A u \in Thread \ {t} : SameLocals(u)
  BY <1>1, <1>2 DEF SameLocals, ServiceTypeOK
<1>8. OpFrame(t)'
  BY <1>1, <1>2, <1>3 DEF OpFrame, NoHaz, OwnerLabels, HeapTypeOK, Object, Op
<1>9. QueueFrame(t)'
  BY <1>1, <1>2, <1>3 DEF QueueFrame, EnqLabels
<1>10. FreeFrame(t)'
  BY <1>1, <1>2, <1>3 DEF FreeFrame, InFree, EnqLabels, FreeFunc, NoHaz
<1> QED BY <1>1, <1>4, <1>5, <1>6, <1>7, <1>8, <1>9, <1>10, OtherFrames DEF TypeInv, TypeOK

(* The freed slot links to the avail of an anchor.                         *)
LEMMA FreeReadAnchorType ==
  ASSUME NEW t \in Thread, TypeInv, FreeReadAnchor(t)
  PROVE  TypeInv'
<1> USE DEF FreeReadAnchor
<1>1. HeapTypeOK /\ ServiceTypeOK /\ ThreadTypeOK /\ OpFrame(t) /\ QueueFrame(t) /\ FreeFrame(t)
  BY DEF TypeInv, TypeOK, Frames
<1>2. /\ pc \in [Thread -> Label] /\ op \in [Thread -> Op] /\ deq \in [Thread -> Deq]
      /\ enq \in [Thread -> Enq] /\ haz \in [Thread -> Haz]
  BY <1>1 DEF ThreadTypeOK
<1>3. /\ op[t].desc \in Desc
      /\ op[t].slot \in Slot
      /\ haz[t] = NoHaz
  BY <1>1 DEF OpFrame, QueueFrame, FreeFrame, InFree, OwnerLabels, EnqLabels, FreeFunc
<1>4. HeapTypeOK'
  BY <1>1, <1>2, <1>3 DEF HeapTypeOK, Anchor, State, Word, Slot, Object
<1>5. ServiceTypeOK'
  BY <1>1 DEF ServiceTypeOK
<1>6. ThreadTypeOK'
  <2>1. pc' \in [Thread -> Label]
    BY <1>2, <1>3 DEF Label, FreeFunc
  <2>2. op' \in [Thread -> Op]
    BY <1>1, <1>2, <1>3 DEF Op, HeapTypeOK
  <2>3. deq' \in [Thread -> Deq]
    BY <1>2
  <2>4. enq' \in [Thread -> Enq]
    BY <1>2
  <2>5. haz' \in [Thread -> Haz]
    BY <1>2
  <2> QED BY <1>1, <2>1, <2>2, <2>3, <2>4, <2>5 DEF ThreadTypeOK
<1>7. \A u \in Thread \ {t} : SameLocals(u)
  BY <1>1, <1>2 DEF SameLocals, ServiceTypeOK
<1>8. OpFrame(t)'
  BY <1>1, <1>2, <1>3 DEF OpFrame, NoHaz, OwnerLabels, HeapTypeOK, Object, Op
<1>9. QueueFrame(t)'
  BY <1>1, <1>2, <1>3 DEF QueueFrame, EnqLabels
<1>10. FreeFrame(t)'
  BY <1>1, <1>2, <1>3 DEF FreeFrame, InFree, EnqLabels, FreeFunc, NoHaz
<1> QED BY <1>1, <1>4, <1>5, <1>6, <1>7, <1>8, <1>9, <1>10, OtherFrames DEF TypeInv, TypeOK

(* The new anchor starts at the freed slot.                                *)
LEMMA FreeSetAnchorType ==
  ASSUME NEW t \in Thread, TypeInv, FreeSetAnchor(t)
  PROVE  TypeInv'
<1> USE DEF FreeSetAnchor, SetAnchorSucceeds, FreedAnchor, NoOp
<1>1. HeapTypeOK /\ ServiceTypeOK /\ ThreadTypeOK /\ OpFrame(t) /\ QueueFrame(t) /\ FreeFrame(t)
  BY DEF TypeInv, TypeOK, Frames
<1>2. /\ pc \in [Thread -> Label] /\ op \in [Thread -> Op] /\ deq \in [Thread -> Deq]
      /\ enq \in [Thread -> Enq] /\ haz \in [Thread -> Haz]
  BY <1>1 DEF ThreadTypeOK
<1>3. /\ op[t].desc \in Desc
      /\ op[t].slot \in Slot
      /\ op[t].old \in Anchor
      /\ haz[t] = NoHaz
  BY <1>1 DEF OpFrame, QueueFrame, FreeFrame, InFree, OwnerLabels, EnqLabels, FreeFunc
<1>4. HeapTypeOK'
  <2>1. FreedAnchor(op[t].old, op[t].slot) \in Anchor
    BY <1>3 DEF FreedAnchor, Anchor, State
  <2>2. anchor' \in [Desc -> Anchor]
    BY <1>1, <1>3, <2>1 DEF HeapTypeOK
  <2> QED BY <1>1, <2>2 DEF HeapTypeOK
<1>5. ServiceTypeOK'
  BY <1>1 DEF ServiceTypeOK
<1>6. ThreadTypeOK'
  <2>1. pc' \in [Thread -> Label]
    BY <1>2, <1>3 DEF Label, FreeFunc
  <2>2. op' \in [Thread -> Op]
    BY <1>2, <1>3 DEF Op
  <2>3. deq' \in [Thread -> Deq]
    BY <1>2
  <2>4. enq' \in [Thread -> Enq]
    BY <1>2
  <2>5. haz' \in [Thread -> Haz]
    BY <1>2
  <2> QED BY <1>1, <2>1, <2>2, <2>3, <2>4, <2>5 DEF ThreadTypeOK
<1>7. \A u \in Thread \ {t} : SameLocals(u)
  BY <1>1, <1>2 DEF SameLocals, ServiceTypeOK
<1>8. OpFrame(t)'
  <2>1. \/ op'[t] = [op[t] EXCEPT !.old = NULL] /\ pc'[t] = "free_read"
        \/ /\ op'[t] = [NoOp EXCEPT !.desc = op[t].desc]
           /\ pc'[t] \in {"free_steal", "free_giveback"}
        \/ op'[t] = NoOp /\ pc'[t] = "idle"
    BY <1>2
  <2> QED BY <1>2, <1>3, <2>1 DEF OpFrame, OwnerLabels, NoHaz, Op, NoOp
<1>9. QueueFrame(t)'
  BY <1>1, <1>2, <1>3 DEF QueueFrame, EnqLabels
<1>10. FreeFrame(t)'
  BY <1>1, <1>2, <1>3 DEF FreeFrame, InFree, EnqLabels, FreeFunc, NoHaz
<1> QED BY <1>1, <1>4, <1>5, <1>6, <1>7, <1>8, <1>9, <1>10, OtherFrames DEF TypeInv, TypeOK

(* The locals keep the descriptor taken out of heap->active.               *)
LEMMA FreeStealType ==
  ASSUME NEW t \in Thread, TypeInv, FreeSteal(t)
  PROVE  TypeInv'
<1> USE DEF FreeSteal, ActiveIs, CallDequeue, NoOp
<1>1. HeapTypeOK /\ ServiceTypeOK /\ ThreadTypeOK /\ OpFrame(t) /\ QueueFrame(t) /\ FreeFrame(t)
  BY DEF TypeInv, TypeOK, Frames
<1>2. /\ pc \in [Thread -> Label] /\ op \in [Thread -> Op] /\ deq \in [Thread -> Deq]
      /\ enq \in [Thread -> Enq] /\ haz \in [Thread -> Haz]
  BY <1>1 DEF ThreadTypeOK
<1>3. /\ op[t].desc \in Desc
      /\ haz[t] = NoHaz
  BY <1>1 DEF OpFrame, QueueFrame, FreeFrame, InFree, OwnerLabels, EnqLabels, FreeFunc
<1>4. HeapTypeOK'
  BY <1>1, <1>2, <1>3 DEF HeapTypeOK, Anchor, State, Word, Slot, Object
<1>5. ServiceTypeOK'
  BY <1>1 DEF ServiceTypeOK
<1>6. ThreadTypeOK'
  <2>1. pc' \in [Thread -> Label]
    BY <1>2, <1>3 DEF Label, FreeFunc
  <2>2. op' \in [Thread -> Op]
    BY <1>2, <1>3 DEF Op
  <2>3. deq' \in [Thread -> Deq]
    BY <1>2, <1>3 DEF Deq, Node
  <2>4. enq' \in [Thread -> Enq]
    BY <1>2
  <2>5. haz' \in [Thread -> Haz]
    BY <1>2
  <2> QED BY <1>1, <2>1, <2>2, <2>3, <2>4, <2>5 DEF ThreadTypeOK
<1>7. \A u \in Thread \ {t} : SameLocals(u)
  BY <1>1, <1>2 DEF SameLocals, ServiceTypeOK
<1>8. OpFrame(t)'
  BY <1>1, <1>2, <1>3 DEF OpFrame, NoHaz, OwnerLabels, Op
<1>9. QueueFrame(t)'
  BY <1>1, <1>2, <1>3 DEF QueueFrame, EnqLabels, Deq
<1>10. FreeFrame(t)'
  BY <1>1, <1>2, <1>3 DEF FreeFrame, InFree, EnqLabels, FreeFunc, NoHaz
<1> QED BY <1>1, <1>4, <1>5, <1>6, <1>7, <1>8, <1>9, <1>10, OtherFrames DEF TypeInv, TypeOK

(* The descriptor is retired, or the program stops.                        *)
LEMMA FreeRetireType ==
  ASSUME NEW t \in Thread, TypeInv, FreeRetire(t)
  PROVE  TypeInv'
<1>1. Before(t) /\ OpFrame(t) /\ QueueFrame(t) /\ FreeFrame(t)
  BY TypeInvBefore
<1>2. pc[t] = "free_retire" /\ op[t].desc \in Desc
  BY <1>1 DEF FreeRetire, OpFrame, OwnerLabels
<1>3. op \in [Thread -> Op]
  BY <1>1 DEF Before
<1>4. CallsOK(t)
  BY <1>1, <1>2, <1>3, OpReset, DescRetireCalls DEF HazReturn, CallsOK, Before, OpFrame, QueueFrame,
    FreeFrame, InFree, EnqLabels, FreeFunc, OwnerLabels, FreeRetire
<1> QED BY <1>4, CallsType, TypeInvBefore DEF FreeRetire

(* As in AllocGiveBack, with nothing to return.                            *)
LEMMA FreeGiveBackType ==
  ASSUME NEW t \in Thread, TypeInv, FreeGiveBack(t)
  PROVE  TypeInv'
<1>1. Before(t) /\ OpFrame(t) /\ QueueFrame(t) /\ FreeFrame(t) /\ active \in Desc \cup {NULL}
  BY TypeInvBefore
<1>2. pc[t] = "free_giveback" /\ op[t].desc \in Desc /\ haz[t] = NoHaz
  BY <1>1 DEF FreeGiveBack, OpFrame, OwnerLabels, FreeFrame, InFree, EnqLabels, FreeFunc
<1>3. op' \in [Thread -> Op] /\ \A u \in Thread \ {t} : op'[u] = op[u]
  BY <1>1, OpReset DEF Before, FreeGiveBack
<1>4. CallsOK(t)
  <2>1. CASE FreeOrQueue(t, op[t].desc, "desc_put_partial", "idle")
    BY <1>1, <1>2, <1>3, <2>1, DescItem, FreeOrQueueCalls DEF HazReturn, Before, FreeGiveBack
  <2>2. CASE pc' = [pc EXCEPT ![t] = "idle"] /\ UNCHANGED <<haz, aborted>>
    BY <1>1, <1>2, <1>3, <2>2 DEF FreeGiveBack, CallsOK, Before, OpFrame, QueueFrame, FreeFrame,
       InFree, OwnerLabels, EnqLabels, FreeFunc, NoHaz, Label
  <2> QED BY <2>1, <2>2 DEF FreeGiveBack, ListPutPartial
<1>5. active' \in Desc \cup {NULL}
  BY <1>1, <1>2 DEF FreeGiveBack
<1> QED BY <1>4, <1>5, CallsType, TypeInvBefore DEF FreeGiveBack

(* list_remove_empty_desc gets descriptors only, and retires or puts them  *)
(* back.                                                                   *)
LEMMA RemoveEmptyGotType ==
  ASSUME NEW t \in Thread, TypeInv, RemoveEmptyGot(t)
  PROVE  TypeInv'
<1>1. Before(t) /\ OpFrame(t) /\ QueueFrame(t) /\ FreeFrame(t)
  BY TypeInvBefore
<1>2. pc[t] = "rm_got" /\ deq[t].res \in Desc \cup {NULL} /\ haz[t] = NoHaz
  BY <1>1 DEF RemoveEmptyGot, QueueFrame, FreeFrame, InFree, EnqLabels, FreeFunc
<1>3. op' \in [Thread -> Op] /\ \A u \in Thread \ {t} : op'[u] = op[u]
  BY <1>1, OpReset DEF RemoveEmptyGot, Before
<1>4. CallsOK(t)
  <2>1. CASE pc' = [pc EXCEPT ![t] = "idle"] /\ UNCHANGED <<haz, in_use, mapped, aborted>>
    BY <1>1, <1>2, <1>3, <2>1 DEF CallsOK, Before, OpFrame, QueueFrame, FreeFrame, InFree,
       OwnerLabels, EnqLabels, FreeFunc, NoHaz, Label
  <2>2. CASE DescRetire(t, deq[t].res, "rm_again") /\ deq[t].res \in Desc
    BY <1>1, <1>3, <2>2, DescRetireCalls DEF HazReturn
  <2>3. CASE /\ FreeOrQueue(t, deq[t].res, "desc_put_partial", "rm_again")
             /\ deq[t].res \in Desc
             /\ UNCHANGED <<in_use, mapped>>
    BY <1>1, <1>3, <2>3, DescItem, FreeOrQueueCalls DEF HazReturn, Before
  <2> QED BY <1>2, <2>1, <2>2, <2>3 DEF RemoveEmptyGot, ListPutPartial
<1>5. deq' \in [Thread -> Deq] /\ \A u \in Thread \ {t} : deq'[u] = deq[u]
  BY TypeInvBefore DEF RemoveEmptyGot, NoDeq, Deq
<1> QED BY <1>4, <1>5, CallsType, TypeInvBefore DEF RemoveEmptyGot

(* The dequeue is called again, or the locals are reset.                   *)
LEMMA RemoveEmptyAgainType ==
  ASSUME NEW t \in Thread, TypeInv, RemoveEmptyAgain(t)
  PROVE  TypeInv'
<1> USE DEF RemoveEmptyAgain, CallDequeue, NoOp
<1>1. HeapTypeOK /\ ServiceTypeOK /\ ThreadTypeOK /\ OpFrame(t) /\ QueueFrame(t) /\ FreeFrame(t)
  BY DEF TypeInv, TypeOK, Frames
<1>2. /\ pc \in [Thread -> Label] /\ op \in [Thread -> Op] /\ deq \in [Thread -> Deq]
      /\ enq \in [Thread -> Enq] /\ haz \in [Thread -> Haz]
  BY <1>1 DEF ThreadTypeOK
<1>3. haz[t] = NoHaz
  BY <1>1 DEF OpFrame, QueueFrame, FreeFrame, InFree, OwnerLabels, EnqLabels, FreeFunc
<1>4. HeapTypeOK'
  BY <1>1 DEF HeapTypeOK
<1>5. ServiceTypeOK'
  BY <1>1 DEF ServiceTypeOK
<1>6. ThreadTypeOK'
  <2>1. pc' \in [Thread -> Label]
    BY <1>2, <1>3 DEF Label, FreeFunc
  <2>2. op' \in [Thread -> Op]
    BY <1>2, <1>3 DEF Op
  <2>3. deq' \in [Thread -> Deq]
    BY <1>2, <1>3 DEF Deq, Node
  <2>4. enq' \in [Thread -> Enq]
    BY <1>2
  <2>5. haz' \in [Thread -> Haz]
    BY <1>2
  <2> QED BY <1>1, <2>1, <2>2, <2>3, <2>4, <2>5 DEF ThreadTypeOK
<1>7. \A u \in Thread \ {t} : SameLocals(u)
  BY <1>1, <1>2 DEF SameLocals, ServiceTypeOK
<1>8. OpFrame(t)'
  BY <1>1, <1>2, <1>3 DEF OpFrame, NoHaz, OwnerLabels, Op
<1>9. QueueFrame(t)'
  BY <1>1, <1>2, <1>3 DEF QueueFrame, EnqLabels, Deq
<1>10. FreeFrame(t)'
  BY <1>1, <1>2, <1>3 DEF FreeFrame, InFree, EnqLabels, FreeFunc, NoHaz
<1> QED BY <1>1, <1>4, <1>5, <1>6, <1>7, <1>8, <1>9, <1>10, OtherFrames DEF TypeInv, TypeOK

-----------------------------------------------------------------------------
(* The partial queue.                                                      *)

(* The queue is not empty: its head is a node.                             *)
LEMMA DequeueReadHeadType ==
  ASSUME NEW t \in Thread, TypeInv, DequeueReadHead(t)
  PROVE  TypeInv'
<1> USE DEF DequeueReadHead, SetHazard
<1>1. HeapTypeOK /\ ServiceTypeOK /\ ThreadTypeOK /\ OpFrame(t) /\ QueueFrame(t) /\ FreeFrame(t)
  BY DEF TypeInv, TypeOK, Frames
<1>2. /\ pc \in [Thread -> Label] /\ op \in [Thread -> Op] /\ deq \in [Thread -> Deq]
      /\ enq \in [Thread -> Enq] /\ haz \in [Thread -> Haz]
  BY <1>1 DEF ThreadTypeOK
<1>3. haz[t] = NoHaz
  BY <1>1 DEF OpFrame, QueueFrame, FreeFrame, InFree, OwnerLabels, EnqLabels, FreeFunc
<1>4. HeapTypeOK'
  BY <1>1 DEF HeapTypeOK
<1>5. ServiceTypeOK'
  BY <1>1, <1>2, <1>3 DEF ServiceTypeOK, Node, Item
<1>6. ThreadTypeOK'
  BY <1>1, <1>2, <1>3 DEF Label, FreeFunc, ThreadTypeOK
<1>7. \A u \in Thread \ {t} : SameLocals(u)
  BY <1>1, <1>2 DEF SameLocals, ServiceTypeOK
<1>8. OpFrame(t)'
  BY <1>1, <1>2, <1>3 DEF OpFrame, NoHaz, OwnerLabels
<1>9. QueueFrame(t)'
  BY <1>1, <1>2, <1>3 DEF QueueFrame, EnqLabels, ServiceTypeOK, Node
<1>10. FreeFrame(t)'
  BY <1>1, <1>2, <1>3 DEF FreeFrame, InFree, EnqLabels, FreeFunc, NoHaz
<1> QED BY <1>1, <1>4, <1>5, <1>6, <1>7, <1>8, <1>9, <1>10, OtherFrames DEF TypeInv, TypeOK

(* The last node stays, so the tail of the queue is not empty; callers get *)
(* a descriptor.                                                           *)
LEMMA DequeueTryType ==
  ASSUME NEW t \in Thread, TypeInv, DequeueTry(t)
  PROVE  TypeInv'
<1> USE DEF DequeueTry, DequeueReturn, ClearHazard, SetHazard
<1>1. HeapTypeOK /\ ServiceTypeOK /\ ThreadTypeOK /\ OpFrame(t) /\ QueueFrame(t) /\ FreeFrame(t)
  BY DEF TypeInv, TypeOK, Frames
<1>2. /\ pc \in [Thread -> Label] /\ op \in [Thread -> Op] /\ deq \in [Thread -> Deq]
      /\ enq \in [Thread -> Enq] /\ haz \in [Thread -> Haz]
  BY <1>1 DEF ThreadTypeOK
<1>3. /\ hp[t][0] \in Node
      /\ haz[t] = NoHaz
  BY <1>1 DEF OpFrame, QueueFrame, FreeFrame, InFree, OwnerLabels, EnqLabels, FreeFunc
<1>4. HeapTypeOK'
  BY <1>1 DEF HeapTypeOK
<1>5. ServiceTypeOK'
  <2>1. queue' \in Seq(Node) /\ queue' # <<>>
    <3>1. queue \in Seq(Node) /\ queue # <<>>
      BY <1>1 DEF ServiceTypeOK
    <3>2. ~AtLastNode => Tail(queue) \in Seq(Node) /\ Tail(queue) # <<>>
      BY <3>1, TailNotEmpty DEF AtLastNode
    <3> QED BY <3>1, <3>2
  <2>2. next' \in [Node -> {"NULL", "INVALID", "FREE", "LINKED"}]
    BY <1>1 DEF ServiceTypeOK
  <2>3. hp' \in [Thread -> [{0, 1} -> Node \cup {NULL}]]
    BY <1>1 DEF ServiceTypeOK
  <2> QED BY <1>1, <2>1, <2>2, <2>3 DEF ServiceTypeOK
<1>6. ThreadTypeOK'
  BY <1>1, <1>2, <1>3 DEF Label, FreeFunc, Deq, Node, ThreadTypeOK
<1>7. \A u \in Thread \ {t} : SameLocals(u)
  BY <1>1, <1>2 DEF SameLocals, ServiceTypeOK
<1>8. OpFrame(t)'
  BY <1>1, <1>2, <1>3 DEF OpFrame, NoHaz, OwnerLabels, Deq
<1>9. QueueFrame(t)'
  BY <1>2, <1>3 DEF Deq, Node, QueueFrame, EnqLabels
<1>10. FreeFrame(t)'
  BY <1>1, <1>2, <1>3 DEF FreeFrame, InFree, EnqLabels, FreeFunc, NoHaz, Deq
<1> QED BY <1>1, <1>4, <1>5, <1>6, <1>7, <1>8, <1>9, <1>10, OtherFrames DEF TypeInv, TypeOK

(* The node that came out is a dummy, and goes to free_dummy.              *)
LEMMA DequeueDummyType ==
  ASSUME NEW t \in Thread, TypeInv, DequeueDummy(t)
  PROVE  TypeInv'
<1>1. HeapTypeOK /\ ServiceTypeOK /\ ThreadTypeOK /\ Frames
  BY DEF TypeInv, TypeOK
<1>2. /\ Before(t) /\ deq \in [Thread -> Deq]
      /\ OpFrame(t) /\ QueueFrame(t) /\ FreeFrame(t)
  BY TypeInvBefore
<1>3. pc[t] = "deq_dummy" /\ deq[t].res \in Dummy
  BY <1>2 DEF DequeueDummy, QueueFrame
<1>4. [p |-> deq[t].res, fn |-> "free_dummy"] \in Item
  BY <1>3 DEF Item
<1>5. /\ FreeOrQueue(t, deq[t].res, "free_dummy", "reenq_pick") /\ op' = op
      /\ in_use' = in_use /\ mapped' = mapped
  BY DEF DequeueDummy
<1>6. CallsOK(t)
  BY <1>2, <1>4, <1>5, FreeOrQueueCalls DEF HazReturn, Before
<1>7. deq' \in [Thread -> Deq] /\ \A u \in Thread \ {t} : deq'[u] = deq[u]
  BY <1>2 DEF DequeueDummy, Deq
<1>8. HeapTypeOK' /\ ServiceTypeOK'
  BY <1>1 DEF DequeueDummy, HeapTypeOK, ServiceTypeOK
<1>9. ThreadTypeOK'
  BY <1>1, <1>6, <1>7 DEF DequeueDummy, ThreadTypeOK, CallsOK
<1>10. \A u \in Thread \ {t} : SameLocals(u)
  BY <1>6, <1>7 DEF DequeueDummy, SameLocals, CallsOK
<1> QED BY <1>1, <1>6, <1>8, <1>9, <1>10, OtherFrames DEF CallsOK, TypeInv, TypeOK

(* get_dummy finds a dummy, or the dequeue returns NULL.                   *)
LEMMA ReenqueuePickDummyType ==
  ASSUME NEW t \in Thread, TypeInv, ReenqueuePickDummy(t)
  PROVE  TypeInv'
<1> USE DEF ReenqueuePickDummy, NoDummyToEnqueue, DequeueReturn
<1>1. HeapTypeOK /\ ServiceTypeOK /\ ThreadTypeOK /\ OpFrame(t) /\ QueueFrame(t) /\ FreeFrame(t)
  BY DEF TypeInv, TypeOK, Frames
<1>2. /\ pc \in [Thread -> Label] /\ op \in [Thread -> Op] /\ deq \in [Thread -> Deq]
      /\ enq \in [Thread -> Enq] /\ haz \in [Thread -> Haz]
  BY <1>1 DEF ThreadTypeOK
<1>3. haz[t] = NoHaz
  BY <1>1 DEF OpFrame, QueueFrame, FreeFrame, InFree, OwnerLabels, EnqLabels, FreeFunc
<1>4. HeapTypeOK'
  BY <1>1 DEF HeapTypeOK
<1>5. ServiceTypeOK'
  BY <1>1, <1>2, <1>3 DEF ServiceTypeOK, Node, Item
<1>6. ThreadTypeOK'
  BY <1>1, <1>2, <1>3 DEF Label, FreeFunc, Deq, Node, ThreadTypeOK
<1>7. \A u \in Thread \ {t} : SameLocals(u)
  BY <1>1, <1>2 DEF SameLocals, ServiceTypeOK
<1>8. OpFrame(t)'
  BY <1>1, <1>2, <1>3 DEF OpFrame, NoHaz, OwnerLabels, Deq
<1>9. QueueFrame(t)'
  BY <1>1, <1>2, <1>3 DEF QueueFrame, EnqLabels, ServiceTypeOK, Node, Deq
<1>10. FreeFrame(t)'
  BY <1>1, <1>2, <1>3 DEF FreeFrame, InFree, EnqLabels, FreeFunc, NoHaz, Deq
<1> QED BY <1>1, <1>4, <1>5, <1>6, <1>7, <1>8, <1>9, <1>10, OtherFrames DEF TypeInv, TypeOK

(* The dummy is enqueued, or given up.                                     *)
LEMMA ReenqueueClaimType ==
  ASSUME NEW t \in Thread, TypeInv, ReenqueueClaim(t)
  PROVE  TypeInv'
<1> USE DEF ReenqueueClaim, ClaimsDummy, NoDummyToEnqueue, DequeueReturn, CallEnqueue
<1>1. HeapTypeOK /\ ServiceTypeOK /\ ThreadTypeOK /\ OpFrame(t) /\ QueueFrame(t) /\ FreeFrame(t)
  BY DEF TypeInv, TypeOK, Frames
<1>2. /\ pc \in [Thread -> Label] /\ op \in [Thread -> Op] /\ deq \in [Thread -> Deq]
      /\ enq \in [Thread -> Enq] /\ haz \in [Thread -> Haz]
  BY <1>1 DEF ThreadTypeOK
<1>3. /\ deq[t].res \in Dummy
      /\ haz[t] = NoHaz
  BY <1>1 DEF OpFrame, QueueFrame, FreeFrame, InFree, OwnerLabels, EnqLabels, FreeFunc
<1>4. HeapTypeOK'
  BY <1>1 DEF HeapTypeOK
<1>5. ServiceTypeOK'
  BY <1>1, <1>2, <1>3 DEF ServiceTypeOK, Node, Item
<1>6. ThreadTypeOK'
  <2>1. pc' \in [Thread -> Label]
    BY <1>2, <1>3 DEF Label, FreeFunc, Deq
  <2>2. op' \in [Thread -> Op]
    BY <1>2
  <2>3. deq' \in [Thread -> Deq]
    BY <1>2, <1>3 DEF Deq, Node
  <2>4. enq' \in [Thread -> Enq]
    BY <1>2, <1>3 DEF Enq, Node
  <2>5. haz' \in [Thread -> Haz]
    BY <1>2
  <2> QED BY <1>1, <2>1, <2>2, <2>3, <2>4, <2>5 DEF ThreadTypeOK
<1>7. \A u \in Thread \ {t} : SameLocals(u)
  BY <1>1, <1>2 DEF SameLocals, ServiceTypeOK
<1>8. OpFrame(t)'
  BY <1>1, <1>2, <1>3 DEF OpFrame, NoHaz, OwnerLabels, Deq
<1>9. QueueFrame(t)'
  BY <1>1, <1>2, <1>3 DEF QueueFrame, EnqLabels, ServiceTypeOK, Node, Deq, Enq
<1>10. FreeFrame(t)'
  BY <1>1, <1>2, <1>3 DEF FreeFrame, InFree, EnqLabels, FreeFunc, NoHaz, Deq, Enq
<1> QED BY <1>1, <1>4, <1>5, <1>6, <1>7, <1>8, <1>9, <1>10, OtherFrames DEF TypeInv, TypeOK

(* The node enqueued is a node.                                            *)
LEMMA EnqueueStartType ==
  ASSUME NEW t \in Thread, TypeInv, EnqueueStart(t)
  PROVE  TypeInv'
<1> USE DEF EnqueueStart
<1>1. HeapTypeOK /\ ServiceTypeOK /\ ThreadTypeOK /\ OpFrame(t) /\ QueueFrame(t) /\ FreeFrame(t)
  BY DEF TypeInv, TypeOK, Frames
<1>2. /\ pc \in [Thread -> Label] /\ op \in [Thread -> Op] /\ deq \in [Thread -> Deq]
      /\ enq \in [Thread -> Enq] /\ haz \in [Thread -> Haz]
  BY <1>1 DEF ThreadTypeOK
<1>3. enq[t].node \in Node
  BY <1>1 DEF OpFrame, QueueFrame, FreeFrame, InFree, OwnerLabels, EnqLabels, FreeFunc
<1>4. HeapTypeOK'
  BY <1>1 DEF HeapTypeOK
<1>5. ServiceTypeOK'
  BY <1>1, <1>2, <1>3 DEF ServiceTypeOK, Node, Item
<1>6. ThreadTypeOK'
  BY <1>1, <1>2, <1>3 DEF Label, FreeFunc, ThreadTypeOK
<1>7. \A u \in Thread \ {t} : SameLocals(u)
  BY <1>1, <1>2 DEF SameLocals, ServiceTypeOK
<1>8. OpFrame(t)'
  BY <1>1, <1>2, <1>3 DEF OpFrame, NoHaz, OwnerLabels
<1>9. QueueFrame(t)'
  BY <1>1, <1>2, <1>3 DEF QueueFrame, EnqLabels, ServiceTypeOK, Node
<1>10. FreeFrame(t)'
  BY <1>1, <1>2, <1>3 DEF FreeFrame, InFree, EnqLabels, FreeFunc, NoHaz
<1> QED BY <1>1, <1>4, <1>5, <1>6, <1>7, <1>8, <1>9, <1>10, OtherFrames DEF TypeInv, TypeOK

(* The queue is not empty: its last element is a node.                     *)
LEMMA EnqueueReadTailType ==
  ASSUME NEW t \in Thread, TypeInv, EnqueueReadTail(t)
  PROVE  TypeInv'
<1> USE DEF EnqueueReadTail, SetHazard
<1>1. HeapTypeOK /\ ServiceTypeOK /\ ThreadTypeOK /\ OpFrame(t) /\ QueueFrame(t) /\ FreeFrame(t)
  BY DEF TypeInv, TypeOK, Frames
<1>2. /\ pc \in [Thread -> Label] /\ op \in [Thread -> Op] /\ deq \in [Thread -> Deq]
      /\ enq \in [Thread -> Enq] /\ haz \in [Thread -> Haz]
  BY <1>1 DEF ThreadTypeOK
<1>3. enq[t].node \in Node
  BY <1>1 DEF OpFrame, QueueFrame, FreeFrame, InFree, OwnerLabels, EnqLabels, FreeFunc
<1>4. HeapTypeOK'
  BY <1>1 DEF HeapTypeOK
<1>5. ServiceTypeOK'
  BY <1>1, <1>2, <1>3 DEF ServiceTypeOK, Node, Item
<1>6. ThreadTypeOK'
  BY <1>1, <1>2, <1>3 DEF Label, FreeFunc, ThreadTypeOK
<1>7. \A u \in Thread \ {t} : SameLocals(u)
  BY <1>1, <1>2 DEF SameLocals, ServiceTypeOK
<1>8. OpFrame(t)'
  BY <1>1, <1>2, <1>3 DEF OpFrame, NoHaz, OwnerLabels
<1>9. QueueFrame(t)'
  BY <1>1, <1>2, <1>3 DEF QueueFrame, EnqLabels, ServiceTypeOK, Node
<1>10. FreeFrame(t)'
  BY <1>1, <1>2, <1>3 DEF FreeFrame, InFree, EnqLabels, FreeFunc, NoHaz
<1> QED BY <1>1, <1>4, <1>5, <1>6, <1>7, <1>8, <1>9, <1>10, OtherFrames DEF TypeInv, TypeOK

(* A node is appended.                                                     *)
LEMMA EnqueueLinkType ==
  ASSUME NEW t \in Thread, TypeInv, EnqueueLink(t)
  PROVE  TypeInv'
<1> USE DEF EnqueueLink, ClearHazard, SetHazard
<1>1. HeapTypeOK /\ ServiceTypeOK /\ ThreadTypeOK /\ OpFrame(t) /\ QueueFrame(t) /\ FreeFrame(t)
  BY DEF TypeInv, TypeOK, Frames
<1>2. /\ pc \in [Thread -> Label] /\ op \in [Thread -> Op] /\ deq \in [Thread -> Deq]
      /\ enq \in [Thread -> Enq] /\ haz \in [Thread -> Haz]
  BY <1>1 DEF ThreadTypeOK
<1>3. /\ enq[t].node \in Node
      /\ hp[t][0] \in Node
  BY <1>1 DEF OpFrame, QueueFrame, FreeFrame, InFree, OwnerLabels, EnqLabels, FreeFunc
<1>4. HeapTypeOK'
  BY <1>1 DEF HeapTypeOK
<1>5. ServiceTypeOK'
  <2>1. queue' \in Seq(Node) /\ queue' # <<>>
    <3>1. queue \in Seq(Node) /\ queue # <<>>
      BY <1>1 DEF ServiceTypeOK
    <3>2. Append(queue, enq[t].node) \in Seq(Node) /\ Append(queue, enq[t].node) # <<>>
      BY <1>3, <3>1
    <3> QED BY <3>1, <3>2
  <2>2. hp' \in [Thread -> [{0, 1} -> Node \cup {NULL}]]
    BY <1>1 DEF ServiceTypeOK
  <2> QED BY <1>1, <2>1, <2>2 DEF ServiceTypeOK
<1>6. ThreadTypeOK'
  BY <1>1, <1>2, <1>3 DEF Label, FreeFunc, Enq, Node, NoEnq, ThreadTypeOK
<1>7. \A u \in Thread \ {t} : SameLocals(u)
  BY <1>1, <1>2 DEF SameLocals, ServiceTypeOK
<1>8. OpFrame(t)'
  BY <1>1, <1>2, <1>3 DEF OpFrame, NoHaz, OwnerLabels, Enq, EnqLabels, FreeFrame, InFree
<1>9. QueueFrame(t)'
  BY <1>1, <1>2, <1>3 DEF QueueFrame, EnqLabels, ServiceTypeOK, Node, Enq
<1>10. FreeFrame(t)'
  BY <1>1, <1>2, <1>3 DEF FreeFrame, InFree, EnqLabels, FreeFunc, NoHaz, Enq
<1> QED BY <1>1, <1>4, <1>5, <1>6, <1>7, <1>8, <1>9, <1>10, OtherFrames DEF TypeInv, TypeOK

-----------------------------------------------------------------------------
(* mono_thread_hazardous_free_or_queue.                                    *)

(* The item taken is a delayed one or the own one, after FreeAttempts of   *)
(* the others.                                                             *)
LEMMA FreePopType ==
  ASSUME NEW t \in Thread, TypeInv, FreePop(t)
  PROVE  TypeInv'
<1>1. HeapTypeOK /\ ServiceTypeOK /\ ThreadTypeOK /\ Frames
  BY DEF TypeInv, TypeOK
<1>2. /\ pc \in [Thread -> Label] /\ haz \in [Thread -> Haz]
      /\ OpFrame(t) /\ FreeFrame(t) /\ delayed \subseteq Item
  BY <1>1 DEF ThreadTypeOK, ServiceTypeOK, Frames
<1>3. pc[t] = "fq_try" /\ haz[t].self \in Item /\ haz[t].tries \in 0 .. FreeAttempts
  BY <1>2, FreeAttemptsAssumption DEF FreePop, FreeFrame, InFree, Haz
<1>4. haz[t].tries + 1 \in 0 .. FreeAttempts + 1
  BY <1>3, FreeAttemptsAssumption
<1>5. /\ haz' \in [Thread -> Haz] /\ haz'[t].self = haz[t].self /\ haz'[t].ret = haz[t].ret
      /\ \A u \in Thread \ {t} : haz'[u] = haz[u]
      /\ \/ pc' = pc /\ haz'[t].tries <= FreeAttempts
         \/ pc' = [pc EXCEPT ![t] = "fq_check"] /\ haz'[t].item \in Item
  <2>1. CASE /\ haz[t].tries < FreeAttempts /\ pc' = pc
             /\ haz' = [haz EXCEPT ![t].tries = @ + 1]
    <3>1. haz[t].tries + 1 <= FreeAttempts
      BY <1>3, <2>1, FreeAttemptsAssumption
    <3> QED BY <1>2, <1>4, <2>1, <3>1 DEF Haz
  <2>2. CASE /\ pc' = [pc EXCEPT ![t] = "fq_check"]
             /\ \E x \in Item : haz' = [haz EXCEPT ![t].item = x, ![t].tries = @ + 1]
    BY <1>2, <1>4, <2>2 DEF Haz
  <2> QED BY <1>2, <1>3, <2>1, <2>2 DEF FreePop
<1>6. HeapTypeOK' /\ ServiceTypeOK'
  BY <1>1 DEF HeapTypeOK, ServiceTypeOK, FreePop
<1>7. ThreadTypeOK'
  BY <1>1, <1>5 DEF ThreadTypeOK, FreePop, Label
<1>8. pc'[t] \in {"fq_try", "fq_check"}
  BY <1>2, <1>3, <1>5
<1>9. OpFrame(t)' /\ QueueFrame(t)'
  BY <1>2, <1>5, <1>8 DEF FreePop, OpFrame, QueueFrame, OwnerLabels, EnqLabels
<1>10. FreeFrame(t)'
  BY <1>2, <1>3, <1>5, <1>8 DEF FreeFrame, InFree, FreeFunc, EnqLabels
<1>11. \A u \in Thread \ {t} : SameLocals(u)
  BY <1>2, <1>5 DEF SameLocals, FreePop
<1> QED BY <1>1, <1>6, <1>7, <1>9, <1>10, <1>11, OtherFrames DEF TypeInv, TypeOK

(* A guarded item is delayed; another one goes to the function it names.   *)
LEMMA FreeCheckType ==
  ASSUME NEW t \in Thread, TypeInv, FreeCheck(t)
  PROVE  TypeInv'
<1>1. HeapTypeOK /\ ServiceTypeOK /\ ThreadTypeOK /\ Frames
  BY DEF TypeInv, TypeOK
<1>2. /\ pc \in [Thread -> Label] /\ haz \in [Thread -> Haz]
      /\ OpFrame(t) /\ FreeFrame(t)
  BY <1>1 DEF ThreadTypeOK, Frames
<1>3. pc[t] = "fq_check" /\ InFree(t) /\ haz[t].item \in Item
  BY <1>2 DEF FreeCheck, FreeFrame, InFree
<1>4. CASE delayed' = delayed \cup {haz[t].item} /\ NextItem(t)
  <2>1. ServiceTypeOK'
    BY <1>1, <1>3, <1>4 DEF ServiceTypeOK, FreeCheck
  <2> QED BY <1>3, <1>4, <2>1, NextItemInv DEF FreeCheck
<1>5. CASE pc' = [pc EXCEPT ![t] = haz[t].item.fn] /\ UNCHANGED <<aborted, delayed, haz>>
  BY <1>1, <1>2, <1>3, <1>5, OtherFrames DEF Item, FreeFunc, HeapTypeOK, ServiceTypeOK, FreeCheck,
    ThreadTypeOK, Label, OpFrame, QueueFrame, OwnerLabels, EnqLabels, FreeFrame, InFree, SameLocals,
    TypeInv, TypeOK
<1> QED BY <1>4, <1>5 DEF FreeCheck

(* The free function has returned.                                         *)
LEMMA FreeDoneType ==
  ASSUME NEW t \in Thread, TypeInv, FreeDone(t)
  PROVE  TypeInv'
<1>1. ServiceTypeOK'
  BY DEF TypeInv, TypeOK, ServiceTypeOK, FreeDone
<1>2. InFree(t)
  BY DEF FreeDone, InFree
<1> QED BY <1>1, <1>2, NextItemInv DEF FreeDone

(* The dummy becomes available.                                            *)
LEMMA FreeDummyType ==
  ASSUME NEW t \in Thread, TypeInv, FreeDummy(t)
  PROVE  TypeInv'
<1>1. ServiceTypeOK'
  BY DEF TypeInv, TypeOK, ServiceTypeOK, FreeDummy
<1>2. InFree(t)
  BY DEF FreeDummy, InFree, FreeFunc
<1> QED BY <1>1, <1>2, NextItemInv DEF FreeDummy

(* desc_put_partial is called for a descriptor, and enqueues it.           *)
LEMMA DescPutPartialType ==
  ASSUME NEW t \in Thread, TypeInv, DescPutPartial(t)
  PROVE  TypeInv'
<1> USE DEF DescPutPartial, CallEnqueue
<1>1. HeapTypeOK /\ ServiceTypeOK /\ ThreadTypeOK /\ OpFrame(t) /\ QueueFrame(t) /\ FreeFrame(t)
  BY DEF TypeInv, TypeOK, Frames
<1>2. /\ pc \in [Thread -> Label] /\ op \in [Thread -> Op] /\ deq \in [Thread -> Deq]
      /\ enq \in [Thread -> Enq] /\ haz \in [Thread -> Haz]
  BY <1>1 DEF ThreadTypeOK
<1>3. /\ haz[t].self \in Item
      /\ haz[t].item \in Item
      /\ haz[t].item.fn = "desc_put_partial"
  BY <1>1 DEF OpFrame, QueueFrame, FreeFrame, InFree, OwnerLabels, EnqLabels, FreeFunc
<1>4. HeapTypeOK'
  BY <1>1 DEF HeapTypeOK
<1>5. ServiceTypeOK'
  BY <1>1, <1>2, <1>3 DEF ServiceTypeOK, Node, Item
<1>6. ThreadTypeOK'
  BY <1>1, <1>2, <1>3 DEF Label, FreeFunc, Enq, Node, Item, ThreadTypeOK
<1>7. \A u \in Thread \ {t} : SameLocals(u)
  BY <1>1, <1>2 DEF SameLocals, ServiceTypeOK
<1>8. OpFrame(t)'
  BY <1>1, <1>2, <1>3 DEF OpFrame, NoHaz, OwnerLabels
<1>9. QueueFrame(t)'
  BY <1>1, <1>2, <1>3 DEF QueueFrame, EnqLabels, ServiceTypeOK, Node, Enq, FreeFunc, Item
<1>10. FreeFrame(t)'
  BY <1>1, <1>2, <1>3 DEF FreeFrame, InFree, EnqLabels, FreeFunc, NoHaz, Enq
<1> QED BY <1>1, <1>4, <1>5, <1>6, <1>7, <1>8, <1>9, <1>10, OtherFrames DEF TypeInv, TypeOK

(* desc_enqueue_avail is called for a descriptor, and makes it available.  *)
LEMMA DescEnqueueAvailType ==
  ASSUME NEW t \in Thread, TypeInv, DescEnqueueAvail(t)
  PROVE  TypeInv'
<1>1. ServiceTypeOK /\ FreeFrame(t) /\ InFree(t)
  BY DEF TypeInv, TypeOK, Frames, DescEnqueueAvail, InFree, FreeFunc
<1>2. haz[t].item.p \in Desc
  BY <1>1 DEF DescEnqueueAvail, FreeFrame, FreeFunc, Item
<1>3. <<haz[t].item.p>> \o desc_avail \in Seq(Desc)
  <2>1. desc_avail \in Seq(Desc) /\ <<haz[t].item.p>> \in Seq(Desc)
    BY <1>1, <1>2 DEF ServiceTypeOK
  <2> QED BY <2>1
<1>4. ServiceTypeOK'
  BY <1>1, <1>3 DEF ServiceTypeOK, DescEnqueueAvail
<1> QED BY <1>1, <1>4, NextItemInv DEF DescEnqueueAvail

-----------------------------------------------------------------------------
(* The initial state satisfies the strengthening.                          *)
LEMMA TypeInit == Init => TypeInv
<1> SUFFICES ASSUME Init PROVE TypeInv
  OBVIOUS
<1>1. 0 \in Slot /\ 0 \in 0 .. FreeAttempts + 1 /\ 0 \in 0 .. Len(Batches)
  BY MaxCountAssumption, FreeAttemptsAssumption, BatchesAssumption DEF Slot
<1>2. HeapTypeOK
  BY <1>1 DEF Anchor, State, Init, Word, HeapTypeOK
<1>3. ServiceTypeOK
  BY DEF Init, Node, ServiceTypeOK
<1>4. ThreadTypeOK
  BY <1>1 DEF NoOp, Op, NoDeq, Deq, NoEnq, Enq, NoHaz, Haz, HazReturn, Init, ThreadTypeOK, Label
<1>5. Frames
  BY DEF Init, Frames, OpFrame, QueueFrame, FreeFrame, InFree, OwnerLabels, EnqLabels, FreeFunc,
     NoHaz
<1> QED BY <1>2, <1>3, <1>4, <1>5 DEF TypeInv, TypeOK

(* So does a stuttering step.                                              *)
LEMMA TypeStutter ==
  ASSUME TypeInv, UNCHANGED vars
  PROVE  TypeInv'
  BY DEF vars, TypeInv, TypeOK, HeapTypeOK, ServiceTypeOK, ThreadTypeOK, Frames, OpFrame,
    QueueFrame, FreeFrame, InFree

(* Every step keeps it: one lemma per action.                              *)
LEMMA TypeStep == TypeInv /\ [Next]_vars => TypeInv'
<1> SUFFICES ASSUME TypeInv, [Next]_vars PROVE TypeInv'
  OBVIOUS
<1>1. CASE UNCHANGED vars
  BY <1>1, TypeStutter
<1>2. ASSUME NEW t \in Thread, Step(t) PROVE TypeInv'
  <2>1. CASE AllocStep(t)
    BY <2>1, AllocBeginType, AllocReadActiveType, AllocTakeActiveType, AllocGotPartialType,
       AllocDequeueAgainType, AllocReadAnchorType, AllocReadNextType, AllocSetAnchorType,
       AllocGiveBackType, AllocReturnType DEF AllocStep
  <2>2. CASE NewSbStep(t)
    BY <2>2, DescAllocPeekType, DescAllocPopType, DescAllocBatchType, AllocNewSbType,
       AllocPublishSbType DEF NewSbStep
  <2>3. CASE FreeStep(t)
    BY <2>3, FreeBeginType, FreeReadAnchorType, FreeSetAnchorType, FreeStealType,
       FreeRetireType,
       FreeGiveBackType, RemoveEmptyGotType, RemoveEmptyAgainType DEF FreeStep
  <2>4. CASE QueueStep(t)
    BY <2>4, DequeueReadHeadType, DequeueTryType, DequeueDummyType, ReenqueuePickDummyType,
       ReenqueueClaimType, EnqueueStartType, EnqueueReadTailType, EnqueueLinkType DEF QueueStep
  <2>5. CASE HazardStep(t)
    BY <2>5, FreePopType, FreeCheckType, FreeDoneType, FreeDummyType, DescPutPartialType,
       DescEnqueueAvailType DEF HazardStep
  <2> QED BY <1>2, <2>1, <2>2, <2>3, <2>4, <2>5 DEF Step
<1> QED BY <1>1, <1>2 DEF Next

(* Every variable keeps its type, and the partial queue never loses its    *)
(* last node, whatever the numbers of threads, descriptors and slots.      *)
THEOREM TypeCorrect == Spec => []TypeOK
<1>1. Init => TypeInv
  BY TypeInit
<1>2. TypeInv /\ [Next]_vars => TypeInv'
  BY TypeStep
<1>3. TypeInv => TypeOK
  BY DEF TypeInv
<1> QED BY <1>1, <1>2, <1>3, PTL DEF Spec

-----------------------------------------------------------------------------
(* A descriptor that can be reached has been used (UsedStep): a step        *)
(* towards their ownership, below.                                          *)

(* A step of a thread changes no other thread's locals.                    *)
LEMMA AllocStepLocals ==
  ASSUME NEW t \in Thread, TypeInv, AllocStep(t)
  PROVE  \A u \in Thread \ {t} : SameLocals(u)
<1> USE DEF SetHazard, ClearHazard, CallDequeue, CallEnqueue, FreeOrQueue, DescRetire,
   ListPutPartial, DequeueReturn, NoDummyToEnqueue, NextItem, SameLocals
<1>1. /\ pc \in [Thread -> Label] /\ op \in [Thread -> Op] /\ deq \in [Thread -> Deq]
      /\ enq \in [Thread -> Enq] /\ haz \in [Thread -> Haz]
      /\ hp \in [Thread -> [{0, 1} -> Node \cup {NULL}]]
  BY DEF TypeInv, TypeOK, ThreadTypeOK, ServiceTypeOK
<1>2. CASE AllocBegin(t)
  BY <1>1, <1>2 DEF AllocBegin
<1>3. CASE AllocReadActive(t)
  BY <1>1, <1>3 DEF AllocReadActive
<1>4. CASE AllocTakeActive(t)
  BY <1>1, <1>4 DEF AllocTakeActive
<1>5. CASE AllocGotPartial(t)
  BY <1>1, <1>5 DEF AllocGotPartial
<1>6. CASE AllocDequeueAgain(t)
  BY <1>1, <1>6 DEF AllocDequeueAgain
<1>7. CASE AllocReadAnchor(t)
  BY <1>1, <1>7 DEF AllocReadAnchor
<1>8. CASE AllocReadNext(t)
  BY <1>1, <1>8 DEF AllocReadNext
<1>9. CASE AllocSetAnchor(t)
  BY <1>1, <1>9 DEF AllocSetAnchor
<1>10. CASE AllocGiveBack(t)
  BY <1>1, <1>10 DEF AllocGiveBack
<1>11. CASE AllocReturn(t)
  BY <1>1, <1>11 DEF AllocReturn
<1> QED BY <1>2, <1>3, <1>4, <1>5, <1>6, <1>7, <1>8, <1>9, <1>10, <1>11 DEF AllocStep

(* The same of the steps that take a descriptor and a new superblock.      *)
LEMMA NewSbStepLocals ==
  ASSUME NEW t \in Thread, TypeInv, NewSbStep(t)
  PROVE  \A u \in Thread \ {t} : SameLocals(u)
<1> USE DEF SetHazard, ClearHazard, CallDequeue, CallEnqueue, FreeOrQueue, DescRetire,
   ListPutPartial, DequeueReturn, NoDummyToEnqueue, NextItem, SameLocals
<1>1. /\ pc \in [Thread -> Label] /\ op \in [Thread -> Op] /\ deq \in [Thread -> Deq]
      /\ enq \in [Thread -> Enq] /\ haz \in [Thread -> Haz]
      /\ hp \in [Thread -> [{0, 1} -> Node \cup {NULL}]]
  BY DEF TypeInv, TypeOK, ThreadTypeOK, ServiceTypeOK
<1>2. CASE DescAllocPeek(t)
  BY <1>1, <1>2 DEF DescAllocPeek
<1>3. CASE DescAllocPop(t)
  BY <1>1, <1>3 DEF DescAllocPop
<1>4. CASE DescAllocBatch(t)
  BY <1>1, <1>4 DEF DescAllocBatch
<1>5. CASE AllocNewSb(t)
  BY <1>1, <1>5 DEF AllocNewSb
<1>6. CASE AllocPublishSb(t)
  BY <1>1, <1>6 DEF AllocPublishSb
<1> QED BY <1>2, <1>3, <1>4, <1>5, <1>6 DEF NewSbStep

(* The same of the steps of mono_lock_free_free.                           *)
LEMMA FreeStepLocals ==
  ASSUME NEW t \in Thread, TypeInv, FreeStep(t)
  PROVE  \A u \in Thread \ {t} : SameLocals(u)
<1> USE DEF SetHazard, ClearHazard, CallDequeue, CallEnqueue, FreeOrQueue, DescRetire,
   ListPutPartial, DequeueReturn, NoDummyToEnqueue, NextItem, SameLocals
<1>1. /\ pc \in [Thread -> Label] /\ op \in [Thread -> Op] /\ deq \in [Thread -> Deq]
      /\ enq \in [Thread -> Enq] /\ haz \in [Thread -> Haz]
      /\ hp \in [Thread -> [{0, 1} -> Node \cup {NULL}]]
  BY DEF TypeInv, TypeOK, ThreadTypeOK, ServiceTypeOK
<1>2. CASE FreeBegin(t)
  BY <1>1, <1>2 DEF FreeBegin
<1>3. CASE FreeReadAnchor(t)
  BY <1>1, <1>3 DEF FreeReadAnchor
<1>4. CASE FreeSetAnchor(t)
  BY <1>1, <1>4 DEF FreeSetAnchor
<1>5. CASE FreeSteal(t)
  BY <1>1, <1>5 DEF FreeSteal
<1>6. CASE FreeRetire(t)
  BY <1>1, <1>6 DEF FreeRetire
<1>7. CASE FreeGiveBack(t)
  BY <1>1, <1>7 DEF FreeGiveBack
<1>8. CASE RemoveEmptyGot(t)
  BY <1>1, <1>8 DEF RemoveEmptyGot
<1>9. CASE RemoveEmptyAgain(t)
  BY <1>1, <1>9 DEF RemoveEmptyAgain
<1> QED BY <1>2, <1>3, <1>4, <1>5, <1>6, <1>7, <1>8, <1>9 DEF FreeStep

(* The same of the steps of the partial queue.                             *)
LEMMA QueueStepLocals ==
  ASSUME NEW t \in Thread, TypeInv, QueueStep(t)
  PROVE  \A u \in Thread \ {t} : SameLocals(u)
<1> USE DEF SetHazard, ClearHazard, CallDequeue, CallEnqueue, FreeOrQueue, DescRetire,
   ListPutPartial, DequeueReturn, NoDummyToEnqueue, NextItem, SameLocals
<1>1. /\ pc \in [Thread -> Label] /\ op \in [Thread -> Op] /\ deq \in [Thread -> Deq]
      /\ enq \in [Thread -> Enq] /\ haz \in [Thread -> Haz]
      /\ hp \in [Thread -> [{0, 1} -> Node \cup {NULL}]]
  BY DEF TypeInv, TypeOK, ThreadTypeOK, ServiceTypeOK
<1>2. CASE DequeueReadHead(t)
  BY <1>1, <1>2 DEF DequeueReadHead
<1>3. CASE DequeueTry(t)
  BY <1>1, <1>3 DEF DequeueTry
<1>4. CASE DequeueDummy(t)
  BY <1>1, <1>4 DEF DequeueDummy
<1>5. CASE ReenqueuePickDummy(t)
  BY <1>1, <1>5 DEF ReenqueuePickDummy
<1>6. CASE ReenqueueClaim(t)
  BY <1>1, <1>6 DEF ReenqueueClaim
<1>7. CASE EnqueueStart(t)
  BY <1>1, <1>7 DEF EnqueueStart
<1>8. CASE EnqueueReadTail(t)
  BY <1>1, <1>8 DEF EnqueueReadTail
<1>9. CASE EnqueueLink(t)
  BY <1>1, <1>9 DEF EnqueueLink
<1> QED BY <1>2, <1>3, <1>4, <1>5, <1>6, <1>7, <1>8, <1>9 DEF QueueStep

(* The same of the steps of the hazardous free.                            *)
LEMMA HazardStepLocals ==
  ASSUME NEW t \in Thread, TypeInv, HazardStep(t)
  PROVE  \A u \in Thread \ {t} : SameLocals(u)
<1> USE DEF SetHazard, ClearHazard, CallDequeue, CallEnqueue, FreeOrQueue, DescRetire,
   ListPutPartial, DequeueReturn, NoDummyToEnqueue, NextItem, SameLocals
<1>1. /\ pc \in [Thread -> Label] /\ op \in [Thread -> Op] /\ deq \in [Thread -> Deq]
      /\ enq \in [Thread -> Enq] /\ haz \in [Thread -> Haz]
      /\ hp \in [Thread -> [{0, 1} -> Node \cup {NULL}]]
  BY DEF TypeInv, TypeOK, ThreadTypeOK, ServiceTypeOK
<1>2. CASE FreePop(t)
  BY <1>1, <1>2 DEF FreePop
<1>3. CASE FreeCheck(t)
  BY <1>1, <1>3 DEF FreeCheck
<1>4. CASE FreeDone(t)
  BY <1>1, <1>4 DEF FreeDone
<1>5. CASE FreeDummy(t)
  BY <1>1, <1>5 DEF FreeDummy
<1>6. CASE DescPutPartial(t)
  BY <1>1, <1>6 DEF DescPutPartial
<1>7. CASE DescEnqueueAvail(t)
  BY <1>1, <1>7 DEF DescEnqueueAvail
<1> QED BY <1>2, <1>3, <1>4, <1>5, <1>6, <1>7 DEF HazardStep

-----------------------------------------------------------------------------
(* Used descriptors: those that have had a superblock.  A descriptor that  *)
(* an allocation owns, that waits in the partial queue or that an object   *)
(* belongs to has been used, and stays so: it is in use or EMPTY.          *)

Used(d) == in_use[d] \/ anchor[d].state = "EMPTY"

UsedHeap ==
  /\ active # NULL => Used(active)
  /\ \A i \in DOMAIN queue : queue[i] \in Desc => Used(queue[i])
  /\ \A x \in delayed : x.p \in Desc => Used(x.p)
  /\ \A o \in live : Used(o[1])

(* Where a thread works on a descriptor that has been used.                *)
UsedLabels == (OwnerLabels \ {"new_sb"}) \cup {"alloc_done", "free_read", "free_cas"}

(* What an allocation or a free has read of its descriptor.                *)
OpUsed(t) ==
  /\ pc[t] \in UsedLabels \/ haz[t].ret = "alloc_done" => Used(op[t].desc)
  /\ pc[t] \in {"alloc_next", "alloc_cas"} => op[t].old.state # "EMPTY"

(* What a thread takes out of the partial queue or puts into it.           *)
QueueUsed(t) ==
  /\ deq[t].res \in Desc => Used(deq[t].res)
  /\ enq[t].node \in Desc => Used(enq[t].node)

(* What a thread hands to the hazardous free, or frees.                    *)
FreeUsed(t) ==
  /\ haz[t].self # NULL /\ haz[t].self.p \in Desc => Used(haz[t].self.p)
  /\ haz[t].item # NULL /\ haz[t].item.p \in Desc => Used(haz[t].item.p)

UsedLocals(t) == OpUsed(t) /\ QueueUsed(t) /\ FreeUsed(t)

UsedInv == UsedHeap /\ \A t \in Thread : UsedLocals(t)

StaysUsed == \A d \in Desc : Used(d) => Used(d)'

(* Elements of sequences.                                                  *)
LEMMA ElementsOfSelf ==
  ASSUME NEW S, NEW s \in Seq(S)
  PROVE  \A i \in DOMAIN s : s[i] \in S /\ InSequence(s[i], s)
  BY DEF InSequence

(* The elements of the tail of a sequence.                                 *)
LEMMA TailElements ==
  ASSUME NEW S, NEW s \in Seq(S), s # <<>>
  PROVE  /\ Tail(s) \in Seq(S)
         /\ \A i \in DOMAIN Tail(s) : i + 1 \in DOMAIN s /\ Tail(s)[i] = s[i + 1]
         /\ \A i \in DOMAIN Tail(s) : InSequence(Tail(s)[i], s)
  BY DEF InSequence

(* The elements of a sequence with one appended.                           *)
LEMMA AppendElements ==
  ASSUME NEW S, NEW s \in Seq(S), NEW e \in S
  PROVE  /\ Append(s, e) \in Seq(S)
         /\ \A i \in DOMAIN s : i \in DOMAIN Append(s, e) /\ Append(s, e)[i] = s[i]
         /\ \A i \in DOMAIN Append(s, e) : i \in DOMAIN s \/ (i = Len(s) + 1 /\ Append(s, e)[i] = e)
         /\ \A i \in DOMAIN Append(s, e) : InSequence(Append(s, e)[i], s) \/ Append(s, e)[i] = e
  BY DEF InSequence

(* A step keeps UsedHeap if what it adds has been used.                    *)
LEMMA HeapStaysUsed ==
  ASSUME UsedHeap, StaysUsed, delayed \subseteq Item, live \subseteq Object,
         active \in Desc \cup {NULL}, queue \in Seq(Node),
         active' \in {active, NULL} \/ (active' \in Desc /\ Used(active')),
         \A i \in DOMAIN queue' : \/ InSequence(queue'[i], queue)
                                  \/ queue'[i] \in Desc => Used(queue'[i]),
         \A x \in delayed' : x \in delayed \/ (x.p \in Desc => Used(x.p)),
         \A o \in live' : o \in live \/ (o[1] \in Desc /\ Used(o[1]))
  PROVE  UsedHeap'
  BY DEF UsedHeap, StaysUsed, Used, InSequence, Object

(* Taking an item in the hazardous free.                                   *)
LEMMA FreePopFields ==
  ASSUME NEW t \in Thread, pc \in [Thread -> Label], haz \in [Thread -> Haz], FreePop(t)
  PROVE  /\ haz'[t].self = haz[t].self /\ haz'[t].ret = haz[t].ret
         /\ haz'[t].tries = haz[t].tries + 1
         /\ \/ /\ haz[t].tries < FreeAttempts /\ pc'[t] = "fq_try"
               /\ haz'[t].item = haz[t].item /\ delayed' = delayed
            \/ /\ haz[t].tries < FreeAttempts /\ pc'[t] = "fq_check"
               /\ haz'[t].item \in delayed /\ delayed' = delayed \ {haz'[t].item}
            \/ /\ haz[t].tries = FreeAttempts /\ pc'[t] = "fq_check"
               /\ haz'[t].item = haz[t].self /\ delayed' = delayed
<1>1. PICK k : k = haz[t].tries + 1
  OBVIOUS
<1>2. CASE /\ haz[t].tries < FreeAttempts
           /\ haz' = [haz EXCEPT ![t].tries = @ + 1] /\ UNCHANGED <<delayed, pc>>
  BY <1>1, <1>2 DEF Haz, FreePop
<1>3. CASE /\ haz[t].tries < FreeAttempts /\ pc' = [pc EXCEPT ![t] = "fq_check"]
           /\ \E x \in delayed :
                /\ delayed' = delayed \ {x}
                /\ haz' = [haz EXCEPT ![t].item = x, ![t].tries = @ + 1]
  BY <1>1, <1>3 DEF Haz
<1>4. CASE /\ haz[t].tries = FreeAttempts /\ pc' = [pc EXCEPT ![t] = "fq_check"]
           /\ haz' = [haz EXCEPT ![t].item = haz[t].self, ![t].tries = @ + 1]
           /\ delayed' = delayed
  BY <1>1, <1>4 DEF Haz
<1> QED BY <1>2, <1>3, <1>4 DEF FreePop

(* The end of an item of the hazardous free.                               *)
LEMMA NextItemUsed ==
  ASSUME NEW t \in Thread, pc \in [Thread -> Label], haz \in [Thread -> Haz], NextItem(t),
         OpFrame(t), OpUsed(t), FreeUsed(t), StaysUsed, op' = op, NULL \notin Desc
  PROVE  OpUsed(t)' /\ FreeUsed(t)'
<1>1. haz[t].ret \in HazReturn
  BY DEF Haz
<1>2. haz[t].ret = "alloc_done" => Used(op[t].desc)'
  BY DEF OpUsed, OpFrame, StaysUsed, Used
<1>3. CASE haz[t].tries = FreeAttempts + 1
  BY <1>1, <1>2, <1>3 DEF NextItem, OpUsed, FreeUsed, NoHaz, HazReturn, UsedLabels, OwnerLabels
<1>4. CASE haz[t].tries # FreeAttempts + 1
  BY <1>2, <1>4 DEF NextItem, Haz, FreeUsed, StaysUsed, OpUsed, UsedLabels, OwnerLabels
<1> QED BY <1>3, <1>4

(* Once used, a descriptor stays used: an owner never changes an EMPTY     *)
(* anchor.                                                                 *)
LEMMA AllocStepStaysUsed ==
  ASSUME NEW t \in Thread, TypeInv, UsedInv, AllocStep(t)
  PROVE  StaysUsed
<1> USE DEF StaysUsed, Used
<1>1. /\ anchor \in [Desc -> Anchor] /\ in_use \in [Desc -> BOOLEAN]
      /\ OpFrame(t) /\ QueueFrame(t) /\ OpUsed(t)
  BY DEF TypeInv, TypeOK, HeapTypeOK, Frames, UsedInv, UsedLocals
<1>2. CASE AllocBegin(t)
  BY <1>2 DEF AllocBegin
<1>3. CASE AllocReadActive(t)
  BY <1>3 DEF AllocReadActive
<1>4. CASE AllocTakeActive(t)
  BY <1>4 DEF AllocTakeActive
<1>5. CASE AllocGotPartial(t)
  BY <1>1, <1>5 DEF AllocGotPartial, DescRetire, OpFrame, QueueFrame, OpUsed, UsedLabels,
     OwnerLabels, Anchor
<1>6. CASE AllocDequeueAgain(t)
  BY <1>6 DEF AllocDequeueAgain
<1>7. CASE AllocReadAnchor(t)
  BY <1>1, <1>7 DEF AllocReadAnchor, DescRetire, OpFrame, QueueFrame, OpUsed, UsedLabels,
     OwnerLabels, Anchor
<1>8. CASE AllocReadNext(t)
  BY <1>8 DEF AllocReadNext
<1>9. CASE AllocSetAnchor(t)
  BY <1>1, <1>9 DEF AllocSetAnchor, SetAnchorSucceeds, AllocatedAnchor, OpFrame, QueueFrame,
     OpUsed, UsedLabels, OwnerLabels, Anchor
<1>10. CASE AllocGiveBack(t)
  BY <1>10 DEF AllocGiveBack
<1>11. CASE AllocReturn(t)
  BY <1>11 DEF AllocReturn
<1> QED BY <1>2, <1>3, <1>4, <1>5, <1>6, <1>7, <1>8, <1>9, <1>10, <1>11 DEF AllocStep

(* The same of the steps that take a descriptor and a new superblock.      *)
LEMMA NewSbStepStaysUsed ==
  ASSUME NEW t \in Thread, TypeInv, UsedInv, NewSbStep(t)
  PROVE  StaysUsed
<1> USE DEF StaysUsed, Used
<1>1. /\ anchor \in [Desc -> Anchor] /\ in_use \in [Desc -> BOOLEAN]
      /\ OpFrame(t) /\ QueueFrame(t) /\ OpUsed(t)
  BY DEF TypeInv, TypeOK, HeapTypeOK, Frames, UsedInv, UsedLocals
<1>2. CASE DescAllocPeek(t)
  BY <1>2 DEF DescAllocPeek
<1>3. CASE DescAllocPop(t)
  BY <1>3 DEF DescAllocPop
<1>4. CASE DescAllocBatch(t)
  BY <1>4 DEF DescAllocBatch
<1>5. CASE AllocNewSb(t)
  BY <1>1, <1>5 DEF AllocNewSb, OpFrame, QueueFrame, OpUsed, UsedLabels, OwnerLabels, Anchor
<1>6. CASE AllocPublishSb(t)
  BY <1>1, <1>6 DEF AllocPublishSb, ActiveIs, DescRetire, OpFrame, QueueFrame, OpUsed,
     UsedLabels, OwnerLabels, Anchor
<1> QED BY <1>2, <1>3, <1>4, <1>5, <1>6 DEF NewSbStep

(* The same of the steps of mono_lock_free_free.                           *)
LEMMA FreeStepStaysUsed ==
  ASSUME NEW t \in Thread, TypeInv, UsedInv, FreeStep(t)
  PROVE  StaysUsed
<1> USE DEF StaysUsed, Used
<1>1. /\ anchor \in [Desc -> Anchor] /\ in_use \in [Desc -> BOOLEAN]
      /\ OpFrame(t) /\ QueueFrame(t) /\ OpUsed(t)
  BY DEF TypeInv, TypeOK, HeapTypeOK, Frames, UsedInv, UsedLocals
<1>2. CASE FreeBegin(t)
  BY <1>2 DEF FreeBegin
<1>3. CASE FreeReadAnchor(t)
  BY <1>3 DEF FreeReadAnchor
<1>4. CASE FreeSetAnchor(t)
  BY <1>1, <1>4 DEF FreeSetAnchor, SetAnchorSucceeds, FreedAnchor, OpFrame, QueueFrame,
     OpUsed, UsedLabels, OwnerLabels, Anchor
<1>5. CASE FreeSteal(t)
  BY <1>5 DEF FreeSteal
<1>6. CASE FreeRetire(t)
  BY <1>1, <1>6 DEF FreeRetire, DescRetire, CanRetire, OpFrame, QueueFrame, OpUsed,
     UsedLabels, OwnerLabels, Anchor
<1>7. CASE FreeGiveBack(t)
  BY <1>7 DEF FreeGiveBack
<1>8. CASE RemoveEmptyGot(t)
  BY <1>1, <1>8 DEF RemoveEmptyGot, DescRetire, OpFrame, QueueFrame, OpUsed, UsedLabels,
     OwnerLabels, Anchor
<1>9. CASE RemoveEmptyAgain(t)
  BY <1>9 DEF RemoveEmptyAgain
<1> QED BY <1>2, <1>3, <1>4, <1>5, <1>6, <1>7, <1>8, <1>9 DEF FreeStep

(* The same of the steps of the partial queue.                             *)
LEMMA QueueStepStaysUsed ==
  ASSUME NEW t \in Thread, TypeInv, UsedInv, QueueStep(t)
  PROVE  StaysUsed
<1> USE DEF StaysUsed, Used
<1>1. /\ anchor \in [Desc -> Anchor] /\ in_use \in [Desc -> BOOLEAN]
      /\ OpFrame(t) /\ QueueFrame(t) /\ OpUsed(t)
  BY DEF TypeInv, TypeOK, HeapTypeOK, Frames, UsedInv, UsedLocals
<1>2. CASE DequeueReadHead(t)
  BY <1>2 DEF DequeueReadHead
<1>3. CASE DequeueTry(t)
  BY <1>3 DEF DequeueTry
<1>4. CASE DequeueDummy(t)
  BY <1>4 DEF DequeueDummy
<1>5. CASE ReenqueuePickDummy(t)
  BY <1>5 DEF ReenqueuePickDummy
<1>6. CASE ReenqueueClaim(t)
  BY <1>6 DEF ReenqueueClaim
<1>7. CASE EnqueueStart(t)
  BY <1>7 DEF EnqueueStart
<1>8. CASE EnqueueReadTail(t)
  BY <1>8 DEF EnqueueReadTail
<1>9. CASE EnqueueLink(t)
  BY <1>9 DEF EnqueueLink
<1> QED BY <1>2, <1>3, <1>4, <1>5, <1>6, <1>7, <1>8, <1>9 DEF QueueStep

(* The same of the steps of the hazardous free.                            *)
LEMMA HazardStepStaysUsed ==
  ASSUME NEW t \in Thread, TypeInv, UsedInv, HazardStep(t)
  PROVE  StaysUsed
<1> USE DEF StaysUsed, Used
<1>1. /\ anchor \in [Desc -> Anchor] /\ in_use \in [Desc -> BOOLEAN]
      /\ OpFrame(t) /\ QueueFrame(t) /\ OpUsed(t)
  BY DEF TypeInv, TypeOK, HeapTypeOK, Frames, UsedInv, UsedLocals
<1>2. CASE FreePop(t)
  BY <1>2 DEF FreePop
<1>3. CASE FreeCheck(t)
  BY <1>3 DEF FreeCheck
<1>4. CASE FreeDone(t)
  BY <1>4 DEF FreeDone
<1>5. CASE FreeDummy(t)
  BY <1>5 DEF FreeDummy
<1>6. CASE DescPutPartial(t)
  BY <1>6 DEF DescPutPartial
<1>7. CASE DescEnqueueAvail(t)
  BY <1>7 DEF DescEnqueueAvail
<1> QED BY <1>2, <1>3, <1>4, <1>5, <1>6, <1>7 DEF HazardStep

(* A step of an allocation keeps UsedInv, of the heap and of its own       *)
(* thread.                                                                 *)
LEMMA AllocStepUsed ==
  ASSUME NEW t \in Thread, TypeInv, UsedInv, StaysUsed, AllocStep(t)
  PROVE  UsedHeap' /\ UsedLocals(t)'
<1>1. /\ OpFrame(t) /\ QueueFrame(t) /\ FreeFrame(t)
      /\ OpUsed(t) /\ QueueUsed(t) /\ FreeUsed(t) /\ UsedHeap /\ StaysUsed
  BY DEF TypeInv, Frames, UsedInv, UsedLocals
<1>2. /\ pc \in [Thread -> Label] /\ op \in [Thread -> Op] /\ deq \in [Thread -> Deq]
      /\ enq \in [Thread -> Enq] /\ haz \in [Thread -> Haz]
      /\ active \in Desc \cup {NULL} /\ delayed \subseteq Item /\ live \subseteq Object
      /\ queue \in Seq(Node) /\ queue # <<>>
      /\ NULL \notin Desc /\ NULL \notin Item /\ Dummy \cap Desc = {}
      /\ anchor \in [Desc -> Anchor] /\ in_use \in [Desc -> BOOLEAN]
  BY NodeAssumption DEF TypeInv, TypeOK, ThreadTypeOK, HeapTypeOK, ServiceTypeOK, Node
<1>3. CASE AllocBegin(t)
  <2>1. UsedHeap'
    BY <1>1, <1>2, <1>3 DEF AllocBegin, UsedHeap, StaysUsed, Object, Item
  <2>2. OpUsed(t)'
    BY <1>1, <1>2, <1>3 DEF AllocBegin, UsedHeap, OpUsed, QueueUsed, StaysUsed, UsedLabels,
       OwnerLabels, OpFrame, QueueFrame, FreeFrame, InFree, EnqLabels, FreeFunc, NoHaz, Op,
       Deq, Haz, HazReturn
  <2>3. QueueUsed(t)'
    BY <1>1, <1>2, <1>3 DEF AllocBegin, UsedHeap, QueueUsed, FreeUsed, StaysUsed,
       QueueFrame, FreeFrame, Deq, Enq, Haz, Item, FreeFunc
  <2>4. FreeUsed(t)'
    BY <1>1, <1>2, <1>3 DEF AllocBegin, OpUsed, QueueUsed, FreeUsed, UsedHeap, StaysUsed,
       OpFrame, QueueFrame, FreeFrame, InFree, UsedLabels, OwnerLabels, Deq, Haz, Item
  <2> QED BY <2>1, <2>2, <2>3, <2>4 DEF UsedLocals
<1>4. CASE AllocReadActive(t)
  <2>1. UsedHeap'
    BY <1>1, <1>2, <1>4 DEF AllocReadActive, CallDequeue, UsedHeap, StaysUsed, Object, Item
  <2>2. OpUsed(t)'
    BY <1>1, <1>2, <1>4 DEF AllocReadActive, CallDequeue, UsedHeap, OpUsed, QueueUsed,
       StaysUsed, UsedLabels, OwnerLabels, OpFrame, QueueFrame, FreeFrame, InFree,
       EnqLabels, FreeFunc, NoHaz, Op, Deq, Haz, HazReturn
  <2>3. QueueUsed(t)'
    BY <1>1, <1>2, <1>4 DEF AllocReadActive, CallDequeue, UsedHeap, QueueUsed, FreeUsed,
       StaysUsed, QueueFrame, FreeFrame, Deq, Enq, Haz, Item, FreeFunc
  <2>4. FreeUsed(t)'
    BY <1>1, <1>2, <1>4 DEF AllocReadActive, CallDequeue, OpUsed, QueueUsed, FreeUsed,
       UsedHeap, StaysUsed, OpFrame, QueueFrame, FreeFrame, InFree, UsedLabels, OwnerLabels,
       Deq, Haz, Item
  <2> QED BY <2>1, <2>2, <2>3, <2>4 DEF UsedLocals
<1>5. CASE AllocTakeActive(t)
  <2>1. UsedHeap'
    BY <1>1, <1>2, <1>5 DEF AllocTakeActive, ActiveIs, UsedHeap, StaysUsed, Object, Item
  <2>2. OpUsed(t)'
    BY <1>1, <1>2, <1>5 DEF AllocTakeActive, ActiveIs, UsedHeap, OpUsed, QueueUsed,
       StaysUsed, UsedLabels, OwnerLabels, OpFrame, QueueFrame, FreeFrame, InFree,
       EnqLabels, FreeFunc, NoHaz, Op, Deq, Haz, HazReturn
  <2>3. QueueUsed(t)'
    BY <1>1, <1>2, <1>5 DEF AllocTakeActive, ActiveIs, UsedHeap, QueueUsed, FreeUsed,
       StaysUsed, QueueFrame, FreeFrame, Deq, Enq, Haz, Item, FreeFunc
  <2>4. FreeUsed(t)'
    BY <1>1, <1>2, <1>5 DEF AllocTakeActive, ActiveIs, OpUsed, QueueUsed, FreeUsed,
       UsedHeap, StaysUsed, OpFrame, QueueFrame, FreeFrame, InFree, UsedLabels, OwnerLabels,
       Deq, Haz, Item
  <2> QED BY <2>1, <2>2, <2>3, <2>4 DEF UsedLocals
<1>6. CASE AllocGotPartial(t)
  <2>1. UsedHeap'
    BY <1>1, <1>2, <1>6 DEF AllocGotPartial, DescRetire, FreeOrQueue, NoDeq, UsedHeap,
       StaysUsed, Object, Item
  <2>2. OpUsed(t)'
    BY <1>1, <1>2, <1>6 DEF AllocGotPartial, DescRetire, FreeOrQueue, NoDeq, UsedHeap,
       OpUsed, QueueUsed, StaysUsed, UsedLabels, OwnerLabels, OpFrame, QueueFrame,
       FreeFrame, InFree, EnqLabels, FreeFunc, NoHaz, Op, Deq, Haz, HazReturn
  <2>3. QueueUsed(t)'
    BY <1>1, <1>2, <1>6 DEF AllocGotPartial, DescRetire, FreeOrQueue, NoDeq, UsedHeap,
       QueueUsed, FreeUsed, StaysUsed, QueueFrame, FreeFrame, Deq, Enq, Haz, Item, FreeFunc
  <2>4. FreeUsed(t)'
    BY <1>1, <1>2, <1>6 DEF AllocGotPartial, DescRetire, FreeOrQueue, NoDeq, OpUsed,
       QueueUsed, FreeUsed, UsedHeap, StaysUsed, OpFrame, QueueFrame, FreeFrame, InFree,
       UsedLabels, OwnerLabels, Deq, Haz, Item
  <2> QED BY <2>1, <2>2, <2>3, <2>4 DEF UsedLocals
<1>7. CASE AllocDequeueAgain(t)
  <2>1. UsedHeap'
    BY <1>1, <1>2, <1>7 DEF AllocDequeueAgain, CallDequeue, UsedHeap, StaysUsed, Object,
       Item
  <2>2. OpUsed(t)'
    BY <1>1, <1>2, <1>7 DEF AllocDequeueAgain, CallDequeue, UsedHeap, OpUsed, QueueUsed,
       StaysUsed, UsedLabels, OwnerLabels, OpFrame, QueueFrame, FreeFrame, InFree,
       EnqLabels, FreeFunc, NoHaz, Op, Deq, Haz, HazReturn
  <2>3. QueueUsed(t)'
    BY <1>1, <1>2, <1>7 DEF AllocDequeueAgain, CallDequeue, UsedHeap, QueueUsed, FreeUsed,
       StaysUsed, QueueFrame, FreeFrame, Deq, Enq, Haz, Item, FreeFunc
  <2>4. FreeUsed(t)'
    BY <1>1, <1>2, <1>7 DEF AllocDequeueAgain, CallDequeue, OpUsed, QueueUsed, FreeUsed,
       UsedHeap, StaysUsed, OpFrame, QueueFrame, FreeFrame, InFree, UsedLabels, OwnerLabels,
       Deq, Haz, Item
  <2> QED BY <2>1, <2>2, <2>3, <2>4 DEF UsedLocals
<1>8. CASE AllocReadAnchor(t)
  <2>1. UsedHeap'
    BY <1>1, <1>2, <1>8 DEF AllocReadAnchor, DescRetire, FreeOrQueue, NoOp, UsedHeap,
       StaysUsed, Object, Item
  <2>2. OpUsed(t)'
    <3>1. CASE anchor[op[t].desc].state = "EMPTY"
      <4>1. pc'[t] = "fq_try" /\ haz'[t].ret = "alloc_active"
        BY <1>2, <1>8, <3>1 DEF AllocReadAnchor, DescRetire, FreeOrQueue
      <4> QED BY <4>1 DEF OpUsed, UsedLabels, OwnerLabels
    <3>2. CASE anchor[op[t].desc].state # "EMPTY"
      <4>1. op' = [op EXCEPT ![t].old = anchor[op[t].desc], ![t].slot = anchor[op[t].desc].avail]
        BY <1>8, <3>2 DEF AllocReadAnchor
      <4>2. op'[t].old = anchor[op[t].desc] /\ op'[t].desc = op[t].desc
        BY <1>2, <4>1 DEF Op
      <4>3. op[t].desc \in Desc /\ Used(op[t].desc)
        BY <1>1, <1>8 DEF AllocReadAnchor, OpFrame, OpUsed, UsedLabels, OwnerLabels
      <4> QED BY <1>1, <3>2, <4>2, <4>3 DEF OpUsed, StaysUsed, Used
    <3> QED BY <3>1, <3>2
  <2>3. QueueUsed(t)'
    BY <1>1, <1>2, <1>8 DEF AllocReadAnchor, DescRetire, FreeOrQueue, NoOp, UsedHeap,
       QueueUsed, FreeUsed, StaysUsed, QueueFrame, FreeFrame, Deq, Enq, Haz, Item, FreeFunc
  <2>4. FreeUsed(t)'
    BY <1>1, <1>2, <1>8 DEF AllocReadAnchor, DescRetire, FreeOrQueue, NoOp, OpUsed,
       QueueUsed, FreeUsed, UsedHeap, StaysUsed, OpFrame, QueueFrame, FreeFrame, InFree,
       UsedLabels, OwnerLabels, Deq, Haz, Item
  <2> QED BY <2>1, <2>2, <2>3, <2>4 DEF UsedLocals
<1>9. CASE AllocReadNext(t)
  <2>1. UsedHeap'
    BY <1>1, <1>2, <1>9 DEF AllocReadNext, UsedHeap, StaysUsed, Object, Item
  <2>2. OpUsed(t)'
    BY <1>1, <1>2, <1>9 DEF AllocReadNext, UsedHeap, OpUsed, QueueUsed, StaysUsed,
       UsedLabels, OwnerLabels, OpFrame, QueueFrame, FreeFrame, InFree, EnqLabels, FreeFunc,
       NoHaz, Op, Deq, Haz, HazReturn
  <2>3. QueueUsed(t)'
    BY <1>1, <1>2, <1>9 DEF AllocReadNext, UsedHeap, QueueUsed, FreeUsed, StaysUsed,
       QueueFrame, FreeFrame, Deq, Enq, Haz, Item, FreeFunc
  <2>4. FreeUsed(t)'
    BY <1>1, <1>2, <1>9 DEF AllocReadNext, OpUsed, QueueUsed, FreeUsed, UsedHeap, StaysUsed,
       OpFrame, QueueFrame, FreeFrame, InFree, UsedLabels, OwnerLabels, Deq, Haz, Item
  <2> QED BY <2>1, <2>2, <2>3, <2>4 DEF UsedLocals
<1>10. CASE AllocSetAnchor(t)
  <2>1. UsedHeap'
    BY <1>1, <1>2, <1>10 DEF AllocSetAnchor, UsedHeap, StaysUsed, Object, Item
  <2>2. OpUsed(t)'
    BY <1>1, <1>2, <1>10 DEF AllocSetAnchor, UsedHeap, OpUsed, QueueUsed, StaysUsed,
       UsedLabels, OwnerLabels, OpFrame, QueueFrame, FreeFrame, InFree, EnqLabels, FreeFunc,
       NoHaz, Op, Deq, Haz, HazReturn
  <2>3. QueueUsed(t)'
    BY <1>1, <1>2, <1>10 DEF AllocSetAnchor, UsedHeap, QueueUsed, FreeUsed, StaysUsed,
       QueueFrame, FreeFrame, Deq, Enq, Haz, Item, FreeFunc
  <2>4. FreeUsed(t)'
    BY <1>1, <1>2, <1>10 DEF AllocSetAnchor, OpUsed, QueueUsed, FreeUsed, UsedHeap,
       StaysUsed, OpFrame, QueueFrame, FreeFrame, InFree, UsedLabels, OwnerLabels, Deq, Haz,
       Item
  <2> QED BY <2>1, <2>2, <2>3, <2>4 DEF UsedLocals
<1>11. CASE AllocGiveBack(t)
  <2>1. UsedHeap'
    BY <1>1, <1>2, <1>11, HeapStaysUsed, ElementsOfSelf DEF AllocGiveBack, ActiveIs, OpFrame,
      OpUsed, UsedLabels, OwnerLabels
  <2>2. OpUsed(t)'
    BY <1>1, <1>2, <1>11 DEF AllocGiveBack, ListPutPartial, FreeOrQueue, ActiveIs, UsedHeap,
       OpUsed, QueueUsed, StaysUsed, UsedLabels, OwnerLabels, OpFrame, QueueFrame,
       FreeFrame, InFree, EnqLabels, FreeFunc, NoHaz, Op, Deq, Haz, HazReturn
  <2>3. QueueUsed(t)'
    BY <1>1, <1>2, <1>11 DEF AllocGiveBack, ListPutPartial, FreeOrQueue, ActiveIs, UsedHeap,
       QueueUsed, FreeUsed, StaysUsed, QueueFrame, FreeFrame, Deq, Enq, Haz, Item, FreeFunc
  <2>4. FreeUsed(t)'
    BY <1>1, <1>2, <1>11 DEF AllocGiveBack, ListPutPartial, FreeOrQueue, ActiveIs, OpUsed,
       QueueUsed, FreeUsed, UsedHeap, StaysUsed, OpFrame, QueueFrame, FreeFrame, InFree,
       UsedLabels, OwnerLabels, Deq, Haz, Item
  <2> QED BY <2>1, <2>2, <2>3, <2>4 DEF UsedLocals
<1>12. CASE AllocReturn(t)
  <2>1. UsedHeap'
    BY <1>1, <1>2, <1>12, HeapStaysUsed, ElementsOfSelf DEF AllocReturn, OpFrame, OpUsed, UsedLabels
  <2>2. OpUsed(t)'
    BY <1>1, <1>2, <1>12 DEF AllocReturn, NoOp, UsedHeap, OpUsed, QueueUsed, StaysUsed,
       UsedLabels, OwnerLabels, OpFrame, QueueFrame, FreeFrame, InFree, EnqLabels, FreeFunc,
       NoHaz, Op, Deq, Haz, HazReturn
  <2>3. QueueUsed(t)'
    BY <1>1, <1>2, <1>12 DEF AllocReturn, NoOp, UsedHeap, QueueUsed, FreeUsed, StaysUsed,
       QueueFrame, FreeFrame, Deq, Enq, Haz, Item, FreeFunc
  <2>4. FreeUsed(t)'
    BY <1>1, <1>2, <1>12 DEF AllocReturn, NoOp, OpUsed, QueueUsed, FreeUsed, UsedHeap,
       StaysUsed, OpFrame, QueueFrame, FreeFrame, InFree, UsedLabels, OwnerLabels, Deq, Haz,
       Item
  <2> QED BY <2>1, <2>2, <2>3, <2>4 DEF UsedLocals
<1> QED BY <1>3, <1>4, <1>5, <1>6, <1>7, <1>8, <1>9, <1>10, <1>11, <1>12 DEF AllocStep

(* The same of the steps that take a descriptor and a new superblock.      *)
LEMMA NewSbStepUsed ==
  ASSUME NEW t \in Thread, TypeInv, UsedInv, StaysUsed, NewSbStep(t)
  PROVE  UsedHeap' /\ UsedLocals(t)'
<1>1. /\ OpFrame(t) /\ QueueFrame(t) /\ FreeFrame(t)
      /\ OpUsed(t) /\ QueueUsed(t) /\ FreeUsed(t) /\ UsedHeap /\ StaysUsed
  BY DEF TypeInv, Frames, UsedInv, UsedLocals
<1>2. /\ pc \in [Thread -> Label] /\ op \in [Thread -> Op] /\ deq \in [Thread -> Deq]
      /\ enq \in [Thread -> Enq] /\ haz \in [Thread -> Haz]
      /\ active \in Desc \cup {NULL} /\ delayed \subseteq Item /\ live \subseteq Object
      /\ queue \in Seq(Node) /\ queue # <<>>
      /\ NULL \notin Desc /\ NULL \notin Item /\ Dummy \cap Desc = {}
      /\ anchor \in [Desc -> Anchor] /\ in_use \in [Desc -> BOOLEAN]
  BY NodeAssumption DEF TypeInv, TypeOK, ThreadTypeOK, HeapTypeOK, ServiceTypeOK, Node
<1>3. CASE DescAllocPeek(t)
  <2>1. UsedHeap'
    BY <1>1, <1>2, <1>3 DEF DescAllocPeek, SetHazard, UsedHeap, StaysUsed, Object, Item
  <2>2. OpUsed(t)'
    BY <1>1, <1>2, <1>3 DEF DescAllocPeek, SetHazard, UsedHeap, OpUsed, QueueUsed,
       StaysUsed, UsedLabels, OwnerLabels, OpFrame, QueueFrame, FreeFrame, InFree,
       EnqLabels, FreeFunc, NoHaz, Op, Deq, Haz, HazReturn
  <2>3. QueueUsed(t)'
    BY <1>1, <1>2, <1>3 DEF DescAllocPeek, SetHazard, UsedHeap, QueueUsed, FreeUsed,
       StaysUsed, QueueFrame, FreeFrame, Deq, Enq, Haz, Item, FreeFunc
  <2>4. FreeUsed(t)'
    BY <1>1, <1>2, <1>3 DEF DescAllocPeek, SetHazard, OpUsed, QueueUsed, FreeUsed, UsedHeap,
       StaysUsed, OpFrame, QueueFrame, FreeFrame, InFree, UsedLabels, OwnerLabels, Deq, Haz,
       Item
  <2> QED BY <2>1, <2>2, <2>3, <2>4 DEF UsedLocals
<1>4. CASE DescAllocPop(t)
  <2>1. UsedHeap'
    BY <1>1, <1>2, <1>4 DEF DescAllocPop, ClearHazard, SetHazard, UsedHeap, StaysUsed,
       Object, Item
  <2>2. OpUsed(t)'
    BY <1>1, <1>2, <1>4 DEF DescAllocPop, ClearHazard, SetHazard, UsedHeap, OpUsed,
       QueueUsed, StaysUsed, UsedLabels, OwnerLabels, OpFrame, QueueFrame, FreeFrame,
       InFree, EnqLabels, FreeFunc, NoHaz, Op, Deq, Haz, HazReturn
  <2>3. QueueUsed(t)'
    BY <1>1, <1>2, <1>4 DEF DescAllocPop, ClearHazard, SetHazard, UsedHeap, QueueUsed,
       FreeUsed, StaysUsed, QueueFrame, FreeFrame, Deq, Enq, Haz, Item, FreeFunc
  <2>4. FreeUsed(t)'
    BY <1>1, <1>2, <1>4 DEF DescAllocPop, ClearHazard, SetHazard, OpUsed, QueueUsed,
       FreeUsed, UsedHeap, StaysUsed, OpFrame, QueueFrame, FreeFrame, InFree, UsedLabels,
       OwnerLabels, Deq, Haz, Item
  <2> QED BY <2>1, <2>2, <2>3, <2>4 DEF UsedLocals
<1>5. CASE DescAllocBatch(t)
  <2>1. UsedHeap'
    BY <1>1, <1>2, <1>5 DEF DescAllocBatch, UsedHeap, StaysUsed, Object, Item
  <2>2. OpUsed(t)'
    BY <1>1, <1>2, <1>5 DEF DescAllocBatch, UsedHeap, OpUsed, QueueUsed, StaysUsed,
       UsedLabels, OwnerLabels, OpFrame, QueueFrame, FreeFrame, InFree, EnqLabels, FreeFunc,
       NoHaz, Op, Deq, Haz, HazReturn
  <2>3. QueueUsed(t)'
    BY <1>1, <1>2, <1>5 DEF DescAllocBatch, UsedHeap, QueueUsed, FreeUsed, StaysUsed,
       QueueFrame, FreeFrame, Deq, Enq, Haz, Item, FreeFunc
  <2>4. FreeUsed(t)'
    BY <1>1, <1>2, <1>5 DEF DescAllocBatch, OpUsed, QueueUsed, FreeUsed, UsedHeap,
       StaysUsed, OpFrame, QueueFrame, FreeFrame, InFree, UsedLabels, OwnerLabels, Deq, Haz,
       Item
  <2> QED BY <2>1, <2>2, <2>3, <2>4 DEF UsedLocals
<1>6. CASE AllocNewSb(t)
  <2>1. UsedHeap'
    BY <1>1, <1>2, <1>6 DEF AllocNewSb, UsedHeap, StaysUsed, Object, Item
  <2>2. OpUsed(t)'
    BY <1>1, <1>2, <1>6 DEF AllocNewSb, OpFrame, OwnerLabels, Op, OpUsed, Used
  <2>3. QueueUsed(t)'
    BY <1>1, <1>2, <1>6 DEF AllocNewSb, UsedHeap, QueueUsed, FreeUsed, StaysUsed,
       QueueFrame, FreeFrame, Deq, Enq, Haz, Item, FreeFunc
  <2>4. FreeUsed(t)'
    BY <1>1, <1>2, <1>6 DEF AllocNewSb, OpUsed, QueueUsed, FreeUsed, UsedHeap, StaysUsed,
       OpFrame, QueueFrame, FreeFrame, InFree, UsedLabels, OwnerLabels, Deq, Haz, Item
  <2> QED BY <2>1, <2>2, <2>3, <2>4 DEF UsedLocals
<1>7. CASE AllocPublishSb(t)
  <2>1. UsedHeap'
    BY <1>1, <1>2, <1>7, HeapStaysUsed, ElementsOfSelf DEF AllocPublishSb, ActiveIs, OpFrame,
      OpUsed, UsedLabels, OwnerLabels
  <2>2. OpUsed(t)'
    BY <1>1, <1>2, <1>7 DEF AllocPublishSb, ActiveIs, DescRetire, FreeOrQueue, NoOp,
       UsedHeap, OpUsed, QueueUsed, StaysUsed, UsedLabels, OwnerLabels, OpFrame, QueueFrame,
       FreeFrame, InFree, EnqLabels, FreeFunc, NoHaz, Op, Deq, Haz, HazReturn
  <2>3. QueueUsed(t)'
    BY <1>1, <1>2, <1>7 DEF AllocPublishSb, ActiveIs, DescRetire, FreeOrQueue, NoOp,
       UsedHeap, QueueUsed, FreeUsed, StaysUsed, QueueFrame, FreeFrame, Deq, Enq, Haz, Item,
       FreeFunc
  <2>4. FreeUsed(t)'
    BY <1>1, <1>2, <1>7 DEF AllocPublishSb, ActiveIs, DescRetire, FreeOrQueue, NoOp, OpUsed,
       QueueUsed, FreeUsed, UsedHeap, StaysUsed, OpFrame, QueueFrame, FreeFrame, InFree,
       UsedLabels, OwnerLabels, Deq, Haz, Item
  <2> QED BY <2>1, <2>2, <2>3, <2>4 DEF UsedLocals
<1> QED BY <1>3, <1>4, <1>5, <1>6, <1>7 DEF NewSbStep

(* The same of the steps of mono_lock_free_free.                           *)
LEMMA FreeStepUsed ==
  ASSUME NEW t \in Thread, TypeInv, UsedInv, StaysUsed, FreeStep(t)
  PROVE  UsedHeap' /\ UsedLocals(t)'
<1>1. /\ OpFrame(t) /\ QueueFrame(t) /\ FreeFrame(t)
      /\ OpUsed(t) /\ QueueUsed(t) /\ FreeUsed(t) /\ UsedHeap /\ StaysUsed
  BY DEF TypeInv, Frames, UsedInv, UsedLocals
<1>2. /\ pc \in [Thread -> Label] /\ op \in [Thread -> Op] /\ deq \in [Thread -> Deq]
      /\ enq \in [Thread -> Enq] /\ haz \in [Thread -> Haz]
      /\ active \in Desc \cup {NULL} /\ delayed \subseteq Item /\ live \subseteq Object
      /\ queue \in Seq(Node) /\ queue # <<>>
      /\ NULL \notin Desc /\ NULL \notin Item /\ Dummy \cap Desc = {}
      /\ anchor \in [Desc -> Anchor] /\ in_use \in [Desc -> BOOLEAN]
  BY NodeAssumption DEF TypeInv, TypeOK, ThreadTypeOK, HeapTypeOK, ServiceTypeOK, Node
<1>3. CASE FreeBegin(t)
  <2>1. UsedHeap'
    BY <1>1, <1>2, <1>3 DEF FreeBegin, UsedHeap, StaysUsed, Object, Item
  <2>2. OpUsed(t)'
    BY <1>1, <1>2, <1>3 DEF FreeBegin, Op, UsedHeap, Object, OpUsed, StaysUsed
  <2>3. QueueUsed(t)'
    BY <1>1, <1>2, <1>3 DEF FreeBegin, UsedHeap, QueueUsed, FreeUsed, StaysUsed, QueueFrame,
       FreeFrame, Deq, Enq, Haz, Item, FreeFunc
  <2>4. FreeUsed(t)'
    BY <1>1, <1>2, <1>3 DEF FreeBegin, OpUsed, QueueUsed, FreeUsed, UsedHeap, StaysUsed,
       OpFrame, QueueFrame, FreeFrame, InFree, UsedLabels, OwnerLabels, Deq, Haz, Item
  <2> QED BY <2>1, <2>2, <2>3, <2>4 DEF UsedLocals
<1>4. CASE FreeReadAnchor(t)
  <2>1. UsedHeap'
    BY <1>1, <1>2, <1>4 DEF FreeReadAnchor, UsedHeap, StaysUsed, Object, Item
  <2>2. OpUsed(t)'
    BY <1>1, <1>2, <1>4 DEF FreeReadAnchor, UsedHeap, OpUsed, QueueUsed, StaysUsed,
       UsedLabels, OwnerLabels, OpFrame, QueueFrame, FreeFrame, InFree, EnqLabels, FreeFunc,
       NoHaz, Op, Deq, Haz, HazReturn
  <2>3. QueueUsed(t)'
    BY <1>1, <1>2, <1>4 DEF FreeReadAnchor, UsedHeap, QueueUsed, FreeUsed, StaysUsed,
       QueueFrame, FreeFrame, Deq, Enq, Haz, Item, FreeFunc
  <2>4. FreeUsed(t)'
    BY <1>1, <1>2, <1>4 DEF FreeReadAnchor, OpUsed, QueueUsed, FreeUsed, UsedHeap,
       StaysUsed, OpFrame, QueueFrame, FreeFrame, InFree, UsedLabels, OwnerLabels, Deq, Haz,
       Item
  <2> QED BY <2>1, <2>2, <2>3, <2>4 DEF UsedLocals
<1>5. CASE FreeSetAnchor(t)
  <2>1. UsedHeap'
    BY <1>1, <1>2, <1>5 DEF FreeSetAnchor, NoOp, UsedHeap, StaysUsed, Object, Item
  <2>2. OpUsed(t)'
    <3>1. op[t].desc \in Desc /\ Used(op[t].desc) /\ haz'[t] = NoHaz
      BY <1>1, <1>5 DEF FreeSetAnchor, OpFrame, OpUsed, UsedLabels, FreeFrame, InFree,
         EnqLabels, FreeFunc
    <3>2. \/ pc'[t] \in {"idle", "free_steal"}
          \/ op'[t].desc = op[t].desc /\ pc'[t] \notin {"alloc_next", "alloc_cas"}
      BY <1>2, <1>5 DEF FreeSetAnchor, Op, NoOp
    <3> QED BY <1>1, <3>1, <3>2 DEF OpUsed, StaysUsed, UsedLabels, OwnerLabels, NoHaz
  <2>3. QueueUsed(t)'
    BY <1>1, <1>2, <1>5 DEF FreeSetAnchor, NoOp, UsedHeap, QueueUsed, FreeUsed, StaysUsed,
       QueueFrame, FreeFrame, Deq, Enq, Haz, Item, FreeFunc
  <2>4. FreeUsed(t)'
    BY <1>1, <1>2, <1>5 DEF FreeSetAnchor, NoOp, OpUsed, QueueUsed, FreeUsed, UsedHeap,
       StaysUsed, OpFrame, QueueFrame, FreeFrame, InFree, UsedLabels, OwnerLabels, Deq, Haz,
       Item
  <2> QED BY <2>1, <2>2, <2>3, <2>4 DEF UsedLocals
<1>6. CASE FreeSteal(t)
  <2>1. UsedHeap'
    BY <1>1, <1>2, <1>6 DEF FreeSteal, ActiveIs, NoOp, CallDequeue, UsedHeap, StaysUsed,
       Object, Item
  <2>2. OpUsed(t)'
    BY <1>1, <1>2, <1>6 DEF FreeSteal, ActiveIs, NoOp, CallDequeue, UsedHeap, OpUsed,
       QueueUsed, StaysUsed, UsedLabels, OwnerLabels, OpFrame, QueueFrame, FreeFrame,
       InFree, EnqLabels, FreeFunc, NoHaz, Op, Deq, Haz, HazReturn
  <2>3. QueueUsed(t)'
    BY <1>1, <1>2, <1>6 DEF FreeSteal, ActiveIs, NoOp, CallDequeue, UsedHeap, QueueUsed,
       FreeUsed, StaysUsed, QueueFrame, FreeFrame, Deq, Enq, Haz, Item, FreeFunc
  <2>4. FreeUsed(t)'
    BY <1>1, <1>2, <1>6 DEF FreeSteal, ActiveIs, NoOp, CallDequeue, OpUsed, QueueUsed,
       FreeUsed, UsedHeap, StaysUsed, OpFrame, QueueFrame, FreeFrame, InFree, UsedLabels,
       OwnerLabels, Deq, Haz, Item
  <2> QED BY <2>1, <2>2, <2>3, <2>4 DEF UsedLocals
<1>7. CASE FreeRetire(t)
  <2>1. UsedHeap'
    BY <1>1, <1>2, <1>7 DEF FreeRetire, NoOp, DescRetire, FreeOrQueue, UsedHeap, StaysUsed,
       Object, Item
  <2>2. OpUsed(t)'
    BY <1>1, <1>2, <1>7 DEF FreeRetire, NoOp, DescRetire, FreeOrQueue, UsedHeap, OpUsed,
       QueueUsed, StaysUsed, UsedLabels, OwnerLabels, OpFrame, QueueFrame, FreeFrame,
       InFree, EnqLabels, FreeFunc, NoHaz, Op, Deq, Haz, HazReturn
  <2>3. QueueUsed(t)'
    BY <1>1, <1>2, <1>7 DEF FreeRetire, NoOp, DescRetire, FreeOrQueue, UsedHeap, QueueUsed,
       FreeUsed, StaysUsed, QueueFrame, FreeFrame, Deq, Enq, Haz, Item, FreeFunc
  <2>4. FreeUsed(t)'
    BY <1>1, <1>2, <1>7 DEF FreeRetire, NoOp, DescRetire, FreeOrQueue, OpUsed, QueueUsed,
       FreeUsed, UsedHeap, StaysUsed, OpFrame, QueueFrame, FreeFrame, InFree, UsedLabels,
       OwnerLabels, Deq, Haz, Item
  <2> QED BY <2>1, <2>2, <2>3, <2>4 DEF UsedLocals
<1>8. CASE FreeGiveBack(t)
  <2>1. UsedHeap'
    BY <1>1, <1>2, <1>8, HeapStaysUsed, ElementsOfSelf DEF FreeGiveBack, ActiveIs, OpFrame, OpUsed,
      UsedLabels, OwnerLabels
  <2>2. OpUsed(t)'
    BY <1>1, <1>2, <1>8 DEF FreeGiveBack, ActiveIs, NoOp, ListPutPartial, FreeOrQueue,
       UsedHeap, OpUsed, QueueUsed, StaysUsed, UsedLabels, OwnerLabels, OpFrame, QueueFrame,
       FreeFrame, InFree, EnqLabels, FreeFunc, NoHaz, Op, Deq, Haz, HazReturn
  <2>3. QueueUsed(t)'
    BY <1>1, <1>2, <1>8 DEF FreeGiveBack, ActiveIs, NoOp, ListPutPartial, FreeOrQueue,
       UsedHeap, QueueUsed, FreeUsed, StaysUsed, QueueFrame, FreeFrame, Deq, Enq, Haz, Item,
       FreeFunc
  <2>4. FreeUsed(t)'
    BY <1>1, <1>2, <1>8 DEF FreeGiveBack, ActiveIs, NoOp, ListPutPartial, FreeOrQueue,
       OpUsed, QueueUsed, FreeUsed, UsedHeap, StaysUsed, OpFrame, QueueFrame, FreeFrame,
       InFree, UsedLabels, OwnerLabels, Deq, Haz, Item
  <2> QED BY <2>1, <2>2, <2>3, <2>4 DEF UsedLocals
<1>9. CASE RemoveEmptyGot(t)
  <2>1. UsedHeap'
    BY <1>1, <1>2, <1>9 DEF RemoveEmptyGot, NoOp, NoDeq, DescRetire, ListPutPartial,
       FreeOrQueue, UsedHeap, StaysUsed, Object, Item
  <2>2. OpUsed(t)'
    BY <1>1, <1>2, <1>9 DEF RemoveEmptyGot, NoOp, NoDeq, DescRetire, ListPutPartial,
       FreeOrQueue, UsedHeap, OpUsed, QueueUsed, StaysUsed, UsedLabels, OwnerLabels,
       OpFrame, QueueFrame, FreeFrame, InFree, EnqLabels, FreeFunc, NoHaz, Op, Deq, Haz,
       HazReturn
  <2>3. QueueUsed(t)'
    BY <1>1, <1>2, <1>9 DEF RemoveEmptyGot, NoOp, NoDeq, DescRetire, ListPutPartial,
       FreeOrQueue, UsedHeap, QueueUsed, FreeUsed, StaysUsed, QueueFrame, FreeFrame, Deq,
       Enq, Haz, Item, FreeFunc
  <2>4. FreeUsed(t)'
    BY <1>1, <1>2, <1>9 DEF RemoveEmptyGot, NoOp, NoDeq, DescRetire, ListPutPartial,
       FreeOrQueue, OpUsed, QueueUsed, FreeUsed, UsedHeap, StaysUsed, OpFrame, QueueFrame,
       FreeFrame, InFree, UsedLabels, OwnerLabels, Deq, Haz, Item
  <2> QED BY <2>1, <2>2, <2>3, <2>4 DEF UsedLocals
<1>10. CASE RemoveEmptyAgain(t)
  <2>1. UsedHeap'
    BY <1>1, <1>2, <1>10 DEF RemoveEmptyAgain, NoOp, CallDequeue, UsedHeap, StaysUsed,
       Object, Item
  <2>2. OpUsed(t)'
    BY <1>1, <1>2, <1>10 DEF RemoveEmptyAgain, NoOp, CallDequeue, UsedHeap, OpUsed,
       QueueUsed, StaysUsed, UsedLabels, OwnerLabels, OpFrame, QueueFrame, FreeFrame,
       InFree, EnqLabels, FreeFunc, NoHaz, Op, Deq, Haz, HazReturn
  <2>3. QueueUsed(t)'
    BY <1>1, <1>2, <1>10 DEF RemoveEmptyAgain, NoOp, CallDequeue, UsedHeap, QueueUsed,
       FreeUsed, StaysUsed, QueueFrame, FreeFrame, Deq, Enq, Haz, Item, FreeFunc
  <2>4. FreeUsed(t)'
    BY <1>1, <1>2, <1>10 DEF RemoveEmptyAgain, NoOp, CallDequeue, OpUsed, QueueUsed,
       FreeUsed, UsedHeap, StaysUsed, OpFrame, QueueFrame, FreeFrame, InFree, UsedLabels,
       OwnerLabels, Deq, Haz, Item
  <2> QED BY <2>1, <2>2, <2>3, <2>4 DEF UsedLocals
<1> QED BY <1>3, <1>4, <1>5, <1>6, <1>7, <1>8, <1>9, <1>10 DEF FreeStep

(* The same of the steps of the partial queue.                             *)
LEMMA QueueStepUsed ==
  ASSUME NEW t \in Thread, TypeInv, UsedInv, StaysUsed, QueueStep(t)
  PROVE  UsedHeap' /\ UsedLocals(t)'
<1>1. /\ OpFrame(t) /\ QueueFrame(t) /\ FreeFrame(t)
      /\ OpUsed(t) /\ QueueUsed(t) /\ FreeUsed(t) /\ UsedHeap /\ StaysUsed
  BY DEF TypeInv, Frames, UsedInv, UsedLocals
<1>2. /\ pc \in [Thread -> Label] /\ op \in [Thread -> Op] /\ deq \in [Thread -> Deq]
      /\ enq \in [Thread -> Enq] /\ haz \in [Thread -> Haz]
      /\ active \in Desc \cup {NULL} /\ delayed \subseteq Item /\ live \subseteq Object
      /\ queue \in Seq(Node) /\ queue # <<>>
      /\ NULL \notin Desc /\ NULL \notin Item /\ Dummy \cap Desc = {}
      /\ anchor \in [Desc -> Anchor] /\ in_use \in [Desc -> BOOLEAN]
  BY NodeAssumption DEF TypeInv, TypeOK, ThreadTypeOK, HeapTypeOK, ServiceTypeOK, Node
<1>3. CASE DequeueReadHead(t)
  <2>1. UsedHeap'
    BY <1>1, <1>2, <1>3 DEF DequeueReadHead, SetHazard, UsedHeap, StaysUsed, Object, Item
  <2>2. OpUsed(t)'
    BY <1>1, <1>2, <1>3 DEF DequeueReadHead, SetHazard, UsedHeap, OpUsed, QueueUsed,
       StaysUsed, UsedLabels, OwnerLabels, OpFrame, QueueFrame, FreeFrame, InFree,
       EnqLabels, FreeFunc, NoHaz, Op, Deq, Haz, HazReturn
  <2>3. QueueUsed(t)'
    BY <1>1, <1>2, <1>3 DEF DequeueReadHead, SetHazard, UsedHeap, QueueUsed, FreeUsed,
       StaysUsed, QueueFrame, FreeFrame, Deq, Enq, Haz, Item, FreeFunc
  <2>4. FreeUsed(t)'
    BY <1>1, <1>2, <1>3 DEF DequeueReadHead, SetHazard, OpUsed, QueueUsed, FreeUsed,
       UsedHeap, StaysUsed, OpFrame, QueueFrame, FreeFrame, InFree, UsedLabels, OwnerLabels,
       Deq, Haz, Item
  <2> QED BY <2>1, <2>2, <2>3, <2>4 DEF UsedLocals
<1>4. CASE DequeueTry(t)
  <2>1. UsedHeap'
    BY <1>1, <1>2, <1>4, TailElements, ElementsOfSelf, HeapStaysUsed DEF DequeueTry
  <2>2. OpUsed(t)'
    BY <1>1, <1>2, <1>4 DEF DequeueTry, NoDummyToEnqueue, DequeueReturn, CallEnqueue, Deq, OpUsed,
      StaysUsed, UsedLabels, OwnerLabels, OpFrame
  <2>3. QueueUsed(t)'
    BY <1>1, <1>2, <1>4 DEF DequeueTry, ClearHazard, SetHazard, DequeueReturn, UsedHeap,
       QueueUsed, FreeUsed, StaysUsed, QueueFrame, FreeFrame, Deq, Enq, Haz, Item, FreeFunc
  <2>4. FreeUsed(t)'
    BY <1>1, <1>2, <1>4 DEF DequeueTry, ClearHazard, SetHazard, DequeueReturn, OpUsed,
       QueueUsed, FreeUsed, UsedHeap, StaysUsed, OpFrame, QueueFrame, FreeFrame, InFree,
       UsedLabels, OwnerLabels, Deq, Haz, Item
  <2> QED BY <2>1, <2>2, <2>3, <2>4 DEF UsedLocals
<1>5. CASE DequeueDummy(t)
  <2>1. UsedHeap'
    BY <1>1, <1>2, <1>5 DEF DequeueDummy, FreeOrQueue, UsedHeap, StaysUsed, Object, Item
  <2>2. OpUsed(t)'
    BY <1>1, <1>2, <1>5 DEF DequeueDummy, FreeOrQueue, UsedHeap, OpUsed, QueueUsed,
       StaysUsed, UsedLabels, OwnerLabels, OpFrame, QueueFrame, FreeFrame, InFree,
       EnqLabels, FreeFunc, NoHaz, Op, Deq, Haz, HazReturn
  <2>3. QueueUsed(t)'
    BY <1>1, <1>2, <1>5 DEF DequeueDummy, FreeOrQueue, UsedHeap, QueueUsed, FreeUsed,
       StaysUsed, QueueFrame, FreeFrame, Deq, Enq, Haz, Item, FreeFunc
  <2>4. FreeUsed(t)'
    BY <1>1, <1>2, <1>5 DEF DequeueDummy, FreeOrQueue, OpUsed, QueueUsed, FreeUsed,
       UsedHeap, StaysUsed, OpFrame, QueueFrame, FreeFrame, InFree, UsedLabels, OwnerLabels,
       Deq, Haz, Item
  <2> QED BY <2>1, <2>2, <2>3, <2>4 DEF UsedLocals
<1>6. CASE ReenqueuePickDummy(t)
  <2>1. UsedHeap'
    BY <1>1, <1>2, <1>6 DEF ReenqueuePickDummy, NoDummyToEnqueue, DequeueReturn, UsedHeap,
       StaysUsed, Object, Item
  <2>2. OpUsed(t)'
    BY <1>1, <1>2, <1>6 DEF ReenqueuePickDummy, NoDummyToEnqueue, DequeueReturn, UsedHeap,
       OpUsed, QueueUsed, StaysUsed, UsedLabels, OwnerLabels, OpFrame, QueueFrame,
       FreeFrame, InFree, EnqLabels, FreeFunc, NoHaz, Op, Deq, Haz, HazReturn
  <2>3. QueueUsed(t)'
    BY <1>1, <1>2, <1>6 DEF ReenqueuePickDummy, NoDummyToEnqueue, DequeueReturn, UsedHeap,
       QueueUsed, FreeUsed, StaysUsed, QueueFrame, FreeFrame, Deq, Enq, Haz, Item, FreeFunc
  <2>4. FreeUsed(t)'
    BY <1>1, <1>2, <1>6 DEF ReenqueuePickDummy, NoDummyToEnqueue, DequeueReturn, OpUsed,
       QueueUsed, FreeUsed, UsedHeap, StaysUsed, OpFrame, QueueFrame, FreeFrame, InFree,
       UsedLabels, OwnerLabels, Deq, Haz, Item
  <2> QED BY <2>1, <2>2, <2>3, <2>4 DEF UsedLocals
<1>7. CASE ReenqueueClaim(t)
  <2>1. UsedHeap'
    BY <1>1, <1>2, <1>7 DEF ReenqueueClaim, CallEnqueue, NoDummyToEnqueue, DequeueReturn,
       UsedHeap, StaysUsed, Object, Item
  <2>2. OpUsed(t)'
    BY <1>1, <1>2, <1>7 DEF ReenqueueClaim, NoDummyToEnqueue, DequeueReturn, CallEnqueue, Deq,
      OpUsed, StaysUsed, UsedLabels, OwnerLabels, OpFrame
  <2>3. QueueUsed(t)'
    BY <1>1, <1>2, <1>7 DEF ReenqueueClaim, CallEnqueue, NoDummyToEnqueue, DequeueReturn,
       UsedHeap, QueueUsed, FreeUsed, StaysUsed, QueueFrame, FreeFrame, Deq, Enq, Haz, Item,
       FreeFunc
  <2>4. FreeUsed(t)'
    BY <1>1, <1>2, <1>7 DEF ReenqueueClaim, CallEnqueue, NoDummyToEnqueue, DequeueReturn,
       OpUsed, QueueUsed, FreeUsed, UsedHeap, StaysUsed, OpFrame, QueueFrame, FreeFrame,
       InFree, UsedLabels, OwnerLabels, Deq, Haz, Item
  <2> QED BY <2>1, <2>2, <2>3, <2>4 DEF UsedLocals
<1>8. CASE EnqueueStart(t)
  <2>1. UsedHeap'
    BY <1>1, <1>2, <1>8 DEF EnqueueStart, UsedHeap, StaysUsed, Object, Item
  <2>2. OpUsed(t)'
    BY <1>1, <1>2, <1>8 DEF EnqueueStart, UsedHeap, OpUsed, QueueUsed, StaysUsed,
       UsedLabels, OwnerLabels, OpFrame, QueueFrame, FreeFrame, InFree, EnqLabels, FreeFunc,
       NoHaz, Op, Deq, Haz, HazReturn
  <2>3. QueueUsed(t)'
    BY <1>1, <1>2, <1>8 DEF EnqueueStart, UsedHeap, QueueUsed, FreeUsed, StaysUsed,
       QueueFrame, FreeFrame, Deq, Enq, Haz, Item, FreeFunc
  <2>4. FreeUsed(t)'
    BY <1>1, <1>2, <1>8 DEF EnqueueStart, OpUsed, QueueUsed, FreeUsed, UsedHeap, StaysUsed,
       OpFrame, QueueFrame, FreeFrame, InFree, UsedLabels, OwnerLabels, Deq, Haz, Item
  <2> QED BY <2>1, <2>2, <2>3, <2>4 DEF UsedLocals
<1>9. CASE EnqueueReadTail(t)
  <2>1. UsedHeap'
    BY <1>1, <1>2, <1>9 DEF EnqueueReadTail, SetHazard, UsedHeap, StaysUsed, Object, Item
  <2>2. OpUsed(t)'
    BY <1>1, <1>2, <1>9 DEF EnqueueReadTail, SetHazard, UsedHeap, OpUsed, QueueUsed,
       StaysUsed, UsedLabels, OwnerLabels, OpFrame, QueueFrame, FreeFrame, InFree,
       EnqLabels, FreeFunc, NoHaz, Op, Deq, Haz, HazReturn
  <2>3. QueueUsed(t)'
    BY <1>1, <1>2, <1>9 DEF EnqueueReadTail, SetHazard, UsedHeap, QueueUsed, FreeUsed,
       StaysUsed, QueueFrame, FreeFrame, Deq, Enq, Haz, Item, FreeFunc
  <2>4. FreeUsed(t)'
    BY <1>1, <1>2, <1>9 DEF EnqueueReadTail, SetHazard, OpUsed, QueueUsed, FreeUsed,
       UsedHeap, StaysUsed, OpFrame, QueueFrame, FreeFrame, InFree, UsedLabels, OwnerLabels,
       Deq, Haz, Item
  <2> QED BY <2>1, <2>2, <2>3, <2>4 DEF UsedLocals
<1>10. CASE EnqueueLink(t)
  <2>1. UsedHeap'
    <3>1. queue' = queue \/ queue' = Append(queue, enq[t].node)
      BY <1>10 DEF EnqueueLink
    <3>2. enq[t].node \in Node /\ (enq[t].node \in Desc => Used(enq[t].node))
      BY <1>1, <1>10 DEF EnqueueLink, QueueFrame, EnqLabels, QueueUsed
    <3>3. \A i \in DOMAIN queue' : InSequence(queue'[i], queue) \/ queue'[i] = enq[t].node
      BY <1>2, <3>1, <3>2, AppendElements, ElementsOfSelf
    <3>4. UNCHANGED <<active, delayed, live>>
      BY <1>10 DEF EnqueueLink
    <3> QED BY <1>1, <1>2, <3>2, <3>3, <3>4, HeapStaysUsed
  <2>2. OpUsed(t)'
    BY <1>1, <1>2, <1>10 DEF EnqueueLink, NoDummyToEnqueue, DequeueReturn, CallEnqueue, Enq, OpUsed,
      StaysUsed, UsedLabels, OwnerLabels, OpFrame
  <2>3. QueueUsed(t)'
    BY <1>1, <1>2, <1>10 DEF EnqueueLink, ClearHazard, SetHazard, NoEnq, UsedHeap,
       QueueUsed, FreeUsed, StaysUsed, QueueFrame, FreeFrame, Deq, Enq, Haz, Item, FreeFunc
  <2>4. FreeUsed(t)'
    BY <1>1, <1>2, <1>10 DEF EnqueueLink, ClearHazard, SetHazard, NoEnq, OpUsed, QueueUsed,
       FreeUsed, UsedHeap, StaysUsed, OpFrame, QueueFrame, FreeFrame, InFree, UsedLabels,
       OwnerLabels, Deq, Haz, Item
  <2> QED BY <2>1, <2>2, <2>3, <2>4 DEF UsedLocals
<1> QED BY <1>3, <1>4, <1>5, <1>6, <1>7, <1>8, <1>9, <1>10 DEF QueueStep

(* The same of the steps of the hazardous free.                            *)
LEMMA HazardStepUsed ==
  ASSUME NEW t \in Thread, TypeInv, UsedInv, StaysUsed, HazardStep(t)
  PROVE  UsedHeap' /\ UsedLocals(t)'
<1>1. /\ OpFrame(t) /\ QueueFrame(t) /\ FreeFrame(t)
      /\ OpUsed(t) /\ QueueUsed(t) /\ FreeUsed(t) /\ UsedHeap /\ StaysUsed
  BY DEF TypeInv, Frames, UsedInv, UsedLocals
<1>2. /\ pc \in [Thread -> Label] /\ op \in [Thread -> Op] /\ deq \in [Thread -> Deq]
      /\ enq \in [Thread -> Enq] /\ haz \in [Thread -> Haz]
      /\ active \in Desc \cup {NULL} /\ delayed \subseteq Item /\ live \subseteq Object
      /\ queue \in Seq(Node) /\ queue # <<>>
      /\ NULL \notin Desc /\ NULL \notin Item /\ Dummy \cap Desc = {}
      /\ anchor \in [Desc -> Anchor] /\ in_use \in [Desc -> BOOLEAN]
  BY NodeAssumption DEF TypeInv, TypeOK, ThreadTypeOK, HeapTypeOK, ServiceTypeOK, Node
<1>3. CASE FreePop(t)
  <2>1. UsedHeap'
    BY <1>1, <1>2, <1>3 DEF FreePop, UsedHeap, StaysUsed, Object, Item
  <2>2. OpUsed(t)'
    BY <1>1, <1>2, <1>3, FreePopFields DEF FreePop, OpUsed, StaysUsed, UsedLabels, OwnerLabels,
      OpFrame
  <2>3. QueueUsed(t)'
    BY <1>1, <1>2, <1>3 DEF FreePop, UsedHeap, QueueUsed, FreeUsed, StaysUsed, QueueFrame,
       FreeFrame, Deq, Enq, Haz, Item, FreeFunc
  <2>4. FreeUsed(t)'
    BY <1>1, <1>2, <1>3, FreePopFields DEF FreePop, FreeFrame, InFree, FreeUsed, UsedHeap, Used
  <2> QED BY <2>1, <2>2, <2>3, <2>4 DEF UsedLocals
<1>4. CASE FreeCheck(t)
  <2>1. UsedHeap'
    <3>1. \A x \in delayed' : x \in delayed \/ x = haz[t].item
      BY <1>4 DEF FreeCheck
    <3>2. haz[t].item \in Item /\ (haz[t].item.p \in Desc => Used(haz[t].item.p))
      <4>1. haz[t].item \in Item
        BY <1>1, <1>4 DEF FreeCheck, FreeFrame
      <4> QED BY <1>1, <1>2, <4>1 DEF FreeUsed
    <3>3. UNCHANGED <<active, queue, live>>
      BY <1>4 DEF FreeCheck
    <3> QED BY <1>1, <1>2, <3>1, <3>2, <3>3, HeapStaysUsed, ElementsOfSelf
  <2>2. OpUsed(t)'
    <3>1. op' = op /\ (NextItem(t) \/ (pc' = [pc EXCEPT ![t] = haz[t].item.fn] /\ haz' = haz))
      BY <1>4 DEF FreeCheck
    <3>2. haz[t].item \in Item
      BY <1>1, <1>4 DEF FreeCheck, FreeFrame
    <3>3. CASE NextItem(t)
      BY <1>1, <1>2, <3>1, <3>3, NextItemUsed
    <3>4. CASE pc' = [pc EXCEPT ![t] = haz[t].item.fn] /\ haz' = haz
      <4>1. pc'[t] \in FreeFunc
        BY <1>2, <3>2, <3>4 DEF Item, FreeFunc
      <4> QED BY <1>1, <1>2, <3>1, <3>4, <4>1 DEF OpUsed, FreeUsed, StaysUsed, UsedLabels,
         OwnerLabels, FreeFunc, OpFrame
    <3> QED BY <3>1, <3>3, <3>4
  <2>3. QueueUsed(t)'
    BY <1>1, <1>2, <1>4 DEF FreeCheck, NextItem, UsedHeap, QueueUsed, FreeUsed, StaysUsed,
       QueueFrame, FreeFrame, Deq, Enq, Haz, Item, FreeFunc
  <2>4. FreeUsed(t)'
    <3>1. op' = op /\ (NextItem(t) \/ (pc' = [pc EXCEPT ![t] = haz[t].item.fn] /\ haz' = haz))
      BY <1>4 DEF FreeCheck
    <3>2. haz[t].item \in Item
      BY <1>1, <1>4 DEF FreeCheck, FreeFrame
    <3>3. CASE NextItem(t)
      BY <1>1, <1>2, <3>1, <3>3, NextItemUsed
    <3>4. CASE pc' = [pc EXCEPT ![t] = haz[t].item.fn] /\ haz' = haz
      <4>1. pc'[t] \in FreeFunc
        BY <1>2, <3>2, <3>4 DEF Item, FreeFunc
      <4> QED BY <1>1, <1>2, <3>1, <3>4, <4>1 DEF OpUsed, FreeUsed, StaysUsed, UsedLabels,
         OwnerLabels, FreeFunc, OpFrame
    <3> QED BY <3>1, <3>3, <3>4
  <2> QED BY <2>1, <2>2, <2>3, <2>4 DEF UsedLocals
<1>5. CASE FreeDone(t)
  <2>1. UsedHeap'
    BY <1>1, <1>2, <1>5 DEF FreeDone, NextItem, UsedHeap, StaysUsed, Object, Item
  <2>2. OpUsed(t)'
    <3>1. NextItem(t) /\ op' = op
      BY <1>5 DEF FreeDone
    <3> QED BY <1>1, <1>2, <3>1, NextItemUsed
  <2>3. QueueUsed(t)'
    BY <1>1, <1>2, <1>5 DEF FreeDone, NextItem, UsedHeap, QueueUsed, FreeUsed, StaysUsed,
       QueueFrame, FreeFrame, Deq, Enq, Haz, Item, FreeFunc
  <2>4. FreeUsed(t)'
    <3>1. NextItem(t) /\ op' = op
      BY <1>5 DEF FreeDone
    <3> QED BY <1>1, <1>2, <3>1, NextItemUsed
  <2> QED BY <2>1, <2>2, <2>3, <2>4 DEF UsedLocals
<1>6. CASE FreeDummy(t)
  <2>1. UsedHeap'
    BY <1>1, <1>2, <1>6 DEF FreeDummy, NextItem, UsedHeap, StaysUsed, Object, Item
  <2>2. OpUsed(t)'
    <3>1. NextItem(t) /\ op' = op
      BY <1>6 DEF FreeDummy
    <3> QED BY <1>1, <1>2, <3>1, NextItemUsed
  <2>3. QueueUsed(t)'
    BY <1>1, <1>2, <1>6 DEF FreeDummy, NextItem, UsedHeap, QueueUsed, FreeUsed, StaysUsed,
       QueueFrame, FreeFrame, Deq, Enq, Haz, Item, FreeFunc
  <2>4. FreeUsed(t)'
    <3>1. NextItem(t) /\ op' = op
      BY <1>6 DEF FreeDummy
    <3> QED BY <1>1, <1>2, <3>1, NextItemUsed
  <2> QED BY <2>1, <2>2, <2>3, <2>4 DEF UsedLocals
<1>7. CASE DescPutPartial(t)
  <2>1. UsedHeap'
    BY <1>1, <1>2, <1>7 DEF DescPutPartial, CallEnqueue, UsedHeap, StaysUsed, Object, Item
  <2>2. OpUsed(t)'
    BY <1>1, <1>2, <1>7 DEF DescPutPartial, CallEnqueue, UsedHeap, OpUsed, QueueUsed,
       StaysUsed, UsedLabels, OwnerLabels, OpFrame, QueueFrame, FreeFrame, InFree,
       EnqLabels, FreeFunc, NoHaz, Op, Deq, Haz, HazReturn
  <2>3. QueueUsed(t)'
    <3>1. haz[t].item \in Item /\ (haz[t].item.p \in Desc => Used(haz[t].item.p))
      <4>1. haz[t].item \in Item
        BY <1>1, <1>7 DEF DescPutPartial, FreeFrame, FreeFunc
      <4> QED BY <1>1, <1>2, <4>1 DEF FreeUsed
    <3>2. enq' = [enq EXCEPT ![t] = [node |-> haz[t].item.p, ret |-> "fq_done"]] /\ deq' = deq
      BY <1>7 DEF DescPutPartial, CallEnqueue
    <3>3. enq'[t].node = haz[t].item.p
      BY <1>2, <3>2
    <3> QED BY <1>1, <3>1, <3>2, <3>3 DEF QueueUsed, StaysUsed
  <2>4. FreeUsed(t)'
    BY <1>1, <1>2, <1>7 DEF DescPutPartial, CallEnqueue, OpUsed, QueueUsed, FreeUsed,
       UsedHeap, StaysUsed, OpFrame, QueueFrame, FreeFrame, InFree, UsedLabels, OwnerLabels,
       Deq, Haz, Item
  <2> QED BY <2>1, <2>2, <2>3, <2>4 DEF UsedLocals
<1>8. CASE DescEnqueueAvail(t)
  <2>1. UsedHeap'
    BY <1>1, <1>2, <1>8 DEF DescEnqueueAvail, NextItem, UsedHeap, StaysUsed, Object, Item
  <2>2. OpUsed(t)'
    <3>1. NextItem(t) /\ op' = op
      BY <1>8 DEF DescEnqueueAvail
    <3> QED BY <1>1, <1>2, <3>1, NextItemUsed
  <2>3. QueueUsed(t)'
    BY <1>1, <1>2, <1>8 DEF DescEnqueueAvail, NextItem, UsedHeap, QueueUsed, FreeUsed,
       StaysUsed, QueueFrame, FreeFrame, Deq, Enq, Haz, Item, FreeFunc
  <2>4. FreeUsed(t)'
    <3>1. NextItem(t) /\ op' = op
      BY <1>8 DEF DescEnqueueAvail
    <3> QED BY <1>1, <1>2, <3>1, NextItemUsed
  <2> QED BY <2>1, <2>2, <2>3, <2>4 DEF UsedLocals
<1> QED BY <1>3, <1>4, <1>5, <1>6, <1>7, <1>8 DEF HazardStep

(* A step of a thread changes no other thread's locals.                    *)
LEMMA StepLocals ==
  ASSUME NEW t \in Thread, TypeInv, Step(t)
  PROVE  \A u \in Thread \ {t} : SameLocals(u)
BY AllocStepLocals, NewSbStepLocals, FreeStepLocals, QueueStepLocals, HazardStepLocals DEF
   Step

(* What has been used stays used in every step.                            *)
LEMMA StepStaysUsed ==
  ASSUME NEW t \in Thread, TypeInv, UsedInv, Step(t)
  PROVE  StaysUsed
BY AllocStepStaysUsed, NewSbStepStaysUsed, FreeStepStaysUsed, QueueStepStaysUsed,
   HazardStepStaysUsed DEF Step

(* The locals of the other threads speak of the same descriptors.          *)
LEMMA OthersUsed ==
  ASSUME TypeInv, StaysUsed, NEW u \in Thread, UsedLocals(u), SameLocals(u)
  PROVE  UsedLocals(u)'
<1>1. OpFrame(u) /\ QueueFrame(u) /\ FreeFrame(u) /\ OpUsed(u) /\ QueueUsed(u) /\ FreeUsed(u)
  BY DEF TypeInv, Frames, UsedLocals
<1>2. OpUsed(u)'
  <2>1. pc[u] \in UsedLabels \/ haz[u].ret = "alloc_done" => op[u].desc \in Desc
    BY <1>1 DEF OpFrame, UsedLabels
  <2> QED BY <1>1, <2>1 DEF OpUsed, SameLocals, StaysUsed
<1>3. QueueUsed(u)'
  BY <1>1 DEF QueueUsed, SameLocals, StaysUsed
<1>4. FreeUsed(u)'
  BY <1>1 DEF FreeUsed, SameLocals, StaysUsed
<1> QED BY <1>2, <1>3, <1>4 DEF UsedLocals

(* UsedInv is inductive relative to the type invariant.                    *)
LEMMA UsedStep ==
  ASSUME NEW t \in Thread, TypeInv, UsedInv, Step(t)
  PROVE  UsedInv'
  BY StepStaysUsed, AllocStepUsed, NewSbStepUsed, FreeStepUsed, QueueStepUsed, HazardStepUsed,
    StepLocals, OthersUsed DEF Step, UsedInv

-----------------------------------------------------------------------------
(* Ownership. OneOwner is not inductive: a free that makes a FULL          *)
(* descriptor PARTIAL becomes its owner without taking it from anywhere,   *)
(* and a dummy or a batch of descriptors also comes out of nowhere. The    *)
(* strengthening says what is nowhere: a FULL descriptor in use, a dummy   *)
(* whose in_use flag is not set, and what has not been acquired yet.       *)

(* The places of a node as thread t sees them: the heap's and its own.     *)
Near(n, t) == HeapPlaces(n) \cup Holds(n, t)

(* Node n is in at most one place: no heap place excludes another or a     *)
(* hand, and no two threads hold it.                                       *)
Unique(n) ==
  /\ \A p, q \in HeapPlaces(n) : p = q
  /\ \A t \in Thread : \A p, q \in Near(n, t) : p = q
  /\ \A t, u \in Thread : t = u \/ Holds(n, t) = {} \/ Holds(n, u) = {}

(* Nobody holds node n and no list contains it.                            *)
Nowhere(n) == HeapPlaces(n) = {} /\ \A t \in Thread : Holds(n, t) = {}

(* A sequence without repetition.                                          *)
Distinct(s) == \A i, j \in DOMAIN s : s[i] = s[j] => i = j

(* The lists contain a node at most once.                                  *)
ListsDistinct ==
  /\ Distinct(queue) /\ Distinct(desc_avail)
  /\ \A x, y \in delayed : x.p = y.p => x = y

(* A superblock all of whose slots are allocated: only its objects lead to *)
(* it.                                                                     *)
FullInUse(d) == in_use[d] /\ anchor[d].state = "FULL"

(* What is nowhere.                                                        *)
Unlisted ==
  /\ \A d \in Desc : FullInUse(d) => Nowhere(d)
  /\ \A m \in Dummy : ~dummy_in_use[m] => Nowhere(m)
  /\ \A d \in Desc \ Acquired : ~in_use[d] /\ Nowhere(d)

(* The ownership invariant.                                                *)
OwnInv == (\A n \in Node : Unique(n)) /\ ListsDistinct /\ Unlisted

(* What a step of thread t can do to the places of node n: nothing new, a  *)
(* move, or a place for a node that was nowhere.                           *)
Stays(n, t) == Near(n, t)' \subseteq Near(n, t)
Moves(n, t) == Near(n, t) # {} /\ \E q : Near(n, t)' \subseteq {q}
Enters(n, t) ==
  /\ Nowhere(n) /\ \E q : Near(n, t)' \subseteq {q}
  /\ n \in Desc => ~FullInUse(n)' /\ n \in Acquired'
  /\ n \in Dummy => dummy_in_use'[n]

Effects(t) == \A n \in Node : Stays(n, t) \/ Moves(n, t) \/ Enters(n, t)

(* What it can do to the flags.                                            *)
FlagsKept ==
  /\ \A d \in Desc : FullInUse(d)' => FullInUse(d) \/ Nowhere(d)'
  /\ \A m \in Dummy : ~dummy_in_use'[m] => ~dummy_in_use[m] \/ Nowhere(m)'
  /\ Acquired \subseteq Acquired'
  /\ \A d \in Desc : in_use'[d] => in_use[d] \/ d \in Acquired

(* A step leaves what the other threads hold.                              *)
LEMMA HoldsOther ==
  ASSUME NEW n, NEW u \in Thread, SameLocals(u)
  PROVE  Holds(n, u)' = Holds(n, u)
BY DEF Holds, SameLocals

(* Places in the heap and places in a hand have different names.           *)
LEMMA PlaceNames ==
  ASSUME NEW n, NEW t
  PROVE  HeapPlaces(n) \cap Holds(n, t) = {}
BY DEF HeapPlaces, Holds

(* A node in one place stays in one place if the step lets it stay, moves  *)
(* it or takes it from nowhere.                                            *)
LEMMA UniqueStep ==
  ASSUME NEW n, NEW t \in Thread, \A u \in Thread \ {t} : SameLocals(u), Unique(n),
         Stays(n, t) \/ Moves(n, t) \/ Enters(n, t)
  PROVE  Unique(n)'
<1> DEFINE H == HeapPlaces(n)
           T(u) == Holds(n, u)
           G == HeapPlaces(n)'
           S(u) == Holds(n, u)'
<1>1. \A u \in Thread \ {t} : S(u) = T(u)
  BY HoldsOther
<1>2. /\ \A u \in Thread : H \cap T(u) = {}
      /\ \A u \in Thread : G \cap S(u) = {}
      /\ \A u \in Thread : G \cap T(u) = {} /\ H \cap S(u) = {}
  BY DEF HeapPlaces, Holds
<1>3. /\ \A p, q \in H : p = q
      /\ \A u \in Thread : \A p, q \in H \cup T(u) : p = q
      /\ \A u, v \in Thread : u = v \/ T(u) = {} \/ T(v) = {}
  BY DEF Unique, Near
<1>4. \/ G \cup S(t) \subseteq H \cup T(t)
      \/ H \cup T(t) # {} /\ \E q : G \cup S(t) \subseteq {q}
      \/ H = {} /\ (\A u \in Thread : T(u) = {}) /\ \E q : G \cup S(t) \subseteq {q}
  BY DEF Stays, Moves, Enters, Near, Nowhere
<1> HIDE DEF H, T, G, S
<1>5. CASE G \cup S(t) \subseteq H \cup T(t)
  BY <1>1, <1>2, <1>3, <1>5 DEF Unique, Near, G, S
<1>6. CASE (\A u \in Thread \ {t} : T(u) = {}) /\ \E q : G \cup S(t) \subseteq {q}
  BY <1>1, <1>6 DEF Unique, Near, G, S
<1>7. H \cup T(t) # {} => \A u \in Thread \ {t} : T(u) = {}
  BY <1>2, <1>3
<1> QED BY <1>4, <1>5, <1>6, <1>7

(* A node that is nowhere stays so unless it enters.                       *)
LEMMA NowhereStep ==
  ASSUME NEW n, NEW t \in Thread, \A u \in Thread \ {t} : SameLocals(u), Nowhere(n),
         Stays(n, t) \/ Moves(n, t)
  PROVE  Nowhere(n)'
  BY HoldsOther DEF Nowhere, Near, Stays, Moves

(* A step with these effects on the nodes, the lists and the flags keeps   *)
(* OwnInv.                                                                 *)
LEMMA OwnKept ==
  ASSUME NEW t \in Thread, \A u \in Thread \ {t} : SameLocals(u), OwnInv, Effects(t),
         ListsDistinct', FlagsKept
  PROVE  OwnInv'
  BY UniqueStep, NowhereStep DEF OwnInv, Effects, Unlisted, FlagsKept, Enters, Node

(* The ways a node moves.                                                  *)
LEMMA MoveStep ==
  ASSUME NEW n \in Node, NEW t \in Thread, Unique(n), NEW p \in Near(n, t), NEW q,
         Near(n, t)' \subseteq (Near(n, t) \ {p}) \cup {q}
  PROVE  Moves(n, t)
BY DEF Unique, Moves

(* The heap places depend on the four lists only.                          *)
LEMMA SameHeap ==
  ASSUME NEW n, UNCHANGED <<active, queue, desc_avail, delayed>>
  PROVE  HeapPlaces(n)' = HeapPlaces(n)
BY DEF HeapPlaces

(* A step that changes no list and takes nothing moves no node.            *)
LEMMA NoneMoves ==
  ASSUME NEW t \in Thread, UNCHANGED <<active, queue, desc_avail, delayed>>,
         \A m \in Node : Holds(m, t)' \subseteq Holds(m, t)
  PROVE  Effects(t)
BY SameHeap DEF Effects, Stays, Near

(* Node n moves from place p to place q.                                   *)
Moved(S, m, n, p, q) == IF m = n THEN (S \ {p}) \cup {q} ELSE S

(* Only node n moves, as far as the heap goes, and as far as thread t's    *)
(* hands go.                                                               *)
HeapMoves(n, p, q) ==
  \A m \in Node : HeapPlaces(m)' \subseteq Moved(HeapPlaces(m), m, n, p, q)
HandMoves(t, n, p, q) ==
  \A m \in Node : Holds(m, t)' \subseteq Moved(Holds(m, t), m, n, p, q)

(* A step that moves one node from the place where it is.                  *)
LEMMA OneMoves ==
  ASSUME OwnInv, NEW t \in Thread, NEW n \in Node, NEW p \in Near(n, t), NEW q,
         HeapMoves(n, p, q),
         HandMoves(t, n, p, q)
  PROVE  Effects(t)
  BY MoveStep DEF Moved, HeapMoves, HandMoves, Stays, Near, OwnInv, Effects

(* A step that gives a place to a node that was nowhere.                   *)
LEMMA OneEnters ==
  ASSUME NEW t \in Thread, NEW n \in Node, NEW q, Nowhere(n),
         n \in Desc => ~FullInUse(n)' /\ n \in Acquired',
         n \in Dummy => dummy_in_use'[n],
         UNCHANGED <<active, queue, desc_avail, delayed>>,
         HandMoves(t, n, q, q)
  PROVE  Effects(t)
  BY SameHeap DEF Moved, HeapMoves, HandMoves, Stays, Near, Nowhere, Effects, Enters

(* A node leaves a list, or joins one.                                     *)
LEMMA HeadLeaves ==
  ASSUME NEW S, NEW s \in Seq(S), s # <<>>, Distinct(s)
  PROVE  /\ Distinct(Tail(s)) /\ InSequence(Head(s), s) /\ Head(s) \in S
         /\ \A m : InSequence(m, Tail(s)) => InSequence(m, s) /\ m # Head(s)
<1>1. /\ Tail(s) \in Seq(S) /\ Len(s) \in Nat /\ Len(s) # 0 /\ 1 \in DOMAIN s /\ Head(s) = s[1]
      /\ DOMAIN Tail(s) \subseteq Nat \ {0} /\ Head(s) \in S
  OBVIOUS
<1>2. \A i \in DOMAIN Tail(s) : i + 1 \in DOMAIN s /\ Tail(s)[i] = s[i + 1]
  BY TailElements
<1>3. Distinct(Tail(s))
  BY <1>1, <1>2 DEF Distinct
<1>4. \A i \in DOMAIN Tail(s) : Tail(s)[i] # Head(s)
  BY <1>1, <1>2 DEF Distinct
<1> QED BY <1>1, <1>2, <1>3, <1>4 DEF InSequence

(* A node joins a list at its end.                                         *)
LEMMA NodeAppended ==
  ASSUME NEW S, NEW s \in Seq(S), NEW e \in S
  PROVE  /\ \A m : InSequence(m, Append(s, e)) => InSequence(m, s) \/ m = e
         /\ Distinct(s) /\ ~InSequence(e, s) => Distinct(Append(s, e))
  BY AppendElements DEF InSequence, Distinct

(* A node joins a list at its front.                                       *)
LEMMA NodePrepended ==
  ASSUME NEW S, NEW s \in Seq(S), NEW e \in S
  PROVE  /\ <<e>> \o s \in Seq(S)
         /\ \A m : InSequence(m, <<e>> \o s) => InSequence(m, s) \/ m = e
         /\ Distinct(s) /\ ~InSequence(e, s) => Distinct(<<e>> \o s)
<1>1. /\ <<e>> \o s \in Seq(S) /\ Len(<<e>> \o s) = Len(s) + 1 /\ Len(s) \in Nat
      /\ DOMAIN (<<e>> \o s) = 1 .. Len(s) + 1 /\ DOMAIN s = 1 .. Len(s)
  OBVIOUS
<1>2. \A i \in 1 .. Len(s) + 1 : (<<e>> \o s)[i] = IF i = 1 THEN e ELSE s[i - 1]
  OBVIOUS
<1>3. \A i \in 1 .. Len(s) + 1 : i = 1 \/ i - 1 \in 1 .. Len(s)
  BY <1>1
<1>4. \A m : InSequence(m, <<e>> \o s) => InSequence(m, s) \/ m = e
  BY <1>1, <1>2, <1>3 DEF InSequence
<1>5. ASSUME Distinct(s), ~InSequence(e, s) PROVE Distinct(<<e>> \o s)
  <2> SUFFICES ASSUME NEW i \in 1 .. Len(s) + 1, NEW j \in 1 .. Len(s) + 1,
                      (<<e>> \o s)[i] = (<<e>> \o s)[j]
               PROVE  i = j
    BY <1>1 DEF Distinct
  <2>1. CASE i = 1 \/ j = 1
    BY <1>1, <1>2, <1>3, <1>5, <2>1 DEF InSequence
  <2>2. CASE i # 1 /\ j # 1
    <3>1. i - 1 = j - 1
      BY <1>1, <1>2, <1>3, <1>5, <2>2 DEF Distinct
    <3> QED BY <3>1
  <2> QED BY <2>1, <2>2
<1> QED BY <1>1, <1>4, <1>5

(* What a thread holds when it is done with an item.                       *)
LEMMA NextItemHolds ==
  ASSUME NEW t \in Thread, pc \in [Thread -> Label], haz \in [Thread -> Haz], NextItem(t),
         NULL \notin Item, UNCHANGED <<op, deq, enq>>
  PROVE  \A m \in Node : Holds(m, t)' \subseteq Holds(m, t) \ {"item"}
<1>1. haz[t].ret \in HazReturn
  BY DEF Haz
<1>2. CASE haz[t].tries = FreeAttempts + 1
  BY <1>1, <1>2 DEF NextItem, NoHaz, Holds, HazReturn, OwnerLabels, FreeFunc
<1>3. CASE haz[t].tries # FreeAttempts + 1
  BY <1>3 DEF NextItem, Haz, Holds, OwnerLabels, FreeFunc
<1> QED BY <1>2, <1>3

(* A batch of descriptors from the system is new: none of them has been    *)
(* acquired before, and no two are the same.                               *)
LEMMA FreshBatch ==
  ASSUME TypeInv, batches < Len(Batches), batches' = batches + 1,
         NEW b, b = Batches[batches + 1]
  PROVE  /\ b \in Seq(Desc) /\ b # <<>> /\ Distinct(b)
         /\ \A m : InSequence(m, b) => m \in Desc /\ m \in Acquired' /\ m \notin Acquired
         /\ Acquired \subseteq Acquired'
<1>1. batches \in Nat /\ Len(Batches) \in Nat /\ batches + 1 \in 1 .. Len(Batches)
  BY BatchesAssumption DEF TypeInv, TypeOK, HeapTypeOK
<1>2. DOMAIN Batches = 1 .. Len(Batches) /\ \A k \in DOMAIN Batches : Batches[k] \in Seq(Desc)
  BY BatchesAssumption
<1>3. b \in Seq(Desc) /\ b # <<>>
  BY <1>1, <1>2, BatchesAssumption
<1>4. Distinct(b)
  BY <1>1, <1>2, DistinctAssumption DEF Distinct
<1>5. Acquired \subseteq Acquired'
  BY <1>1 DEF Acquired
<1>6. ASSUME NEW m, InSequence(m, b) PROVE m \in Desc /\ m \in Acquired' /\ m \notin Acquired
  <2>1. m \in Desc
    BY <1>3, <1>6 DEF InSequence
  <2>2. batches + 1 \in 1 .. batches'
    BY <1>1
  <2>3. m \in Acquired'
    BY <1>6, <2>1, <2>2 DEF Acquired
  <2>4. ASSUME m \in Acquired PROVE FALSE
    BY <1>1, <1>2, <1>6, <2>4, DistinctAssumption DEF Acquired, InSequence
  <2> QED BY <2>1, <2>3, <2>4
<1> QED BY <1>3, <1>4, <1>5, <1>6

(* What a step of an allocation does to the places of the nodes.           *)
LEMMA AllocStepEffects ==
  ASSUME NEW t \in Thread, TypeInv, UsedInv, OwnInv, AllocStep(t)
  PROVE  Effects(t)
<1> USE DEF Holds, OwnerLabels, FreeFunc, OpFrame, QueueFrame, FreeFrame, InFree, EnqLabels,
   NoHaz, Op, Deq, Enq, Haz, HazReturn
<1>1. /\ OpFrame(t) /\ QueueFrame(t) /\ FreeFrame(t) /\ OpUsed(t) /\ OwnInv
  BY DEF TypeInv, Frames, UsedInv, UsedLocals
<1>2. /\ pc \in [Thread -> Label] /\ op \in [Thread -> Op] /\ deq \in [Thread -> Deq]
      /\ enq \in [Thread -> Enq] /\ haz \in [Thread -> Haz]
      /\ active \in Desc \cup {NULL} /\ desc_avail \in Seq(Desc) /\ delayed \subseteq Item
      /\ queue \in Seq(Node) /\ queue # <<>> /\ anchor \in [Desc -> Anchor]
      /\ dummy_in_use \in [Dummy -> BOOLEAN]
      /\ NULL \notin Node /\ NULL \notin Item /\ Dummy \cap Desc = {}
  BY NodeAssumption DEF TypeInv, TypeOK, ThreadTypeOK, HeapTypeOK, ServiceTypeOK, Node
<1>3. CASE AllocBegin(t)
  BY <1>1, <1>2, <1>3, NoneMoves DEF AllocBegin
<1>4. CASE AllocReadActive(t)
  <2>1. UNCHANGED <<active, queue, desc_avail, delayed>>
    BY <1>4 DEF AllocReadActive
  <2>2. \A m \in Node : Holds(m, t)' \subseteq Holds(m, t)
    BY <1>1, <1>2, <1>4 DEF AllocReadActive, CallDequeue
  <2> QED BY <2>1, <2>2, NoneMoves
<1>5. CASE AllocTakeActive(t)
  <2>1. CASE active = op[t].desc
    <3>1. op[t].desc \in Node /\ "active" \in Near(op[t].desc, t)
      BY <1>1, <1>2, <1>5, <2>1 DEF AllocTakeActive, ActiveIs, Near, HeapPlaces, Node, Item,
         InSequence
    <3>2. HeapMoves(op[t].desc, "active", "op")
      BY <1>1, <1>2, <1>5, <2>1 DEF AllocTakeActive, ActiveIs, HeapPlaces, HeapMoves, Moved,
         InSequence
    <3>3. HandMoves(t, op[t].desc, "active", "op")
      BY <1>1, <1>2, <1>5, <2>1 DEF AllocTakeActive, ActiveIs, HandMoves, Moved, Item
    <3> QED BY <1>1, <3>1, <3>2, <3>3, OneMoves
  <2>2. CASE active # op[t].desc
    BY <1>1, <1>2, <1>5, <2>2, NoneMoves DEF AllocTakeActive, ActiveIs
  <2> QED BY <2>1, <2>2
<1>6. CASE AllocGotPartial(t)
  <2>1. CASE deq[t].res = NULL
    <3>1. UNCHANGED <<active, queue, desc_avail, delayed>>
      BY <1>6, <2>1 DEF AllocGotPartial, DescRetire, FreeOrQueue, NoDeq
    <3>2. \A m \in Node : Holds(m, t)' \subseteq Holds(m, t)
      BY <1>1, <1>2, <1>6, <2>1 DEF AllocGotPartial, DescRetire, FreeOrQueue, NoDeq
    <3> QED BY <3>1, <3>2, NoneMoves
  <2>2. CASE deq[t].res # NULL /\ anchor[deq[t].res].state # "EMPTY"
    <3>1. deq[t].res \in Node /\ "deq" \in Near(deq[t].res, t)
      BY <1>1, <1>2, <1>6, <2>2 DEF AllocGotPartial, DescRetire, FreeOrQueue, NoDeq, Near,
         HeapPlaces, Node, Item, InSequence
    <3>2. HeapMoves(deq[t].res, "deq", "op")
      BY <1>1, <1>2, <1>6, <2>2 DEF AllocGotPartial, DescRetire, FreeOrQueue, NoDeq,
         HeapPlaces, HeapMoves, Moved, InSequence
    <3>3. HandMoves(t, deq[t].res, "deq", "op")
      BY <1>1, <1>2, <1>6, <2>2 DEF AllocGotPartial, DescRetire, FreeOrQueue, NoDeq,
         HandMoves, Moved, Item
    <3> QED BY <1>1, <3>1, <3>2, <3>3, OneMoves
  <2>3. CASE deq[t].res # NULL /\ anchor[deq[t].res].state = "EMPTY"
    <3>1. deq[t].res \in Node /\ "deq" \in Near(deq[t].res, t)
      BY <1>1, <1>2, <1>6, <2>3 DEF AllocGotPartial, DescRetire, FreeOrQueue, NoDeq, Near,
         HeapPlaces, Node, Item, InSequence
    <3>2. HeapMoves(deq[t].res, "deq", "self")
      BY <1>1, <1>2, <1>6, <2>3 DEF AllocGotPartial, DescRetire, FreeOrQueue, NoDeq,
         HeapPlaces, HeapMoves, Moved, InSequence
    <3>3. HandMoves(t, deq[t].res, "deq", "self")
      BY <1>1, <1>2, <1>6, <2>3 DEF AllocGotPartial, DescRetire, FreeOrQueue, NoDeq,
         HandMoves, Moved, Item
    <3> QED BY <1>1, <3>1, <3>2, <3>3, OneMoves
  <2> QED BY <2>1, <2>2, <2>3
<1>7. CASE AllocDequeueAgain(t)
  BY <1>1, <1>2, <1>7, NoneMoves DEF AllocDequeueAgain, CallDequeue
<1>8. CASE AllocReadAnchor(t)
  <2>1. CASE anchor[op[t].desc].state = "EMPTY"
    <3>1. op[t].desc \in Node /\ "op" \in Near(op[t].desc, t)
      BY <1>1, <1>2, <1>8, <2>1 DEF AllocReadAnchor, DescRetire, FreeOrQueue, NoOp, Near,
         HeapPlaces, Node, Item, InSequence
    <3>2. HeapMoves(op[t].desc, "op", "self")
      BY <1>1, <1>2, <1>8, <2>1 DEF AllocReadAnchor, DescRetire, FreeOrQueue, NoOp,
         HeapPlaces, HeapMoves, Moved, InSequence
    <3>3. HandMoves(t, op[t].desc, "op", "self")
      BY <1>1, <1>2, <1>8, <2>1 DEF AllocReadAnchor, DescRetire, FreeOrQueue, NoOp,
         HandMoves, Moved, Item
    <3> QED BY <1>1, <3>1, <3>2, <3>3, OneMoves
  <2>2. CASE anchor[op[t].desc].state # "EMPTY"
    <3>1. UNCHANGED <<active, queue, desc_avail, delayed>>
      BY <1>8, <2>2 DEF AllocReadAnchor, DescRetire, FreeOrQueue, NoOp
    <3>2. \A m \in Node : Holds(m, t)' \subseteq Holds(m, t)
      BY <1>1, <1>2, <1>8, <2>2 DEF AllocReadAnchor, DescRetire, FreeOrQueue, NoOp
    <3> QED BY <3>1, <3>2, NoneMoves
  <2> QED BY <2>1, <2>2
<1>9. CASE AllocReadNext(t)
  BY <1>1, <1>2, <1>9, NoneMoves DEF AllocReadNext
<1>10. CASE AllocSetAnchor(t)
  <2>1. UNCHANGED <<active, queue, desc_avail, delayed>>
    BY <1>10 DEF AllocSetAnchor
  <2>2. \A m \in Node : Holds(m, t)' \subseteq Holds(m, t)
    BY <1>1, <1>2, <1>10 DEF AllocSetAnchor
  <2> QED BY <2>1, <2>2, NoneMoves
<1>11. CASE AllocGiveBack(t)
  <2>1. CASE active = NULL
    <3>1. op[t].desc \in Node /\ "op" \in Near(op[t].desc, t)
      BY <1>1, <1>2, <1>11, <2>1 DEF AllocGiveBack, ListPutPartial, FreeOrQueue, ActiveIs,
         Near, HeapPlaces, Node, Item, InSequence
    <3>2. HeapMoves(op[t].desc, "op", "active")
      BY <1>1, <1>2, <1>11, <2>1 DEF AllocGiveBack, ListPutPartial, FreeOrQueue, ActiveIs,
         HeapPlaces, HeapMoves, Moved, InSequence
    <3>3. HandMoves(t, op[t].desc, "op", "active")
      BY <1>1, <1>2, <1>11, <2>1 DEF AllocGiveBack, ListPutPartial, FreeOrQueue, ActiveIs,
         HandMoves, Moved, Item
    <3> QED BY <1>1, <3>1, <3>2, <3>3, OneMoves
  <2>2. CASE active # NULL
    <3>1. op[t].desc \in Node /\ "op" \in Near(op[t].desc, t)
      BY <1>1, <1>2, <1>11, <2>2 DEF AllocGiveBack, ListPutPartial, FreeOrQueue, ActiveIs,
         Near, HeapPlaces, Node, Item, InSequence
    <3>2. HeapMoves(op[t].desc, "op", "self")
      BY <1>1, <1>2, <1>11, <2>2 DEF AllocGiveBack, ListPutPartial, FreeOrQueue, ActiveIs,
         HeapPlaces, HeapMoves, Moved, InSequence
    <3>3. HandMoves(t, op[t].desc, "op", "self")
      BY <1>1, <1>2, <1>11, <2>2 DEF AllocGiveBack, ListPutPartial, FreeOrQueue, ActiveIs,
         HandMoves, Moved, Item
    <3> QED BY <1>1, <3>1, <3>2, <3>3, OneMoves
  <2> QED BY <2>1, <2>2
<1>12. CASE AllocReturn(t)
  BY <1>1, <1>2, <1>12, NoneMoves DEF AllocReturn, NoOp
<1> QED BY <1>3, <1>4, <1>5, <1>6, <1>7, <1>8, <1>9, <1>10, <1>11, <1>12 DEF AllocStep

(* What the steps that take a descriptor and a new superblock do.          *)
LEMMA NewSbStepEffects ==
  ASSUME NEW t \in Thread, TypeInv, UsedInv, OwnInv, NewSbStep(t)
  PROVE  Effects(t)
<1> USE DEF Holds, OwnerLabels, FreeFunc, OpFrame, QueueFrame, FreeFrame, InFree, EnqLabels,
   NoHaz, Op, Deq, Enq, Haz, HazReturn
<1>1. /\ OpFrame(t) /\ QueueFrame(t) /\ FreeFrame(t) /\ OpUsed(t) /\ OwnInv
  BY DEF TypeInv, Frames, UsedInv, UsedLocals
<1>2. /\ pc \in [Thread -> Label] /\ op \in [Thread -> Op] /\ deq \in [Thread -> Deq]
      /\ enq \in [Thread -> Enq] /\ haz \in [Thread -> Haz]
      /\ active \in Desc \cup {NULL} /\ desc_avail \in Seq(Desc) /\ delayed \subseteq Item
      /\ queue \in Seq(Node) /\ queue # <<>> /\ anchor \in [Desc -> Anchor]
      /\ dummy_in_use \in [Dummy -> BOOLEAN]
      /\ NULL \notin Node /\ NULL \notin Item /\ Dummy \cap Desc = {}
  BY NodeAssumption DEF TypeInv, TypeOK, ThreadTypeOK, HeapTypeOK, ServiceTypeOK, Node
<1>3. CASE DescAllocPeek(t)
  <2>1. UNCHANGED <<active, queue, desc_avail, delayed>>
    BY <1>3 DEF DescAllocPeek
  <2>2. \A m \in Node : Holds(m, t)' \subseteq Holds(m, t)
    BY <1>1, <1>2, <1>3 DEF DescAllocPeek, SetHazard
  <2> QED BY <2>1, <2>2, NoneMoves
<1>4. CASE DescAllocPop(t)
  <2>1. CASE desc_avail # <<>> /\ Head(desc_avail) = hp[t][1]
    <3>1. /\ desc_avail' = Tail(desc_avail) /\ UNCHANGED <<active, queue, delayed>>
          /\ op'[t].desc = hp[t][1] /\ UNCHANGED <<deq, enq, haz>> /\ pc'[t] = "new_sb"
      BY <1>2, <1>4, <2>1 DEF DescAllocPop
    <3>2. /\ hp[t][1] \in Node /\ InSequence(hp[t][1], desc_avail)
          /\ \A m : InSequence(m, Tail(desc_avail)) => InSequence(m, desc_avail) /\ m # hp[t][1]
      BY <1>1, <1>2, <2>1, HeadLeaves DEF OwnInv, ListsDistinct, Node
    <3>3. "avail" \in Near(hp[t][1], t)
      BY <3>2 DEF Near, HeapPlaces
    <3>4. HeapMoves(hp[t][1], "avail", "op")
      BY <3>1, <3>2 DEF HeapPlaces, HeapMoves, Moved
    <3>5. HandMoves(t, hp[t][1], "avail", "op")
      BY <3>1 DEF HandMoves, Moved
    <3> QED BY <1>1, <3>2, <3>3, <3>4, <3>5, OneMoves
  <2>2. CASE ~(desc_avail # <<>> /\ Head(desc_avail) = hp[t][1])
    BY <1>1, <1>2, <1>4, <2>2, NoneMoves DEF DescAllocPop, ClearHazard, SetHazard
  <2> QED BY <2>1, <2>2
<1>5. CASE DescAllocBatch(t)
  <2>1. CASE desc_avail = <<>> /\ batches < Len(Batches)
    <3>1. PICK b : b = Batches[batches + 1]
      OBVIOUS
    <3>2. /\ desc_avail' = Tail(b) /\ op' = [op EXCEPT ![t].desc = Head(b)]
          /\ batches' = batches + 1 /\ pc'[t] = "new_sb"
          /\ UNCHANGED <<active, queue, delayed, in_use, deq, enq, haz>>
      BY <1>2, <1>5, <2>1, <3>1 DEF DescAllocBatch
    <3>3. op'[t].desc = Head(b)
      BY <1>2, <3>2
    <3>4. /\ b \in Seq(Desc) /\ b # <<>> /\ Distinct(b)
          /\ \A m : InSequence(m, b) => m \in Desc /\ m \in Acquired' /\ m \notin Acquired
      BY <2>1, <3>1, <3>2, FreshBatch
    <3>5. /\ InSequence(Head(b), b)
          /\ \A m : InSequence(m, Tail(b)) => InSequence(m, b) /\ m # Head(b)
      BY <3>4, HeadLeaves
    <3>6. ASSUME NEW m \in Node, InSequence(m, b) PROVE Enters(m, t)
      <4>1. m \in Desc /\ m \in Acquired' /\ ~in_use[m] /\ Nowhere(m) /\ m \notin Dummy
        BY <1>1, <1>2, <3>4, <3>6 DEF OwnInv, Unlisted
      <4>2. /\ HeapPlaces(m)' \subseteq {"avail"} /\ Holds(m, t)' \subseteq {"op"}
            /\ "avail" \in HeapPlaces(m)' => InSequence(m, Tail(b))
            /\ "op" \in Holds(m, t)' => m = Head(b)
        BY <3>2, <3>3, <4>1 DEF Nowhere, HeapPlaces
      <4>3. CASE m = Head(b)
        <5>1. HeapPlaces(m)' = {} /\ Holds(m, t)' \subseteq {"op"}
          BY <3>5, <4>2, <4>3
        <5> QED BY <3>2, <4>1, <5>1 DEF Enters, Near, FullInUse
      <4>4. CASE m # Head(b)
        <5>1. HeapPlaces(m)' \subseteq {"avail"} /\ Holds(m, t)' = {}
          BY <4>2, <4>4
        <5> QED BY <3>2, <4>1, <5>1 DEF Enters, Near, FullInUse
      <4> QED BY <4>3, <4>4
    <3>7. ASSUME NEW m \in Node, ~InSequence(m, b) PROVE Stays(m, t)
      BY <3>2, <3>3, <3>5, <3>7 DEF HeapPlaces, Stays, Near
    <3> QED BY <3>6, <3>7 DEF Effects
  <2>2. CASE desc_avail # <<>>
    BY <1>1, <1>2, <1>5, <2>2, NoneMoves DEF DescAllocBatch
  <2> QED BY <1>5, <2>1, <2>2 DEF DescAllocBatch
<1>6. CASE AllocNewSb(t)
  BY <1>1, <1>2, <1>6, NoneMoves DEF AllocNewSb
<1>7. CASE AllocPublishSb(t)
  <2>1. CASE active = NULL
    <3>1. op[t].desc \in Node /\ "op" \in Near(op[t].desc, t)
      BY <1>1, <1>2, <1>7, <2>1 DEF AllocPublishSb, ActiveIs, DescRetire, FreeOrQueue, NoOp,
         Near, HeapPlaces, Node, Item, InSequence
    <3>2. HeapMoves(op[t].desc, "op", "active")
      BY <1>1, <1>2, <1>7, <2>1 DEF AllocPublishSb, ActiveIs, DescRetire, FreeOrQueue, NoOp,
         HeapPlaces, HeapMoves, Moved, InSequence
    <3>3. HandMoves(t, op[t].desc, "op", "active")
      BY <1>1, <1>2, <1>7, <2>1 DEF AllocPublishSb, ActiveIs, DescRetire, FreeOrQueue, NoOp,
         HandMoves, Moved, Item
    <3> QED BY <1>1, <3>1, <3>2, <3>3, OneMoves
  <2>2. CASE active # NULL
    <3>1. op[t].desc \in Node /\ "op" \in Near(op[t].desc, t)
      BY <1>1, <1>2, <1>7, <2>2 DEF AllocPublishSb, ActiveIs, DescRetire, FreeOrQueue, NoOp,
         Near, HeapPlaces, Node, Item, InSequence
    <3>2. HeapMoves(op[t].desc, "op", "self")
      BY <1>1, <1>2, <1>7, <2>2 DEF AllocPublishSb, ActiveIs, DescRetire, FreeOrQueue, NoOp,
         HeapPlaces, HeapMoves, Moved, InSequence
    <3>3. HandMoves(t, op[t].desc, "op", "self")
      BY <1>1, <1>2, <1>7, <2>2 DEF AllocPublishSb, ActiveIs, DescRetire, FreeOrQueue, NoOp,
         HandMoves, Moved, Item
    <3> QED BY <1>1, <3>1, <3>2, <3>3, OneMoves
  <2> QED BY <2>1, <2>2
<1> QED BY <1>3, <1>4, <1>5, <1>6, <1>7 DEF NewSbStep

(* What the steps of mono_lock_free_free do.                               *)
LEMMA FreeStepEffects ==
  ASSUME NEW t \in Thread, TypeInv, UsedInv, OwnInv, FreeStep(t)
  PROVE  Effects(t)
<1> USE DEF Holds, OwnerLabels, FreeFunc, OpFrame, QueueFrame, FreeFrame, InFree, EnqLabels,
   NoHaz, Op, Deq, Enq, Haz, HazReturn
<1>1. /\ OpFrame(t) /\ QueueFrame(t) /\ FreeFrame(t) /\ OpUsed(t) /\ OwnInv
  BY DEF TypeInv, Frames, UsedInv, UsedLocals
<1>2. /\ pc \in [Thread -> Label] /\ op \in [Thread -> Op] /\ deq \in [Thread -> Deq]
      /\ enq \in [Thread -> Enq] /\ haz \in [Thread -> Haz]
      /\ active \in Desc \cup {NULL} /\ desc_avail \in Seq(Desc) /\ delayed \subseteq Item
      /\ queue \in Seq(Node) /\ queue # <<>> /\ anchor \in [Desc -> Anchor]
      /\ dummy_in_use \in [Dummy -> BOOLEAN]
      /\ NULL \notin Node /\ NULL \notin Item /\ Dummy \cap Desc = {}
  BY NodeAssumption DEF TypeInv, TypeOK, ThreadTypeOK, HeapTypeOK, ServiceTypeOK, Node
<1>3. CASE FreeBegin(t)
  BY <1>1, <1>2, <1>3, NoneMoves DEF FreeBegin
<1>4. CASE FreeReadAnchor(t)
  BY <1>1, <1>2, <1>4, NoneMoves DEF FreeReadAnchor
<1>5. CASE FreeSetAnchor(t)
  <2>1. /\ UNCHANGED <<active, queue, desc_avail, delayed>>
        /\ UNCHANGED <<in_use, deq, enq, haz>>
    BY <1>5 DEF FreeSetAnchor
  <2>2. CASE pc'[t] # "free_giveback"
    <3>1. pc'[t] \in {"free_read", "free_steal", "idle"}
      BY <1>2, <1>5, <2>2 DEF FreeSetAnchor
    <3>2. \A m \in Node : Holds(m, t)' \subseteq Holds(m, t)
      BY <2>1, <3>1
    <3> QED BY <2>1, <3>2, NoneMoves
  <2>3. CASE pc'[t] = "free_giveback"
    <3>0. PICK d : d = op[t].desc
      OBVIOUS
    <3>1. /\ SetAnchorSucceeds(op[t].desc, op[t].old)
          /\ anchor' = [anchor EXCEPT ![op[t].desc] = FreedAnchor(op[t].old, op[t].slot)]
          /\ op[t].old.state = "FULL"
          /\ op' = [op EXCEPT ![t] = [NoOp EXCEPT !.desc = op[t].desc]]
      BY <1>2, <1>5, <2>3 DEF FreeSetAnchor
    <3>2. d \in Desc /\ Used(d)
      BY <1>1, <1>5, <3>0 DEF FreeSetAnchor, OpUsed, UsedLabels
    <3>3. op'[t].desc = d
      BY <1>2, <3>0, <3>1 DEF NoOp
    <3>4. FullInUse(d)
      BY <3>0, <3>1, <3>2 DEF SetAnchorSucceeds, FullInUse, Used
    <3>5. Nowhere(d) /\ d \in Acquired' /\ d \notin Dummy
      <4>1. batches' = batches
        BY <1>5 DEF FreeSetAnchor
      <4> QED BY <1>1, <1>2, <3>2, <3>4, <4>1 DEF OwnInv, Unlisted, FullInUse, Acquired
    <3>6. ~FullInUse(d)'
      BY <1>2, <3>0, <3>1, <3>2 DEF FreedAnchor, FullInUse
    <3>7. HandMoves(t, d, "op", "op")
      BY <2>1, <2>3, <3>3 DEF HandMoves, Moved
    <3> QED BY <2>1, <3>2, <3>5, <3>6, <3>7, OneEnters DEF Node
  <2> QED BY <2>2, <2>3
<1>6. CASE FreeSteal(t)
  <2>1. CASE active = op[t].desc
    <3>1. op[t].desc \in Node /\ "active" \in Near(op[t].desc, t)
      BY <1>1, <1>2, <1>6, <2>1 DEF FreeSteal, ActiveIs, NoOp, CallDequeue, Near,
         HeapPlaces, Node, Item, InSequence
    <3>2. HeapMoves(op[t].desc, "active", "op")
      BY <1>1, <1>2, <1>6, <2>1 DEF FreeSteal, ActiveIs, NoOp, CallDequeue, HeapPlaces,
         HeapMoves, Moved, InSequence
    <3>3. HandMoves(t, op[t].desc, "active", "op")
      BY <1>1, <1>2, <1>6, <2>1 DEF FreeSteal, ActiveIs, NoOp, CallDequeue, HandMoves,
         Moved, Item
    <3> QED BY <1>1, <3>1, <3>2, <3>3, OneMoves
  <2>2. CASE active # op[t].desc
    <3>1. UNCHANGED <<active, queue, desc_avail, delayed>>
      BY <1>6, <2>2 DEF FreeSteal, ActiveIs, NoOp, CallDequeue
    <3>2. \A m \in Node : Holds(m, t)' \subseteq Holds(m, t)
      BY <1>1, <1>2, <1>6, <2>2 DEF FreeSteal, ActiveIs, NoOp, CallDequeue
    <3> QED BY <3>1, <3>2, NoneMoves
  <2> QED BY <2>1, <2>2
<1>7. CASE FreeRetire(t)
  <2>1. CASE CanRetire(op[t].desc)
    <3>1. op[t].desc \in Node /\ "op" \in Near(op[t].desc, t)
      BY <1>1, <1>2, <1>7, <2>1 DEF FreeRetire, NoOp, DescRetire, FreeOrQueue, Near,
         HeapPlaces, Node, Item, InSequence
    <3>2. HeapMoves(op[t].desc, "op", "self")
      BY <1>1, <1>2, <1>7, <2>1 DEF FreeRetire, NoOp, DescRetire, FreeOrQueue, HeapPlaces,
         HeapMoves, Moved, InSequence
    <3>3. HandMoves(t, op[t].desc, "op", "self")
      BY <1>1, <1>2, <1>7, <2>1 DEF FreeRetire, NoOp, DescRetire, FreeOrQueue, HandMoves,
         Moved, Item
    <3> QED BY <1>1, <3>1, <3>2, <3>3, OneMoves
  <2>2. CASE ~CanRetire(op[t].desc)
    BY <1>1, <1>2, <1>7, <2>2, NoneMoves DEF FreeRetire, NoOp, DescRetire, FreeOrQueue
  <2> QED BY <2>1, <2>2
<1>8. CASE FreeGiveBack(t)
  <2>1. CASE active = NULL
    <3>1. op[t].desc \in Node /\ "op" \in Near(op[t].desc, t)
      BY <1>1, <1>2, <1>8, <2>1 DEF FreeGiveBack, ActiveIs, NoOp, ListPutPartial,
         FreeOrQueue, Near, HeapPlaces, Node, Item, InSequence
    <3>2. HeapMoves(op[t].desc, "op", "active")
      BY <1>1, <1>2, <1>8, <2>1 DEF FreeGiveBack, ActiveIs, NoOp, ListPutPartial,
         FreeOrQueue, HeapPlaces, HeapMoves, Moved, InSequence
    <3>3. HandMoves(t, op[t].desc, "op", "active")
      BY <1>1, <1>2, <1>8, <2>1 DEF FreeGiveBack, ActiveIs, NoOp, ListPutPartial,
         FreeOrQueue, HandMoves, Moved, Item
    <3> QED BY <1>1, <3>1, <3>2, <3>3, OneMoves
  <2>2. CASE active # NULL
    <3>1. op[t].desc \in Node /\ "op" \in Near(op[t].desc, t)
      BY <1>1, <1>2, <1>8, <2>2 DEF FreeGiveBack, ActiveIs, NoOp, ListPutPartial,
         FreeOrQueue, Near, HeapPlaces, Node, Item, InSequence
    <3>2. HeapMoves(op[t].desc, "op", "self")
      BY <1>1, <1>2, <1>8, <2>2 DEF FreeGiveBack, ActiveIs, NoOp, ListPutPartial,
         FreeOrQueue, HeapPlaces, HeapMoves, Moved, InSequence
    <3>3. HandMoves(t, op[t].desc, "op", "self")
      BY <1>1, <1>2, <1>8, <2>2 DEF FreeGiveBack, ActiveIs, NoOp, ListPutPartial,
         FreeOrQueue, HandMoves, Moved, Item
    <3> QED BY <1>1, <3>1, <3>2, <3>3, OneMoves
  <2> QED BY <2>1, <2>2
<1>9. CASE RemoveEmptyGot(t)
  <2>1. CASE deq[t].res = NULL
    <3>1. UNCHANGED <<active, queue, desc_avail, delayed>>
      BY <1>9, <2>1 DEF RemoveEmptyGot, NoOp, NoDeq, DescRetire, ListPutPartial, FreeOrQueue
    <3>2. \A m \in Node : Holds(m, t)' \subseteq Holds(m, t)
      BY <1>1, <1>2, <1>9, <2>1 DEF RemoveEmptyGot, NoOp, NoDeq, DescRetire, ListPutPartial,
         FreeOrQueue
    <3> QED BY <3>1, <3>2, NoneMoves
  <2>2. CASE deq[t].res # NULL
    <3>1. deq[t].res \in Node /\ "deq" \in Near(deq[t].res, t)
      BY <1>1, <1>2, <1>9, <2>2 DEF RemoveEmptyGot, NoOp, NoDeq, DescRetire, ListPutPartial,
         FreeOrQueue, Near, HeapPlaces, Node, Item, InSequence
    <3>2. HeapMoves(deq[t].res, "deq", "self")
      BY <1>1, <1>2, <1>9, <2>2 DEF RemoveEmptyGot, NoOp, NoDeq, DescRetire, ListPutPartial,
         FreeOrQueue, HeapPlaces, HeapMoves, Moved, InSequence
    <3>3. HandMoves(t, deq[t].res, "deq", "self")
      BY <1>1, <1>2, <1>9, <2>2 DEF RemoveEmptyGot, NoOp, NoDeq, DescRetire, ListPutPartial,
         FreeOrQueue, HandMoves, Moved, Item
    <3> QED BY <1>1, <3>1, <3>2, <3>3, OneMoves
  <2> QED BY <2>1, <2>2
<1>10. CASE RemoveEmptyAgain(t)
  <2>1. UNCHANGED <<active, queue, desc_avail, delayed>>
    BY <1>10 DEF RemoveEmptyAgain
  <2>2. \A m \in Node : Holds(m, t)' \subseteq Holds(m, t)
    BY <1>1, <1>2, <1>10 DEF RemoveEmptyAgain, NoOp, CallDequeue
  <2> QED BY <2>1, <2>2, NoneMoves
<1> QED BY <1>3, <1>4, <1>5, <1>6, <1>7, <1>8, <1>9, <1>10 DEF FreeStep

(* What the steps of the partial queue do.                                 *)
LEMMA QueueStepEffects ==
  ASSUME NEW t \in Thread, TypeInv, UsedInv, OwnInv, QueueStep(t)
  PROVE  Effects(t)
<1> USE DEF Holds, OwnerLabels, FreeFunc, OpFrame, QueueFrame, FreeFrame, InFree, EnqLabels,
   NoHaz, Op, Deq, Enq, Haz, HazReturn
<1>1. /\ OpFrame(t) /\ QueueFrame(t) /\ FreeFrame(t) /\ OpUsed(t) /\ OwnInv
  BY DEF TypeInv, Frames, UsedInv, UsedLocals
<1>2. /\ pc \in [Thread -> Label] /\ op \in [Thread -> Op] /\ deq \in [Thread -> Deq]
      /\ enq \in [Thread -> Enq] /\ haz \in [Thread -> Haz]
      /\ active \in Desc \cup {NULL} /\ desc_avail \in Seq(Desc) /\ delayed \subseteq Item
      /\ queue \in Seq(Node) /\ queue # <<>> /\ anchor \in [Desc -> Anchor]
      /\ dummy_in_use \in [Dummy -> BOOLEAN]
      /\ NULL \notin Node /\ NULL \notin Item /\ Dummy \cap Desc = {}
  BY NodeAssumption DEF TypeInv, TypeOK, ThreadTypeOK, HeapTypeOK, ServiceTypeOK, Node
<1>3. CASE DequeueReadHead(t)
  BY <1>1, <1>2, <1>3, NoneMoves DEF DequeueReadHead, SetHazard
<1>4. CASE DequeueTry(t)
  <2>1. CASE Head(queue) = hp[t][0] /\ ~AtLastNode
    <3>1. /\ queue' = Tail(queue) /\ UNCHANGED <<active, desc_avail, delayed, op, enq, haz>>
          /\ deq'[t].res = hp[t][0]
      BY <1>2, <1>4, <2>1 DEF DequeueTry, DequeueReturn
    <3>2. pc'[t] \in {"deq_dummy", "idle", "alloc_partial", "rm_got"}
      BY <1>2, <1>4, <2>1 DEF DequeueTry, DequeueReturn
    <3>3. /\ hp[t][0] \in Node /\ InSequence(hp[t][0], queue)
          /\ \A m : InSequence(m, Tail(queue)) => InSequence(m, queue) /\ m # hp[t][0]
      BY <1>1, <1>2, <2>1, HeadLeaves DEF OwnInv, ListsDistinct
    <3>4. "queue" \in Near(hp[t][0], t)
      BY <3>3 DEF Near, HeapPlaces
    <3>5. HeapMoves(hp[t][0], "queue", "deq")
      BY <3>1, <3>3 DEF HeapPlaces, HeapMoves, Moved
    <3>6. HandMoves(t, hp[t][0], "queue", "deq")
      BY <3>1, <3>2 DEF HandMoves, Moved
    <3> QED BY <1>1, <3>3, <3>4, <3>5, <3>6, OneMoves
  <2>2. CASE ~(Head(queue) = hp[t][0] /\ ~AtLastNode)
    <3>1. UNCHANGED <<active, queue, desc_avail, delayed>> /\ UNCHANGED <<op, enq, haz>>
      BY <1>4, <2>2 DEF DequeueTry
    <3>2. /\ deq' = deq \/ deq'[t].res = NULL
          /\ pc'[t] \in {"deq_head", "reenq_pick", "idle", "alloc_partial", "rm_got"}
      BY <1>2, <1>4, <2>2 DEF DequeueTry, DequeueReturn
    <3>3. \A m \in Node : Holds(m, t)' \subseteq Holds(m, t)
      BY <1>2, <3>1, <3>2
    <3> QED BY <3>1, <3>3, NoneMoves
  <2> QED BY <2>1, <2>2
<1>5. CASE DequeueDummy(t)
  <2>1. deq[t].res \in Node /\ "deq" \in Near(deq[t].res, t)
    BY <1>1, <1>2, <1>5 DEF DequeueDummy, FreeOrQueue, Near, HeapPlaces, Node, Item,
       InSequence
  <2>2. HeapMoves(deq[t].res, "deq", "self")
    BY <1>1, <1>2, <1>5 DEF DequeueDummy, FreeOrQueue, HeapPlaces, HeapMoves, Moved,
       InSequence
  <2>3. HandMoves(t, deq[t].res, "deq", "self")
    BY <1>1, <1>2, <1>5 DEF DequeueDummy, FreeOrQueue, HandMoves, Moved, Item
  <2> QED BY <1>1, <2>1, <2>2, <2>3, OneMoves
<1>6. CASE ReenqueuePickDummy(t)
  <2>1. /\ UNCHANGED <<active, queue, desc_avail, delayed>>
        /\ UNCHANGED <<op, enq, haz>>
    BY <1>6 DEF ReenqueuePickDummy
  <2>2. CASE NoDummyToEnqueue(t)
    <3>1. deq'[t].res = NULL /\ pc'[t] \in {"idle", "alloc_partial", "rm_got"}
      BY <1>2, <2>2 DEF NoDummyToEnqueue, DequeueReturn
    <3>2. \A m \in Node : Holds(m, t)' \subseteq Holds(m, t)
      BY <1>2, <2>1, <3>1
    <3> QED BY <2>1, <3>2, NoneMoves
  <2>3. CASE ~NoDummyToEnqueue(t)
    <3>1. PICK n \in Dummy :
            /\ ~dummy_in_use[n]
            /\ dummy_in_use' = [dummy_in_use EXCEPT ![n] = TRUE]
            /\ deq' = [deq EXCEPT ![t].res = n]
            /\ pc'[t] = "reenq_claim"
      BY <1>2, <1>6, <2>3 DEF ReenqueuePickDummy
    <3>2. n \in Node /\ n \notin Desc /\ Nowhere(n) /\ dummy_in_use'[n]
      BY <1>1, <1>2, <3>1 DEF OwnInv, Unlisted, Node
    <3>3. deq'[t].res = n
      BY <1>2, <3>1
    <3>4. HandMoves(t, n, "deq", "deq")
      BY <2>1, <3>1, <3>3 DEF HandMoves, Moved
    <3> QED BY <2>1, <3>2, <3>4, OneEnters
  <2> QED BY <2>2, <2>3
<1>7. CASE ReenqueueClaim(t)
  <2>1. /\ UNCHANGED <<active, queue, desc_avail, delayed>>
        /\ UNCHANGED <<op, haz>>
    BY <1>7 DEF ReenqueueClaim
  <2>2. CASE ~ClaimsDummy
    <3>1. /\ deq'[t].res = NULL /\ enq' = enq
          /\ pc'[t] \in {"idle", "alloc_partial", "rm_got"}
      BY <1>2, <1>7, <2>2 DEF ReenqueueClaim, NoDummyToEnqueue, DequeueReturn
    <3>2. \A m \in Node : Holds(m, t)' \subseteq Holds(m, t)
      BY <1>2, <2>1, <3>1
    <3> QED BY <2>1, <3>2, NoneMoves
  <2>3. CASE ClaimsDummy
    <3>1. /\ deq'[t].res = NULL /\ enq'[t].node = deq[t].res /\ pc'[t] = "enq_start"
      BY <1>2, <1>7, <2>3 DEF ReenqueueClaim, CallEnqueue
    <3>2. deq[t].res \in Node /\ "deq" \in Near(deq[t].res, t)
      BY <1>1, <1>7 DEF ReenqueueClaim, Node, Near
    <3>3. HeapMoves(deq[t].res, "deq", "enq")
      BY <2>1, SameHeap DEF HeapPlaces, HeapMoves, Moved
    <3>4. HandMoves(t, deq[t].res, "deq", "enq")
      BY <1>2, <2>1, <3>1 DEF HandMoves, Moved
    <3> QED BY <1>1, <3>2, <3>3, <3>4, OneMoves
  <2> QED BY <2>2, <2>3
<1>8. CASE EnqueueStart(t)
  BY <1>1, <1>2, <1>8, NoneMoves DEF EnqueueStart
<1>9. CASE EnqueueReadTail(t)
  BY <1>1, <1>2, <1>9, NoneMoves DEF EnqueueReadTail, SetHazard
<1>10. CASE EnqueueLink(t)
  <2>1. CASE queue[Len(queue)] = hp[t][0]
    <3>1. /\ queue' = Append(queue, enq[t].node) /\ UNCHANGED <<active, desc_avail, delayed>>
          /\ enq'[t].node = NULL /\ UNCHANGED <<op, deq, haz>>
      BY <1>2, <1>10, <2>1 DEF EnqueueLink, NoEnq
    <3>2. pc'[t] \in {"idle", "deq_head", "fq_done"}
      BY <1>2, <1>10, <2>1 DEF EnqueueLink
    <3>3. enq[t].node \in Node /\ "enq" \in Near(enq[t].node, t)
      BY <1>1, <1>10 DEF EnqueueLink, Near
    <3>4. \A m : InSequence(m, Append(queue, enq[t].node)) => InSequence(m, queue) \/ m = enq[t].node
      BY <1>2, <3>3, NodeAppended
    <3>5. HeapMoves(enq[t].node, "enq", "queue")
      BY <3>1, <3>4 DEF HeapPlaces, HeapMoves, Moved
    <3>6. HandMoves(t, enq[t].node, "enq", "queue")
      BY <1>2, <3>1, <3>2 DEF HandMoves, Moved
    <3> QED BY <1>1, <3>3, <3>5, <3>6, OneMoves
  <2>2. CASE queue[Len(queue)] # hp[t][0]
    BY <1>1, <1>2, <1>10, <2>2, NoneMoves DEF EnqueueLink, ClearHazard, SetHazard, NoEnq
  <2> QED BY <2>1, <2>2
<1> QED BY <1>3, <1>4, <1>5, <1>6, <1>7, <1>8, <1>9, <1>10 DEF QueueStep

(* What the steps of the hazardous free do.                                *)
LEMMA HazardStepEffects ==
  ASSUME NEW t \in Thread, TypeInv, UsedInv, OwnInv, HazardStep(t)
  PROVE  Effects(t)
<1>1. /\ OpFrame(t) /\ QueueFrame(t) /\ FreeFrame(t) /\ OpUsed(t) /\ OwnInv
  BY DEF TypeInv, Frames, UsedInv, UsedLocals
<1>2. /\ pc \in [Thread -> Label] /\ op \in [Thread -> Op] /\ deq \in [Thread -> Deq]
      /\ enq \in [Thread -> Enq] /\ haz \in [Thread -> Haz]
      /\ active \in Desc \cup {NULL} /\ desc_avail \in Seq(Desc) /\ delayed \subseteq Item
      /\ queue \in Seq(Node) /\ queue # <<>> /\ anchor \in [Desc -> Anchor]
      /\ dummy_in_use \in [Dummy -> BOOLEAN]
      /\ NULL \notin Node /\ NULL \notin Item /\ Dummy \cap Desc = {}
  BY NodeAssumption DEF TypeInv, TypeOK, ThreadTypeOK, HeapTypeOK, ServiceTypeOK, Node
<1>3. CASE FreePop(t)
  <2>1. /\ UNCHANGED <<active, queue, desc_avail, op, deq, enq>> /\ pc[t] = "fq_try"
        /\ haz[t].self \in Item /\ haz[t].tries \in Int /\ FreeAttempts \in Nat
    BY <1>1, <1>2, <1>3, FreeAttemptsAssumption DEF FreePop, FreeFrame, InFree, Haz
  <2>2. haz'[t].self = haz[t].self /\ haz'[t].tries = haz[t].tries + 1
    BY <1>2, <1>3, FreePopFields
  <2>3. CASE pc'[t] = "fq_try" /\ delayed' = delayed
    <3>1. \A m \in Node : Holds(m, t)' \subseteq Holds(m, t)
      BY <2>1, <2>2, <2>3 DEF Holds, OwnerLabels, FreeFunc
    <3> QED BY <2>1, <2>3, <3>1, NoneMoves
  <2>4. CASE /\ pc'[t] = "fq_check" /\ haz'[t].item \in delayed
             /\ delayed' = delayed \ {haz'[t].item}
    <3>1. PICK x \in delayed : x = haz'[t].item /\ delayed' = delayed \ {x}
      BY <2>4
    <3>2. x.p \in Node /\ "delayed" \in Near(x.p, t)
      BY <1>2, <3>1 DEF Item, Node, Near, HeapPlaces
    <3>3. \A y \in delayed' : y \in delayed /\ y.p # x.p
      BY <1>1, <3>1 DEF OwnInv, ListsDistinct
    <3>4. HeapMoves(x.p, "delayed", "item")
      BY <2>1, <3>3 DEF HeapPlaces, HeapMoves, Moved
    <3>5. HandMoves(t, x.p, "delayed", "item")
      BY <2>1, <2>2, <2>4, <3>1 DEF Holds, HandMoves, Moved, OwnerLabels, FreeFunc
    <3> QED BY <1>1, <3>2, <3>4, <3>5, OneMoves
  <2>5. CASE /\ haz[t].tries = FreeAttempts /\ pc'[t] = "fq_check"
             /\ haz'[t].item = haz[t].self /\ delayed' = delayed
    <3>1. haz[t].self.p \in Node /\ "self" \in Near(haz[t].self.p, t)
      BY <1>2, <2>1, <2>5 DEF Item, Node, Near, Holds
    <3>2. HeapMoves(haz[t].self.p, "self", "item")
      BY <2>1, <2>5, SameHeap DEF HeapPlaces, HeapMoves, Moved
    <3>3. HandMoves(t, haz[t].self.p, "self", "item")
      BY <2>1, <2>2, <2>5 DEF Holds, HandMoves, Moved, OwnerLabels, FreeFunc
    <3> QED BY <1>1, <3>1, <3>2, <3>3, OneMoves
  <2> QED BY <1>2, <1>3, <2>3, <2>4, <2>5, FreePopFields
<1>4. CASE FreeCheck(t)
  <2>1. /\ UNCHANGED <<active, queue, desc_avail, op, deq, enq>> /\ haz[t].item \in Item
        /\ "item" \in Holds(haz[t].item.p, t) /\ haz[t].item.p \in Node
    BY <1>1, <1>4 DEF FreeCheck, FreeFrame, Holds, Item, Node
  <2>2. CASE delayed' = delayed \cup {haz[t].item} /\ NextItem(t)
    <3>1. HeapMoves(haz[t].item.p, "item", "delayed")
      BY <2>1, <2>2 DEF HeapPlaces, HeapMoves, Moved
    <3>2. \A m \in Node : Holds(m, t)' \subseteq Holds(m, t) \ {"item"}
      BY <1>2, <2>1, <2>2, NextItemHolds
    <3>3. HandMoves(t, haz[t].item.p, "item", "delayed")
      BY <3>2 DEF HandMoves, Moved
    <3> QED BY <1>1, <2>1, <3>1, <3>3, OneMoves DEF Near
  <2>3. CASE pc' = [pc EXCEPT ![t] = haz[t].item.fn] /\ UNCHANGED <<delayed, haz>>
    BY <1>2, <1>4, <2>1, <2>3, NoneMoves DEF FreeCheck, Item, FreeFunc, Holds, OwnerLabels
  <2> QED BY <1>4, <2>2, <2>3 DEF FreeCheck
<1>5. CASE FreeDone(t)
  BY <1>2, <1>5, NextItemHolds, NoneMoves DEF FreeDone
<1>6. CASE FreeDummy(t)
  BY <1>2, <1>6, NextItemHolds, NoneMoves DEF FreeDummy
<1>7. CASE DescPutPartial(t)
  <2>1. haz[t].item.p \in Node /\ "item" \in Near(haz[t].item.p, t)
    BY <1>1, <1>2, <1>7 DEF DescPutPartial, CallEnqueue, Near, HeapPlaces, Holds,
       OwnerLabels, FreeFunc, Node, OpFrame, QueueFrame, FreeFrame, InFree, EnqLabels, Item,
       InSequence
  <2>2. HeapMoves(haz[t].item.p, "item", "enq")
    BY <1>1, <1>2, <1>7 DEF DescPutPartial, CallEnqueue, HeapPlaces, HeapMoves, Moved,
       InSequence
  <2>3. HandMoves(t, haz[t].item.p, "item", "enq")
    BY <1>1, <1>2, <1>7 DEF DescPutPartial, CallEnqueue, Holds, OwnerLabels, FreeFunc,
       HandMoves, Moved, OpFrame, QueueFrame, FreeFrame, InFree, EnqLabels, NoHaz, Op, Deq,
       Enq, Haz, Item
  <2> QED BY <1>1, <2>1, <2>2, <2>3, OneMoves
<1>8. CASE DescEnqueueAvail(t)
  <2>1. /\ UNCHANGED <<active, queue, delayed, op, deq, enq>> /\ NextItem(t)
        /\ desc_avail' = <<haz[t].item.p>> \o desc_avail
    BY <1>8 DEF DescEnqueueAvail
  <2>2. haz[t].item.p \in Desc /\ "item" \in Holds(haz[t].item.p, t)
    BY <1>1, <1>2, <1>8 DEF DescEnqueueAvail, FreeFrame, FreeFunc, Item, Holds
  <2>3. \A m : InSequence(m, <<haz[t].item.p>> \o desc_avail) =>
               InSequence(m, desc_avail) \/ m = haz[t].item.p
    BY <1>2, <2>2, NodePrepended
  <2>4. HeapMoves(haz[t].item.p, "item", "avail")
    BY <2>1, <2>3 DEF HeapPlaces, HeapMoves, Moved
  <2>5. \A m \in Node : Holds(m, t)' \subseteq Holds(m, t) \ {"item"}
    BY <1>2, <2>1, NextItemHolds
  <2>6. HandMoves(t, haz[t].item.p, "item", "avail")
    BY <2>5 DEF HandMoves, Moved
  <2> QED BY <1>1, <2>2, <2>4, <2>6, OneMoves DEF Near, Node
<1> QED BY <1>3, <1>4, <1>5, <1>6, <1>7, <1>8 DEF HazardStep

(* A step of an allocation puts no node into a list twice.                 *)
LEMMA AllocStepLists ==
  ASSUME NEW t \in Thread, TypeInv, OwnInv, AllocStep(t)
  PROVE  ListsDistinct'
<1>1. /\ OwnInv /\ ListsDistinct /\ QueueFrame(t) /\ FreeFrame(t)
      /\ queue \in Seq(Node) /\ queue # <<>> /\ desc_avail \in Seq(Desc)
  BY DEF TypeInv, TypeOK, ServiceTypeOK, Frames, OwnInv
<1>2. CASE UNCHANGED <<queue, desc_avail, delayed>>
  BY <1>1, <1>2 DEF ListsDistinct
<1>3. CASE AllocBegin(t)
  BY <1>2, <1>3 DEF AllocBegin
<1>4. CASE AllocReadActive(t)
  BY <1>2, <1>4 DEF AllocReadActive
<1>5. CASE AllocTakeActive(t)
  BY <1>2, <1>5 DEF AllocTakeActive
<1>6. CASE AllocGotPartial(t)
  BY <1>2, <1>6 DEF AllocGotPartial
<1>7. CASE AllocDequeueAgain(t)
  BY <1>2, <1>7 DEF AllocDequeueAgain
<1>8. CASE AllocReadAnchor(t)
  BY <1>2, <1>8 DEF AllocReadAnchor
<1>9. CASE AllocReadNext(t)
  BY <1>2, <1>9 DEF AllocReadNext
<1>10. CASE AllocSetAnchor(t)
  BY <1>2, <1>10 DEF AllocSetAnchor
<1>11. CASE AllocGiveBack(t)
  BY <1>2, <1>11 DEF AllocGiveBack
<1>12. CASE AllocReturn(t)
  BY <1>2, <1>12 DEF AllocReturn
<1> QED BY <1>3, <1>4, <1>5, <1>6, <1>7, <1>8, <1>9, <1>10, <1>11, <1>12 DEF AllocStep

(* Neither do the steps that take a descriptor and a new superblock.       *)
LEMMA NewSbStepLists ==
  ASSUME NEW t \in Thread, TypeInv, OwnInv, NewSbStep(t)
  PROVE  ListsDistinct'
<1>1. /\ OwnInv /\ ListsDistinct /\ QueueFrame(t) /\ FreeFrame(t)
      /\ queue \in Seq(Node) /\ queue # <<>> /\ desc_avail \in Seq(Desc)
  BY DEF TypeInv, TypeOK, ServiceTypeOK, Frames, OwnInv
<1>2. CASE UNCHANGED <<queue, desc_avail, delayed>>
  BY <1>1, <1>2 DEF ListsDistinct
<1>3. CASE DescAllocPop(t)
  BY <1>1, <1>3, HeadLeaves DEF DescAllocPop, ListsDistinct
<1>4. CASE DescAllocBatch(t)
  <2>1. UNCHANGED <<queue, delayed>>
    BY <1>4 DEF DescAllocBatch
  <2>2. CASE desc_avail' = desc_avail
    BY <1>1, <2>1, <2>2 DEF ListsDistinct
  <2>3. CASE desc_avail' # desc_avail
    <3>1. /\ batches < Len(Batches) /\ batches' = batches + 1
          /\ desc_avail' = Tail(Batches[batches + 1])
      BY <1>4, <2>3 DEF DescAllocBatch
    <3>2. PICK b : b = Batches[batches + 1]
      OBVIOUS
    <3>3. b \in Seq(Desc) /\ b # <<>> /\ Distinct(b)
      BY <3>1, <3>2, FreshBatch
    <3> QED BY <1>1, <2>1, <3>1, <3>2, <3>3, HeadLeaves DEF ListsDistinct
  <2> QED BY <2>2, <2>3
<1>5. CASE DescAllocPeek(t)
  BY <1>2, <1>5 DEF DescAllocPeek
<1>6. CASE AllocNewSb(t)
  BY <1>2, <1>6 DEF AllocNewSb
<1>7. CASE AllocPublishSb(t)
  BY <1>2, <1>7 DEF AllocPublishSb
<1> QED BY <1>3, <1>4, <1>5, <1>6, <1>7 DEF NewSbStep

(* Neither do the steps of mono_lock_free_free.                            *)
LEMMA FreeStepLists ==
  ASSUME NEW t \in Thread, TypeInv, OwnInv, FreeStep(t)
  PROVE  ListsDistinct'
<1>1. /\ OwnInv /\ ListsDistinct /\ QueueFrame(t) /\ FreeFrame(t)
      /\ queue \in Seq(Node) /\ queue # <<>> /\ desc_avail \in Seq(Desc)
  BY DEF TypeInv, TypeOK, ServiceTypeOK, Frames, OwnInv
<1>2. CASE UNCHANGED <<queue, desc_avail, delayed>>
  BY <1>1, <1>2 DEF ListsDistinct
<1>3. CASE FreeBegin(t)
  BY <1>2, <1>3 DEF FreeBegin
<1>4. CASE FreeReadAnchor(t)
  BY <1>2, <1>4 DEF FreeReadAnchor
<1>5. CASE FreeSetAnchor(t)
  BY <1>2, <1>5 DEF FreeSetAnchor
<1>6. CASE FreeSteal(t)
  BY <1>2, <1>6 DEF FreeSteal
<1>7. CASE FreeRetire(t)
  BY <1>2, <1>7 DEF FreeRetire
<1>8. CASE FreeGiveBack(t)
  BY <1>2, <1>8 DEF FreeGiveBack
<1>9. CASE RemoveEmptyGot(t)
  BY <1>2, <1>9 DEF RemoveEmptyGot
<1>10. CASE RemoveEmptyAgain(t)
  BY <1>2, <1>10 DEF RemoveEmptyAgain
<1> QED BY <1>3, <1>4, <1>5, <1>6, <1>7, <1>8, <1>9, <1>10 DEF FreeStep

(* Neither do the steps of the partial queue.                              *)
LEMMA QueueStepLists ==
  ASSUME NEW t \in Thread, TypeInv, OwnInv, QueueStep(t)
  PROVE  ListsDistinct'
<1>1. /\ OwnInv /\ ListsDistinct /\ QueueFrame(t) /\ FreeFrame(t)
      /\ queue \in Seq(Node) /\ queue # <<>> /\ desc_avail \in Seq(Desc)
  BY DEF TypeInv, TypeOK, ServiceTypeOK, Frames, OwnInv
<1>2. CASE UNCHANGED <<queue, desc_avail, delayed>>
  BY <1>1, <1>2 DEF ListsDistinct
<1>3. CASE DequeueTry(t)
  <2>1. queue' \in {queue, Tail(queue)} /\ UNCHANGED <<desc_avail, delayed>>
    BY <1>3 DEF DequeueTry
  <2> QED BY <1>1, <2>1, HeadLeaves DEF ListsDistinct
<1>4. CASE EnqueueLink(t)
  <2>1. /\ queue' \in {queue, Append(queue, enq[t].node)}
        /\ UNCHANGED <<desc_avail, delayed>>
    BY <1>4 DEF EnqueueLink
  <2>2. enq[t].node \in Node /\ "enq" \in Holds(enq[t].node, t)
    BY <1>1, <1>4 DEF EnqueueLink, QueueFrame, EnqLabels, Holds
  <2>3. ~InSequence(enq[t].node, queue)
    BY <1>1, <2>2 DEF OwnInv, Unique, Near, HeapPlaces
  <2>4. Distinct(Append(queue, enq[t].node))
    BY <1>1, <2>2, <2>3, NodeAppended DEF ListsDistinct
  <2>5. Distinct(queue')
    BY <1>1, <2>1, <2>4 DEF ListsDistinct
  <2> QED BY <1>1, <2>1, <2>5 DEF ListsDistinct
<1>5. CASE DequeueReadHead(t)
  BY <1>2, <1>5 DEF DequeueReadHead
<1>6. CASE DequeueDummy(t)
  BY <1>2, <1>6 DEF DequeueDummy
<1>7. CASE ReenqueuePickDummy(t)
  BY <1>2, <1>7 DEF ReenqueuePickDummy
<1>8. CASE ReenqueueClaim(t)
  BY <1>2, <1>8 DEF ReenqueueClaim
<1>9. CASE EnqueueStart(t)
  BY <1>2, <1>9 DEF EnqueueStart
<1>10. CASE EnqueueReadTail(t)
  BY <1>2, <1>10 DEF EnqueueReadTail
<1> QED BY <1>3, <1>4, <1>5, <1>6, <1>7, <1>8, <1>9, <1>10 DEF QueueStep

(* Neither do the steps of the hazardous free.                             *)
LEMMA HazardStepLists ==
  ASSUME NEW t \in Thread, TypeInv, OwnInv, HazardStep(t)
  PROVE  ListsDistinct'
<1>1. /\ OwnInv /\ ListsDistinct /\ QueueFrame(t) /\ FreeFrame(t)
      /\ queue \in Seq(Node) /\ queue # <<>> /\ desc_avail \in Seq(Desc)
  BY DEF TypeInv, TypeOK, ServiceTypeOK, Frames, OwnInv
<1>2. CASE UNCHANGED <<queue, desc_avail, delayed>>
  BY <1>1, <1>2 DEF ListsDistinct
<1>3. CASE FreePop(t)
  <2>1. delayed' \subseteq delayed /\ UNCHANGED <<queue, desc_avail>>
    BY <1>3 DEF FreePop
  <2> QED BY <1>1, <2>1 DEF ListsDistinct
<1>4. CASE FreeCheck(t)
  <2>1. /\ delayed' \in {delayed, delayed \cup {haz[t].item}}
        /\ UNCHANGED <<queue, desc_avail>>
    BY <1>4 DEF FreeCheck
  <2>2. haz[t].item.p \in Node /\ "item" \in Holds(haz[t].item.p, t)
    BY <1>1, <1>4 DEF FreeCheck, FreeFrame, Holds, Item, Node
  <2>3. \A x \in delayed : x.p # haz[t].item.p
    BY <1>1, <2>2 DEF OwnInv, Unique, Near, HeapPlaces
  <2> QED BY <1>1, <2>1, <2>3 DEF ListsDistinct
<1>5. CASE DescEnqueueAvail(t)
  <2>1. /\ desc_avail' = <<haz[t].item.p>> \o desc_avail
        /\ UNCHANGED <<queue, delayed>>
    BY <1>5 DEF DescEnqueueAvail
  <2>2. haz[t].item.p \in Desc /\ "item" \in Holds(haz[t].item.p, t)
    BY <1>1, <1>5 DEF DescEnqueueAvail, FreeFrame, FreeFunc, Item, Holds
  <2>3. ~InSequence(haz[t].item.p, desc_avail)
    BY <1>1, <2>2 DEF OwnInv, Unique, Near, HeapPlaces, Node
  <2> QED BY <1>1, <2>1, <2>2, <2>3, NodePrepended DEF ListsDistinct
<1>6. CASE FreeDone(t)
  BY <1>2, <1>6 DEF FreeDone
<1>7. CASE FreeDummy(t)
  BY <1>2, <1>7 DEF FreeDummy
<1>8. CASE DescPutPartial(t)
  BY <1>2, <1>8 DEF DescPutPartial
<1> QED BY <1>3, <1>4, <1>5, <1>6, <1>7, <1>8 DEF HazardStep

(* A node that a thread lets go of, and puts nowhere, is nowhere.          *)
LEMMA Vanishes ==
  ASSUME NEW t \in Thread, \A u \in Thread \ {t} : SameLocals(u), NEW n, Unique(n),
         NEW p \in Holds(n, t), UNCHANGED <<active, queue, desc_avail, delayed>>,
         Holds(n, t)' \subseteq Holds(n, t) \ {p}
  PROVE  Nowhere(n)'
  BY PlaceNames, SameHeap, HoldsOther DEF Unique, Near, Nowhere

(* A step of an allocation makes FULL only a superblock it lets go of.     *)
LEMMA AllocStepFlags ==
  ASSUME NEW t \in Thread, TypeInv, OwnInv, AllocStep(t), \A u \in Thread \ {t} : SameLocals(u)
  PROVE  FlagsKept
<1>1. /\ OwnInv /\ OpFrame(t) /\ QueueFrame(t) /\ FreeFrame(t) /\ TypeInv
      /\ pc \in [Thread -> Label] /\ op \in [Thread -> Op] /\ deq \in [Thread -> Deq]
      /\ haz \in [Thread -> Haz] /\ anchor \in [Desc -> Anchor]
      /\ in_use \in [Desc -> BOOLEAN] /\ dummy_in_use \in [Dummy -> BOOLEAN]
      /\ NULL \notin Node /\ NULL \notin Item
      /\ \A u \in Thread \ {t} : SameLocals(u)
  BY NodeAssumption DEF TypeInv, TypeOK, HeapTypeOK, ServiceTypeOK, ThreadTypeOK, Frames
<1>2. CASE UNCHANGED <<in_use, anchor, dummy_in_use, batches>>
  BY <1>2 DEF FlagsKept, FullInUse, Acquired
<1>3. CASE AllocBegin(t)
  BY <1>2, <1>3 DEF AllocBegin
<1>4. CASE AllocReadActive(t)
  BY <1>2, <1>4 DEF AllocReadActive
<1>5. CASE AllocTakeActive(t)
  BY <1>2, <1>5 DEF AllocTakeActive
<1>6. CASE AllocGotPartial(t)
  BY <1>1, <1>6 DEF AllocGotPartial, DescRetire, OpFrame, QueueFrame, OwnerLabels, Anchor,
    FlagsKept, FullInUse, Acquired
<1>7. CASE AllocDequeueAgain(t)
  BY <1>2, <1>7 DEF AllocDequeueAgain
<1>8. CASE AllocReadAnchor(t)
  BY <1>1, <1>8 DEF AllocReadAnchor, DescRetire, OpFrame, QueueFrame, OwnerLabels, Anchor,
    FlagsKept, FullInUse, Acquired
<1>9. CASE AllocReadNext(t)
  BY <1>2, <1>9 DEF AllocReadNext
<1>10. CASE AllocSetAnchor(t)
  <2>1. UNCHANGED <<in_use, dummy_in_use, batches>> /\ op[t].desc \in Desc
    BY <1>1, <1>10 DEF AllocSetAnchor, OpFrame, OwnerLabels
  <2>2. PICK d \in Desc : d = op[t].desc
    BY <2>1
  <2>3. \A e \in Desc \ {d} : anchor'[e] = anchor[e]
    BY <1>1, <1>10, <2>2 DEF AllocSetAnchor
  <2>4. CASE pc'[t] = "alloc_done"
    BY <1>1, <1>10, <2>1, <2>2, <2>3, <2>4, Vanishes DEF AllocSetAnchor, Holds, OwnerLabels, OwnInv,
      Node, FreeFunc, FlagsKept, FullInUse, Acquired
  <2>5. CASE pc'[t] # "alloc_done"
    <3>1. anchor' = anchor \/ anchor'[d].state = "PARTIAL"
      BY <1>1, <1>10, <2>2, <2>5 DEF AllocSetAnchor
    <3> QED BY <2>1, <2>3, <3>1 DEF FlagsKept, FullInUse, Acquired
  <2> QED BY <2>4, <2>5
<1>11. CASE AllocGiveBack(t)
  BY <1>2, <1>11 DEF AllocGiveBack
<1>12. CASE AllocReturn(t)
  BY <1>2, <1>12 DEF AllocReturn
<1> QED BY <1>3, <1>4, <1>5, <1>6, <1>7, <1>8, <1>9, <1>10, <1>11, <1>12 DEF AllocStep

(* The flags in the steps that take a descriptor and a new superblock.     *)
LEMMA NewSbStepFlags ==
  ASSUME NEW t \in Thread, TypeInv, OwnInv, NewSbStep(t), \A u \in Thread \ {t} : SameLocals(u)
  PROVE  FlagsKept
<1>1. /\ OwnInv /\ OpFrame(t) /\ QueueFrame(t) /\ FreeFrame(t) /\ TypeInv
      /\ pc \in [Thread -> Label] /\ op \in [Thread -> Op] /\ deq \in [Thread -> Deq]
      /\ haz \in [Thread -> Haz] /\ anchor \in [Desc -> Anchor]
      /\ in_use \in [Desc -> BOOLEAN] /\ dummy_in_use \in [Dummy -> BOOLEAN]
      /\ NULL \notin Node /\ NULL \notin Item
      /\ \A u \in Thread \ {t} : SameLocals(u)
  BY NodeAssumption DEF TypeInv, TypeOK, HeapTypeOK, ServiceTypeOK, ThreadTypeOK, Frames
<1>2. CASE UNCHANGED <<in_use, anchor, dummy_in_use, batches>>
  BY <1>2 DEF FlagsKept, FullInUse, Acquired
<1>3. CASE DescAllocPeek(t)
  BY <1>2, <1>3 DEF DescAllocPeek
<1>4. CASE DescAllocPop(t)
  BY <1>2, <1>4 DEF DescAllocPop
<1>5. CASE DescAllocBatch(t)
  <2>1. UNCHANGED <<in_use, anchor, dummy_in_use>>
    BY <1>5 DEF DescAllocBatch
  <2>2. Acquired \subseteq Acquired'
    <3>1. batches' = batches \/ (batches < Len(Batches) /\ batches' = batches + 1)
      BY <1>5 DEF DescAllocBatch
    <3> QED BY <1>1, <3>1, FreshBatch DEF Acquired
  <2> QED BY <2>1, <2>2 DEF FlagsKept, FullInUse
<1>6. CASE AllocNewSb(t)
  BY <1>1, <1>6 DEF AllocNewSb, OpFrame, OwnerLabels, Holds, OwnInv, Unlisted, Nowhere, FlagsKept,
    FullInUse, Acquired
<1>7. CASE AllocPublishSb(t)
  BY <1>1, <1>7 DEF AllocPublishSb, ActiveIs, DescRetire, OpFrame, QueueFrame, OwnerLabels, Anchor,
    FlagsKept, FullInUse, Acquired
<1> QED BY <1>3, <1>4, <1>5, <1>6, <1>7 DEF NewSbStep

(* The flags in the steps of mono_lock_free_free.                          *)
LEMMA FreeStepFlags ==
  ASSUME NEW t \in Thread, TypeInv, OwnInv, FreeStep(t), \A u \in Thread \ {t} : SameLocals(u)
  PROVE  FlagsKept
<1>1. /\ OwnInv /\ OpFrame(t) /\ QueueFrame(t) /\ FreeFrame(t) /\ TypeInv
      /\ pc \in [Thread -> Label] /\ op \in [Thread -> Op] /\ deq \in [Thread -> Deq]
      /\ haz \in [Thread -> Haz] /\ anchor \in [Desc -> Anchor]
      /\ in_use \in [Desc -> BOOLEAN] /\ dummy_in_use \in [Dummy -> BOOLEAN]
      /\ NULL \notin Node /\ NULL \notin Item
      /\ \A u \in Thread \ {t} : SameLocals(u)
  BY NodeAssumption DEF TypeInv, TypeOK, HeapTypeOK, ServiceTypeOK, ThreadTypeOK, Frames
<1>2. CASE UNCHANGED <<in_use, anchor, dummy_in_use, batches>>
  BY <1>2 DEF FlagsKept, FullInUse, Acquired
<1>3. CASE FreeBegin(t)
  BY <1>2, <1>3 DEF FreeBegin
<1>4. CASE FreeReadAnchor(t)
  BY <1>2, <1>4 DEF FreeReadAnchor
<1>5. CASE FreeSetAnchor(t)
  BY <1>1, <1>5 DEF FreeSetAnchor, OpFrame, SetAnchorSucceeds, FreedAnchor, FlagsKept, FullInUse,
    Acquired
<1>6. CASE FreeSteal(t)
  BY <1>2, <1>6 DEF FreeSteal
<1>7. CASE FreeRetire(t)
  BY <1>1, <1>7 DEF FreeRetire, DescRetire, OpFrame, QueueFrame, OwnerLabels, Anchor, FlagsKept,
    FullInUse, Acquired
<1>8. CASE FreeGiveBack(t)
  BY <1>2, <1>8 DEF FreeGiveBack
<1>9. CASE RemoveEmptyGot(t)
  BY <1>1, <1>9 DEF RemoveEmptyGot, DescRetire, OpFrame, QueueFrame, OwnerLabels, Anchor, FlagsKept,
    FullInUse, Acquired
<1>10. CASE RemoveEmptyAgain(t)
  BY <1>2, <1>10 DEF RemoveEmptyAgain
<1> QED BY <1>3, <1>4, <1>5, <1>6, <1>7, <1>8, <1>9, <1>10 DEF FreeStep

(* The flags in the steps of the partial queue: a dummy is claimed before  *)
(* it is enqueued.                                                         *)
LEMMA QueueStepFlags ==
  ASSUME NEW t \in Thread, TypeInv, OwnInv, QueueStep(t), \A u \in Thread \ {t} : SameLocals(u)
  PROVE  FlagsKept
<1>1. /\ OwnInv /\ OpFrame(t) /\ QueueFrame(t) /\ FreeFrame(t) /\ TypeInv
      /\ pc \in [Thread -> Label] /\ op \in [Thread -> Op] /\ deq \in [Thread -> Deq]
      /\ haz \in [Thread -> Haz] /\ anchor \in [Desc -> Anchor]
      /\ in_use \in [Desc -> BOOLEAN] /\ dummy_in_use \in [Dummy -> BOOLEAN]
      /\ NULL \notin Node /\ NULL \notin Item
      /\ \A u \in Thread \ {t} : SameLocals(u)
  BY NodeAssumption DEF TypeInv, TypeOK, HeapTypeOK, ServiceTypeOK, ThreadTypeOK, Frames
<1>2. CASE UNCHANGED <<in_use, anchor, dummy_in_use, batches>>
  BY <1>2 DEF FlagsKept, FullInUse, Acquired
<1>3. CASE DequeueReadHead(t)
  BY <1>2, <1>3 DEF DequeueReadHead
<1>4. CASE DequeueTry(t)
  BY <1>2, <1>4 DEF DequeueTry
<1>5. CASE DequeueDummy(t)
  BY <1>2, <1>5 DEF DequeueDummy
<1>6. CASE ReenqueuePickDummy(t)
  BY <1>1, <1>6 DEF ReenqueuePickDummy, FlagsKept, FullInUse, Acquired
<1>7. CASE ReenqueueClaim(t)
  <2>1. UNCHANGED <<in_use, anchor, batches>> /\ deq[t].res \in Dummy
    BY <1>1, <1>7 DEF ReenqueueClaim, QueueFrame
  <2>2. PICK m \in Dummy : m = deq[t].res
    BY <2>1
  <2>3. CASE dummy_in_use' = dummy_in_use
    BY <2>1, <2>3 DEF FlagsKept, FullInUse, Acquired
  <2>4. CASE dummy_in_use' # dummy_in_use
    <3>1. /\ dummy_in_use' = [dummy_in_use EXCEPT ![m] = FALSE]
          /\ deq'[t].res = NULL /\ pc'[t] \in {"idle", "alloc_partial", "rm_got"}
          /\ UNCHANGED <<active, queue, desc_avail, delayed, op, enq, haz>>
      BY <1>1, <1>7, <2>2, <2>4 DEF ReenqueueClaim, NoDummyToEnqueue, DequeueReturn, Deq
    <3>2. m # NULL /\ Unique(m) /\ "deq" \in Holds(m, t)
      BY <1>1, <2>2 DEF OwnInv, Node, Holds
    <3>3. Holds(m, t)' \subseteq Holds(m, t) \ {"deq"}
      BY <3>1, <3>2 DEF Holds, OwnerLabels, FreeFunc
    <3>4. Nowhere(m)'
      BY <1>1, <3>1, <3>2, <3>3, Vanishes
    <3>5. \A e \in Dummy \ {m} : dummy_in_use'[e] = dummy_in_use[e]
      BY <1>1, <3>1
    <3> QED BY <2>1, <3>4, <3>5 DEF FlagsKept, FullInUse, Acquired
  <2> QED BY <2>3, <2>4
<1>8. CASE EnqueueStart(t)
  BY <1>2, <1>8 DEF EnqueueStart
<1>9. CASE EnqueueReadTail(t)
  BY <1>2, <1>9 DEF EnqueueReadTail
<1>10. CASE EnqueueLink(t)
  BY <1>2, <1>10 DEF EnqueueLink
<1> QED BY <1>3, <1>4, <1>5, <1>6, <1>7, <1>8, <1>9, <1>10 DEF QueueStep

(* The flags in the steps of the hazardous free: a dummy's in_use is       *)
(* reset, and a descriptor's, when nobody has it.                          *)
LEMMA HazardStepFlags ==
  ASSUME NEW t \in Thread, TypeInv, OwnInv, HazardStep(t), \A u \in Thread \ {t} : SameLocals(u)
  PROVE  FlagsKept
<1>1. /\ OwnInv /\ OpFrame(t) /\ QueueFrame(t) /\ FreeFrame(t) /\ TypeInv
      /\ pc \in [Thread -> Label] /\ op \in [Thread -> Op] /\ deq \in [Thread -> Deq]
      /\ haz \in [Thread -> Haz] /\ anchor \in [Desc -> Anchor]
      /\ in_use \in [Desc -> BOOLEAN] /\ dummy_in_use \in [Dummy -> BOOLEAN]
      /\ NULL \notin Node /\ NULL \notin Item
      /\ \A u \in Thread \ {t} : SameLocals(u)
  BY NodeAssumption DEF TypeInv, TypeOK, HeapTypeOK, ServiceTypeOK, ThreadTypeOK, Frames
<1>2. CASE UNCHANGED <<in_use, anchor, dummy_in_use, batches>>
  BY <1>2 DEF FlagsKept, FullInUse, Acquired
<1>3. CASE FreePop(t)
  BY <1>2, <1>3 DEF FreePop
<1>4. CASE FreeCheck(t)
  BY <1>2, <1>4 DEF FreeCheck
<1>5. CASE FreeDone(t)
  BY <1>2, <1>5 DEF FreeDone
<1>6. CASE FreeDummy(t)
  <2>1. /\ UNCHANGED <<in_use, anchor, batches>> /\ NextItem(t)
        /\ UNCHANGED <<active, queue, desc_avail, delayed, op, deq, enq>>
        /\ dummy_in_use' = [dummy_in_use EXCEPT ![haz[t].item.p] = FALSE]
        /\ haz[t].item.p \in Node
    BY <1>1, <1>6 DEF FreeDummy, FreeFrame, FreeFunc, Item, Node
  <2>2. PICK m \in Node : m = haz[t].item.p
    BY <2>1
  <2>3. Unique(m) /\ "item" \in Holds(m, t)
    BY <1>1, <1>6, <2>2 DEF FreeDummy, OwnInv, Holds, FreeFunc
  <2>4. Holds(m, t)' \subseteq Holds(m, t) \ {"item"}
    BY <1>1, <2>1, NextItemHolds
  <2>5. Nowhere(m)'
    BY <1>1, <2>1, <2>3, <2>4, Vanishes
  <2>6. \A e \in Dummy \ {m} : dummy_in_use'[e] = dummy_in_use[e]
    BY <1>1, <2>1, <2>2
  <2> QED BY <2>1, <2>5, <2>6 DEF FlagsKept, FullInUse, Acquired
<1>7. CASE DescPutPartial(t)
  BY <1>2, <1>7 DEF DescPutPartial
<1>8. CASE DescEnqueueAvail(t)
  BY <1>2, <1>8 DEF DescEnqueueAvail
<1> QED BY <1>3, <1>4, <1>5, <1>6, <1>7, <1>8 DEF HazardStep

-----------------------------------------------------------------------------

(* The inductive invariant.                                                *)
OwnershipInv == TypeInv /\ UsedInv /\ OwnInv

(* The allocator starts with one dummy in the queue and nothing else.      *)
LEMMA OwnershipInit == Init => OwnershipInv
<1> SUFFICES ASSUME Init PROVE OwnershipInv
  OBVIOUS
<1>1. TypeInv
  BY TypeInit
<1>2. PICK m \in Dummy :
        /\ queue = <<m>>
        /\ dummy_in_use = [n \in Dummy |-> n = m]
  BY DEF Init
<1>3. /\ active = NULL /\ desc_avail = <<>> /\ delayed = {} /\ batches = 0 /\ live = {}
      /\ in_use = [d \in Desc |-> FALSE]
      /\ NULL \notin Node /\ NULL \notin Item /\ m \in Node /\ m \notin Desc
  BY NodeAssumption DEF Init, Node
<1>4. \A t \in Thread : /\ pc[t] = "idle" /\ haz[t].self = NULL /\ haz[t].ret = "idle"
                        /\ deq[t].res = NULL /\ enq[t].node = NULL /\ haz[t].item = NULL
  BY DEF Init, NoHaz, NoDeq, NoEnq
<1>5. DOMAIN queue = {1} /\ queue[1] = m
  BY <1>2
<1>6. UsedInv
  <2>1. UsedHeap
    BY <1>3, <1>5 DEF UsedHeap
  <2>2. \A t \in Thread : UsedLocals(t)
    BY <1>3, <1>4 DEF UsedLocals, OpUsed, QueueUsed, FreeUsed, UsedLabels, OwnerLabels, Node
  <2> QED BY <2>1, <2>2 DEF UsedInv
<1>7. /\ \A n \in Node : HeapPlaces(n) \subseteq {"queue"}
      /\ \A n \in Node \ {m} : HeapPlaces(n) = {}
      /\ \A n \in Node : \A t \in Thread : Holds(n, t) = {}
  BY <1>3, <1>4, <1>5 DEF InSequence, Holds, OwnerLabels, FreeFunc, HeapPlaces
<1>8. OwnInv
  <2>1. \A n \in Node : Unique(n)
    BY <1>7 DEF Unique, Near
  <2>2. ListsDistinct
    BY <1>3, <1>5 DEF ListsDistinct, Distinct
  <2>3. Acquired = {}
    BY <1>3 DEF Acquired
  <2>4. Unlisted
    BY <1>2, <1>3, <1>7, <2>3 DEF Unlisted, Nowhere, FullInUse, Node
  <2> QED BY <2>1, <2>2, <2>4 DEF OwnInv
<1> QED BY <1>1, <1>6, <1>8 DEF OwnershipInv

(* A stuttering step keeps the invariant.                                  *)
LEMMA OwnershipStutter ==
  ASSUME OwnershipInv, UNCHANGED vars
  PROVE  OwnershipInv'
<1>1. UNCHANGED <<sharedVars, pc, frameVars, aborted>>
  BY DEF vars
<1>2. TypeInv'
  BY TypeStutter DEF OwnershipInv
<1>3. UsedInv'
  BY <1>1 DEF OwnershipInv, UsedInv, UsedHeap, UsedLocals, OpUsed, QueueUsed, FreeUsed, Used
<1>4. /\ \A n : HeapPlaces(n)' = HeapPlaces(n)
      /\ \A n : \A t : Holds(n, t)' = Holds(n, t)
  BY <1>1 DEF HeapPlaces, Holds
<1>5. OwnInv'
  BY <1>1, <1>4 DEF OwnershipInv, OwnInv, Unique, Near, ListsDistinct, Unlisted, Nowhere,
     FullInUse, Acquired
<1> QED BY <1>2, <1>3, <1>5 DEF OwnershipInv

(* Every step keeps the invariant.                                         *)
LEMMA OwnershipStep == OwnershipInv /\ [Next]_vars => OwnershipInv'
<1> SUFFICES ASSUME OwnershipInv, [Next]_vars PROVE OwnershipInv'
  OBVIOUS
<1>1. CASE UNCHANGED vars
  BY <1>1, OwnershipStutter
<1>2. ASSUME NEW t \in Thread, Step(t) PROVE OwnershipInv'
  <2>1. TypeInv /\ UsedInv /\ OwnInv
    BY DEF OwnershipInv
  <2>2. TypeInv'
    BY <1>2, <2>1, TypeStep DEF Next
  <2>3. UsedInv'
    BY <1>2, <2>1, UsedStep
  <2>4. \A u \in Thread \ {t} : SameLocals(u)
    BY <1>2, <2>1, StepLocals
  <2>5. Effects(t)
    BY <1>2, <2>1, AllocStepEffects, NewSbStepEffects, FreeStepEffects, QueueStepEffects,
       HazardStepEffects DEF Step
  <2>6. ListsDistinct'
    BY <1>2, <2>1, AllocStepLists, NewSbStepLists, FreeStepLists, QueueStepLists,
       HazardStepLists DEF Step
  <2>7. FlagsKept
    BY <1>2, <2>1, <2>4, AllocStepFlags, NewSbStepFlags, FreeStepFlags, QueueStepFlags,
       HazardStepFlags DEF Step
  <2>8. OwnInv'
    BY <2>1, <2>4, <2>5, <2>6, <2>7, OwnKept
  <2> QED BY <2>2, <2>3, <2>8 DEF OwnershipInv
<1> QED BY <1>1, <1>2 DEF Next

(* The invariant is strong enough.                                         *)
LEMMA OwnershipImpliesOneOwner == OwnershipInv => OneOwner
<1> SUFFICES ASSUME OwnershipInv PROVE OneOwner
  OBVIOUS
<1>1. ASSUME NEW n \in Node, NEW p \in PlacesOf(n), NEW q \in PlacesOf(n) PROVE p = q
  BY PlaceNames DEF OwnershipInv, OwnInv, PlacesOf, Unique, Near
<1>2. ListsDistinct
  BY DEF OwnershipInv, OwnInv
<1> QED BY <1>1, <1>2 DEF OneOwner, ListsDistinct, Distinct

(* A descriptor or dummy is never in two places at once, whatever the      *)
(* numbers of threads, descriptors, dummies and slots: heap->active, the   *)
(* partial queue, the available list, the delayed-free queue and the hands *)
(* of the threads exclude each other (lock-free-alloc.c:45).               *)
THEOREM OwnershipCorrect == Spec => []OneOwner
<1>1. Init => OwnershipInv
  BY OwnershipInit
<1>2. OwnershipInv /\ [Next]_vars => OwnershipInv'
  BY OwnershipStep
<1>3. OwnershipInv => OneOwner
  BY OwnershipImpliesOneOwner
<1> QED BY <1>1, <1>2, <1>3, PTL DEF Spec

-----------------------------------------------------------------------------
(* The ABA rule.  What comes to a list comes out of somebody's hands, who  *)
(* either has found it without a guard or got it from where nothing is     *)
(* guarded, and a guard is only ever put on what a list contains.          *)

(* No thread guards node n.                                                *)
Unguarded(n) == \A u \in Thread, i \in {0, 1} : hp[u][i] # n

(* The node thread t frees or enqueues, or the dummy it has just picked.   *)
Recycles(n, t) ==
  \/ pc[t] \in FreeFunc /\ haz[t].item.p = n
  \/ enq[t].node = n
  \/ pc[t] = "reenq_claim" /\ deq[t].res = n

(* A dummy that is not in use, or memory that has not been acquired yet.   *)
AtRest(n) == (n \in Dummy /\ ~dummy_in_use[n]) \/ n \in Desc \ Acquired

(* Thread t may put node n on a list.                                      *)
Cleared(n, t) == Recycles(n, t) \/ AtRest(n)

GuardInv == \A n \in Node : \A t \in Thread : Cleared(n, t) => Unguarded(n)
RecyclingInv == OwnershipInv /\ GuardInv

(* What a step of thread t does: it clears only what is cleared or         *)
(* unguarded, guards only what is listed and lists only what is cleared.   *)
ClearsUnguarded(t) ==
  \A n \in Node : Cleared(n, t)' => Cleared(n, t) \/ (Unguarded(n) /\ hp' = hp)
GuardsListed(t) ==
  \A i \in {0, 1} : hp'[t][i] \in {hp[t][i], NULL} \/ Listed(hp'[t][i])
ListsCleared(t) ==
  \A n \in Node : Listed(n)' => Listed(n) \/ Cleared(n, t)
FollowsRule(t) == ClearsUnguarded(t) /\ GuardsListed(t) /\ ListsCleared(t)

(* What is cleared is not in a list.                                       *)
LEMMA ClearedUnlisted ==
  ASSUME TypeInv, OwnInv, NEW n \in Node, NEW t \in Thread, Cleared(n, t)
  PROVE  ~Listed(n)
<1>1. CASE Recycles(n, t)
  BY <1>1, PlaceNames DEF TypeInv, Frames, OwnInv, Recycles, Holds, Unique, Near, HeapPlaces, Listed
<1>2. CASE AtRest(n)
  BY <1>2 DEF AtRest, OwnInv, Unlisted, Nowhere, HeapPlaces, Listed
<1> QED BY <1>1, <1>2 DEF Cleared

(* A step that follows the rule keeps the guards off what is cleared.      *)
LEMMA RuleKeepsGuards ==
  ASSUME NEW t \in Thread, TypeInv, OwnInv, GuardInv, \A u \in Thread \ {t} : SameLocals(u),
         FollowsRule(t)
  PROVE  GuardInv'
<1> SUFFICES ASSUME NEW n \in Node, NEW u \in Thread, Cleared(n, u)' PROVE Unguarded(n)'
  BY DEF GuardInv
<1>1. (\E v \in Thread : Cleared(n, v)) \/ (Unguarded(n) /\ hp' = hp)
  BY DEF FollowsRule, ClearsUnguarded, Cleared, Recycles, SameLocals
<1>2. CASE Unguarded(n) /\ hp' = hp
  BY <1>2 DEF Unguarded
<1>3. CASE \E v \in Thread : Cleared(n, v)
  BY <1>3, ClearedUnlisted, NodeAssumption DEF GuardInv, FollowsRule, GuardsListed, Unguarded,
    SameLocals
<1> QED BY <1>1, <1>2, <1>3

(* A step that touches no list, guard or dummy and lets go of its node at  *)
(* most follows the rule.                                                  *)
LEMMA NothingRecycled ==
  ASSUME NEW t \in Thread, UNCHANGED <<queue, desc_avail, hp, dummy_in_use, batches>>,
         enq'[t].node \in {enq[t].node, NULL}, pc'[t] \notin FreeFunc \cup {"reenq_claim"}
  PROVE  FollowsRule(t)
<1>1. NULL \notin Node
  BY NodeAssumption
<1>2. Acquired' = Acquired
  BY DEF Acquired
<1> QED BY <1>1, <1>2 DEF FollowsRule, ClearsUnguarded, GuardsListed, ListsCleared, Cleared,
  Recycles, AtRest, Listed

(* Neither an allocation nor a free recycles anything itself.              *)
LEMMA AllocStepRule ==
  ASSUME NEW t \in Thread, TypeInv, AllocStep(t)
  PROVE  FollowsRule(t)
<1>1. /\ pc \in [Thread -> Label]
      /\ UNCHANGED <<queue, desc_avail, hp, dummy_in_use, batches, enq>>
  BY DEF TypeInv, TypeOK, ThreadTypeOK, AllocStep, AllocBegin, AllocReadActive,
     AllocTakeActive, AllocGotPartial, AllocDequeueAgain, AllocReadAnchor, AllocReadNext,
     AllocSetAnchor, AllocGiveBack, AllocReturn
<1>2. pc'[t] \notin FreeFunc \cup {"reenq_claim"}
  BY <1>1 DEF FreeFunc, AllocStep, AllocBegin, AllocReadActive, AllocTakeActive,
     AllocGotPartial, AllocDequeueAgain, AllocReadAnchor, AllocReadNext, AllocSetAnchor,
     AllocGiveBack, AllocReturn, CallDequeue, DescRetire, ListPutPartial, FreeOrQueue
<1> QED BY <1>1, <1>2, NothingRecycled

LEMMA FreeStepRule ==
  ASSUME NEW t \in Thread, TypeInv, FreeStep(t)
  PROVE  FollowsRule(t)
  BY NothingRecycled DEF TypeInv, TypeOK, ThreadTypeOK, FreeStep, FreeBegin, FreeReadAnchor,
    FreeSetAnchor, FreeSteal, FreeRetire, FreeGiveBack, RemoveEmptyGot, RemoveEmptyAgain, FreeFunc,
    CallDequeue, DescRetire, ListPutPartial, FreeOrQueue

(* A thread that needs a descriptor guards the first available one, and    *)
(* lists what has just been acquired.                                      *)
LEMMA NewSbStepRule ==
  ASSUME NEW t \in Thread, TypeInv, OwnInv, NewSbStep(t)
  PROVE  FollowsRule(t)
<1>1. /\ pc \in [Thread -> Label] /\ hp \in [Thread -> [{0, 1} -> Node \cup {NULL}]]
      /\ desc_avail \in Seq(Desc) /\ NULL \notin Node /\ ListsDistinct
  BY NodeAssumption DEF TypeInv, TypeOK, ServiceTypeOK, ThreadTypeOK, OwnInv
<1>2. /\ UNCHANGED <<queue, dummy_in_use, enq>>
      /\ pc'[t] \notin FreeFunc \cup {"reenq_claim"}
  BY <1>1 DEF FreeFunc, NewSbStep, DescAllocPeek, DescAllocPop, DescAllocBatch, AllocNewSb,
     AllocPublishSb, DescRetire, FreeOrQueue
<1>3. batches' = batches => ClearsUnguarded(t)
  BY <1>2 DEF ClearsUnguarded, Cleared, Recycles, AtRest, Acquired
<1>4. CASE DescAllocPeek(t)
  <2>1. batches' = batches /\ desc_avail' = desc_avail
    BY <1>4 DEF DescAllocPeek
  <2>2. GuardsListed(t)
    <3>1. CASE desc_avail = <<>>
      BY <1>4, <3>1 DEF DescAllocPeek, GuardsListed
    <3>2. CASE desc_avail # <<>>
      BY <1>1, <1>4, <3>2, HeadLeaves DEF DescAllocPeek, SetHazard, ListsDistinct, GuardsListed,
        Listed
    <3> QED BY <3>1, <3>2
  <2> QED BY <1>2, <1>3, <2>1, <2>2 DEF FollowsRule, ListsCleared, Listed
<1>5. CASE DescAllocPop(t)
  <2>1. /\ batches' = batches /\ desc_avail' \in {desc_avail, Tail(desc_avail)}
        /\ desc_avail' # desc_avail => desc_avail # <<>>
        /\ hp' = [hp EXCEPT ![t][1] = NULL]
    BY <1>5 DEF DescAllocPop, ClearHazard, SetHazard
  <2>2. \A m : InSequence(m, desc_avail') => InSequence(m, desc_avail)
    BY <1>1, <2>1, HeadLeaves DEF ListsDistinct
  <2>3. hp'[t][1] = NULL /\ hp'[t][0] = hp[t][0]
    BY <1>1, <2>1
  <2> QED BY <1>2, <1>3, <2>1, <2>2, <2>3 DEF FollowsRule, GuardsListed, ListsCleared, Listed
<1>6. CASE DescAllocBatch(t)
  <2>1. GuardsListed(t)
    BY <1>6 DEF DescAllocBatch, GuardsListed
  <2>2. CASE batches' = batches + 1
    <3>1. CASE desc_avail' = desc_avail /\ batches' = batches
      BY <1>2, <1>3, <2>1, <3>1 DEF FollowsRule, ListsCleared, Listed
    <3>2. CASE batches < Len(Batches) /\ desc_avail' = Tail(Batches[batches + 1])
      BY <1>2, <2>1, <2>2, <3>2, FreshBatch, HeadLeaves DEF ListsCleared, Listed, Cleared, AtRest,
        ClearsUnguarded, Recycles, FollowsRule
    <3> QED BY <1>6, <3>1, <3>2 DEF DescAllocBatch
  <2>3. CASE batches' = batches /\ desc_avail' = desc_avail
    BY <1>2, <1>3, <2>1, <2>3 DEF FollowsRule, ListsCleared, Listed
  <2> QED BY <1>6, <2>2, <2>3 DEF DescAllocBatch
<1>7. CASE AllocNewSb(t) \/ AllocPublishSb(t)
  <2>1. UNCHANGED <<desc_avail, hp, batches>>
    BY <1>7 DEF AllocNewSb, AllocPublishSb
  <2> QED BY <1>2, <2>1, NothingRecycled
<1> QED BY <1>4, <1>5, <1>6, <1>7 DEF NewSbStep

(* A dequeue guards the head and picks a dummy at rest; an enqueue guards  *)
(* the tail and lists its node.                                            *)
LEMMA QueueStepRule ==
  ASSUME NEW t \in Thread, TypeInv, OwnInv, QueueStep(t)
  PROVE  FollowsRule(t)
<1>1. /\ QueueFrame(t) /\ pc \in [Thread -> Label] /\ deq \in [Thread -> Deq]
      /\ enq \in [Thread -> Enq] /\ hp \in [Thread -> [{0, 1} -> Node \cup {NULL}]]
      /\ dummy_in_use \in [Dummy -> BOOLEAN] /\ NULL \notin Node /\ ListsDistinct
      /\ queue \in Seq(Node) /\ queue # <<>>
  BY NodeAssumption DEF TypeInv, Frames, TypeOK, ServiceTypeOK, ThreadTypeOK, OwnInv
<1>2. UNCHANGED <<desc_avail, batches, haz>> \/ DequeueDummy(t)
  BY DEF QueueStep, DequeueReadHead, DequeueTry, ReenqueuePickDummy, ReenqueueClaim,
     EnqueueStart, EnqueueReadTail, EnqueueLink
<1>3. ASSUME UNCHANGED <<desc_avail, batches, dummy_in_use>>,
             enq'[t].node \in {enq[t].node, NULL},
             pc'[t] \notin FreeFunc \cup {"reenq_claim"}
      PROVE  ClearsUnguarded(t)
  BY <1>1, <1>3 DEF ClearsUnguarded, Cleared, Recycles, AtRest, Acquired
<1>4. ASSUME NEW x, hp' = [hp EXCEPT ![t][0] = x], x = NULL \/ InSequence(x, queue)
      PROVE  GuardsListed(t)
  <2>1. hp'[t][0] = x /\ hp'[t][1] = hp[t][1]
    BY <1>1, <1>4
  <2> QED BY <1>4, <2>1 DEF GuardsListed, Listed
<1>5. CASE DequeueReadHead(t)
  BY <1>1, <1>3, <1>4, <1>5, HeadLeaves DEF ListsDistinct, DequeueReadHead, SetHazard, FreeFunc,
    FollowsRule, ListsCleared, Listed
<1>6. CASE DequeueTry(t)
  <2>1. /\ hp' = [hp EXCEPT ![t][0] = NULL] /\ queue' \in {queue, Tail(queue)}
        /\ UNCHANGED <<desc_avail, batches, dummy_in_use, enq>>
    BY <1>6 DEF DequeueTry, ClearHazard, SetHazard
  <2>2. pc'[t] \in {"deq_head", "deq_dummy", "reenq_pick", "idle", "alloc_partial", "rm_got"}
    BY <1>1, <1>6 DEF DequeueTry, DequeueReturn, Deq
  <2>3. ClearsUnguarded(t)
    BY <1>3, <2>1, <2>2 DEF FreeFunc
  <2>4. \A m : InSequence(m, queue') => InSequence(m, queue)
    BY <1>1, <2>1, HeadLeaves DEF ListsDistinct
  <2> QED BY <1>4, <2>1, <2>3, <2>4 DEF FollowsRule, ListsCleared, Listed
<1>7. CASE DequeueDummy(t)
  BY <1>1, <1>7, NothingRecycled DEF DequeueDummy, FreeOrQueue, FreeFunc
<1>8. CASE ReenqueuePickDummy(t)
  <2>1. UNCHANGED <<queue, desc_avail, hp, batches, enq>>
    BY <1>8 DEF ReenqueuePickDummy
  <2>2. CASE NoDummyToEnqueue(t) /\ UNCHANGED dummy_in_use
    <3>1. pc'[t] \in {"idle", "alloc_partial", "rm_got"}
      BY <1>1, <2>2 DEF NoDummyToEnqueue, DequeueReturn, Deq
    <3> QED BY <2>1, <2>2, <3>1, NothingRecycled DEF FreeFunc
  <2>3. ASSUME NEW m \in Dummy, ~dummy_in_use[m],
               dummy_in_use' = [dummy_in_use EXCEPT ![m] = TRUE],
               deq' = [deq EXCEPT ![t].res = m], pc' = [pc EXCEPT ![t] = "reenq_claim"]
        PROVE  FollowsRule(t)
    BY <1>1, <2>1, <2>3 DEF Recycles, FreeFunc, AtRest, Acquired, FollowsRule, ClearsUnguarded,
      GuardsListed, ListsCleared, Cleared, Listed
  <2> QED BY <1>8, <2>2, <2>3 DEF ReenqueuePickDummy
<1>9. CASE ReenqueueClaim(t)
  BY <1>1, <1>9 DEF ReenqueueClaim, QueueFrame, Recycles, CallEnqueue, NoDummyToEnqueue,
    DequeueReturn, Deq, ClearsUnguarded, Cleared, AtRest, Acquired, FreeFunc, FollowsRule,
    GuardsListed, ListsCleared, Listed
<1>10. CASE EnqueueStart(t)
  BY <1>1, <1>10, NothingRecycled DEF EnqueueStart, FreeFunc
<1>11. CASE EnqueueReadTail(t)
  <2>1. InSequence(queue[Len(queue)], queue)
    BY <1>1 DEF InSequence
  <2>2. GuardsListed(t)
    BY <1>4, <1>11, <2>1 DEF EnqueueReadTail, SetHazard
  <2>3. ClearsUnguarded(t)
    BY <1>1, <1>3, <1>11 DEF EnqueueReadTail, FreeFunc
  <2> QED BY <1>11, <2>2, <2>3 DEF FollowsRule, EnqueueReadTail, ListsCleared, Listed
<1>12. CASE EnqueueLink(t)
  <2>1. /\ hp' = [hp EXCEPT ![t][0] = NULL]
        /\ queue' \in {queue, Append(queue, enq[t].node)}
        /\ UNCHANGED <<desc_avail, batches, dummy_in_use>>
    BY <1>12 DEF EnqueueLink, ClearHazard, SetHazard
  <2>2. enq'[t].node \in {enq[t].node, NULL} /\ enq[t].node \in Node
    BY <1>1, <1>12 DEF EnqueueLink, NoEnq, QueueFrame, EnqLabels
  <2>3. pc'[t] \in {"enq_tail", "idle", "deq_head", "fq_done"}
    BY <1>1, <1>12 DEF EnqueueLink, Enq
  <2>4. ClearsUnguarded(t)
    BY <1>3, <2>1, <2>2, <2>3 DEF FreeFunc
  <2>5. \A m : InSequence(m, Append(queue, enq[t].node)) =>
               InSequence(m, queue) \/ m = enq[t].node
    BY <1>1, <2>2, NodeAppended
  <2>6. ListsCleared(t)
    BY <2>1, <2>5 DEF ListsCleared, Listed, Cleared, Recycles
  <2> QED BY <1>4, <2>1, <2>4, <2>6 DEF FollowsRule
<1> QED BY <1>5, <1>6, <1>7, <1>8, <1>9, <1>10, <1>11, <1>12 DEF QueueStep

(* The hazardous free hands on only what no thread guards.                 *)
LEMMA HazardStepRule ==
  ASSUME NEW t \in Thread, TypeInv, OwnInv, HazardStep(t)
  PROVE  FollowsRule(t)
<1>1. /\ FreeFrame(t) /\ pc \in [Thread -> Label] /\ enq \in [Thread -> Enq]
      /\ haz \in [Thread -> Haz] /\ dummy_in_use \in [Dummy -> BOOLEAN]
      /\ NULL \notin Node /\ NULL \notin Item /\ desc_avail \in Seq(Desc)
  BY NodeAssumption DEF TypeInv, Frames, TypeOK, ServiceTypeOK, ThreadTypeOK
<1>2. UNCHANGED <<queue, hp, batches>>
  BY DEF HazardStep, FreePop, FreeCheck, FreeDone, FreeDummy, DescPutPartial,
     DescEnqueueAvail
<1>3. NextItem(t) => pc'[t] \notin FreeFunc \cup {"reenq_claim"}
  BY <1>1 DEF NextItem, Haz, HazReturn, FreeFunc
<1>4. CASE FreePop(t)
  <2>1. pc'[t] \in {"fq_try", "fq_check"}
    BY <1>1, <1>4 DEF FreePop
  <2> QED BY <1>2, <1>4, <2>1, NothingRecycled DEF FreePop, FreeFunc
<1>5. CASE FreeCheck(t)
  <2>1. UNCHANGED <<desc_avail, dummy_in_use, enq>>
    BY <1>5 DEF FreeCheck
  <2>2. CASE NextItem(t)
    BY <1>2, <1>3, <2>1, <2>2, NothingRecycled
  <2>3. CASE ~Hazardous(haz[t].item.p) /\ UNCHANGED haz
    BY <1>1, <1>2, <1>5, <2>1, <2>3 DEF Hazardous, Unguarded, FreeCheck, FreeFrame, Item,
      ClearsUnguarded, Cleared, Recycles, AtRest, Acquired, FollowsRule, GuardsListed, ListsCleared,
      Listed
  <2> QED BY <1>5, <2>2, <2>3 DEF FreeCheck
<1>6. CASE FreeDone(t)
  BY <1>2, <1>3, <1>6, NothingRecycled DEF FreeDone
<1>7. CASE FreeDummy(t)
  BY <1>1, <1>2, <1>3, <1>7 DEF FreeDummy, Recycles, FreeFunc, AtRest, Acquired, ClearsUnguarded,
    Cleared, FollowsRule, GuardsListed, ListsCleared, Listed
<1>8. CASE DescPutPartial(t)
  BY <1>1, <1>2, <1>8 DEF DescPutPartial, CallEnqueue, Recycles, FreeFunc, ClearsUnguarded, Cleared,
    AtRest, Acquired, FollowsRule, GuardsListed, ListsCleared, Listed
<1>9. CASE DescEnqueueAvail(t)
  BY <1>1, <1>2, <1>3, <1>9, NodePrepended DEF DescEnqueueAvail, Recycles, FreeFunc, FreeFrame,
    Item, ListsCleared, Listed, Cleared, ClearsUnguarded, AtRest, Acquired, FollowsRule,
    GuardsListed
<1> QED BY <1>4, <1>5, <1>6, <1>7, <1>8, <1>9 DEF HazardStep

(* Every step follows the rule.                                            *)
LEMMA StepRule ==
  ASSUME NEW t \in Thread, TypeInv, OwnInv, Step(t)
  PROVE  FollowsRule(t)
BY AllocStepRule, NewSbStepRule, FreeStepRule, QueueStepRule, HazardStepRule DEF Step

(* Initially no thread guards anything.                                    *)
LEMMA RecyclingInit == Init => RecyclingInv
<1> SUFFICES ASSUME Init PROVE RecyclingInv
  OBVIOUS
<1>1. \A n \in Node : Unguarded(n)
  BY NodeAssumption DEF Init, Unguarded
<1> QED BY <1>1, OwnershipInit DEF RecyclingInv, GuardInv

LEMMA RecyclingStep == RecyclingInv /\ [Next]_vars => RecyclingInv'
<1> SUFFICES ASSUME RecyclingInv, [Next]_vars PROVE RecyclingInv'
  OBVIOUS
<1>1. OwnershipInv'
  BY OwnershipStep DEF RecyclingInv
<1>2. CASE UNCHANGED vars
  BY <1>1, <1>2 DEF vars, RecyclingInv, GuardInv, Cleared, Recycles, AtRest, Acquired, Unguarded
<1>3. ASSUME NEW t \in Thread, Step(t) PROVE RecyclingInv'
  BY <1>1, <1>3, StepLocals, StepRule, RuleKeepsGuards DEF RecyclingInv, OwnershipInv
<1> QED BY <1>2, <1>3 DEF Next

(* What a step lists was cleared, and so nobody guarded it.                *)
LEMMA ListedUnguarded ==
  ASSUME RecyclingInv, [Next]_vars, NEW n \in Node, ~Listed(n), Listed(n)'
  PROVE  \A u \in Thread, i \in {0, 1} : hp[u][i] # n
  BY StepRule DEF vars, Listed, Next, RecyclingInv, OwnershipInv, FollowsRule, ListsCleared,
    GuardInv, Unguarded

(* The ABA rule, whatever the numbers of threads, descriptors, dummies and *)
(* slots: a node comes (back) to the partial queue or the available list   *)
(* only while no thread guards it, so a commit that finds the node it read *)
(* finds the structure it read (hazard-pointer.c:254).                     *)
THEOREM RecycledAlwaysUnguarded == Spec => RecycledUnguarded
<1>1. Init => RecyclingInv
  BY RecyclingInit
<1>2. RecyclingInv /\ [Next]_vars => RecyclingInv'
  BY RecyclingStep
<1>3. RecyclingInv /\ [Next]_vars =>
        [\A n \in Node : ~Listed(n) /\ Listed(n)' =>
           \A u \in Thread, i \in {0, 1} : hp[u][i] # n]_vars
  BY ListedUnguarded
<1> QED BY <1>1, <1>2, <1>3, PTL DEF Spec, RecycledUnguarded
-----------------------------------------------------------------------------
(* The dummies of the partial queue.                                       *)

(* The lists a dummy can be in, and the hands.                             *)
OnLists(m) == InSequence(m, queue) \/ \E x \in delayed : x.p = m
InHand(m, t) ==
  \/ deq[t].res = m
  \/ enq[t].node = m
  \/ haz[t].self # NULL /\ haz[t].tries <= FreeAttempts /\ haz[t].self.p = m
  \/ pc[t] \in FreeFunc \cup {"fq_check"} /\ haz[t].item.p = m

(* Thread t is enqueueing m, or has it from the queue and has not said so. *)
Carries(m, t) == enq[t].node = m \/ (pc[t] = "deq_dummy" /\ deq[t].res = m)
Current(m) == InSequence(m, queue) \/ \E t \in Thread : Carries(m, t)

(* A dummy is in the locals of the queue's operations only at the labels   *)
(* between taking it and giving it away.                                   *)
QueueLocals(t) ==
  /\ deq[t].res \in Dummy => pc[t] \in {"deq_dummy", "reenq_claim"}
  /\ enq[t].node # NULL => pc[t] \in EnqLabels

DummyInv ==
  /\ \A t \in Thread : QueueLocals(t)
  /\ \A m \in Dummy : dummy_in_use[m] => OnLists(m) \/ \E t \in Thread : InHand(m, t)
  /\ has_dummy <=> \E m \in Dummy : Current(m)
  /\ \A m, n \in Dummy : Current(m) /\ Current(n) => m = n

(* What a step of thread t does to the dummies: none gets lost, and        *)
(* has_dummy changes with the current one.                                 *)
DropsNone(t) ==
  \A m \in Dummy :
    \/ dummy_in_use'[m] => OnLists(m)' \/ InHand(m, t)'
    \/ dummy_in_use[m] /\ ~OnLists(m) /\ ~InHand(m, t)
CurrentTo(m, t) == InSequence(m, queue) \/ Carries(m, t)
SameCurrent(t) == has_dummy' = has_dummy /\ \A m \in Dummy : CurrentTo(m, t)' <=> CurrentTo(m, t)
LosesCurrent(t) ==
  /\ ~has_dummy'
  /\ \E n \in Dummy :
       /\ Carries(n, t) /\ ~CurrentTo(n, t)'
       /\ \A m \in Dummy : CurrentTo(m, t)' => CurrentTo(m, t)
GetsCurrent(t) ==
  /\ ~has_dummy /\ has_dummy'
  /\ \E n \in Dummy : \A m \in Dummy : CurrentTo(m, t)' <=> CurrentTo(m, t) \/ m = n
KeepsDummies(t) ==
  QueueLocals(t)' /\ DropsNone(t) /\ (SameCurrent(t) \/ LosesCurrent(t) \/ GetsCurrent(t))

(* What thread t does not do to its own locals leaves the others'.         *)
LEMMA OtherHands ==
  ASSUME NEW m, NEW u \in Thread, SameLocals(u)
  PROVE  /\ InHand(m, u)' <=> InHand(m, u)
         /\ Carries(m, u)' <=> Carries(m, u)
         /\ QueueLocals(u)' <=> QueueLocals(u)
BY DEF SameLocals, InHand, Carries, QueueLocals

LEMMA DummiesKept ==
  ASSUME NEW t \in Thread, TypeInv, OwnInv, DummyInv, \A u \in Thread \ {t} : SameLocals(u),
         KeepsDummies(t)
  PROVE  DummyInv'
<1>1. (\A u \in Thread : QueueLocals(u))'
  BY OtherHands DEF DummyInv, KeepsDummies
<1>2. ASSUME NEW m \in Dummy, dummy_in_use'[m]
      PROVE  OnLists(m)' \/ \E u \in Thread : InHand(m, u)'
  <2>1. CASE OnLists(m)' \/ InHand(m, t)'
    BY <2>1
  <2>2. CASE dummy_in_use[m] /\ ~OnLists(m) /\ ~InHand(m, t)
    <3>1. PICK u \in Thread \ {t} : InHand(m, u)
      BY <2>2 DEF DummyInv
    <3> QED BY <3>1, OtherHands
  <2> QED BY <1>2, <2>1, <2>2 DEF KeepsDummies, DropsNone
<1>3. \A m \in Dummy : Current(m) <=>
        CurrentTo(m, t) \/ \E u \in Thread \ {t} : Carries(m, u)
  BY DEF Current, CurrentTo
<1>4. \A m \in Dummy : Current(m)' <=>
        CurrentTo(m, t)' \/ \E u \in Thread \ {t} : Carries(m, u)
  BY OtherHands DEF Current, CurrentTo
<1>5. /\ has_dummy' <=> \E m \in Dummy : Current(m)'
      /\ \A m, n \in Dummy : Current(m)' /\ Current(n)' => m = n
  <2>1. /\ has_dummy <=> \E m \in Dummy : Current(m)
        /\ \A m, n \in Dummy : Current(m) /\ Current(n) => m = n
    BY DEF DummyInv
  <2>2. CASE SameCurrent(t)
    BY <1>3, <1>4, <2>1, <2>2 DEF SameCurrent
  <2>3. CASE LosesCurrent(t)
    <3>1. PICK n \in Dummy :
            /\ Carries(n, t) /\ ~CurrentTo(n, t)'
            /\ \A m \in Dummy : CurrentTo(m, t)' => CurrentTo(m, t)
      BY <2>3 DEF LosesCurrent
    <3>2. \A m \in Dummy : Current(m)' => m = n
      BY <1>3, <1>4, <2>1, <3>1 DEF CurrentTo
    <3>3. \A u \in Thread \ {t} : ~Carries(n, u)
      BY <3>1 DEF OwnInv, Node, Carries, Holds, Unique
    <3>4. \A m \in Dummy : ~Current(m)'
      BY <1>4, <3>1, <3>2, <3>3
    <3> QED BY <2>3, <3>4 DEF LosesCurrent
  <2>4. CASE GetsCurrent(t)
    BY <1>3, <1>4, <2>1, <2>4 DEF GetsCurrent
  <2> QED BY <2>2, <2>3, <2>4 DEF KeepsDummies
<1> QED BY <1>1, <1>2, <1>5 DEF DummyInv

(* Outside the queue and the hazardous free a thread has no dummy, and a   *)
(* step there leaves the dummies alone.                                    *)
LEMMA NoDummyInHand ==
  ASSUME NEW t \in Thread, NEW m \in Dummy, TypeInv, QueueLocals(t),
         pc[t] \notin {"deq_dummy", "reenq_claim", "fq_try", "fq_check", "fq_done"}
                        \cup EnqLabels \cup FreeFunc
  PROVE  ~InHand(m, t) /\ ~Carries(m, t)
<1>1. haz[t] = NoHaz /\ m # NULL
  BY NodeAssumption DEF TypeInv, Frames, FreeFrame, InFree, Node
<1> QED BY <1>1 DEF InHand, Carries, QueueLocals, NoHaz

LEMMA NoDummyTouched ==
  ASSUME NEW t \in Thread, TypeInv, QueueLocals(t),
         pc[t] \notin {"deq_dummy", "reenq_claim", "fq_try", "fq_check", "fq_done"}
                        \cup EnqLabels \cup FreeFunc,
         UNCHANGED <<queue, delayed, enq, has_dummy, dummy_in_use>>,
         pc'[t] # "deq_dummy", deq'[t].res \notin Dummy
  PROVE  KeepsDummies(t)
  BY NoDummyInHand, NodeAssumption DEF Node, QueueLocals, DropsNone, OnLists, SameCurrent,
    CurrentTo, Carries, KeepsDummies

LEMMA AllocStepDummies ==
  ASSUME NEW t \in Thread, TypeInv, QueueLocals(t), AllocStep(t)
  PROVE  KeepsDummies(t)
<1>1. /\ pc \in [Thread -> Label] /\ deq \in [Thread -> Deq] /\ NULL \notin Dummy
      /\ UNCHANGED <<queue, delayed, enq, has_dummy, dummy_in_use>>
  BY NodeAssumption DEF TypeInv, TypeOK, ThreadTypeOK, Node, AllocStep, AllocBegin,
     AllocReadActive, AllocTakeActive, AllocGotPartial, AllocDequeueAgain, AllocReadAnchor,
     AllocReadNext, AllocSetAnchor, AllocGiveBack, AllocReturn
<1>2. pc[t] \in {"idle", "alloc_active", "alloc_take", "alloc_partial", "alloc_again",
                 "alloc_anchor", "alloc_next", "alloc_cas", "alloc_giveback", "alloc_done"}
  BY DEF AllocStep, AllocBegin, AllocReadActive, AllocTakeActive, AllocGotPartial,
     AllocDequeueAgain, AllocReadAnchor, AllocReadNext, AllocSetAnchor, AllocGiveBack,
     AllocReturn
<1>3. pc'[t] # "deq_dummy"
  BY <1>1 DEF AllocStep, AllocBegin, AllocReadActive, AllocTakeActive, AllocGotPartial,
     AllocDequeueAgain, AllocReadAnchor, AllocReadNext, AllocSetAnchor, AllocGiveBack,
     AllocReturn, CallDequeue, DescRetire, ListPutPartial, FreeOrQueue
<1>4. deq'[t].res \in {deq[t].res, NULL}
  BY <1>1 DEF AllocStep, AllocBegin, AllocReadActive, AllocTakeActive, AllocGotPartial,
     AllocDequeueAgain, AllocReadAnchor, AllocReadNext, AllocSetAnchor, AllocGiveBack,
     AllocReturn, CallDequeue, NoDeq
<1>5. deq[t].res \notin Dummy
  BY <1>2 DEF QueueLocals
<1> QED BY <1>1, <1>2, <1>3, <1>4, <1>5, NoDummyTouched DEF EnqLabels, FreeFunc

LEMMA NewSbStepDummies ==
  ASSUME NEW t \in Thread, TypeInv, QueueLocals(t), NewSbStep(t)
  PROVE  KeepsDummies(t)
  BY NoDummyTouched DEF TypeInv, TypeOK, ThreadTypeOK, NewSbStep, DescAllocPeek, DescAllocPop,
    DescAllocBatch, AllocNewSb, AllocPublishSb, DescRetire, FreeOrQueue, QueueLocals, EnqLabels,
    FreeFunc

LEMMA FreeStepDummies ==
  ASSUME NEW t \in Thread, TypeInv, QueueLocals(t), FreeStep(t)
  PROVE  KeepsDummies(t)
<1>1. /\ pc \in [Thread -> Label] /\ deq \in [Thread -> Deq] /\ NULL \notin Dummy
      /\ UNCHANGED <<queue, delayed, enq, has_dummy, dummy_in_use>>
  BY NodeAssumption DEF TypeInv, TypeOK, ThreadTypeOK, Node, FreeStep, FreeBegin,
     FreeReadAnchor, FreeSetAnchor, FreeSteal, FreeRetire, FreeGiveBack, RemoveEmptyGot,
     RemoveEmptyAgain
<1>2. pc[t] \in {"idle", "free_read", "free_cas", "free_steal", "free_retire",
                 "free_giveback", "rm_got", "rm_again"}
  BY DEF FreeStep, FreeBegin, FreeReadAnchor, FreeSetAnchor, FreeSteal, FreeRetire,
     FreeGiveBack, RemoveEmptyGot, RemoveEmptyAgain
<1>3. pc'[t] # "deq_dummy"
  BY <1>1 DEF FreeStep, FreeBegin, FreeReadAnchor, FreeSetAnchor, FreeSteal, FreeRetire,
     FreeGiveBack, RemoveEmptyGot, RemoveEmptyAgain, CallDequeue, DescRetire,
     ListPutPartial, FreeOrQueue
<1>4. deq'[t].res \in {deq[t].res, NULL}
  BY <1>1 DEF FreeStep, FreeBegin, FreeReadAnchor, FreeSetAnchor, FreeSteal, FreeRetire,
     FreeGiveBack, RemoveEmptyGot, RemoveEmptyAgain, CallDequeue, NoDeq
<1>5. deq[t].res \notin Dummy
  BY <1>2 DEF QueueLocals
<1> QED BY <1>1, <1>2, <1>3, <1>4, <1>5, NoDummyTouched DEF EnqLabels, FreeFunc

(* Every element of a sequence is its head or in its tail.                 *)
LEMMA HeadOrTail ==
  ASSUME NEW S, NEW s \in Seq(S), s # <<>>, NEW m, InSequence(m, s), m # Head(s)
  PROVE  InSequence(m, Tail(s))
<1>1. PICK i \in DOMAIN s : s[i] = m
  BY DEF InSequence
<1>2. /\ DOMAIN s = 1 .. Len(s) /\ Len(s) \in Nat /\ Head(s) = s[1]
      /\ DOMAIN Tail(s) = 1 .. Len(s) - 1
  OBVIOUS
<1>3. i # 1 /\ i - 1 \in DOMAIN Tail(s)
  BY <1>1, <1>2
<1>4. Tail(s)[i - 1] = s[i]
  BY <1>3, TailElements, <1>2
<1> QED BY <1>1, <1>3, <1>4 DEF InSequence

(* A dummy that leaves the queue is the dequeuer's, then the hazardous     *)
(* free's; one that is picked is enqueued or given back.                   *)
LEMMA QueueStepDummies ==
  ASSUME NEW t \in Thread, TypeInv, QueueLocals(t), OwnInv, QueueStep(t)
  PROVE  KeepsDummies(t)
<1> USE DEF EnqLabels, FreeFunc
<1>1. /\ QueueFrame(t) /\ FreeFrame(t) /\ pc \in [Thread -> Label] /\ deq \in [Thread -> Deq]
      /\ enq \in [Thread -> Enq] /\ haz \in [Thread -> Haz] /\ ListsDistinct
      /\ dummy_in_use \in [Dummy -> BOOLEAN] /\ NULL \notin Dummy /\ Dummy \subseteq Node
      /\ queue \in Seq(Node) /\ queue # <<>> /\ FreeAttempts \in Nat
  BY NodeAssumption, FreeAttemptsAssumption DEF TypeInv, Frames, TypeOK, ServiceTypeOK,
     ThreadTypeOK, OwnInv, Node
<1>2. CASE DequeueReadHead(t)
  BY <1>1, <1>2, NoDummyTouched DEF DequeueReadHead, QueueLocals
<1>3. CASE DequeueTry(t)
  <2>1. /\ pc[t] = "deq_try" /\ deq[t].res \notin Dummy /\ enq[t].node = NULL
        /\ UNCHANGED <<delayed, enq, haz, has_dummy, dummy_in_use>>
        /\ \A m \in Dummy : ~InHand(m, t) /\ ~Carries(m, t)
    BY <1>3, NoDummyInHand DEF DequeueTry, QueueLocals
  <2>2. CASE queue' = queue
    BY <1>1, <1>3, <2>1, <2>2, NoDummyTouched DEF DequeueTry, DequeueReturn, Deq
  <2>3. CASE queue' # queue
    <3>1. /\ queue' = Tail(queue) /\ Head(queue) = hp[t][0] /\ deq'[t].res = Head(queue)
          /\ IF Head(queue) \in Dummy THEN pc'[t] = "deq_dummy"
                                      ELSE pc'[t] \in {"idle", "alloc_partial", "rm_got"}
      BY <1>1, <1>3, <2>3 DEF DequeueTry, DequeueReturn, Deq
    <3>2. \A m : InSequence(m, queue) <=> InSequence(m, Tail(queue)) \/ m = Head(queue)
      BY <1>1, HeadLeaves, HeadOrTail DEF ListsDistinct
    <3>3. ~InSequence(Head(queue), Tail(queue))
      BY <1>1, HeadLeaves DEF ListsDistinct
    <3>4. QueueLocals(t)'
      BY <2>1, <3>1 DEF QueueLocals
    <3>5. DropsNone(t)
      BY <2>1, <3>1, <3>2 DEF DropsNone, OnLists, InHand
    <3>6. SameCurrent(t)
      BY <1>1, <2>1, <3>1, <3>2 DEF SameCurrent, CurrentTo, Carries
    <3> QED BY <3>4, <3>5, <3>6 DEF KeepsDummies
  <2> QED BY <2>2, <2>3
<1>4. CASE DequeueDummy(t)
  <2>1. /\ pc[t] = "deq_dummy" /\ deq[t].res \in Dummy /\ enq[t].node = NULL
        /\ UNCHANGED <<queue, delayed, enq, dummy_in_use>> /\ has_dummy' = FALSE
        /\ haz[t] = NoHaz /\ NULL \notin Item
    BY <1>1, <1>4, NodeAssumption DEF DequeueDummy, QueueFrame, QueueLocals, FreeFrame,
       InFree
  <2>2. /\ deq'[t].res = NULL /\ pc'[t] = "fq_try"
        /\ haz'[t].self = [p |-> deq[t].res, fn |-> "free_dummy"] /\ haz'[t].tries = 0
    BY <1>1, <1>4 DEF DequeueDummy, FreeOrQueue
  <2>3. haz'[t].self # NULL /\ haz'[t].self.p = deq[t].res /\ 0 <= FreeAttempts
    BY <1>1, <2>1, <2>2 DEF Item
  <2>4. QueueLocals(t)'
    BY <1>1, <2>1, <2>2 DEF QueueLocals
  <2>5. DropsNone(t)
    BY <2>1, <2>2, <2>3 DEF DropsNone, OnLists, InHand, NoHaz
  <2>6. ~InSequence(deq[t].res, queue)
    <3>1. Unique(deq[t].res) /\ "deq" \in Holds(deq[t].res, t)
      BY <1>1, <2>1 DEF OwnInv, Holds
    <3> QED BY <3>1 DEF Unique, Near, HeapPlaces
  <2>7. LosesCurrent(t)
    BY <1>1, <2>1, <2>2, <2>6 DEF LosesCurrent, CurrentTo, Carries
  <2> QED BY <2>4, <2>5, <2>7 DEF KeepsDummies
<1>5. CASE ReenqueuePickDummy(t)
  <2>1. /\ pc[t] = "reenq_pick" /\ enq[t].node = NULL /\ deq[t].res \notin Dummy
        /\ UNCHANGED <<queue, delayed, enq, haz, has_dummy>>
        /\ \A m \in Dummy : ~InHand(m, t) /\ ~Carries(m, t)
    BY <1>5, NoDummyInHand DEF ReenqueuePickDummy, QueueLocals
  <2>2. CASE NoDummyToEnqueue(t) /\ UNCHANGED dummy_in_use
    <3>1. pc'[t] # "deq_dummy" /\ deq'[t].res = NULL
      BY <1>1, <2>2 DEF NoDummyToEnqueue, DequeueReturn, Deq
    <3> QED BY <1>1, <2>1, <2>2, <3>1, NoDummyTouched
  <2>3. ASSUME NEW n \in Dummy, dummy_in_use' = [dummy_in_use EXCEPT ![n] = TRUE],
               deq' = [deq EXCEPT ![t].res = n], pc' = [pc EXCEPT ![t] = "reenq_claim"]
        PROVE  KeepsDummies(t)
    BY <1>1, <2>1, <2>3 DEF QueueLocals, DropsNone, OnLists, InHand, SameCurrent, CurrentTo,
      Carries, KeepsDummies
  <2> QED BY <1>5, <2>2, <2>3 DEF ReenqueuePickDummy
<1>6. CASE ReenqueueClaim(t)
  <2>1. /\ pc[t] = "reenq_claim" /\ enq[t].node = NULL /\ deq[t].res \in Dummy
        /\ UNCHANGED <<queue, delayed, haz>> /\ haz[t] = NoHaz
    BY <1>1, <1>6 DEF ReenqueueClaim, QueueLocals, QueueFrame, FreeFrame, InFree
  <2>2. CASE ClaimsDummy
    <3>1. /\ dummy_in_use' = dummy_in_use /\ pc'[t] = "enq_start"
          /\ deq'[t].res = NULL /\ enq'[t].node = deq[t].res
      <4>1. /\ CallEnqueue(t, deq[t].res, "deq_head") /\ dummy_in_use' = dummy_in_use
            /\ deq' = [deq EXCEPT ![t].res = NULL]
        BY <1>6, <2>2, Zenon DEF ReenqueueClaim
      <4> QED BY <1>1, <4>1 DEF CallEnqueue
    <3>2. QueueLocals(t)'
      BY <1>1, <3>1 DEF QueueLocals
    <3>3. DropsNone(t)
      BY <2>1, <3>1 DEF DropsNone, OnLists, InHand, NoHaz
    <3>4. ~has_dummy /\ has_dummy'
      BY <1>6, <2>2, Zenon DEF ReenqueueClaim, ClaimsDummy
    <3>5. \A m \in Dummy : CurrentTo(m, t)' <=> CurrentTo(m, t) \/ m = deq[t].res
      BY <1>1, <2>1, <3>1 DEF CurrentTo, Carries
    <3>6. GetsCurrent(t)
      BY <2>1, <3>4, <3>5 DEF GetsCurrent
    <3> QED BY <3>2, <3>3, <3>6 DEF KeepsDummies
  <2>3. CASE ~ClaimsDummy
    BY <1>1, <1>6, <2>1, <2>3 DEF ReenqueueClaim, NoDummyToEnqueue, DequeueReturn, Deq, QueueLocals,
      DropsNone, OnLists, InHand, NoHaz, SameCurrent, CurrentTo, Carries, KeepsDummies
  <2> QED BY <2>2, <2>3
<1>7. ASSUME pc[t] \in EnqLabels, pc'[t] \in EnqLabels,
             UNCHANGED <<queue, delayed, deq, enq, haz, has_dummy, dummy_in_use>>
      PROVE  KeepsDummies(t)
  BY <1>7 DEF QueueLocals, DropsNone, OnLists, InHand, SameCurrent, CurrentTo, Carries, KeepsDummies
<1>8. CASE EnqueueStart(t) \/ EnqueueReadTail(t)
  BY <1>1, <1>7, <1>8 DEF EnqueueStart, EnqueueReadTail
<1>9. CASE EnqueueLink(t)
  <2>1. CASE queue[Len(queue)] # hp[t][0]
    BY <1>1, <1>7, <1>9, <2>1 DEF EnqueueLink
  <2>2. CASE queue[Len(queue)] = hp[t][0]
    <3>1. /\ queue' = Append(queue, enq[t].node) /\ enq'[t].node = NULL
          /\ enq[t].node \in Node /\ pc[t] = "enq_link"
          /\ UNCHANGED <<delayed, deq, haz, has_dummy, dummy_in_use>>
          /\ pc'[t] \in {"idle", "deq_head", "fq_done"}
      BY <1>1, <1>9, <2>2 DEF EnqueueLink, NoEnq, Enq, QueueFrame
    <3>2. /\ \A m : InSequence(m, queue') => InSequence(m, queue) \/ m = enq[t].node
          /\ \A m : InSequence(m, queue) => InSequence(m, queue')
      BY <1>1, <3>1, NodeAppended, AppendElements DEF InSequence
    <3>3. InSequence(enq[t].node, queue')
      BY <1>1, <3>1 DEF InSequence
    <3>4. QueueLocals(t)'
      BY <3>1 DEF QueueLocals
    <3>5. DropsNone(t)
      BY <3>1, <3>2, <3>3 DEF DropsNone, OnLists, InHand
    <3>6. SameCurrent(t)
      BY <1>1, <3>1, <3>2, <3>3 DEF SameCurrent, CurrentTo, Carries
    <3> QED BY <3>4, <3>5, <3>6 DEF KeepsDummies
  <2> QED BY <2>1, <2>2
<1> QED BY <1>2, <1>3, <1>4, <1>5, <1>6, <1>8, <1>9 DEF QueueStep

(* The end of an item keeps the call's own item.                           *)
LEMMA NextItemKeepsSelf ==
  ASSUME NEW t \in Thread, pc \in [Thread -> Label], haz \in [Thread -> Haz], NextItem(t)
  PROVE  /\ pc'[t] \in HazReturn \cup {"fq_try"}
         /\ haz[t].tries <= FreeAttempts =>
              haz'[t].self = haz[t].self /\ haz'[t].tries = haz[t].tries
<1>1. haz[t].ret \in HazReturn /\ haz[t].tries \in Int /\ FreeAttempts \in Nat
  BY FreeAttemptsAssumption DEF Haz
<1>2. CASE haz[t].tries = FreeAttempts + 1
  BY <1>1, <1>2 DEF NextItem
<1>3. CASE haz[t].tries # FreeAttempts + 1
  BY <1>3 DEF NextItem, Haz
<1> QED BY <1>2, <1>3

(* The hazardous free passes a dummy from hand to list until free_dummy    *)
(* resets its flag.                                                        *)
LEMMA HazardStepDummies ==
  ASSUME NEW t \in Thread, TypeInv, QueueLocals(t), HazardStep(t)
  PROVE  KeepsDummies(t)
<1> USE DEF EnqLabels, FreeFunc
<1>1. /\ FreeFrame(t) /\ pc \in [Thread -> Label] /\ enq \in [Thread -> Enq]
      /\ haz \in [Thread -> Haz] /\ dummy_in_use \in [Dummy -> BOOLEAN]
      /\ NULL \notin Dummy /\ NULL \notin Item /\ Desc \cap Dummy = {}
  BY NodeAssumption DEF TypeInv, Frames, TypeOK, ServiceTypeOK, ThreadTypeOK, Node
<1>2. pc[t] \in {"fq_try", "fq_check", "fq_done"} \cup FreeFunc
  BY DEF HazardStep, FreePop, FreeCheck, FreeDone, FreeDummy, DescPutPartial,
     DescEnqueueAvail
<1>3. deq[t].res \notin Dummy /\ enq[t].node = NULL
  BY <1>2 DEF QueueLocals
<1>4. /\ UNCHANGED <<queue, has_dummy, deq>>
      /\ UNCHANGED enq \/ DescPutPartial(t)
  BY DEF HazardStep, FreePop, FreeCheck, FreeDone, FreeDummy, DescPutPartial,
     DescEnqueueAvail
<1>5. /\ NextItem(t) => pc'[t] \in {"fq_try", "idle", "alloc_again", "alloc_active",
                                     "alloc_done", "rm_again", "reenq_pick"}
      /\ NextItem(t) /\ haz[t].tries <= FreeAttempts =>
           haz'[t].self = haz[t].self /\ haz'[t].tries = haz[t].tries
  BY <1>1, NextItemKeepsSelf DEF HazReturn
<1>6. ASSUME enq' = enq, pc'[t] # "deq_dummy", DropsNone(t) PROVE KeepsDummies(t)
  <2>1. QueueLocals(t)'
    BY <1>3, <1>4, <1>6 DEF QueueLocals
  <2>2. SameCurrent(t)
    BY <1>1, <1>2, <1>3, <1>4, <1>6 DEF SameCurrent, CurrentTo, Carries
  <2> QED BY <1>6, <2>1, <2>2 DEF KeepsDummies
<1>7. CASE FreePop(t)
  <2>1. /\ UNCHANGED <<dummy_in_use, enq>> /\ pc[t] = "fq_try" /\ haz[t].self \in Item
        /\ pc'[t] \in {"fq_try", "fq_check"}
        /\ haz[t].tries \in Int /\ FreeAttempts \in Nat
    BY <1>1, <1>7, FreePopFields, FreeAttemptsAssumption DEF FreePop, FreeFrame, InFree, Haz
  <2>2. haz'[t].self = haz[t].self /\ haz'[t].tries = haz[t].tries + 1
    BY <1>1, <1>7, FreePopFields
  <2>3. CASE haz[t].tries < FreeAttempts /\ delayed' = delayed
    BY <1>3, <1>4, <1>6, <2>1, <2>2, <2>3 DEF DropsNone, OnLists, InHand
  <2>4. CASE /\ haz[t].tries < FreeAttempts /\ pc'[t] = "fq_check"
             /\ haz'[t].item \in delayed /\ delayed' = delayed \ {haz'[t].item}
    BY <1>1, <1>3, <1>4, <1>6, <2>1, <2>2, <2>4 DEF OnLists, InHand, DropsNone
  <2>5. CASE /\ haz[t].tries = FreeAttempts /\ pc'[t] = "fq_check"
             /\ haz'[t].item = haz[t].self /\ delayed' = delayed
    <3>1. DropsNone(t)
      BY <1>1, <1>3, <1>4, <2>1, <2>5 DEF DropsNone, OnLists, InHand
    <3> QED BY <1>6, <2>1, <3>1
  <2> QED BY <1>1, <1>7, <2>3, <2>4, <2>5, FreePopFields
<1>8. CASE FreeCheck(t)
  <2>1. UNCHANGED <<dummy_in_use, enq>> /\ pc[t] = "fq_check" /\ haz[t].item \in Item
    BY <1>1, <1>8 DEF FreeCheck, FreeFrame
  <2>2. CASE delayed' = delayed \cup {haz[t].item} /\ NextItem(t)
    BY <1>4, <1>5, <1>6, <2>1, <2>2 DEF OnLists, InHand, DropsNone
  <2>3. CASE pc' = [pc EXCEPT ![t] = haz[t].item.fn] /\ UNCHANGED <<delayed, haz>>
    BY <1>1, <1>4, <1>6, <2>1, <2>3 DEF Item, DropsNone, OnLists, InHand
  <2> QED BY <1>8, <2>2, <2>3 DEF FreeCheck
<1>9. ASSUME UNCHANGED <<delayed, enq>>, NextItem(t),
             \A m \in Dummy : dummy_in_use'[m] => dummy_in_use[m],
             \A m \in Dummy : pc[t] \in FreeFunc \cup {"fq_check"} /\ haz[t].item.p = m =>
                                ~dummy_in_use'[m]
      PROVE  KeepsDummies(t)
  <2>1. DropsNone(t)
    BY <1>4, <1>5, <1>9 DEF DropsNone, OnLists, InHand
  <2> QED BY <1>5, <1>6, <1>9, <2>1
<1>10. CASE FreeDone(t)
  BY <1>9, <1>10 DEF FreeDone
<1>11. CASE FreeDummy(t)
  BY <1>1, <1>9, <1>11 DEF FreeDummy
<1>12. CASE DescPutPartial(t)
  BY <1>1, <1>2, <1>3, <1>4, <1>12 DEF DescPutPartial, CallEnqueue, FreeFrame, Item, QueueLocals,
    DropsNone, OnLists, InHand, SameCurrent, CurrentTo, Carries, KeepsDummies
<1>13. CASE DescEnqueueAvail(t)
  <2>1. haz[t].item.p \in Desc
    BY <1>1, <1>13 DEF DescEnqueueAvail, FreeFrame, Item
  <2> QED BY <1>1, <1>9, <1>13, <2>1 DEF DescEnqueueAvail
<1> QED BY <1>7, <1>8, <1>10, <1>11, <1>12, <1>13 DEF HazardStep

(* Initially the queue consists of its dummy.                              *)
LEMMA DummyInit == Init => DummyInv
<1> SUFFICES ASSUME Init PROVE DummyInv
  OBVIOUS
<1>1. PICK n \in Dummy :
        queue = <<n>> /\ dummy_in_use = [m \in Dummy |-> m = n]
  BY DEF Init
<1>2. /\ NULL \notin Dummy /\ has_dummy
      /\ \A t \in Thread : pc[t] = "idle" /\ deq[t].res = NULL /\ enq[t].node = NULL
  BY NodeAssumption DEF Init, NoDeq, NoEnq, Node
<1>3. \A m : InSequence(m, queue) <=> m = n
  <2>1. DOMAIN queue = {1} /\ queue[1] = n
    BY <1>1
  <2> QED BY <2>1 DEF InSequence
<1>4. \A m \in Dummy : Current(m) <=> m = n
  BY <1>2, <1>3 DEF Current, Carries
<1>5. \A t \in Thread : QueueLocals(t)
  BY <1>2 DEF QueueLocals
<1>6. \A m \in Dummy : dummy_in_use[m] => OnLists(m)
  BY <1>1, <1>3 DEF OnLists
<1> QED BY <1>2, <1>4, <1>5, <1>6 DEF DummyInv

LEMMA DummyStep == OwnershipInv /\ DummyInv /\ [Next]_vars => DummyInv'
<1> SUFFICES ASSUME OwnershipInv, DummyInv, [Next]_vars PROVE DummyInv'
  OBVIOUS
<1>1. CASE UNCHANGED vars
  <2>1. UNCHANGED <<queue, delayed, has_dummy, dummy_in_use, pc, deq, enq, haz>>
    BY <1>1 DEF vars
  <2> QED BY <2>1 DEF DummyInv, QueueLocals, OnLists, InHand, Current, Carries
<1>2. ASSUME NEW t \in Thread, Step(t) PROVE DummyInv'
  BY <1>2, StepLocals, AllocStepDummies, NewSbStepDummies, FreeStepDummies, QueueStepDummies,
    HazardStepDummies, DummiesKept DEF OwnershipInv, DummyInv, Step
<1> QED BY <1>1, <1>2 DEF Next

(* The invariants are strong enough: a dummy that is not in use is nowhere *)
(* by ownership.                                                           *)
LEMMA DummyInvImpliesAccount == OwnershipInv /\ DummyInv => DummyAccount
<1> SUFFICES ASSUME OwnershipInv, DummyInv PROVE DummyAccount
  OBVIOUS
<1>1. CurrentDummies = {m \in Dummy : Current(m)}
  BY DEF CurrentDummies, Current, Carries
<1>2. has_dummy <=> CurrentDummies # {}
  BY <1>1 DEF DummyInv
<1>3. \A m, n \in CurrentDummies : m = n
  BY <1>1 DEF DummyInv
<1>4. ASSUME NEW m \in Dummy, dummy_in_use[m] PROVE PlacesOf(m) # {}
  <2>1. CASE OnLists(m)
    <3>1. PICK p : p \in HeapPlaces(m)
      BY <2>1 DEF OnLists, HeapPlaces
    <3> QED BY <3>1 DEF PlacesOf
  <2>2. ASSUME NEW t \in Thread, InHand(m, t) PROVE PlacesOf(m) # {}
    <3>1. PICK f : f \in Holds(m, t)
      BY <2>2 DEF InHand, Holds
    <3>2. <<t, f>> \in PlacesOf(m)
      BY <3>1 DEF PlacesOf
    <3> QED BY <3>2
  <2> QED BY <1>4, <2>1, <2>2 DEF DummyInv
<1>5. ASSUME NEW m \in Dummy, ~dummy_in_use[m] PROVE PlacesOf(m) = {}
  <2>1. Nowhere(m)
    BY <1>5 DEF OwnershipInv, OwnInv, Unlisted
  <2> QED BY <2>1 DEF Nowhere, PlacesOf
<1> QED BY <1>2, <1>3, <1>4, <1>5 DEF DummyAccount

(* The partial queue's account of its dummies is right whatever the        *)
(* numbers of threads, descriptors, dummies and slots: has_dummy says      *)
(* whether the queue has its dummy, there is never a second one, and a     *)
(* dummy's in_use flag is set exactly while somebody has it                *)
(* (lock-free-queue.c:176, 199).                                           *)
THEOREM DummyAccountAlways == Spec => []DummyAccount
<1>1. Init => OwnershipInv /\ DummyInv
  BY OwnershipInit, DummyInit
<1>2. OwnershipInv /\ DummyInv /\ [Next]_vars => (OwnershipInv /\ DummyInv)'
  BY OwnershipStep, DummyStep
<1>3. OwnershipInv /\ DummyInv => DummyAccount
  BY DummyInvImpliesAccount
<1> QED BY <1>1, <1>2, <1>3, PTL DEF Spec

-----------------------------------------------------------------------------
(* The free slots of a superblock. The anchor and the slots' first words   *)
(* link them into a list; the lemmas say what the list is after its first  *)
(* slot is taken, after one is linked in front of it, and when the         *)
(* superblock is new.                                                      *)

(* The slots c[1], ..., c[n] linked through w from slot a on are those of  *)
(* F, each once.                                                           *)
IsChain(c, n, a, w, F) ==
  /\ c \in [1 .. n -> Slot]
  /\ \A i, j \in 1 .. n : c[i] = c[j] => i = j
  /\ n > 0 => c[1] = a
  /\ \A i \in 1 .. n : i # 1 => c[i] = w[c[i - 1]]
  /\ \A i \in 1 .. n : c[i] \in F
  /\ \A s \in F : \E i \in 1 .. n : c[i] = s

Chained(n, a, w, F) == \E c : IsChain(c, n, a, w, F)

(* A chain does not depend on what is stored in the other slots.           *)
LEMMA ChainKept ==
  ASSUME NEW n \in Nat, NEW a, NEW w, NEW F, Chained(n, a, w, F), NEW v,
         \A s \in F : v[s] = w[s]
  PROVE  Chained(n, a, v, F)
<1>1. PICK c : IsChain(c, n, a, w, F)
  BY DEF Chained
<1>2. \A i \in 1 .. n : i # 1 => i - 1 \in 1 .. n
  OBVIOUS
<1>3. \A i \in 1 .. n : i # 1 => v[c[i - 1]] = w[c[i - 1]]
  BY <1>1, <1>2 DEF IsChain
<1>4. IsChain(c, n, a, v, F)
  BY <1>1, <1>3 DEF IsChain
<1> QED BY <1>4 DEF Chained

(* Taking the first slot leaves a chain that begins where it points to.    *)
LEMMA ChainPopped ==
  ASSUME NEW n \in Nat, n > 0, NEW a, NEW w, NEW F, Chained(n, a, w, F)
  PROVE  /\ a \in F /\ a \in Slot
         /\ n > 1 => w[a] \in Slot
         /\ Chained(n - 1, w[a], w, F \ {a})
<1>1. PICK c : IsChain(c, n, a, w, F)
  BY DEF Chained
<1>2. 1 \in 1 .. n
  OBVIOUS
<1>3. a \in F /\ a \in Slot /\ c[1] = a
  BY <1>1, <1>2 DEF IsChain
<1> DEFINE b == [i \in 1 .. n - 1 |-> c[i + 1]]
<1>4. \A i \in 1 .. n - 1 : i + 1 \in 1 .. n /\ i + 1 # 1
  OBVIOUS
<1>5. b \in [1 .. n - 1 -> Slot] /\ \A i \in 1 .. n - 1 : b[i] = c[i + 1]
  BY <1>1, <1>4 DEF IsChain
<1>6. \A i, j \in 1 .. n - 1 : b[i] = b[j] => i = j
  BY <1>1, <1>4, <1>5 DEF IsChain
<1>7. n - 1 > 0 => b[1] = w[a]
  BY <1>1, <1>3, <1>5 DEF IsChain
<1>8. \A i \in 1 .. n - 1 : i # 1 => b[i] = w[b[i - 1]]
  <2> SUFFICES ASSUME NEW i \in 1 .. n - 1, i # 1 PROVE b[i] = w[b[i - 1]]
    OBVIOUS
  <2>1. i - 1 \in 1 .. n - 1 /\ i + 1 \in 1 .. n /\ i + 1 # 1 /\ (i + 1) - 1 = i
          /\ (i - 1) + 1 = i
    OBVIOUS
  <2>2. b[i] = c[i + 1] /\ b[i - 1] = c[i]
    BY <1>5, <2>1
  <2>3. c[i + 1] = w[c[i]]
    BY <1>1, <2>1 DEF IsChain
  <2> QED BY <2>2, <2>3
<1>9. \A i \in 1 .. n - 1 : b[i] \in F \ {a}
  BY <1>1, <1>2, <1>3, <1>4, <1>5 DEF IsChain
<1>10. \A s \in F \ {a} : \E i \in 1 .. n - 1 : b[i] = s
  <2> SUFFICES ASSUME NEW s \in F \ {a} PROVE \E i \in 1 .. n - 1 : b[i] = s
    OBVIOUS
  <2>1. PICK i \in 1 .. n : c[i] = s
    BY <1>1 DEF IsChain
  <2>2. i # 1
    BY <1>3, <2>1
  <2>3. i - 1 \in 1 .. n - 1 /\ (i - 1) + 1 = i
    BY <2>2
  <2> QED BY <1>5, <2>1, <2>3
<1>11. IsChain(b, n - 1, w[a], w, F \ {a})
  <2> HIDE DEF b
  <2> QED BY <1>5, <1>6, <1>7, <1>8, <1>9, <1>10 DEF IsChain
<1>12. n > 1 => w[a] \in Slot
  <2> SUFFICES ASSUME n > 1 PROVE w[a] \in Slot
    OBVIOUS
  <2>1. 1 \in 1 .. n - 1 /\ n - 1 > 0
    OBVIOUS
  <2> HIDE DEF b
  <2> QED BY <1>5, <1>7, <2>1
<1> QED BY <1>3, <1>11, <1>12 DEF Chained

(* Linking a slot in front of a chain gives a longer one.                  *)
LEMMA ChainPushed ==
  ASSUME NEW n \in Nat, NEW a, NEW w, NEW F, Chained(n, a, w, F), NEW s \in Slot, s \notin F,
         w[s] = a
  PROVE  Chained(n + 1, s, w, F \cup {s})
<1>1. PICK c : IsChain(c, n, a, w, F)
  BY DEF Chained
<1> DEFINE b == [i \in 1 .. n + 1 |-> IF i = 1 THEN s ELSE c[i - 1]]
<1>2. 1 \in 1 .. n + 1 /\ \A i \in 1 .. n + 1 : i # 1 => i - 1 \in 1 .. n
  OBVIOUS
<1>3. b[1] = s /\ \A i \in 1 .. n + 1 : i # 1 => b[i] = c[i - 1]
  BY <1>2
<1>4. b \in [1 .. n + 1 -> Slot]
  BY <1>1, <1>2 DEF IsChain
<1> HIDE DEF b
<1>5. \A i \in 1 .. n + 1 : i # 1 => b[i] \in F /\ b[i] # s
  BY <1>1, <1>2, <1>3 DEF IsChain
<1>6. \A i, j \in 1 .. n + 1 : b[i] = b[j] => i = j
  <2> SUFFICES ASSUME NEW i \in 1 .. n + 1, NEW j \in 1 .. n + 1, b[i] = b[j] PROVE i = j
    OBVIOUS
  <2>1. CASE i = 1 \/ j = 1
    BY <1>3, <1>5, <2>1
  <2>2. CASE i # 1 /\ j # 1
    BY <1>1, <1>2, <1>3, <2>2 DEF IsChain
  <2> QED BY <2>1, <2>2
<1>7. \A i \in 1 .. n + 1 : i # 1 => b[i] = w[b[i - 1]]
  <2> SUFFICES ASSUME NEW i \in 1 .. n + 1, i # 1 PROVE b[i] = w[b[i - 1]]
    OBVIOUS
  <2>1. b[i] = c[i - 1] /\ i - 1 \in 1 .. n
    BY <1>2, <1>3
  <2>2. CASE i = 2
    <3>1. n > 0 /\ b[2] = c[1] /\ b[1] = s
      BY <1>3, <2>1, <2>2
    <3>2. c[1] = a
      BY <1>1, <3>1 DEF IsChain
    <3> QED BY <2>2, <3>1, <3>2
  <2>3. CASE i # 2
    BY <1>1, <1>3, <2>1, <2>3 DEF IsChain
  <2> QED BY <2>2, <2>3
<1>8. \A i \in 1 .. n + 1 : b[i] \in F \cup {s}
  BY <1>3, <1>5
<1>9. \A x \in F \cup {s} : \E i \in 1 .. n + 1 : b[i] = x
  <2> SUFFICES ASSUME NEW x \in F, x # s PROVE \E i \in 1 .. n + 1 : b[i] = x
    BY <1>2, <1>3
  <2>1. PICK i \in 1 .. n : c[i] = x
    BY <1>1 DEF IsChain
  <2>2. i + 1 \in 1 .. n + 1 /\ i + 1 # 1 /\ (i + 1) - 1 = i
    OBVIOUS
  <2> QED BY <1>3, <2>1, <2>2
<1>10. IsChain(b, n + 1, s, w, F \cup {s})
  BY <1>3, <1>4, <1>6, <1>7, <1>8, <1>9 DEF IsChain
<1> QED BY <1>10 DEF Chained

(* The links of a fresh superblock chain its slots but the first.          *)
LEMMA ChainFresh ==
  Chained(MaxCount - 1, 1, FreshLinks, Slot \ {0})
<1> MaxCount \in Nat /\ MaxCount >= 2
  BY MaxCountAssumption
<1> DEFINE b == [i \in 1 .. MaxCount - 1 |-> i]
<1>1. \A i \in 1 .. MaxCount - 1 : i # 1 => i - 1 \in 1 .. MaxCount - 2 /\ i - 1 \in Slot
  BY DEF Slot
<1>2. \A i \in 1 .. MaxCount - 1 : i # 1 => FreshLinks[i - 1] = i
  BY <1>1 DEF FreshLinks
<1>3. /\ b \in [1 .. MaxCount - 1 -> Slot] /\ \A i \in 1 .. MaxCount - 1 : b[i] = i
      /\ 1 .. MaxCount - 1 = Slot \ {0}
  BY DEF Slot
<1>4. \A i \in 1 .. MaxCount - 1 : i # 1 => b[i] = FreshLinks[b[i - 1]]
  BY <1>2, <1>3
<1>5. 1 \in 1 .. MaxCount - 1
  OBVIOUS
<1>6. IsChain(b, MaxCount - 1, 1, FreshLinks, Slot \ {0})
  <2> HIDE DEF b
  <2> QED BY <1>3, <1>4, <1>5 DEF IsChain
<1> QED BY <1>6 DEF Chained

(* A chain is as long as it has slots: MaxCount at most, and then it has   *)
(* all of them.                                                            *)
LEMMA ChainLength ==
  ASSUME NEW n \in Nat, NEW a, NEW w, NEW F, F \subseteq Slot, Chained(n, a, w, F)
  PROVE  n <= MaxCount /\ (n = MaxCount <=> \A s \in Slot : s \in F)
<1>1. PICK c : IsChain(c, n, a, w, F)
  BY DEF Chained
<1>2. MaxCount \in Nat /\ MaxCount >= 2
  BY MaxCountAssumption
<1>3. /\ IsFiniteSet(1 .. n) /\ Cardinality(1 .. n) = n
      /\ IsFiniteSet(Slot) /\ Cardinality(Slot) = MaxCount
  BY <1>2, FS_Interval DEF Slot
<1>4. c \in Injection(1 .. n, Slot)
  BY <1>1 DEF IsChain, Injection, IsInjective
<1>5. n <= MaxCount /\ (n = MaxCount <=> c \in Surjection(1 .. n, Slot))
  BY <1>3, <1>4, FS_Injection
<1>6. c \in Surjection(1 .. n, Slot) <=> \A s \in Slot : s \in F
  BY <1>1 DEF IsChain, Surjection
<1> QED BY <1>5, <1>6

-----------------------------------------------------------------------------
(* Objects.                                                                *)

(* An object is out: live, or in the hands of a thread.                    *)
Out(o) == o \in live \/ \E t \in Thread : o \in Holding(t)
OutOf(d) == {s \in Slot : Out(<<d, s>>)}

StateOf(n) == IF n = 0 THEN "FULL" ELSE IF n = MaxCount THEN "EMPTY" ELSE "PARTIAL"

(* The free slots of a superblock.                                         *)
ChainOK(d) ==
  /\ anchor[d].count \in Nat /\ anchor[d].state = StateOf(anchor[d].count)
  /\ Chained(anchor[d].count, anchor[d].avail, word[d], Slot \ OutOf(d))
  /\ \A s \in Slot \ OutOf(d) : word[d][s] \in Slot

NewAnchor == [avail |-> 1, count |-> MaxCount - 1, state |-> "PARTIAL"]

(* What a thread has read of the superblock it works on.                   *)
AllocSlots(t) ==
  pc[t] \in {"alloc_next", "alloc_cas"} =>
    LET d == op[t].desc
        old == op[t].old
    IN  /\ op[t].slot = old.avail /\ ~Out(<<d, op[t].slot>>)
        /\ anchor[d] = old \/ anchor[d].count > old.count
        /\ pc[t] = "alloc_cas" => op[t].nxt = word[d][op[t].slot]
FreeSlots(t) ==
  pc[t] = "free_cas" =>
    word[op[t].desc][op[t].slot] = op[t].old.avail /\ op[t].old.state # "EMPTY"
FreshSlots(t) ==
  pc[t] = "new_publish" =>
    /\ op[t].slot = 0 /\ anchor[op[t].desc] = NewAnchor
    /\ \A s \in Slot : Out(<<op[t].desc, s>>) => s = 0
SlotLocals(t) == AllocSlots(t) /\ FreeSlots(t) /\ FreshSlots(t)

ObjectsInUse == \A o \in Object : Out(o) => in_use[o[1]]
LiveWords == \A o \in live : word[o[1]][o[2]] = User
Chains == \A d \in Desc : in_use[d] => ChainOK(d)

SlotInv ==
  /\ NoDoubleAllocation /\ ObjectsInUse /\ LiveWords /\ Chains
  /\ \A t \in Thread : SlotLocals(t)

(* A step leaves the objects of the other threads.                         *)
LEMMA HoldingOther ==
  ASSUME NEW u \in Thread, SameLocals(u)
  PROVE  Holding(u)' = Holding(u)
BY DEF SameLocals, Holding, HasSlot

(* What is out is an object.                                               *)
LEMMA OutObject ==
  ASSUME TypeInv
  PROVE  /\ \A o : Out(o) => o \in Object
         /\ \A t \in Thread : \A o \in Holding(t) : o \in Object
<1>1. ASSUME NEW t \in Thread, NEW o \in Holding(t) PROVE o \in Object
  BY DEF Holding, TypeInv, Frames, HasSlot, OpFrame, OwnerLabels, Object
<1>2. live \subseteq Object
  BY DEF TypeInv, TypeOK, HeapTypeOK
<1> QED BY <1>1, <1>2 DEF Out

(* Objects only change hands.                                              *)
ObjectsMove(t) ==
  \/ live' = live /\ Holding(t)' = Holding(t)
  \/ live' = live \cup Holding(t) /\ Holding(t)' = {}
  \/ Holding(t) = {} /\ Holding(t)' \subseteq live /\ live' = live \ Holding(t)'

(* If objects only change hands, nobody gets one that somebody has.        *)
LEMMA SameOut ==
  ASSUME NEW t \in Thread, \A u \in Thread \ {t} : SameLocals(u), NoDoubleAllocation,
    ObjectsMove(t)
  PROVE  NoDoubleAllocation' /\ \A o : Out(o)' <=> Out(o)
  BY HoldingOther DEF NoDoubleAllocation, ObjectsMove, Out

(* A thread takes an object that was not out.                              *)
LEMMA GainedOut ==
  ASSUME NEW t \in Thread, \A u \in Thread \ {t} : SameLocals(u), NoDoubleAllocation,
         NEW x, ~Out(x), live' = live, Holding(t) = {}, Holding(t)' = {x}
  PROVE  NoDoubleAllocation' /\ \A o : Out(o)' <=> Out(o) \/ o = x
  BY HoldingOther DEF NoDoubleAllocation, Out

(* A thread gives its object up.                                           *)
LEMMA LostOut ==
  ASSUME NEW t \in Thread, \A u \in Thread \ {t} : SameLocals(u), NoDoubleAllocation,
         NEW x, live' = live, Holding(t) = {x}, Holding(t)' = {}
  PROVE  NoDoubleAllocation' /\ \A o : Out(o)' <=> Out(o) /\ o # x
  BY HoldingOther DEF NoDoubleAllocation, Out

(* What a step must leave alone for what another thread has read.         *)
Undisturbed(u) ==
  /\ pc[u] \in {"alloc_next", "alloc_cas", "new_publish"} =>
       \A d \in Desc : d = op[u].desc =>
         /\ \A s \in Slot : Out(<<d, s>>)' => Out(<<d, s>>)
         /\ \A s \in Slot : ~Out(<<d, s>>) => word'[d][s] = word[d][s]
         /\ \/ anchor'[d] = anchor[d]
            \/ pc[u] # "new_publish" /\ anchor'[d].count > anchor[d].count
  /\ pc[u] = "free_cas" => word'[op[u].desc][op[u].slot] = word[op[u].desc][op[u].slot]

(* Then what they have read remains true.                                  *)
LEMMA OtherSlots ==
  ASSUME NEW u \in Thread, SameLocals(u), TypeInv, TypeInv', SlotLocals(u), Undisturbed(u)
  PROVE  SlotLocals(u)'
<1>1. OpFrame(u) /\ anchor \in [Desc -> Anchor] /\ anchor' \in [Desc -> Anchor]
  BY DEF TypeInv, TypeOK, HeapTypeOK, Frames
<1>2. AllocSlots(u)'
  BY <1>1 DEF AllocSlots, SameLocals, OpFrame, OwnerLabels, SlotLocals, Undisturbed, Anchor
<1>3. FreeSlots(u)'
  BY DEF SlotLocals, FreeSlots, SameLocals, Undisturbed
<1>4. FreshSlots(u)'
  BY <1>1 DEF FreshSlots, SameLocals, OpFrame, OwnerLabels, SlotLocals, Undisturbed
<1> QED BY <1>2, <1>3, <1>4 DEF SlotLocals

-----------------------------------------------------------------------------
(* What the steps do to slots.  One lemma for each kind of step: objects   *)
(* change hands, a superblock is retired, a slot is taken, freed, a        *)
(* superblock is new, or is given up before anybody saw it.                *)

(* The objects of a superblock as its chain sees them.                     *)
LEMMA ChainSame ==
  ASSUME NEW d \in Desc, ChainOK(d), anchor'[d] = anchor[d],
         \A s \in Slot : Out(<<d, s>>)' <=> Out(<<d, s>>),
         \A s \in Slot : ~Out(<<d, s>>) => word'[d][s] = word[d][s]
  PROVE  ChainOK(d)'
  BY ChainKept DEF OutOf, ChainOK

(* A step that moves objects about and writes only to those of thread t.   *)
LEMMA Peaceful ==
  ASSUME NEW t \in Thread, \A u \in Thread \ {t} : SameLocals(u), TypeInv, TypeInv', SlotInv,
         ObjectsMove(t), anchor' = anchor, in_use' = in_use,
         \A o \in Object \ Holding(t) : word'[o[1]][o[2]] = word[o[1]][o[2]],
         \A o \in live' : o \in live \/ word'[o[1]][o[2]] = User,
         SlotLocals(t)'
  PROVE  SlotInv'
<1>1. NoDoubleAllocation' /\ \A o : Out(o)' <=> Out(o)
  BY SameOut DEF SlotInv
<1>2. ObjectsInUse'
  BY <1>1 DEF SlotInv, ObjectsInUse
<1>3. \A o \in Object : o \notin Holding(t) => word'[o[1]][o[2]] = word[o[1]][o[2]]
  OBVIOUS
<1>4. LiveWords'
  <2>1. \A o \in live : o \in Object /\ o \notin Holding(t)
    BY OutObject DEF Out, SlotInv, NoDoubleAllocation
  <2> QED BY <1>3, <2>1 DEF SlotInv, LiveWords
<1>5. \A d \in Desc, s \in Slot : ~Out(<<d, s>>) => word'[d][s] = word[d][s]
  BY <1>3 DEF Object, Out
<1>6. Chains'
  BY <1>1, <1>5, ChainSame DEF SlotInv, Chains
<1>7. ASSUME NEW u \in Thread \ {t} PROVE SlotLocals(u)'
  <2>1. pc[u] = "free_cas" => word'[op[u].desc][op[u].slot] = word[op[u].desc][op[u].slot]
    BY <1>3, OutObject DEF Holding, HasSlot, SlotInv, NoDoubleAllocation
  <2>2. Undisturbed(u)
    BY <1>1, <1>5, <2>1 DEF Undisturbed
  <2> QED BY <2>2, OtherSlots DEF SlotInv
<1> QED BY <1>1, <1>2, <1>4, <1>6, <1>7 DEF SlotInv

(* A full or an empty superblock.                                          *)
LEMMA EmptyHasNone ==
  ASSUME NEW d \in Desc, ChainOK(d)
  PROVE  /\ anchor[d].count <= MaxCount
         /\ anchor[d].state = "EMPTY" <=> \A s \in Slot : ~Out(<<d, s>>)
         /\ anchor[d].count = MaxCount <=> \A s \in Slot : ~Out(<<d, s>>)
         /\ anchor[d].state = "FULL" <=> anchor[d].count = 0
<1>1. (\A s \in Slot : s \in Slot \ OutOf(d)) <=> \A s \in Slot : ~Out(<<d, s>>)
  BY DEF OutOf
<1>2. /\ anchor[d].count <= MaxCount
      /\ anchor[d].count = MaxCount <=> \A s \in Slot : s \in Slot \ OutOf(d)
  BY ChainLength DEF ChainOK
<1>3. /\ anchor[d].state = "EMPTY" <=> anchor[d].count = MaxCount
      /\ anchor[d].state = "FULL" <=> anchor[d].count = 0
  BY MaxCountAssumption DEF ChainOK, StateOf
<1> QED BY <1>1, <1>2, <1>3

(* The owner of an EMPTY superblock gives it back.                         *)
LEMMA Retiring ==
  ASSUME NEW t \in Thread, \A u \in Thread \ {t} : SameLocals(u), TypeInv, TypeInv', SlotInv,
         NEW e \in Desc, in_use[e], anchor[e].state = "EMPTY",
         live' = live, Holding(t)' = Holding(t), anchor' = anchor, word' = word,
         in_use' = [in_use EXCEPT ![e] = FALSE], SlotLocals(t)'
  PROVE  SlotInv'
<1>0. in_use \in [Desc -> BOOLEAN]
  BY DEF TypeInv, TypeOK, HeapTypeOK
<1>1. NoDoubleAllocation' /\ \A o : Out(o)' <=> Out(o)
  BY SameOut DEF SlotInv, ObjectsMove
<1>2. ObjectsInUse'
  BY <1>0, <1>1, EmptyHasNone DEF ObjectsInUse, SlotInv, Chains, Object
<1>3. LiveWords'
  BY DEF SlotInv, LiveWords
<1>4. Chains'
  BY <1>0, <1>1, ChainSame DEF Chains, SlotInv
<1>5. ASSUME NEW u \in Thread \ {t} PROVE SlotLocals(u)'
  <2>1. Undisturbed(u)
    BY <1>1 DEF Undisturbed
  <2> QED BY <2>1, OtherSlots DEF SlotInv
<1> QED BY <1>1, <1>2, <1>3, <1>4, <1>5 DEF SlotInv

(* Nobody else works on superblock e.                                      *)
Alone(t, e) ==
  \A u \in Thread \ {t} :
    pc[u] \in {"alloc_next", "alloc_cas", "new_publish"} => op[u].desc # e

(* The owner of a superblock takes its first slot.                         *)
LEMMA Taking ==
  ASSUME NEW t \in Thread, \A u \in Thread \ {t} : SameLocals(u), TypeInv, TypeInv', SlotInv,
         NEW e \in Desc, Alone(t, e), in_use[e], anchor[e].state = "PARTIAL",
         live' = live, word' = word, in_use' = in_use,
         Holding(t) = {}, Holding(t)' = {<<e, anchor[e].avail>>},
         anchor' = [anchor EXCEPT ![e] = AllocatedAnchor(anchor[e], word[e][anchor[e].avail])],
         SlotLocals(t)'
  PROVE  SlotInv'
<1>0. anchor \in [Desc -> Anchor] /\ word \in [Desc -> [Slot -> Word]] /\ ChainOK(e)
  BY DEF TypeInv, TypeOK, HeapTypeOK, SlotInv, Chains
<1> DEFINE n == anchor[e].count
           a == anchor[e].avail
           F == Slot \ OutOf(e)
<1>1. n \in Nat /\ n > 0 /\ n < MaxCount
  <2>1. n \in Nat /\ StateOf(n) = "PARTIAL" /\ n <= MaxCount
    BY <1>0, EmptyHasNone DEF ChainOK
  <2> QED BY <2>1, MaxCountAssumption DEF StateOf
<1>2. a \in F /\ a \in Slot /\ Chained(n - 1, word[e][a], word[e], F \ {a})
  BY <1>0, <1>1, ChainPopped DEF ChainOK
<1>3. ~Out(<<e, a>>)
  BY <1>2 DEF OutOf
<1>4. NoDoubleAllocation' /\ \A o : Out(o)' <=> Out(o) \/ o = <<e, a>>
  BY <1>3, GainedOut DEF SlotInv
<1>5. ObjectsInUse'
  BY <1>2, <1>4 DEF SlotInv, ObjectsInUse
<1>6. LiveWords'
  BY DEF SlotInv, LiveWords
<1>7. Chains'
  <2> SUFFICES ASSUME NEW d \in Desc, in_use[d] PROVE ChainOK(d)'
    BY DEF Chains
  <2>1. CASE d # e
    <3>1. \A s \in Slot : Out(<<d, s>>)' <=> Out(<<d, s>>)
      BY <1>4, <2>1
    <3> QED BY <1>0, <2>1, <3>1, ChainSame DEF SlotInv, Chains
  <2>2. CASE d = e
    <3>1. anchor'[e] = AllocatedAnchor(anchor[e], word[e][a])
      BY <1>0
    <3>2. /\ anchor'[e].avail = word[e][a] /\ anchor'[e].count = n - 1
          /\ anchor'[e].state = StateOf(n - 1)
      BY <1>1, <3>1 DEF AllocatedAnchor, StateOf
    <3>3. OutOf(e)' = OutOf(e) \cup {a}
      BY <1>2, <1>4 DEF OutOf
    <3>4. Slot \ OutOf(e)' = F \ {a}
      BY <3>3
    <3>5. n - 1 \in Nat
      BY <1>1
    <3>7. Chained(n - 1, word[e][a], word'[e], Slot \ OutOf(e)')
      BY <1>2, <3>4, Zenon
    <3>6. \A s \in Slot \ OutOf(e)' : word'[e][s] \in Slot
      BY <1>0, <3>4 DEF ChainOK
    <3> QED BY <2>2, <3>2, <3>5, <3>6, <3>7 DEF ChainOK
  <2> QED BY <2>1, <2>2
<1>8. ASSUME NEW u \in Thread \ {t} PROVE SlotLocals(u)'
  <2>1. Undisturbed(u)
    BY <1>0, <1>4 DEF Undisturbed, Alone
  <2> QED BY <2>1, OtherSlots DEF SlotInv
<1> QED BY <1>4, <1>5, <1>6, <1>7, <1>8 DEF SlotInv

(* A thread links the slot it frees in front of the others.                *)
LEMMA Freeing ==
  ASSUME NEW t \in Thread, \A u \in Thread \ {t} : SameLocals(u), TypeInv, TypeInv', SlotInv,
         NEW e \in Desc, NEW s \in Slot, Holding(t) = {<<e, s>>}, Holding(t)' = {},
         word[e][s] = anchor[e].avail, live' = live, word' = word, in_use' = in_use,
         anchor' = [anchor EXCEPT ![e] = FreedAnchor(anchor[e], s)],
         SlotLocals(t)'
  PROVE  SlotInv'
<1>0. /\ anchor \in [Desc -> Anchor] /\ word \in [Desc -> [Slot -> Word]]
      /\ Out(<<e, s>>) /\ <<e, s>> \in Object
  BY DEF TypeInv, TypeOK, HeapTypeOK, Out, Object
<1> DEFINE n == anchor[e].count
           a == anchor[e].avail
           F == Slot \ OutOf(e)
<1>1. in_use[e] /\ ChainOK(e)
  BY <1>0 DEF SlotInv, ObjectsInUse, Chains
<1>2. n \in Nat /\ n < MaxCount /\ s \notin F
  <2>1. n \in Nat /\ n <= MaxCount /\ n # MaxCount
    BY <1>0, <1>1, EmptyHasNone DEF ChainOK
  <2>2. s \in OutOf(e)
    BY <1>0 DEF OutOf
  <2> QED BY <2>1, <2>2, MaxCountAssumption
<1>3. Chained(n + 1, s, word[e], F \cup {s})
  BY <1>1, <1>2, ChainPushed DEF ChainOK
<1>4. NoDoubleAllocation' /\ \A o : Out(o)' <=> Out(o) /\ o # <<e, s>>
  BY LostOut DEF SlotInv
<1>5. ObjectsInUse'
  BY <1>4 DEF SlotInv, ObjectsInUse
<1>6. LiveWords'
  BY DEF SlotInv, LiveWords
<1>7. /\ anchor'[e].avail = s /\ anchor'[e].count = n + 1
      /\ anchor'[e].state = StateOf(n + 1)
  <2>1. anchor'[e] = FreedAnchor(anchor[e], s)
    BY <1>0
  <2> QED BY <1>1, <1>2, <2>1, MaxCountAssumption DEF FreedAnchor, StateOf, ChainOK
<1>8. Chains'
  <2> SUFFICES ASSUME NEW d \in Desc, in_use[d] PROVE ChainOK(d)'
    BY DEF Chains
  <2>1. CASE d # e
    <3>1. \A r \in Slot : Out(<<d, r>>)' <=> Out(<<d, r>>)
      BY <1>4, <2>1
    <3> QED BY <1>0, <2>1, <3>1, ChainSame DEF SlotInv, Chains
  <2>2. CASE d = e
    <3>1. OutOf(e)' = OutOf(e) \ {s}
      BY <1>4 DEF OutOf
    <3>2. Slot \ OutOf(e)' = F \cup {s}
      BY <1>2, <3>1
    <3>3. word[e][s] \in Slot
      BY <1>0 DEF Anchor
    <3>4. n + 1 \in Nat
      BY <1>2
    <3>6. Chained(n + 1, s, word'[e], Slot \ OutOf(e)')
      BY <1>3, <3>2, Zenon
    <3>5. \A r \in Slot \ OutOf(e)' : word'[e][r] \in Slot
      BY <1>1, <3>2, <3>3 DEF ChainOK
    <3> QED BY <1>7, <2>2, <3>4, <3>5, <3>6 DEF ChainOK
  <2> QED BY <2>1, <2>2
<1>9. ASSUME NEW u \in Thread \ {t} PROVE SlotLocals(u)'
  <2>1. pc[u] = "new_publish" => op[u].desc # e
    BY <1>0 DEF SlotInv, SlotLocals, FreshSlots, Holding, HasSlot, NoDoubleAllocation
  <2>2. \A d \in Desc : anchor'[d] = anchor[d] \/ (d = e /\ anchor'[d].count > anchor[d].count)
    BY <1>0, <1>2, <1>7
  <2>3. Undisturbed(u)
    BY <1>4, <2>1, <2>2 DEF Undisturbed
  <2> QED BY <2>3, OtherSlots DEF SlotInv
<1> QED BY <1>4, <1>5, <1>6, <1>8, <1>9 DEF SlotInv

(* The owner of a descriptor gives it a superblock and takes slot 0.       *)
LEMMA Fresh ==
  ASSUME NEW t \in Thread, \A u \in Thread \ {t} : SameLocals(u), TypeInv, TypeInv', SlotInv,
         NEW e \in Desc, Alone(t, e), ~in_use[e], live' = live,
         Holding(t) = {}, Holding(t)' = {<<e, 0>>},
         word' = [word EXCEPT ![e] = FreshLinks], in_use' = [in_use EXCEPT ![e] = TRUE],
         anchor' = [anchor EXCEPT ![e] = NewAnchor], pc'[t] = "new_publish",
         op'[t].desc = e, op'[t].slot = 0
  PROVE  SlotInv'
<1>0. /\ anchor \in [Desc -> Anchor] /\ word \in [Desc -> [Slot -> Word]]
      /\ in_use \in [Desc -> BOOLEAN] /\ 0 \in Slot /\ MaxCount \in Nat /\ MaxCount >= 2
  BY MaxCountAssumption DEF TypeInv, TypeOK, HeapTypeOK, Slot
<1>1. \A s \in Slot : ~Out(<<e, s>>)
  BY DEF SlotInv, ObjectsInUse, Object
<1>2. NoDoubleAllocation' /\ \A o : Out(o)' <=> Out(o) \/ o = <<e, 0>>
  BY <1>0, <1>1, GainedOut DEF SlotInv
<1>3. \A o \in Object : Out(o) => o[1] # e /\ o[1] \in Desc
  BY DEF SlotInv, ObjectsInUse, Object
<1>4. ObjectsInUse'
  BY <1>0, <1>2, <1>3 DEF SlotInv, ObjectsInUse
<1>5. LiveWords'
  <2>1. \A o \in live : o \in Object /\ o[1] # e
    BY <1>3, OutObject DEF Out
  <2> QED BY <1>0, <2>1 DEF SlotInv, LiveWords
<1>6. OutOf(e)' = {0}
  BY <1>0, <1>1, <1>2 DEF OutOf
<1>7. anchor'[e] = NewAnchor /\ word'[e] = FreshLinks
  BY <1>0
<1>8. Chains'
  <2> SUFFICES ASSUME NEW d \in Desc, in_use'[d] PROVE ChainOK(d)'
    BY DEF Chains
  <2>1. CASE d # e
    <3>1. \A s \in Slot : Out(<<d, s>>)' <=> Out(<<d, s>>)
      BY <1>2, <2>1
    <3> QED BY <1>0, <2>1, <3>1, ChainSame DEF SlotInv, Chains
  <2>2. CASE d = e
    <3>1. \A s \in Slot : FreshLinks[s] \in Slot
      BY <1>0 DEF FreshLinks, Slot
    <3>2. MaxCount - 1 \in Nat /\ StateOf(MaxCount - 1) = "PARTIAL"
      BY <1>0 DEF StateOf
    <3>3. Chained(MaxCount - 1, 1, FreshLinks, Slot \ {0})
      BY ChainFresh
    <3>4. /\ anchor'[e].avail = 1 /\ anchor'[e].count = MaxCount - 1
          /\ anchor'[e].state = StateOf(MaxCount - 1)
      BY <1>7, <3>2 DEF NewAnchor
    <3>5. Chained(MaxCount - 1, 1, word'[e], Slot \ OutOf(e)')
      BY <1>6, <1>7, <3>3
    <3> QED BY <1>6, <1>7, <2>2, <3>1, <3>2, <3>4, <3>5 DEF ChainOK
  <2> QED BY <2>1, <2>2
<1>9. ASSUME NEW u \in Thread \ {t} PROVE SlotLocals(u)'
  <2>1. pc[u] = "free_cas" => op[u].desc # e
    BY <1>3, OutObject DEF Holding, HasSlot, Out
  <2>2. Undisturbed(u)
    BY <1>0, <1>2, <2>1 DEF TypeInv, Frames, OpFrame, Undisturbed, Alone
  <2> QED BY <2>2, OtherSlots DEF SlotInv
<1>10. SlotLocals(t)'
  BY <1>6, <1>7 DEF SlotLocals, AllocSlots, FreeSlots, FreshSlots, OutOf
<1> QED BY <1>2, <1>4, <1>5, <1>8, <1>9, <1>10 DEF SlotInv

(* The owner of a new superblock frees it again.                           *)
LEMMA Unpublished ==
  ASSUME NEW t \in Thread, \A u \in Thread \ {t} : SameLocals(u), TypeInv, TypeInv', SlotInv,
         NEW e \in Desc, Alone(t, e), live' = live, word' = word,
         Holding(t) = {<<e, 0>>}, Holding(t)' = {}, \A s \in Slot : Out(<<e, s>>) => s = 0,
         in_use' = [in_use EXCEPT ![e] = FALSE],
         anchor' = [anchor EXCEPT ![e].state = "EMPTY"], SlotLocals(t)'
  PROVE  SlotInv'
<1>0. /\ anchor \in [Desc -> Anchor] /\ in_use \in [Desc -> BOOLEAN]
  BY DEF TypeInv, TypeOK, HeapTypeOK
<1>1. NoDoubleAllocation' /\ \A o : Out(o)' <=> Out(o) /\ o # <<e, 0>>
  BY LostOut DEF SlotInv
<1>2. ObjectsInUse'
  BY <1>0, <1>1 DEF ObjectsInUse, SlotInv, Object
<1>3. LiveWords'
  BY DEF SlotInv, LiveWords
<1>4. Chains'
  BY <1>0, <1>1, ChainSame DEF Chains, SlotInv
<1>5. ASSUME NEW u \in Thread \ {t} PROVE SlotLocals(u)'
  <2>1. Undisturbed(u)
    BY <1>0, <1>1 DEF Undisturbed, Alone
  <2> QED BY <2>1, OtherSlots DEF SlotInv
<1> QED BY <1>1, <1>2, <1>3, <1>4, <1>5 DEF SlotInv

-----------------------------------------------------------------------------
(* in_use. It is set exactly while a descriptor has a superblock: SlotInv  *)
(* needs that an owner who works on a descriptor finds it in use, and that *)
(* one who gives a descriptor a new superblock does not.                   *)

(* The two items a descriptor can be in.                                   *)
Put(d) == [p |-> d, fn |-> "desc_put_partial"]
Avail(d) == [p |-> d, fn |-> "desc_enqueue_avail"]
HasItem(x, t) ==
  \/ haz[t].self = x /\ haz[t].tries <= FreeAttempts
  \/ pc[t] \in FreeFunc \cup {"fq_check"} /\ haz[t].item = x

(* Where descriptor d serves allocations, and where it is retired.         *)
ServesHeap(d) == active = d \/ InSequence(d, queue) \/ Put(d) \in delayed
ServesHand(d, t) ==
  \/ pc[t] \in OwnerLabels \ {"new_sb"} /\ op[t].desc = d
  \/ deq[t].res = d \/ enq[t].node = d \/ HasItem(Put(d), t)
RetiredHeap(d) == InSequence(d, desc_avail) \/ Avail(d) \in delayed
RetiredHand(d, t) == (pc[t] = "new_sb" /\ op[t].desc = d) \/ HasItem(Avail(d), t)

HeapUse(d) == (ServesHeap(d) => in_use[d]) /\ (RetiredHeap(d) => ~in_use[d])
HandUse(d, t) == (ServesHand(d, t) => in_use[d]) /\ (RetiredHand(d, t) => ~in_use[d])
InUseInv == \A d \in Desc : HeapUse(d) /\ \A t \in Thread : HandUse(d, t)

UseStep(t) ==
  \A d \in Desc : HeapUse(d)' /\ HandUse(d, t)' /\ (in_use'[d] = in_use[d] \/ Holds(d, t) # {})

(* A descriptor that serves or is retired in a thread's hands is held by   *)
(* it.                                                                     *)
LEMMA ServesHolds ==
  ASSUME NEW d \in Desc, NEW t \in Thread, ServesHand(d, t) \/ RetiredHand(d, t)
  PROVE  Holds(d, t) # {}
<1>1. NULL \notin Item /\ Put(d) \in Item /\ Avail(d) \in Item
  BY NodeAssumption DEF Item, Put, Avail
<1>2. CASE pc[t] \in OwnerLabels /\ op[t].desc = d
  BY <1>2 DEF Holds
<1>3. CASE deq[t].res = d \/ enq[t].node = d
  BY <1>3 DEF Holds
<1>4. CASE \E x \in {Put(d), Avail(d)} : haz[t].self = x /\ haz[t].tries <= FreeAttempts
  <2>1. "self" \in Holds(d, t)
    BY <1>1, <1>4 DEF Holds, Put, Avail
  <2> QED BY <2>1
<1>5. CASE \E x \in {Put(d), Avail(d)} : pc[t] \in FreeFunc \cup {"fq_check"} /\ haz[t].item = x
  <2>1. "item" \in Holds(d, t)
    BY <1>1, <1>5 DEF Holds, Put, Avail
  <2> QED BY <2>1
<1> QED BY <1>2, <1>3, <1>4, <1>5 DEF ServesHand, RetiredHand, HasItem, OwnerLabels

(* A step after which in_use is right, and which changes it only for a     *)
(* descriptor its thread holds, keeps the invariant.                       *)
LEMMA UseKept ==
  ASSUME NEW t \in Thread, \A u \in Thread \ {t} : SameLocals(u), InUseInv, UseStep(t),
         \A n \in Node : Unique(n)
  PROVE  InUseInv'
<1> SUFFICES ASSUME NEW d \in Desc PROVE HeapUse(d)' /\ \A u \in Thread : HandUse(d, u)'
  BY DEF InUseInv
<1>1. HeapUse(d)' /\ HandUse(d, t)' /\ (in_use'[d] = in_use[d] \/ Holds(d, t) # {})
  BY DEF UseStep
<1>2. ASSUME NEW u \in Thread \ {t} PROVE HandUse(d, u)'
  <2>1. /\ ServesHand(d, u)' <=> ServesHand(d, u)
        /\ RetiredHand(d, u)' <=> RetiredHand(d, u)
    BY DEF SameLocals, ServesHand, RetiredHand, HasItem, Put, Avail
  <2>2. HandUse(d, u)
    BY DEF InUseInv
  <2>3. CASE in_use'[d] = in_use[d]
    BY <2>1, <2>2, <2>3 DEF HandUse
  <2>4. CASE Holds(d, t) # {}
    BY <2>1, <2>4, ServesHolds DEF Unique, Node, HandUse
  <2> QED BY <1>1, <2>3, <2>4
<1> QED BY <1>1, <1>2

(* A step that leaves in_use and the heap's structures alone.              *)
LEMMA HeapUseKept ==
  ASSUME NEW t \in Thread, InUseInv, UNCHANGED <<in_use, active, queue, desc_avail, delayed>>,
         \A d \in Desc : ServesHand(d, t)' => ServesHand(d, t) \/ in_use[d],
         \A d \in Desc : RetiredHand(d, t)' => RetiredHand(d, t) \/ ~in_use[d]
  PROVE  UseStep(t)
  BY DEF UseStep, InUseInv, HeapUse, ServesHeap, RetiredHeap, InSequence, HandUse

(* A descriptor taken out of some hands into the hazardous free. *)
LEMMA RetiredOnce ==
  ASSUME NEW t \in Thread, InUseInv, \A n \in Node : Unique(n), NEW e \in Desc,
         Holds(e, t) # {}, UNCHANGED <<active, queue, desc_avail, delayed>>,
         in_use' = [in_use EXCEPT ![e] = FALSE], in_use \in [Desc -> BOOLEAN],
         ~ServesHand(e, t)',
         \A d \in Desc \ {e} : ServesHand(d, t)' => ServesHand(d, t),
         \A d \in Desc \ {e} : RetiredHand(d, t)' => RetiredHand(d, t)
  PROVE  UseStep(t)
<1> SUFFICES ASSUME NEW d \in Desc
             PROVE  HeapUse(d)' /\ HandUse(d, t)' /\ (in_use'[d] = in_use[d] \/ Holds(d, t) # {})
  BY DEF UseStep
<1>1. HeapUse(d) /\ HandUse(d, t)
  BY DEF InUseInv
<1>2. CASE d # e
  BY <1>1, <1>2 DEF HeapUse, ServesHeap, RetiredHeap, InSequence, HandUse
<1>3. CASE d = e
  <2>1. HeapPlaces(e) = {}
    <3>1. Unique(e) /\ HeapPlaces(e) \cap Holds(e, t) = {}
      BY PlaceNames DEF Node
    <3> QED BY <3>1 DEF Unique, Near
  <2>2. ~in_use'[e]
    OBVIOUS
  <2>3. ~ServesHeap(e)
    <3>1. active # e /\ ~InSequence(e, queue)
      BY <2>1 DEF HeapPlaces
    <3>2. Put(e) \notin delayed
      <4>1. Put(e).p = e
        BY DEF Put
      <4> QED BY <2>1, <4>1 DEF HeapPlaces
    <3> QED BY <3>1, <3>2 DEF ServesHeap
  <2>4. ~ServesHeap(e)'
    BY <2>3 DEF ServesHeap, InSequence
  <2> QED BY <1>3, <2>2, <2>4 DEF HeapUse, HandUse
<1> QED BY <1>2, <1>3

(* A step that leaves in_use alone and only moves descriptors.             *)
LEMMA UseMoved ==
  ASSUME NEW t \in Thread, InUseInv, in_use' = in_use,
         \A d \in Desc : ServesHeap(d)' \/ ServesHand(d, t)' =>
            ServesHeap(d) \/ ServesHand(d, t) \/ in_use[d],
         \A d \in Desc : RetiredHeap(d)' \/ RetiredHand(d, t)' =>
            RetiredHeap(d) \/ RetiredHand(d, t) \/ ~in_use[d]
  PROVE  UseStep(t)
  BY DEF UseStep, InUseInv, HeapUse, HandUse

(* The two items of a descriptor are items, and no two of them are equal.  *)
LEMMA ItemsOf ==
  ASSUME NEW d \in Desc
  PROVE  /\ Put(d) \in Item /\ Avail(d) \in Item /\ Put(d) # NULL /\ Avail(d) # NULL
         /\ \A e : Put(d) # Avail(e)
         /\ \A e : Put(d) = Put(e) => d = e
         /\ \A e : Avail(d) = Avail(e) => d = e
  BY NodeAssumption DEF Item, Put, Avail

HeldInUse(t) == HasSlot(t) => in_use[op[t].desc]

(* in_use is right after the steps of mono_lock_free_alloc.                *)
LEMMA AllocStepUse ==
  ASSUME NEW t \in Thread, TypeInv, OwnInv, InUseInv, AllocStep(t)
  PROVE  UseStep(t)
<1>1. /\ OpFrame(t) /\ QueueFrame(t) /\ FreeFrame(t)
      /\ pc \in [Thread -> Label] /\ op \in [Thread -> Op] /\ deq \in [Thread -> Deq]
      /\ haz \in [Thread -> Haz] /\ in_use \in [Desc -> BOOLEAN] /\ active \in Desc \cup {NULL}
      /\ NULL \notin Node /\ NULL \notin Item
      /\ \A n \in Node : Unique(n)
  BY NodeAssumption DEF TypeInv, TypeOK, HeapTypeOK, ServiceTypeOK, ThreadTypeOK, Frames, OwnInv
<1>2. \A d \in Desc : HeapUse(d) /\ HandUse(d, t)
  BY DEF InUseInv
<1>i. \A d \in Desc : Put(d) # NULL /\ Avail(d) # NULL /\ (\A e : Put(d) # Avail(e))
         /\ (\A e : Put(d) = Put(e) => d = e) /\ (\A e : Avail(d) = Avail(e) => d = e)
  BY ItemsOf
<1>3. CASE AllocBegin(t)
  BY <1>1, <1>3, HeapUseKept DEF AllocBegin, ServesHand, RetiredHand, HasItem, OwnerLabels,
    FreeFunc, Put, Avail
<1>4. CASE AllocReadActive(t)
  BY <1>1, <1>4, HeapUseKept DEF AllocReadActive, CallDequeue, ServesHand, RetiredHand, HasItem,
    OwnerLabels, FreeFunc, Put, Avail, Node
<1>5. CASE AllocTakeActive(t)
  BY <1>1, <1>5, UseMoved DEF AllocTakeActive, ActiveIs, ServesHeap, InSequence, Node, ServesHand,
    HasItem, OwnerLabels, FreeFunc, Put, RetiredHand, RetiredHeap, Avail
<1>6. CASE AllocGotPartial(t)
  <2>1. /\ UNCHANGED <<active, queue, desc_avail, delayed, enq>>
        /\ pc[t] = "alloc_partial" /\ deq[t].res \in Desc \cup {NULL} /\ deq'[t].res = NULL
        /\ haz[t] = NoHaz
    BY <1>1, <1>6 DEF AllocGotPartial, QueueFrame, FreeFrame, InFree, EnqLabels, FreeFunc, NoDeq
  <2>2. CASE deq[t].res \in Desc /\ anchor[deq[t].res].state = "EMPTY"
    <3>1. PICK e \in Desc : e = deq[t].res
      BY <2>2
    <3>2. /\ in_use' = [in_use EXCEPT ![e] = FALSE] /\ pc'[t] = "fq_try" /\ op' = op
          /\ haz'[t].self = Avail(e) /\ haz'[t].item = NULL
      BY <1>1, <1>6, <2>2, <3>1 DEF AllocGotPartial, DescRetire, FreeOrQueue, Avail, Node
    <3>3. Holds(e, t) # {}
      BY <3>1 DEF Holds
    <3>4. ASSUME NEW d \in Desc, ServesHand(d, t)' PROVE enq[t].node = d
      BY <1>1, <1>i, <2>1, <3>2, <3>4 DEF HasItem, FreeFunc, Put, Avail, Node, ServesHand,
        OwnerLabels
    <3>5. enq[t].node # e
      BY <1>1, <3>1 DEF Node, Holds, Unique, Near
    <3>6. ~ServesHand(e, t)' /\ \A d \in Desc \ {e} : ServesHand(d, t)' => ServesHand(d, t)
      BY <3>4, <3>5 DEF ServesHand
    <3>7. \A d \in Desc \ {e} : RetiredHand(d, t)' => RetiredHand(d, t)
      BY <1>1, <1>i, <2>1, <3>2 DEF RetiredHand, HasItem, OwnerLabels, FreeFunc, Avail
    <3> QED BY <1>1, <2>1, <3>2, <3>3, <3>6, <3>7, RetiredOnce
  <2>3. CASE deq[t].res = NULL \/ (deq[t].res \in Desc /\ anchor[deq[t].res].state # "EMPTY")
    BY <1>1, <1>6, <2>1, <2>3, HeapUseKept DEF AllocGotPartial, Op, ServesHand, HasItem,
      OwnerLabels, FreeFunc, Put, Node, RetiredHand, Avail
  <2> QED BY <2>1, <2>2, <2>3
<1>7. CASE AllocDequeueAgain(t)
  BY <1>1, <1>7, HeapUseKept DEF AllocDequeueAgain, CallDequeue, ServesHand, RetiredHand, HasItem,
    OwnerLabels, FreeFunc, Put, Avail, Node
<1>8. CASE AllocReadAnchor(t)
  <2>1. /\ UNCHANGED <<active, queue, desc_avail, delayed, enq, deq>>
        /\ pc[t] = "alloc_anchor" /\ op[t].desc \in Desc /\ haz[t] = NoHaz
    BY <1>1, <1>8 DEF AllocReadAnchor, OpFrame, OwnerLabels, FreeFrame, InFree, EnqLabels,
      FreeFunc
  <2>2. CASE anchor[op[t].desc].state = "EMPTY"
    <3>1. PICK e \in Desc : e = op[t].desc
      BY <2>1
    <3>2. /\ in_use' = [in_use EXCEPT ![e] = FALSE] /\ pc'[t] = "fq_try" /\ op'[t] = NoOp
          /\ haz'[t].self = Avail(e) /\ haz'[t].item = NULL
      BY <1>1, <1>8, <2>2, <3>1 DEF AllocReadAnchor, DescRetire, FreeOrQueue, Avail
    <3>3. "op" \in Holds(e, t)
      BY <2>1, <3>1 DEF Holds, OwnerLabels
    <3>4. \A d \in Desc : ServesHand(d, t)' => enq[t].node = d \/ deq[t].res = d
      BY <1>1, <1>i, <2>1, <3>2 DEF ServesHand, HasItem, OwnerLabels, FreeFunc, Node, Put, Avail
    <3>5. enq[t].node # e /\ deq[t].res # e
      <4>1. Unique(e)
        BY <1>1 DEF Node
      <4>2. "enq" \notin Holds(e, t) /\ "deq" \notin Holds(e, t)
        BY <3>3, <4>1 DEF Unique, Near
      <4> QED BY <4>2 DEF Holds
    <3>6. ~ServesHand(e, t)' /\ \A d \in Desc \ {e} : ServesHand(d, t)' => ServesHand(d, t)
      BY <3>4, <3>5 DEF ServesHand
    <3>7. \A d \in Desc \ {e} : RetiredHand(d, t)' => RetiredHand(d, t)
      BY <1>1, <1>i, <2>1, <3>2 DEF RetiredHand, HasItem, OwnerLabels, FreeFunc, Avail
    <3> QED BY <1>1, <2>1, <3>2, <3>3, <3>6, <3>7, RetiredOnce
  <2>3. CASE anchor[op[t].desc].state # "EMPTY"
    BY <1>1, <1>8, <2>1, <2>3, HeapUseKept DEF AllocReadAnchor, Op, ServesHand, HasItem,
      OwnerLabels, FreeFunc, Put, Node, RetiredHand, Avail
  <2> QED BY <2>2, <2>3
<1>9. CASE AllocReadNext(t)
  BY <1>1, <1>9, HeapUseKept DEF AllocReadNext, Op, ServesHand, RetiredHand, HasItem, OwnerLabels,
    FreeFunc, Put, Avail
<1>10. CASE AllocSetAnchor(t)
  BY <1>1, <1>10, HeapUseKept DEF AllocSetAnchor, Op, ServesHand, RetiredHand, HasItem, OwnerLabels,
    FreeFunc, Put, Avail
<1>11. CASE AllocGiveBack(t)
  BY <1>1, <1>11, <1>i, UseMoved DEF AllocGiveBack, OpFrame, OwnerLabels, FreeFrame, InFree,
    EnqLabels, FreeFunc, ListPutPartial, FreeOrQueue, Put, ServesHeap, InSequence, ServesHand,
    HasItem, RetiredHeap, Avail, RetiredHand
<1>12. CASE AllocReturn(t)
  <2> UNCHANGED <<in_use, active, queue, desc_avail, delayed, deq, enq, haz>> /\ pc'[t] = "idle"
    BY <1>1, <1>12 DEF AllocReturn
  <2> QED BY HeapUseKept DEF ServesHand, RetiredHand, HasItem, OwnerLabels, FreeFunc, Put, Avail
<1> QED BY <1>3, <1>4, <1>5, <1>6, <1>7, <1>8, <1>9, <1>10, <1>11, <1>12 DEF AllocStep

(* A retired descriptor comes into use again. *)
LEMMA UsedAgain ==
  ASSUME NEW t \in Thread, InUseInv, \A n \in Node : Unique(n), NEW e \in Desc,
         Holds(e, t) # {}, UNCHANGED <<active, queue, desc_avail, delayed>>,
         in_use' = [in_use EXCEPT ![e] = TRUE], in_use \in [Desc -> BOOLEAN],
         ~RetiredHand(e, t)',
         \A d \in Desc \ {e} : ServesHand(d, t)' => ServesHand(d, t),
         \A d \in Desc \ {e} : RetiredHand(d, t)' => RetiredHand(d, t)
  PROVE  UseStep(t)
<1> SUFFICES ASSUME NEW d \in Desc
             PROVE  HeapUse(d)' /\ HandUse(d, t)' /\ (in_use'[d] = in_use[d] \/ Holds(d, t) # {})
  BY DEF UseStep
<1>1. HeapUse(d) /\ HandUse(d, t)
  BY DEF InUseInv
<1>2. CASE d # e
  BY <1>1, <1>2 DEF HeapUse, ServesHeap, RetiredHeap, InSequence, HandUse
<1>3. CASE d = e
  <2>1. HeapPlaces(e) = {}
    <3>1. Unique(e) /\ HeapPlaces(e) \cap Holds(e, t) = {}
      BY PlaceNames DEF Node
    <3> QED BY <3>1 DEF Unique, Near
  <2>2. in_use'[e]
    OBVIOUS
  <2>3. ~RetiredHeap(e)
    <3>1. ~InSequence(e, desc_avail)
      BY <2>1 DEF HeapPlaces
    <3>2. Avail(e) \notin delayed
      <4>1. Avail(e).p = e
        BY DEF Avail
      <4> QED BY <2>1, <4>1 DEF HeapPlaces
    <3> QED BY <3>1, <3>2 DEF RetiredHeap
  <2>4. ~RetiredHeap(e)'
    BY <2>3 DEF RetiredHeap, InSequence
  <2> QED BY <1>3, <2>2, <2>4 DEF HeapUse, HandUse
<1> QED BY <1>2, <1>3

(* ... of alloc_from_new_sb and desc_alloc,                                *)
LEMMA NewSbStepUse ==
  ASSUME NEW t \in Thread, TypeInv, OwnInv, InUseInv, NewSbStep(t)
  PROVE  UseStep(t)
<1>1. /\ OpFrame(t) /\ QueueFrame(t) /\ FreeFrame(t)
      /\ pc \in [Thread -> Label] /\ op \in [Thread -> Op] /\ deq \in [Thread -> Deq]
      /\ haz \in [Thread -> Haz] /\ in_use \in [Desc -> BOOLEAN] /\ active \in Desc \cup {NULL}
      /\ desc_avail \in Seq(Desc)
      /\ NULL \notin Node /\ NULL \notin Item
      /\ \A n \in Node : Unique(n)
      /\ Distinct(desc_avail)
  BY NodeAssumption DEF TypeInv, TypeOK, HeapTypeOK, ServiceTypeOK, ThreadTypeOK, Frames,
    OwnInv, ListsDistinct
<1>2. \A d \in Desc : HeapUse(d) /\ HandUse(d, t)
  BY DEF InUseInv
<1>i. \A d \in Desc : Put(d) # NULL /\ Avail(d) # NULL /\ (\A e : Put(d) # Avail(e))
         /\ (\A e : Put(d) = Put(e) => d = e) /\ (\A e : Avail(d) = Avail(e) => d = e)
  BY ItemsOf
<1>3. CASE DescAllocPeek(t)
  BY <1>1, <1>3, HeapUseKept DEF DescAllocPeek, ServesHand, RetiredHand, HasItem, OwnerLabels,
    FreeFunc, Put, Avail
<1>4. CASE DescAllocPop(t)
  <2>1. CASE desc_avail # <<>> /\ Head(desc_avail) = hp[t][1]
    <3>1. /\ desc_avail' = Tail(desc_avail) /\ UNCHANGED <<in_use, active, queue, delayed,
               deq, enq, haz>>
          /\ op'[t].desc = hp[t][1] /\ pc'[t] = "new_sb"
      BY <1>1, <1>4, <2>1 DEF DescAllocPop, Op
    <3>2. /\ InSequence(hp[t][1], desc_avail)
          /\ \A m : InSequence(m, Tail(desc_avail)) => InSequence(m, desc_avail)
      BY <1>1, <2>1, HeadLeaves
    <3>3. \A d \in Desc : ServesHeap(d)' \/ ServesHand(d, t)' => ServesHeap(d) \/ ServesHand(d, t)
      BY <3>1 DEF ServesHeap, ServesHand, HasItem, OwnerLabels, FreeFunc, Put, InSequence
    <3>4. \A d \in Desc : RetiredHeap(d)' => RetiredHeap(d)
      BY <3>1, <3>2 DEF InSequence, RetiredHeap, Avail
    <3>5. \A d \in Desc : RetiredHand(d, t)' => RetiredHeap(d) \/ RetiredHand(d, t)
      BY <3>1, <3>2 DEF RetiredHand, RetiredHeap, HasItem, OwnerLabels, FreeFunc, Avail
    <3> QED BY <3>1, <3>3, <3>4, <3>5, UseMoved
  <2>2. CASE ~(desc_avail # <<>> /\ Head(desc_avail) = hp[t][1])
    BY <1>1, <1>4, <2>2, HeapUseKept DEF DescAllocPop, ServesHand, RetiredHand, HasItem,
      OwnerLabels, FreeFunc, Put, Avail
  <2> QED BY <2>1, <2>2
<1>5. CASE DescAllocBatch(t)
  <2>1. CASE desc_avail = <<>> /\ batches < Len(Batches)
    <3>1. PICK b : b = Batches[batches + 1]
      OBVIOUS
    <3>2. /\ desc_avail' = Tail(b) /\ op'[t].desc = Head(b)
          /\ batches' = batches + 1 /\ pc'[t] = "new_sb"
          /\ UNCHANGED <<in_use, active, queue, delayed, deq, enq, haz>>
      BY <1>1, <1>5, <2>1, <3>1 DEF DescAllocBatch, Op
    <3>3. /\ b \in Seq(Desc) /\ b # <<>> /\ Distinct(b)
          /\ \A m : InSequence(m, b) => m \in Desc /\ m \notin Acquired
      BY <2>1, <3>1, <3>2, FreshBatch
    <3>4. /\ InSequence(Head(b), b) /\ \A m : InSequence(m, Tail(b)) => InSequence(m, b)
      BY <3>3, HeadLeaves
    <3>5. \A m : InSequence(m, b) => ~in_use[m]
      BY <3>3 DEF OwnInv, Unlisted
    <3>6. \A d \in Desc : ServesHeap(d)' \/ ServesHand(d, t)' => ServesHeap(d) \/ ServesHand(d, t)
      BY <3>2 DEF ServesHeap, ServesHand, HasItem, OwnerLabels, FreeFunc, Put, InSequence
    <3>7. \A d \in Desc : RetiredHeap(d)' => RetiredHeap(d) \/ ~in_use[d]
      BY <3>2, <3>4, <3>5 DEF InSequence, RetiredHeap, Avail
    <3>8. \A d \in Desc : RetiredHand(d, t)' => RetiredHand(d, t) \/ ~in_use[d]
      BY <3>2, <3>4, <3>5 DEF RetiredHand, HasItem, OwnerLabels, FreeFunc, Avail
    <3> QED BY <3>2, <3>6, <3>7, <3>8, UseMoved
  <2>2. CASE ~(desc_avail = <<>> /\ batches < Len(Batches))
    BY <1>1, <1>5, <2>2, HeapUseKept DEF DescAllocBatch, ServesHand, RetiredHand, HasItem,
      OwnerLabels, FreeFunc, Put, Avail
  <2> QED BY <2>1, <2>2
<1>6. CASE AllocNewSb(t)
  <2>1. PICK e \in Desc : e = op[t].desc
    BY <1>1, <1>6 DEF AllocNewSb, OpFrame, OwnerLabels
  <2>2. /\ UNCHANGED <<active, queue, desc_avail, delayed, deq, enq, haz>> /\ pc[t] = "new_sb"
        /\ in_use' = [in_use EXCEPT ![e] = TRUE] /\ op'[t].desc = e /\ pc'[t] = "new_publish"
        /\ haz[t] = NoHaz
    BY <1>1, <1>6, <2>1 DEF AllocNewSb, Op, FreeFrame, InFree, EnqLabels, FreeFunc
  <2>3. Holds(e, t) # {}
    BY <2>1, <2>2 DEF Holds, OwnerLabels
  <2>4. \A d \in Desc : ~RetiredHand(d, t)'
    BY <1>1, <1>i, <2>2 DEF RetiredHand, HasItem, FreeFunc, NoHaz
  <2>5. \A d \in Desc \ {e} : ServesHand(d, t)' => ServesHand(d, t)
    BY <2>1, <2>2 DEF ServesHand, HasItem, OwnerLabels, FreeFunc, Put
  <2> QED BY <1>1, <2>2, <2>3, <2>4, <2>5, UsedAgain
<1>7. CASE AllocPublishSb(t)
  <2>1. PICK e \in Desc : e = op[t].desc
    BY <1>1, <1>7 DEF AllocPublishSb, OpFrame, OwnerLabels
  <2>2. /\ UNCHANGED <<queue, desc_avail, delayed, enq, deq>>
        /\ pc[t] = "new_publish" /\ haz[t] = NoHaz
    BY <1>1, <1>7 DEF AllocPublishSb, FreeFrame, InFree, EnqLabels, FreeFunc
  <2>3. CASE active = NULL
    BY <1>1, <1>7, <2>1, <2>2, <2>3, UseMoved DEF AllocPublishSb, ActiveIs, ServesHeap, InSequence,
      ServesHand, OwnerLabels, Put, HasItem, FreeFunc, RetiredHand, RetiredHeap, Avail
  <2>4. CASE active # NULL
    <3>1. /\ in_use' = [in_use EXCEPT ![e] = FALSE] /\ pc'[t] = "fq_try" /\ op'[t] = NoOp
          /\ haz'[t].self = Avail(e) /\ haz'[t].item = NULL /\ active' = active
      BY <1>1, <1>7, <2>1, <2>4 DEF AllocPublishSb, ActiveIs, DescRetire, FreeOrQueue, Avail
    <3>2. "op" \in Holds(e, t)
      BY <2>1, <2>2 DEF Holds, OwnerLabels
    <3>3. \A d \in Desc : ServesHand(d, t)' => enq[t].node = d \/ deq[t].res = d
      BY <1>1, <1>i, <2>2, <3>1 DEF ServesHand, HasItem, OwnerLabels, FreeFunc, Node, Put, Avail
    <3>4. enq[t].node # e /\ deq[t].res # e
      <4>1. Unique(e)
        BY <1>1 DEF Node
      <4>2. "enq" \notin Holds(e, t) /\ "deq" \notin Holds(e, t)
        BY <3>2, <4>1 DEF Unique, Near
      <4> QED BY <4>2 DEF Holds
    <3>5. ~ServesHand(e, t)' /\ \A d \in Desc \ {e} : ServesHand(d, t)' => ServesHand(d, t)
      BY <3>3, <3>4 DEF ServesHand
    <3>6. \A d \in Desc \ {e} : RetiredHand(d, t)' => RetiredHand(d, t)
      BY <1>1, <1>i, <2>2, <3>1 DEF RetiredHand, HasItem, OwnerLabels, FreeFunc, Avail
    <3> QED BY <1>1, <2>2, <3>1, <3>2, <3>5, <3>6, RetiredOnce
  <2> QED BY <2>3, <2>4
<1> QED BY <1>3, <1>4, <1>5, <1>6, <1>7 DEF NewSbStep

(* ... of mono_lock_free_free: the object being freed is in use,           *)
LEMMA FreeStepUse ==
  ASSUME NEW t \in Thread, TypeInv, OwnInv, InUseInv, HeldInUse(t), FreeStep(t)
  PROVE  UseStep(t)
<1>1. /\ OpFrame(t) /\ QueueFrame(t) /\ FreeFrame(t)
      /\ pc \in [Thread -> Label] /\ op \in [Thread -> Op] /\ deq \in [Thread -> Deq]
      /\ haz \in [Thread -> Haz] /\ in_use \in [Desc -> BOOLEAN] /\ active \in Desc \cup {NULL}
      /\ NULL \notin Node /\ NULL \notin Item
      /\ \A n \in Node : Unique(n)
  BY NodeAssumption DEF TypeInv, TypeOK, HeapTypeOK, ServiceTypeOK, ThreadTypeOK, Frames, OwnInv
<1>2. \A d \in Desc : HeapUse(d) /\ HandUse(d, t)
  BY DEF InUseInv
<1>i. \A d \in Desc : Put(d) # NULL /\ Avail(d) # NULL /\ (\A e : Put(d) # Avail(e))
         /\ (\A e : Put(d) = Put(e) => d = e) /\ (\A e : Avail(d) = Avail(e) => d = e)
  BY ItemsOf
<1>3. CASE FreeBegin(t)
  BY <1>1, <1>3, HeapUseKept DEF FreeBegin, ServesHand, RetiredHand, HasItem, OwnerLabels, FreeFunc,
    Put, Avail
<1>4. CASE FreeReadAnchor(t)
  BY <1>1, <1>4, HeapUseKept DEF FreeReadAnchor, ServesHand, RetiredHand, HasItem, OwnerLabels,
    FreeFunc, Put, Avail
<1>5. CASE FreeSetAnchor(t)
  BY <1>1, <1>5, HeapUseKept DEF FreeSetAnchor, NoOp, HeldInUse, HasSlot, ServesHand, RetiredHand,
    HasItem, OwnerLabels, FreeFunc, Put, Avail
<1>6. CASE FreeSteal(t)
  BY <1>1, <1>6, UseMoved DEF FreeSteal, ActiveIs, CallDequeue, ServesHeap, InSequence, Node,
    ServesHand, HasItem, OwnerLabels, FreeFunc, Put, RetiredHand, RetiredHeap, Avail
<1>7. CASE FreeRetire(t)
  <2>1. PICK e \in Desc : e = op[t].desc
    BY <1>1, <1>7 DEF FreeRetire, OpFrame, OwnerLabels
  <2>2. /\ UNCHANGED <<active, queue, desc_avail, delayed, enq, deq>>
        /\ pc[t] = "free_retire" /\ haz[t] = NoHaz
    BY <1>1, <1>7 DEF FreeRetire, FreeFrame, InFree, EnqLabels, FreeFunc
  <2>3. CASE ~CanRetire(e)
    <3>1. UNCHANGED <<in_use, pc, op, haz>>
      BY <1>7, <2>1, <2>3 DEF FreeRetire
    <3> QED BY <2>2, <3>1, HeapUseKept DEF ServesHand, RetiredHand, HasItem, Put, Avail
  <2>4. CASE CanRetire(e)
    <3>1. /\ in_use' = [in_use EXCEPT ![e] = FALSE] /\ pc'[t] = "fq_try" /\ op'[t] = NoOp
          /\ haz'[t].self = Avail(e) /\ haz'[t].item = NULL
      BY <1>1, <1>7, <2>1, <2>4 DEF FreeRetire, DescRetire, FreeOrQueue, Avail
    <3>2. "op" \in Holds(e, t)
      BY <2>1, <2>2 DEF Holds, OwnerLabels
    <3>3. \A d \in Desc : ServesHand(d, t)' => enq[t].node = d \/ deq[t].res = d
      BY <1>1, <1>i, <2>2, <3>1 DEF ServesHand, HasItem, OwnerLabels, FreeFunc, Node, Put, Avail
    <3>4. enq[t].node # e /\ deq[t].res # e
      <4>1. Unique(e)
        BY <1>1 DEF Node
      <4>2. "enq" \notin Holds(e, t) /\ "deq" \notin Holds(e, t)
        BY <3>2, <4>1 DEF Unique, Near
      <4> QED BY <4>2 DEF Holds
    <3>5. ~ServesHand(e, t)' /\ \A d \in Desc \ {e} : ServesHand(d, t)' => ServesHand(d, t)
      BY <3>3, <3>4 DEF ServesHand
    <3>6. \A d \in Desc \ {e} : RetiredHand(d, t)' => RetiredHand(d, t)
      BY <1>1, <1>i, <2>2, <3>1 DEF RetiredHand, HasItem, OwnerLabels, FreeFunc, Avail
    <3> QED BY <1>1, <2>2, <3>1, <3>2, <3>5, <3>6, RetiredOnce
  <2> QED BY <2>3, <2>4
<1>8. CASE FreeGiveBack(t)
  BY <1>1, <1>8, <1>i, UseMoved DEF FreeGiveBack, OpFrame, OwnerLabels, FreeFrame, InFree,
    EnqLabels, FreeFunc, ListPutPartial, FreeOrQueue, Put, ServesHeap, InSequence, ServesHand,
    HasItem, RetiredHeap, Avail, RetiredHand
<1>9. CASE RemoveEmptyGot(t)
  <2>1. /\ UNCHANGED <<active, queue, desc_avail, delayed, enq>>
        /\ pc[t] = "rm_got" /\ deq[t].res \in Desc \cup {NULL} /\ deq'[t].res = NULL
        /\ haz[t] = NoHaz
    BY <1>1, <1>9 DEF RemoveEmptyGot, QueueFrame, FreeFrame, InFree, EnqLabels, FreeFunc, NoDeq
  <2>2. CASE deq[t].res \in Desc /\ anchor[deq[t].res].state = "EMPTY"
    <3>1. PICK e \in Desc : e = deq[t].res
      BY <2>2
    <3>2. /\ in_use' = [in_use EXCEPT ![e] = FALSE] /\ pc'[t] = "fq_try" /\ op' = op
          /\ haz'[t].self = Avail(e) /\ haz'[t].item = NULL
      BY <1>1, <1>9, <2>2, <3>1 DEF RemoveEmptyGot, DescRetire, FreeOrQueue, Avail, Node
    <3>3. "deq" \in Holds(e, t)
      BY <3>1 DEF Holds
    <3>4. ASSUME NEW d \in Desc, ServesHand(d, t)' PROVE enq[t].node = d
      BY <1>1, <1>i, <2>1, <3>2, <3>4 DEF HasItem, FreeFunc, Put, Avail, Node, ServesHand,
        OwnerLabels
    <3>5. enq[t].node # e
      <4>1. Unique(e)
        BY <1>1 DEF Node
      <4>2. "enq" \notin Holds(e, t)
        BY <3>3, <4>1 DEF Unique, Near
      <4> QED BY <4>2 DEF Holds
    <3>6. ~ServesHand(e, t)' /\ \A d \in Desc \ {e} : ServesHand(d, t)' => ServesHand(d, t)
      BY <3>4, <3>5 DEF ServesHand
    <3>7. \A d \in Desc \ {e} : RetiredHand(d, t)' => RetiredHand(d, t)
      BY <1>1, <1>i, <2>1, <3>2 DEF RetiredHand, HasItem, OwnerLabels, FreeFunc, Avail
    <3> QED BY <1>1, <2>1, <3>2, <3>3, <3>6, <3>7, RetiredOnce
  <2>3. CASE deq[t].res = NULL
    BY <1>1, <1>9, <2>1, <2>3, HeapUseKept DEF RemoveEmptyGot, Node, ServesHand, HasItem,
      OwnerLabels, FreeFunc, Put, RetiredHand, Avail
  <2>4. CASE deq[t].res \in Desc /\ anchor[deq[t].res].state # "EMPTY"
    BY <1>1, <1>9, <1>i, <2>1, <2>4, HeapUseKept DEF RemoveEmptyGot, ListPutPartial, FreeOrQueue,
      Put, Node, ServesHand, HasItem, OwnerLabels, FreeFunc, RetiredHand, Avail
  <2> QED BY <2>1, <2>2, <2>3, <2>4
<1>10. CASE RemoveEmptyAgain(t)
  BY <1>1, <1>10, HeapUseKept DEF RemoveEmptyAgain, CallDequeue, ServesHand, RetiredHand, HasItem,
    OwnerLabels, FreeFunc, Put, Avail, Node
<1> QED BY <1>3, <1>4, <1>5, <1>6, <1>7, <1>8, <1>9, <1>10 DEF FreeStep

(* ... of the partial queue,                                               *)
LEMMA QueueStepUse ==
  ASSUME NEW t \in Thread, TypeInv, OwnInv, InUseInv, QueueStep(t)
  PROVE  UseStep(t)
<1>1. /\ OpFrame(t) /\ QueueFrame(t) /\ FreeFrame(t)
      /\ pc \in [Thread -> Label] /\ op \in [Thread -> Op] /\ deq \in [Thread -> Deq]
      /\ enq \in [Thread -> Enq] /\ haz \in [Thread -> Haz]
      /\ queue \in Seq(Node) /\ queue # <<>> /\ Distinct(queue)
      /\ NULL \notin Node /\ NULL \notin Item /\ Desc \cap Dummy = {}
  BY NodeAssumption DEF TypeInv, TypeOK, HeapTypeOK, ServiceTypeOK, ThreadTypeOK, Frames,
    OwnInv, ListsDistinct
<1>2. \A d \in Desc : HeapUse(d) /\ HandUse(d, t)
  BY DEF InUseInv
<1>i. \A d \in Desc : Put(d) # NULL /\ Avail(d) # NULL /\ (\A e : Put(d) # Avail(e))
         /\ (\A e : Put(d) = Put(e) => d = e) /\ (\A e : Avail(d) = Avail(e) => d = e)
  BY ItemsOf
<1> DEFINE Quiet == OwnerLabels \cup FreeFunc \cup {"fq_check"}
<1>q. ASSUME UNCHANGED <<in_use, active, desc_avail, delayed, haz, op>>, pc'[t] \notin Quiet,
             \A d \in Desc : InSequence(d, queue)' \/ deq'[t].res = d \/ enq'[t].node = d
                => InSequence(d, queue) \/ deq[t].res = d \/ enq[t].node = d
      PROVE  UseStep(t)
  BY <1>q, UseMoved DEF ServesHeap, ServesHand, HasItem, Put, RetiredHeap, RetiredHand, InSequence,
    Avail, OwnerLabels
<1>3. CASE DequeueReadHead(t)
  BY <1>1, <1>3, <1>q DEF DequeueReadHead, OwnerLabels, FreeFunc, InSequence
<1>4. CASE DequeueTry(t)
  <2>1. /\ UNCHANGED <<in_use, active, desc_avail, delayed, haz, op, enq>> /\ pc'[t] \notin Quiet
        /\ \/ queue' = queue /\ deq'[t].res \in {deq[t].res, NULL}
           \/ queue' = Tail(queue) /\ deq'[t].res = Head(queue)
    BY <1>1, <1>4 DEF DequeueTry, DequeueReturn, OwnerLabels, FreeFunc, Deq
  <2>2. CASE queue' = queue /\ deq'[t].res \in {deq[t].res, NULL}
    BY <1>1, <1>q, <2>1, <2>2 DEF InSequence, Node
  <2>3. CASE queue' = Tail(queue) /\ deq'[t].res = Head(queue)
    BY <1>1, <1>q, <2>1, <2>3, HeadLeaves DEF InSequence
  <2> QED BY <2>1, <2>2, <2>3
<1>5. CASE DequeueDummy(t)
  <2>1. /\ UNCHANGED <<in_use, active, desc_avail, delayed, op, enq, queue>> /\ pc'[t] = "fq_try"
        /\ deq'[t].res = NULL /\ deq[t].res \in Dummy
        /\ haz'[t].self = [p |-> deq[t].res, fn |-> "free_dummy"]
    BY <1>1, <1>5 DEF DequeueDummy, FreeOrQueue, QueueFrame
  <2>2. \A d \in Desc : haz'[t].self # Put(d) /\ haz'[t].self # Avail(d)
    BY <1>1, <2>1 DEF Put, Avail
  <2>3. \A d \in Desc : ServesHand(d, t)' => ServesHand(d, t)
    BY <1>1, <2>1, <2>2 DEF ServesHand, HasItem, OwnerLabels, FreeFunc, Put, Node
  <2>4. \A d \in Desc : RetiredHand(d, t)' => RetiredHand(d, t)
    BY <1>1, <2>1, <2>2 DEF RetiredHand, HasItem, OwnerLabels, FreeFunc, Avail
  <2> QED BY <2>1, <2>3, <2>4, HeapUseKept
<1>6. CASE ReenqueuePickDummy(t)
  BY <1>1, <1>6, <1>q DEF ReenqueuePickDummy, NoDummyToEnqueue, DequeueReturn, OwnerLabels,
    FreeFunc, Deq, InSequence, Node
<1>7. CASE ReenqueueClaim(t)
  BY <1>1, <1>7, <1>q DEF ReenqueueClaim, NoDummyToEnqueue, DequeueReturn, OwnerLabels, FreeFunc,
    Deq, CallEnqueue, QueueFrame, InSequence, Node
<1>8. CASE EnqueueStart(t)
  BY <1>1, <1>8, <1>q DEF EnqueueStart, OwnerLabels, FreeFunc, InSequence
<1>9. CASE EnqueueReadTail(t)
  BY <1>1, <1>9, <1>q DEF EnqueueReadTail, OwnerLabels, FreeFunc, InSequence
<1>10. CASE EnqueueLink(t)
  <2>1. /\ UNCHANGED <<in_use, active, desc_avail, delayed, haz, op, deq>> /\ pc'[t] \notin Quiet
        /\ \/ queue' = queue /\ enq' = enq
           \/ queue' = Append(queue, enq[t].node) /\ enq'[t].node = NULL
        /\ enq[t].node \in Node
    BY <1>1, <1>10 DEF EnqueueLink, OwnerLabels, FreeFunc, Enq, NoEnq, QueueFrame, EnqLabels
  <2>2. CASE queue' = queue /\ enq' = enq
    BY <1>q, <2>1, <2>2 DEF InSequence
  <2>3. CASE queue' = Append(queue, enq[t].node) /\ enq'[t].node = NULL
    BY <1>1, <1>q, <2>1, <2>3, NodeAppended DEF InSequence, Node
  <2> QED BY <2>1, <2>2, <2>3
<1> QED BY <1>3, <1>4, <1>5, <1>6, <1>7, <1>8, <1>9, <1>10 DEF QueueStep

(* A thread that is done with an item goes on with those it has.           *)
LEMMA NextItemUses ==
  ASSUME NEW t \in Thread, pc \in [Thread -> Label], haz \in [Thread -> Haz], NextItem(t),
         op' = op
  PROVE  /\ \A x \in Item : HasItem(x, t)' => HasItem(x, t)
         /\ pc'[t] \notin OwnerLabels
<1> NULL \notin Item
  BY NodeAssumption
<1>1. haz[t].ret \in HazReturn
  BY DEF Haz
<1>2. CASE haz[t].tries = FreeAttempts + 1
  BY <1>1, <1>2 DEF NextItem, NoHaz, HasItem, HazReturn, OwnerLabels, FreeFunc
<1>3. CASE haz[t].tries # FreeAttempts + 1
  BY <1>3 DEF NextItem, Haz, HasItem, OwnerLabels, FreeFunc
<1> QED BY <1>2, <1>3

(* ... and of the hazardous free.                                          *)
LEMMA HazardStepUse ==
  ASSUME NEW t \in Thread, TypeInv, OwnInv, InUseInv, HazardStep(t)
  PROVE  UseStep(t)
<1>1. /\ OpFrame(t) /\ QueueFrame(t) /\ FreeFrame(t)
      /\ pc \in [Thread -> Label] /\ op \in [Thread -> Op] /\ deq \in [Thread -> Deq]
      /\ enq \in [Thread -> Enq] /\ haz \in [Thread -> Haz] /\ desc_avail \in Seq(Desc)
      /\ delayed \subseteq Item /\ FreeAttempts \in Nat
      /\ NULL \notin Node /\ NULL \notin Item /\ Desc \cap Dummy = {}
  BY NodeAssumption, FreeAttemptsAssumption DEF TypeInv, TypeOK, HeapTypeOK, ServiceTypeOK,
    ThreadTypeOK, Frames, OwnInv, ListsDistinct
<1>i. \A d \in Desc : Put(d) \in Item /\ Avail(d) \in Item /\ Put(d) # NULL
        /\ Avail(d) # NULL /\ (\A e : Put(d) # Avail(e))
         /\ (\A e : Put(d) = Put(e) => d = e) /\ (\A e : Avail(d) = Avail(e) => d = e)
  BY ItemsOf
<1>q. ASSUME UNCHANGED <<in_use, active, desc_avail, queue, op, deq>>, pc'[t] \notin OwnerLabels,
             \A d \in Desc : enq'[t].node = d => enq[t].node = d \/ HasItem(Put(d), t),
             \A x \in Item : x \in delayed' \/ HasItem(x, t)' => x \in delayed \/ HasItem(x, t)
      PROVE  UseStep(t)
  BY <1>i, <1>q, UseMoved DEF ServesHeap, ServesHand, InSequence, Put, RetiredHeap, RetiredHand,
    Avail, OwnerLabels
<1>3. CASE FreePop(t)
  <2>1. /\ UNCHANGED <<in_use, active, desc_avail, queue, op, deq, enq>> /\ pc[t] = "fq_try"
        /\ pc'[t] \in {"fq_try", "fq_check"} /\ delayed' \subseteq delayed
        /\ haz'[t].self = haz[t].self /\ haz'[t].tries = haz[t].tries + 1 /\ haz[t].tries \in Nat
        /\ haz[t].tries <= FreeAttempts
        /\ pc'[t] = "fq_check" => haz'[t].item \in delayed \/ haz'[t].item = haz[t].self
    <3>1. /\ haz[t].tries \in Nat /\ haz[t].tries <= FreeAttempts /\ pc[t] = "fq_try"
          /\ UNCHANGED <<in_use, active, desc_avail, queue, op, deq, enq>>
      BY <1>1, <1>3 DEF FreePop, Haz, FreeFrame
    <3> QED BY <1>1, <1>3, <3>1, FreePopFields
  <2>2. \A x \in Item : HasItem(x, t)' => x \in delayed \/ HasItem(x, t)
    BY <1>1, <2>1 DEF HasItem, FreeFunc
  <2> QED BY <1>q, <2>1, <2>2 DEF OwnerLabels
<1>4. CASE FreeCheck(t)
  <2>1. /\ UNCHANGED <<in_use, active, desc_avail, queue, op, deq, enq>> /\ pc[t] = "fq_check"
        /\ haz[t].item \in Item /\ haz[t].item.fn \in FreeFunc
    BY <1>1, <1>4 DEF FreeCheck, FreeFrame, Item, FreeFunc
  <2>2. CASE Hazardous(haz[t].item.p)
    BY <1>1, <1>4, <1>q, <2>1, <2>2, NextItemUses DEF FreeCheck, HasItem
  <2>3. CASE ~Hazardous(haz[t].item.p)
    BY <1>1, <1>4, <1>q, <2>1, <2>3 DEF FreeCheck, HasItem, FreeFunc, OwnerLabels
  <2> QED BY <2>2, <2>3
<1>5. CASE FreeDone(t)
  BY <1>1, <1>5, <1>q, NextItemUses DEF FreeDone
<1>6. CASE FreeDummy(t)
  BY <1>1, <1>6, <1>q, NextItemUses DEF FreeDummy
<1>7. CASE DescPutPartial(t)
  BY <1>1, <1>7, <1>q DEF DescPutPartial, CallEnqueue, FreeFrame, FreeFunc, Item, Put, HasItem,
    OwnerLabels
<1>8. CASE DescEnqueueAvail(t)
  <2>1. /\ UNCHANGED <<in_use, active, queue, delayed, op, deq, enq>> /\ NextItem(t)
        /\ pc[t] = "desc_enqueue_avail" /\ haz[t].item \in Item
             /\ haz[t].item.fn = "desc_enqueue_avail"
        /\ desc_avail' = <<haz[t].item.p>> \o desc_avail
    BY <1>1, <1>8 DEF DescEnqueueAvail, FreeFrame, FreeFunc
  <2>2. PICK e \in Desc : haz[t].item = Avail(e) /\ haz[t].item.p = e
    BY <2>1 DEF Item, Avail
  <2>3. HasItem(Avail(e), t)
    BY <2>1, <2>2 DEF HasItem, FreeFunc
  <2>4. pc'[t] \notin OwnerLabels /\ \A x \in Item : HasItem(x, t)' => HasItem(x, t)
    BY <1>1, <2>1, NextItemUses
  <2>5. \A m : InSequence(m, desc_avail)' => InSequence(m, desc_avail) \/ m = e
    BY <1>1, <2>1, <2>2, NodePrepended DEF InSequence
  <2>6. \A d \in Desc : ServesHeap(d)' \/ ServesHand(d, t)' => ServesHeap(d) \/ ServesHand(d, t)
    BY <1>i, <2>1, <2>4 DEF ServesHeap, ServesHand, InSequence, Put
  <2>7. \A d \in Desc : RetiredHeap(d)' \/ RetiredHand(d,
          t)' => RetiredHeap(d) \/ RetiredHand(d, t)
    BY <1>i, <2>1, <2>3, <2>4, <2>5 DEF RetiredHeap, RetiredHand, Avail, OwnerLabels
  <2> QED BY <2>1, <2>6, <2>7, UseMoved
<1> QED BY <1>3, <1>4, <1>5, <1>6, <1>7, <1>8 DEF HazardStep

-----------------------------------------------------------------------------
(* The steps of the code and their effect on slots.                        *)

WorksOn == {"alloc_next", "alloc_cas", "free_cas", "new_publish"}

(* A step that does nothing to objects, slots and anchors.                 *)
LEMMA NothingDone ==
  ASSUME NEW t \in Thread, \A u \in Thread \ {t} : SameLocals(u), TypeInv, TypeInv', SlotInv,
         UNCHANGED <<live, anchor, word, in_use>>, Holding(t)' = Holding(t),
         pc'[t] \notin WorksOn
  PROVE  SlotInv'
<1>1. SlotLocals(t)'
  BY DEF SlotLocals, AllocSlots, FreeSlots, FreshSlots, WorksOn
<1> QED BY <1>1, Peaceful DEF ObjectsMove

(* Who holds a superblock works on it alone.                               *)
LEMMA HolderAlone ==
  ASSUME NEW t \in Thread, OwnInv, NEW e \in Desc, Holds(e, t) # {}
  PROVE  Alone(t, e)
  BY DEF Alone, Holds, OwnerLabels, OwnInv, Node, Unique

(* The steps of mono_lock_free_alloc keep SlotInv.                         *)
LEMMA AllocStepSlots ==
  ASSUME NEW t \in Thread, \A u \in Thread \ {t} : SameLocals(u), TypeInv, TypeInv', UsedInv,
         OwnInv, InUseInv, SlotInv, AllocStep(t)
  PROVE  SlotInv'
<1>1. /\ OpFrame(t) /\ QueueFrame(t) /\ FreeFrame(t) /\ OpUsed(t) /\ SlotLocals(t)
      /\ pc \in [Thread -> Label] /\ op \in [Thread -> Op] /\ deq \in [Thread -> Deq]
      /\ haz \in [Thread -> Haz] /\ in_use \in [Desc -> BOOLEAN] /\ active \in Desc \cup {NULL}
      /\ anchor \in [Desc -> Anchor] /\ word \in [Desc -> [Slot -> Word]]
      /\ NULL \notin Node /\ NULL \notin Item
  BY NodeAssumption DEF TypeInv, TypeOK, HeapTypeOK, ServiceTypeOK, ThreadTypeOK, Frames, OwnInv,
    UsedInv, UsedLocals, SlotInv
<1>c. /\ \A u \in Thread \ {t} : SameLocals(u)
      /\ TypeInv /\ TypeInv' /\ OwnInv /\ SlotInv
  OBVIOUS
<1>2. \A d \in Desc : HeapUse(d) /\ HandUse(d, t)
  BY DEF InUseInv
<1>n. ASSUME pc[t] # "idle", pc[t] \notin {"free_read", "free_cas"}, ~InFree(t)
      PROVE  haz[t] = NoHaz /\ haz[t].ret = "idle"
  BY <1>1, <1>n DEF FreeFrame, NoHaz
<1> USE DEF NoHaz
<1>3. CASE AllocBegin(t)
  BY <1>1, <1>3, <1>c, NothingDone DEF AllocBegin, Holding, HasSlot, WorksOn
<1>4. CASE AllocReadActive(t)
  <2>1. /\ UNCHANGED <<live, anchor, word, in_use, haz>> /\ pc'[t] \in {"alloc_take", "deq_head"}
        /\ pc[t] = "alloc_active" /\ haz[t].ret = "idle"
    BY <1>1, <1>4 DEF AllocReadActive, CallDequeue, FreeFrame, InFree, EnqLabels, FreeFunc
  <2>2. Holding(t)' = Holding(t)
    BY <2>1 DEF Holding, HasSlot
  <2> QED BY <1>c, <2>1, <2>2, NothingDone DEF WorksOn
<1>5. CASE AllocTakeActive(t)
  BY <1>1, <1>5, <1>c, NothingDone DEF AllocTakeActive, FreeFrame, InFree, EnqLabels, FreeFunc,
    Holding, HasSlot, WorksOn
<1>6. CASE AllocGotPartial(t)
  <2>1. /\ UNCHANGED <<live, anchor, word>> /\ haz[t].ret = "idle"
        /\ pc[t] = "alloc_partial" /\ deq[t].res \in Desc \cup {NULL}
        /\ pc'[t] \in {"avail_peek", "alloc_anchor", "fq_try"} /\ haz'[t].ret # "alloc_done"
    BY <1>1, <1>6 DEF AllocGotPartial, QueueFrame, FreeFrame, InFree, EnqLabels, FreeFunc,
      DescRetire, FreeOrQueue
  <2>2. Holding(t)' = Holding(t)
    BY <2>1 DEF Holding, HasSlot
  <2>3. SlotLocals(t)'
    BY <2>1 DEF SlotLocals, AllocSlots, FreeSlots, FreshSlots
  <2>4. CASE deq[t].res \in Desc /\ anchor[deq[t].res].state = "EMPTY"
    BY <1>1, <1>2, <1>6, <1>c, <2>1, <2>2, <2>3, <2>4, Retiring DEF AllocGotPartial, DescRetire,
      Node, HandUse, ServesHand
  <2>5. CASE ~(deq[t].res \in Desc /\ anchor[deq[t].res].state = "EMPTY")
    <3>1. in_use' = in_use
      BY <1>1, <1>6, <2>1, <2>5 DEF AllocGotPartial
    <3> QED BY <1>c, <2>1, <2>2, <3>1, NothingDone DEF WorksOn
  <2> QED BY <2>4, <2>5
<1>7. CASE AllocDequeueAgain(t)
  BY <1>1, <1>7, <1>c, NothingDone DEF AllocDequeueAgain, CallDequeue, FreeFrame, InFree, EnqLabels,
    FreeFunc, Holding, HasSlot, WorksOn
<1>8. CASE AllocReadAnchor(t)
  <2>1. PICK e \in Desc : e = op[t].desc
    BY <1>1, <1>8 DEF AllocReadAnchor, OpFrame, OwnerLabels
  <2>2. /\ UNCHANGED <<live, anchor, word>> /\ haz[t].ret = "idle"
        /\ pc[t] = "alloc_anchor"
        /\ pc'[t] \in {"alloc_next", "fq_try"} /\ haz'[t].ret # "alloc_done"
    BY <1>1, <1>8 DEF AllocReadAnchor, FreeFrame, InFree, EnqLabels, FreeFunc,
      DescRetire, FreeOrQueue
  <2>3. Holding(t)' = Holding(t)
    BY <2>2 DEF Holding, HasSlot
  <2>4. in_use[e] /\ "op" \in Holds(e, t)
    BY <1>2, <2>1, <2>2 DEF HandUse, ServesHand, OwnerLabels, Holds
  <2>5. CASE anchor[e].state = "EMPTY"
    BY <1>1, <1>8, <1>c, <2>1, <2>2, <2>3, <2>4, <2>5, Retiring DEF AllocReadAnchor, DescRetire,
      FreeOrQueue, SlotLocals, AllocSlots, FreeSlots, FreshSlots
  <2>6. CASE anchor[e].state # "EMPTY"
    <3>1. /\ in_use' = in_use /\ pc'[t] = "alloc_next" /\ op'[t].desc = e
          /\ op'[t].old = anchor[e] /\ op'[t].slot = anchor[e].avail
      BY <1>1, <1>8, <2>1, <2>6 DEF AllocReadAnchor, Op
    <3>2. ChainOK(e) /\ anchor[e].state # "FULL"
      BY <2>4 DEF SlotInv, Chains, OwnInv, Unlisted, FullInUse, Nowhere
    <3>3. anchor[e].count \in Nat /\ anchor[e].count > 0
      BY <3>2 DEF ChainOK, StateOf
    <3>4. ~Out(<<e, anchor[e].avail>>)
      <4>1. anchor[e].avail \in Slot \ OutOf(e)
        BY <3>2, <3>3, ChainPopped DEF ChainOK
      <4> QED BY <4>1 DEF OutOf
    <3>5. ~Out(<<e, anchor[e].avail>>)'
      <4>1. \A o : Out(o)' <=> Out(o)
        BY <1>c, <2>2, <2>3, SameOut DEF ObjectsMove, SlotInv
      <4> QED BY <2>2, <3>4, <4>1
    <3>6. SlotLocals(t)'
      BY <2>2, <3>1, <3>5 DEF SlotLocals, AllocSlots, FreeSlots, FreshSlots
    <3> QED BY <1>c, <2>2, <2>3, <3>1, <3>6, Peaceful DEF ObjectsMove
  <2> QED BY <2>5, <2>6
<1>9. CASE AllocReadNext(t)
  <2>1. PICK e \in Desc, s \in Slot : e = op[t].desc /\ s = op[t].slot
    BY <1>1, <1>9 DEF AllocReadNext, OpFrame, OwnerLabels
  <2>2. /\ UNCHANGED <<live, anchor, word, in_use, haz>> /\ pc'[t] = "alloc_cas"
        /\ pc[t] = "alloc_next" /\ haz[t].ret = "idle"
        /\ op'[t].desc = e /\ op'[t].slot = s /\ op'[t].old = op[t].old /\ op'[t].nxt = word[e][s]
    BY <1>1, <1>9, <2>1 DEF AllocReadNext, FreeFrame, InFree, EnqLabels, FreeFunc, Op
  <2>3. Holding(t)' = Holding(t)
    BY <2>2 DEF Holding, HasSlot
  <2>4. ~Out(<<e, s>>)'
    <3>1. \A o : Out(o)' <=> Out(o)
      BY <1>c, <2>2, <2>3, SameOut DEF ObjectsMove, SlotInv
    <3>2. ~Out(<<e, s>>)
      BY <1>1, <2>1, <2>2 DEF SlotLocals, AllocSlots
    <3> QED BY <3>1, <3>2
  <2>5. SlotLocals(t)'
    BY <1>1, <2>1, <2>2, <2>4 DEF SlotLocals, AllocSlots, FreeSlots, FreshSlots
  <2> QED BY <1>c, <2>2, <2>3, <2>5, Peaceful DEF ObjectsMove
<1>10. CASE AllocSetAnchor(t)
  <2>1. PICK e \in Desc, s \in Slot : e = op[t].desc /\ s = op[t].slot
    BY <1>1, <1>10 DEF AllocSetAnchor, OpFrame, OwnerLabels
  <2>2. /\ UNCHANGED <<live, word, in_use, haz>> /\ haz[t].ret = "idle"
        /\ pc[t] = "alloc_cas" /\ op'[t].desc = e /\ op'[t].slot = s
    BY <1>1, <1>10, <2>1 DEF AllocSetAnchor, FreeFrame, InFree, EnqLabels, FreeFunc, Op
  <2>3. Holding(t) = {}
    BY <2>2 DEF Holding, HasSlot
  <2>4. in_use[e] /\ "op" \in Holds(e, t)
    BY <1>2, <2>1, <2>2 DEF HandUse, ServesHand, OwnerLabels, Holds
  <2>5. CASE anchor[e] = op[t].old
    <3>1. /\ anchor' = [anchor EXCEPT ![e] = AllocatedAnchor(anchor[e], op[t].nxt)]
          /\ pc'[t] \in {"alloc_giveback", "alloc_done"}
      BY <1>1, <1>10, <2>1, <2>5 DEF AllocSetAnchor, SetAnchorSucceeds
    <3>2. s = anchor[e].avail /\ op[t].nxt = word[e][s]
      BY <1>1, <2>1, <2>2, <2>5 DEF SlotLocals, AllocSlots
    <3>3. anchor[e].state = "PARTIAL"
      BY <1>1, <2>2, <2>4, <2>5 DEF OpUsed, OwnInv, Unlisted, FullInUse, Nowhere, Anchor, State
    <3>4. Holding(t)' = {<<e, s>>}
      BY <2>2, <3>1 DEF Holding, HasSlot
    <3>5. SlotLocals(t)'
      BY <3>1 DEF SlotLocals, AllocSlots, FreeSlots, FreshSlots
    <3>6. Alone(t, e)
      BY <2>4, HolderAlone
    <3> QED BY <1>c, <2>2, <2>3, <2>4, <3>1, <3>2, <3>3, <3>4, <3>5, <3>6, Taking
  <2>6. CASE anchor[e] # op[t].old
    BY <1>1, <1>10, <1>c, <2>1, <2>2, <2>3, <2>6, NothingDone DEF AllocSetAnchor, SetAnchorSucceeds,
      Holding, HasSlot, WorksOn
  <2> QED BY <2>5, <2>6
<1>11. CASE AllocGiveBack(t)
  <2>1. /\ UNCHANGED <<live, anchor, word, in_use, op>> /\ pc[t] = "alloc_giveback"
        /\ pc'[t] = "alloc_done" \/ (pc'[t] = "fq_try" /\ haz'[t].ret = "alloc_done")
    BY <1>1, <1>11 DEF AllocGiveBack, ListPutPartial, FreeOrQueue
  <2>2. Holding(t)' = Holding(t)
    BY <2>1 DEF Holding, HasSlot
  <2> QED BY <1>c, <2>1, <2>2, NothingDone DEF WorksOn
<1>12. CASE AllocReturn(t)
  <2>1. PICK e \in Desc, s \in Slot : e = op[t].desc /\ s = op[t].slot
    BY <1>1, <1>12 DEF AllocReturn, OpFrame, OwnerLabels
  <2>2. /\ UNCHANGED <<anchor, in_use, haz>> /\ pc'[t] = "idle"
        /\ pc[t] = "alloc_done" /\ haz[t].ret = "idle"
        /\ word' = [word EXCEPT ![e][s] = User] /\ live' = live \cup {<<e, s>>}
    BY <1>1, <1>12, <2>1 DEF AllocReturn, FreeFrame, InFree, EnqLabels, FreeFunc
  <2>3. Holding(t)' = {} /\ Holding(t) = {<<e, s>>}
    BY <2>1, <2>2 DEF Holding, HasSlot
  <2>4. SlotLocals(t)'
    BY <2>2 DEF SlotLocals, AllocSlots, FreeSlots, FreshSlots
  <2>5. word'[e][s] = User
    BY <1>1, <2>2
  <2>6. \A o \in Object \ Holding(t) : word'[o[1]][o[2]] = word[o[1]][o[2]]
    BY <1>1, <2>2, <2>3 DEF Object
  <2> QED BY <1>c, <2>2, <2>3, <2>4, <2>5, <2>6, Peaceful DEF ObjectsMove
<1> QED BY <1>3, <1>4, <1>5, <1>6, <1>7, <1>8, <1>9, <1>10, <1>11, <1>12 DEF AllocStep

(* So do the steps of alloc_from_new_sb and desc_alloc,                    *)
LEMMA NewSbStepSlots ==
  ASSUME NEW t \in Thread, \A u \in Thread \ {t} : SameLocals(u), TypeInv, TypeInv', UsedInv,
         OwnInv, InUseInv, SlotInv, NewSbStep(t)
  PROVE  SlotInv'
<1>1. /\ OpFrame(t) /\ QueueFrame(t) /\ FreeFrame(t) /\ SlotLocals(t)
      /\ pc \in [Thread -> Label] /\ op \in [Thread -> Op] /\ deq \in [Thread -> Deq]
      /\ haz \in [Thread -> Haz] /\ in_use \in [Desc -> BOOLEAN] /\ active \in Desc \cup {NULL}
      /\ anchor \in [Desc -> Anchor] /\ word \in [Desc -> [Slot -> Word]]
      /\ NULL \notin Node /\ NULL \notin Item
  BY NodeAssumption DEF TypeInv, TypeOK, HeapTypeOK, ServiceTypeOK, ThreadTypeOK, Frames, OwnInv,
    SlotInv
<1>c. /\ \A u \in Thread \ {t} : SameLocals(u)
      /\ TypeInv /\ TypeInv' /\ OwnInv /\ SlotInv
  OBVIOUS
<1>2. \A d \in Desc : HeapUse(d) /\ HandUse(d, t)
  BY DEF InUseInv
<1> USE DEF NoHaz
<1>3. CASE DescAllocPeek(t)
  BY <1>1, <1>3, <1>c, NothingDone DEF DescAllocPeek, FreeFrame, InFree, EnqLabels, FreeFunc,
    Holding, HasSlot, WorksOn
<1>4. CASE DescAllocPop(t)
  <2>1. /\ UNCHANGED <<live, anchor, word, in_use, haz>> /\ pc'[t] \in {"new_sb", "avail_peek"}
        /\ pc[t] = "avail_pop" /\ haz[t].ret = "idle"
    BY <1>1, <1>4 DEF DescAllocPop, FreeFrame, InFree, EnqLabels, FreeFunc
  <2>2. Holding(t)' = Holding(t)
    BY <2>1 DEF Holding, HasSlot
  <2> QED BY <1>c, <2>1, <2>2, NothingDone DEF WorksOn
<1>5. CASE DescAllocBatch(t)
  <2>1. /\ UNCHANGED <<live, anchor, word, in_use, haz>> /\ pc'[t] \in {"new_sb", "avail_peek"}
        /\ pc[t] = "avail_batch" /\ haz[t].ret = "idle"
    BY <1>1, <1>5 DEF DescAllocBatch, FreeFrame, InFree, EnqLabels, FreeFunc
  <2>2. Holding(t)' = Holding(t)
    BY <2>1 DEF Holding, HasSlot
  <2> QED BY <1>c, <2>1, <2>2, NothingDone DEF WorksOn
<1>6. CASE AllocNewSb(t)
  <2>1. PICK e \in Desc : e = op[t].desc
    BY <1>1, <1>6 DEF AllocNewSb, OpFrame, OwnerLabels
  <2>2. /\ UNCHANGED <<live, haz>> /\ haz[t].ret = "idle"
        /\ pc[t] = "new_sb" /\ pc'[t] = "new_publish" /\ op'[t].desc = e /\ op'[t].slot = 0
        /\ word' = [word EXCEPT ![e] = FreshLinks] /\ in_use' = [in_use EXCEPT ![e] = TRUE]
        /\ anchor' = [anchor EXCEPT ![e] = NewAnchor]
    BY <1>1, <1>6, <2>1 DEF AllocNewSb, FreeFrame, InFree, EnqLabels, FreeFunc, Op, NewAnchor
  <2>3. Holding(t) = {} /\ Holding(t)' = {<<e, 0>>}
    BY <2>2 DEF Holding, HasSlot
  <2>4. ~in_use[e] /\ "op" \in Holds(e, t)
    BY <1>2, <2>1, <2>2 DEF HandUse, RetiredHand, OwnerLabels, Holds
  <2>5. Alone(t, e)
    BY <2>4, HolderAlone
  <2> QED BY <1>c, <2>2, <2>3, <2>4, <2>5, Fresh
<1>7. CASE AllocPublishSb(t)
  <2>1. PICK e \in Desc : e = op[t].desc
    BY <1>1, <1>7 DEF AllocPublishSb, OpFrame, OwnerLabels
  <2>2. UNCHANGED <<live, word>> /\ haz[t].ret = "idle" /\ pc[t] = "new_publish"
    BY <1>1, <1>7 DEF AllocPublishSb, FreeFrame, InFree, EnqLabels, FreeFunc
  <2>3. CASE active = NULL
    BY <1>1, <1>7, <1>c, <2>2, <2>3, NothingDone DEF AllocPublishSb, ActiveIs, Holding, HasSlot,
      WorksOn
  <2>4. CASE active # NULL
    <3>1. /\ in_use' = [in_use EXCEPT ![e] = FALSE] /\ pc'[t] = "fq_try"
          /\ anchor' = [anchor EXCEPT ![e].state = "EMPTY"] /\ haz'[t].ret = "alloc_active"
      BY <1>1, <1>7, <2>1, <2>4 DEF AllocPublishSb, ActiveIs, DescRetire, FreeOrQueue
    <3>2. op[t].slot = 0 /\ \A s \in Slot : Out(<<e, s>>) => s = 0
      BY <1>1, <2>1, <2>2 DEF SlotLocals, FreshSlots
    <3>3. Holding(t) = {<<e, 0>>} /\ Holding(t)' = {}
      BY <2>1, <2>2, <3>1, <3>2 DEF Holding, HasSlot
    <3>4. Alone(t, e)
      <4>1. "op" \in Holds(e, t)
        BY <2>1, <2>2 DEF Holds, OwnerLabels
      <4> QED BY <4>1, HolderAlone
    <3>5. SlotLocals(t)'
      BY <3>1 DEF SlotLocals, AllocSlots, FreeSlots, FreshSlots
    <3> QED BY <1>c, <2>2, <3>1, <3>2, <3>3, <3>4, <3>5, Unpublished
  <2> QED BY <2>3, <2>4
<1> QED BY <1>3, <1>4, <1>5, <1>6, <1>7 DEF NewSbStep

(* ... of mono_lock_free_free,                                             *)
LEMMA FreeStepSlots ==
  ASSUME NEW t \in Thread, \A u \in Thread \ {t} : SameLocals(u), TypeInv, TypeInv', UsedInv,
         OwnInv, InUseInv, SlotInv, FreeStep(t)
  PROVE  SlotInv'
<1>1. /\ OpFrame(t) /\ QueueFrame(t) /\ FreeFrame(t) /\ SlotLocals(t)
      /\ pc \in [Thread -> Label] /\ op \in [Thread -> Op] /\ deq \in [Thread -> Deq]
      /\ haz \in [Thread -> Haz] /\ in_use \in [Desc -> BOOLEAN] /\ active \in Desc \cup {NULL}
      /\ anchor \in [Desc -> Anchor] /\ word \in [Desc -> [Slot -> Word]]
      /\ live \subseteq Object
      /\ NULL \notin Node /\ NULL \notin Item
  BY NodeAssumption DEF TypeInv, TypeOK, HeapTypeOK, ServiceTypeOK, ThreadTypeOK, Frames, OwnInv,
    SlotInv
<1>c. /\ \A u \in Thread \ {t} : SameLocals(u)
      /\ TypeInv /\ TypeInv' /\ OwnInv /\ SlotInv
  OBVIOUS
<1>2. \A d \in Desc : HeapUse(d) /\ HandUse(d, t)
  BY DEF InUseInv
<1> USE DEF NoHaz
<1>3. CASE FreeBegin(t)
  <2>1. /\ UNCHANGED <<anchor, word, in_use, haz>> /\ pc'[t] = "free_read"
        /\ pc[t] = "idle" /\ haz[t].ret = "idle"
    BY <1>1, <1>3 DEF FreeBegin, FreeFrame, InFree, EnqLabels, FreeFunc
  <2>2. PICK o \in live : live' = live \ {o} /\ op'[t].desc = o[1] /\ op'[t].slot = o[2]
    BY <1>1, <1>3 DEF FreeBegin, Op
  <2>3. o = <<o[1], o[2]>>
    BY <1>1 DEF Object
  <2>4. Holding(t) = {} /\ Holding(t)' = {o}
    BY <2>1, <2>2, <2>3 DEF Holding, HasSlot
  <2>5. SlotLocals(t)'
    BY <2>1 DEF SlotLocals, AllocSlots, FreeSlots, FreshSlots
  <2>6. ObjectsMove(t)
    BY <2>2, <2>4 DEF ObjectsMove
  <2> QED BY <1>c, <2>1, <2>2, <2>5, <2>6, Peaceful
<1>4. CASE FreeReadAnchor(t)
  <2>1. PICK e \in Desc, s \in Slot : e = op[t].desc /\ s = op[t].slot
    BY <1>1, <1>4 DEF FreeReadAnchor, OpFrame, OwnerLabels
  <2>2. /\ UNCHANGED <<live, anchor, in_use, haz>> /\ pc'[t] = "free_cas" /\ pc[t] = "free_read"
        /\ op'[t].desc = e /\ op'[t].slot = s /\ op'[t].old = anchor[e]
        /\ word' = [word EXCEPT ![e][s] = anchor[e].avail]
    BY <1>1, <1>4, <2>1 DEF FreeReadAnchor, Op
  <2>3. Holding(t) = {<<e, s>>} /\ Holding(t)' = Holding(t)
    BY <2>1, <2>2 DEF Holding, HasSlot
  <2>4. anchor[e].state # "EMPTY"
    <3>1. Out(<<e, s>>) /\ <<e, s>> \in Object
      BY <2>3 DEF Out, Object
    <3>2. in_use[e] /\ ChainOK(e)
      BY <3>1 DEF SlotInv, ObjectsInUse, Chains
    <3> QED BY <3>1, <3>2, EmptyHasNone
  <2>5. word'[e][s] = anchor[e].avail
    BY <1>1, <2>2
  <2>6. SlotLocals(t)'
    BY <2>2, <2>4, <2>5 DEF SlotLocals, AllocSlots, FreeSlots, FreshSlots
  <2>7. \A o \in Object \ Holding(t) : word'[o[1]][o[2]] = word[o[1]][o[2]]
    BY <1>1, <2>2, <2>3 DEF Object
  <2> QED BY <1>c, <2>2, <2>3, <2>6, <2>7, Peaceful DEF ObjectsMove
<1>5. CASE FreeSetAnchor(t)
  <2>1. PICK e \in Desc, s \in Slot : e = op[t].desc /\ s = op[t].slot
    BY <1>1, <1>5 DEF FreeSetAnchor, OpFrame, OwnerLabels
  <2>2. /\ UNCHANGED <<live, word, in_use, haz>> /\ pc[t] = "free_cas" /\ haz[t].ret = "idle"
    BY <1>1, <1>5 DEF FreeSetAnchor, FreeFrame, InFree, EnqLabels, FreeFunc
  <2>3. Holding(t) = {<<e, s>>}
    BY <2>1, <2>2 DEF Holding, HasSlot
  <2>4. CASE anchor[e] = op[t].old
    <3>1. /\ anchor' = [anchor EXCEPT ![e] = FreedAnchor(anchor[e], s)]
          /\ pc'[t] \in {"free_steal", "free_giveback", "idle"}
      BY <1>1, <1>5, <2>1, <2>4 DEF FreeSetAnchor, SetAnchorSucceeds
    <3>2. word[e][s] = anchor[e].avail
      BY <1>1, <2>1, <2>2, <2>4 DEF SlotLocals, FreeSlots
    <3>3. Holding(t)' = {}
      BY <2>2, <3>1 DEF Holding, HasSlot
    <3>4. SlotLocals(t)'
      BY <3>1 DEF SlotLocals, AllocSlots, FreeSlots, FreshSlots
    <3> QED BY <1>c, <2>2, <2>3, <3>1, <3>2, <3>3, <3>4, Freeing
  <2>5. CASE anchor[e] # op[t].old
    <3>1. anchor' = anchor /\ pc'[t] = "free_read" /\ op'[t].desc = e /\ op'[t].slot = s
      BY <1>1, <1>5, <2>1, <2>5 DEF FreeSetAnchor, SetAnchorSucceeds, Op
    <3>2. Holding(t)' = Holding(t)
      BY <2>3, <3>1 DEF Holding, HasSlot
    <3> QED BY <1>c, <2>2, <3>1, <3>2, NothingDone DEF WorksOn
  <2> QED BY <2>4, <2>5
<1>6. CASE FreeSteal(t)
  <2>1. /\ UNCHANGED <<live, anchor, word, in_use, haz>> /\ pc'[t] \in {"free_retire", "deq_head"}
        /\ pc[t] = "free_steal" /\ haz[t].ret = "idle"
    BY <1>1, <1>6 DEF FreeSteal, CallDequeue, FreeFrame, InFree, EnqLabels, FreeFunc
  <2>2. Holding(t)' = Holding(t)
    BY <2>1 DEF Holding, HasSlot
  <2> QED BY <1>c, <2>1, <2>2, NothingDone DEF WorksOn
<1>7. CASE FreeRetire(t)
  <2>1. PICK e \in Desc : e = op[t].desc
    BY <1>1, <1>7 DEF FreeRetire, OpFrame, OwnerLabels
  <2>2. UNCHANGED <<live, anchor, word>> /\ pc[t] = "free_retire" /\ haz[t].ret = "idle"
    BY <1>1, <1>7 DEF FreeRetire, FreeFrame, InFree, EnqLabels, FreeFunc
  <2>3. CASE ~CanRetire(e)
    BY <1>7, <1>c, <2>1, <2>2, <2>3, NothingDone DEF FreeRetire, Holding, HasSlot, WorksOn
  <2>4. CASE CanRetire(e)
    <3>1. in_use' = [in_use EXCEPT ![e] = FALSE] /\ pc'[t] = "fq_try" /\ haz'[t].ret = "idle"
      BY <1>1, <1>7, <2>1, <2>4 DEF FreeRetire, DescRetire, FreeOrQueue
    <3>2. in_use[e] /\ anchor[e].state = "EMPTY"
      BY <2>4 DEF CanRetire
    <3>3. Holding(t)' = Holding(t)
      BY <2>2, <3>1 DEF Holding, HasSlot
    <3>4. SlotLocals(t)'
      BY <3>1 DEF SlotLocals, AllocSlots, FreeSlots, FreshSlots
    <3> QED BY <1>c, <2>2, <3>1, <3>2, <3>3, <3>4, Retiring
  <2> QED BY <2>3, <2>4
<1>8. CASE FreeGiveBack(t)
  <2>1. /\ UNCHANGED <<live, anchor, word, in_use>> /\ pc'[t] \in {"idle", "fq_try"}
        /\ pc[t] = "free_giveback" /\ haz[t].ret = "idle" /\ haz'[t].ret = "idle"
    BY <1>1, <1>8 DEF FreeGiveBack, ListPutPartial, FreeOrQueue, FreeFrame, InFree,
      EnqLabels, FreeFunc
  <2>2. Holding(t)' = Holding(t)
    BY <2>1 DEF Holding, HasSlot
  <2> QED BY <1>c, <2>1, <2>2, NothingDone DEF WorksOn
<1>9. CASE RemoveEmptyGot(t)
  <2>1. /\ UNCHANGED <<live, anchor, word>> /\ haz[t].ret = "idle"
        /\ pc[t] = "rm_got" /\ deq[t].res \in Desc \cup {NULL}
        /\ pc'[t] \in {"idle", "fq_try"} /\ haz'[t].ret # "alloc_done"
    BY <1>1, <1>9 DEF RemoveEmptyGot, QueueFrame, FreeFrame, InFree, EnqLabels, FreeFunc,
      DescRetire, FreeOrQueue, ListPutPartial
  <2>2. Holding(t)' = Holding(t)
    BY <2>1 DEF Holding, HasSlot
  <2>3. SlotLocals(t)'
    BY <2>1 DEF SlotLocals, AllocSlots, FreeSlots, FreshSlots
  <2>4. CASE deq[t].res \in Desc /\ anchor[deq[t].res].state = "EMPTY"
    BY <1>1, <1>2, <1>9, <1>c, <2>1, <2>2, <2>3, <2>4, Retiring DEF RemoveEmptyGot, DescRetire,
      Node, HandUse, ServesHand
  <2>5. CASE ~(deq[t].res \in Desc /\ anchor[deq[t].res].state = "EMPTY")
    <3>1. in_use' = in_use
      BY <1>1, <1>9, <2>1, <2>5 DEF RemoveEmptyGot
    <3> QED BY <1>c, <2>1, <2>2, <3>1, NothingDone DEF WorksOn
  <2> QED BY <2>4, <2>5
<1>10. CASE RemoveEmptyAgain(t)
  <2>1. /\ UNCHANGED <<live, anchor, word, in_use, haz>> /\ pc'[t] \in {"idle", "deq_head"}
        /\ pc[t] = "rm_again" /\ haz[t].ret = "idle"
    BY <1>1, <1>10 DEF RemoveEmptyAgain, CallDequeue, FreeFrame, InFree, EnqLabels, FreeFunc
  <2>2. Holding(t)' = Holding(t)
    BY <2>1 DEF Holding, HasSlot
  <2> QED BY <1>c, <2>1, <2>2, NothingDone DEF WorksOn
<1> QED BY <1>3, <1>4, <1>5, <1>6, <1>7, <1>8, <1>9, <1>10 DEF FreeStep

(* ... of the partial queue,                                               *)
LEMMA QueueStepSlots ==
  ASSUME NEW t \in Thread, \A u \in Thread \ {t} : SameLocals(u), TypeInv, TypeInv', SlotInv,
    QueueStep(t)
  PROVE  SlotInv'
<1>1. /\ FreeFrame(t) /\ pc \in [Thread -> Label] /\ deq \in [Thread -> Deq]
      /\ enq \in [Thread -> Enq] /\ haz \in [Thread -> Haz]
  BY DEF TypeInv, TypeOK, ThreadTypeOK, Frames
<1> DEFINE Elsewhere == {"new_publish", "alloc_giveback", "alloc_done", "free_read", "free_cas",
                         "alloc_next", "alloc_cas"}
<1>2. /\ UNCHANGED <<live, anchor, word, in_use, op>>
      /\ pc[t] \notin Elsewhere /\ pc'[t] \notin Elsewhere
      /\ (haz'[t].ret = "alloc_done") = (haz[t].ret = "alloc_done")
  <2>1. CASE DequeueDummy(t)
    BY <1>1, <2>1 DEF DequeueDummy, FreeOrQueue, FreeFrame, InFree, EnqLabels, FreeFunc, NoHaz
  <2>2. CASE DequeueReadHead(t) \/ DequeueTry(t)
    BY <1>1, <2>2 DEF DequeueReadHead, DequeueTry, DequeueReturn, Deq
  <2>3. CASE ReenqueuePickDummy(t) \/ ReenqueueClaim(t)
    BY <1>1, <2>3 DEF ReenqueuePickDummy, ReenqueueClaim, NoDummyToEnqueue, DequeueReturn,
      CallEnqueue, Deq
  <2>4. CASE EnqueueStart(t) \/ EnqueueReadTail(t) \/ EnqueueLink(t)
    BY <1>1, <2>4 DEF EnqueueStart, EnqueueReadTail, EnqueueLink, Enq
  <2> QED BY <2>1, <2>2, <2>3, <2>4 DEF QueueStep
<1>3. Holding(t)' = Holding(t)
  BY <1>2 DEF Holding, HasSlot
<1> QED BY <1>2, <1>3, NothingDone DEF WorksOn

(* ... and of the hazardous free.                                          *)
LEMMA HazardStepSlots ==
  ASSUME NEW t \in Thread, \A u \in Thread \ {t} : SameLocals(u), TypeInv, TypeInv', SlotInv,
    HazardStep(t)
  PROVE  SlotInv'
<1>1. FreeFrame(t) /\ pc \in [Thread -> Label] /\ haz \in [Thread -> Haz]
  BY DEF TypeInv, TypeOK, ThreadTypeOK, Frames
<1>2. UNCHANGED <<live, anchor, word, in_use, op>>
  BY DEF HazardStep, FreePop, FreeCheck, FreeDone, FreeDummy, DescPutPartial, DescEnqueueAvail
<1>3. pc[t] \in {"fq_try", "fq_check", "fq_done"} \cup FreeFunc
  BY DEF HazardStep, FreePop, FreeCheck, FreeDone, FreeDummy, DescPutPartial,
    DescEnqueueAvail, FreeFunc
<1>4. CASE NextItem(t)
  <2>1. \/ haz'[t].ret = "idle" /\ pc'[t] = haz[t].ret
        \/ haz'[t].ret = haz[t].ret /\ pc'[t] = "fq_try"
    BY <1>1, <1>4 DEF NextItem, NoHaz, Haz
  <2>2. haz[t].ret \in HazReturn
    BY <1>1 DEF Haz
  <2>3. Holding(t)' = Holding(t) /\ pc'[t] \notin WorksOn
    BY <1>2, <1>3, <2>1, <2>2 DEF Holding, HasSlot, HazReturn, WorksOn, FreeFunc
  <2> QED BY <1>2, <2>3, NothingDone
<1>5. CASE ~NextItem(t)
  <2>1. haz'[t].ret = haz[t].ret /\ pc'[t] \in {"fq_try", "fq_check", "enq_start"} \cup FreeFunc
    BY <1>1, <1>5, FreePopFields DEF FreeCheck, FreeFrame, Item, FreeFunc, DescPutPartial,
      CallEnqueue, HazardStep, FreeDone, FreeDummy, DescEnqueueAvail
  <2>2. Holding(t)' = Holding(t) /\ pc'[t] \notin WorksOn
    BY <1>2, <1>3, <2>1 DEF Holding, HasSlot, WorksOn, FreeFunc
  <2> QED BY <1>2, <2>2, NothingDone
<1> QED BY <1>4, <1>5

-----------------------------------------------------------------------------
(* The invariant, and what follows from it.                                *)

(* Only desc_retire and alloc_from_new_sb map or unmap a superblock.       *)
LEMMA StepMaps ==
  ASSUME NEW t \in Thread, Step(t), mapped = in_use
  PROVE  mapped' = in_use'
<1>1. \A d, r : DescRetire(t, d, r) => mapped' = in_use'
  BY DEF DescRetire
<1>2. CASE AllocStep(t)
  <2>1. CASE AllocGotPartial(t) \/ AllocReadAnchor(t)
    BY <1>1, <2>1 DEF AllocGotPartial, AllocReadAnchor
  <2> QED BY <1>2, <2>1 DEF AllocStep, AllocBegin, AllocReadActive, AllocTakeActive,
        AllocDequeueAgain, AllocReadNext, AllocSetAnchor, AllocGiveBack, AllocReturn
<1>3. CASE NewSbStep(t)
  <2>1. CASE AllocPublishSb(t)
    BY <1>1, <2>1 DEF AllocPublishSb
  <2>2. CASE AllocNewSb(t)
    BY <2>2 DEF AllocNewSb
  <2> QED BY <1>3, <2>1, <2>2 DEF NewSbStep, DescAllocPeek, DescAllocPop, DescAllocBatch
<1>4. CASE FreeStep(t)
  <2>1. CASE FreeRetire(t) \/ RemoveEmptyGot(t)
    BY <1>1, <2>1 DEF FreeRetire, RemoveEmptyGot
  <2> QED BY <1>4, <2>1 DEF FreeStep, FreeBegin, FreeReadAnchor, FreeSetAnchor, FreeSteal,
        FreeGiveBack, RemoveEmptyAgain
<1>5. CASE QueueStep(t)
  BY <1>5 DEF QueueStep, DequeueReadHead, DequeueTry, DequeueDummy, ReenqueuePickDummy,
    ReenqueueClaim, EnqueueStart, EnqueueReadTail, EnqueueLink
<1>6. CASE HazardStep(t)
  BY <1>6 DEF HazardStep, FreePop, FreeCheck, FreeDone, FreeDummy, DescPutPartial,
    DescEnqueueAvail
<1> QED BY <1>2, <1>3, <1>4, <1>5, <1>6 DEF Step

SlotsInv == OwnershipInv /\ InUseInv /\ SlotInv /\ mapped = in_use

(* Nothing is out and no superblock in use at the start.                   *)
LEMMA SlotsInit == Init => SlotsInv
<1> SUFFICES ASSUME Init PROVE SlotsInv
  OBVIOUS
<1>1. OwnershipInv
  BY OwnershipInit
<1>2. PICK m \in Dummy : queue = <<m>>
  BY DEF Init
<1>3. /\ active = NULL /\ desc_avail = <<>> /\ delayed = {} /\ live = {}
      /\ in_use = [d \in Desc |-> FALSE] /\ mapped = [d \in Desc |-> FALSE]
      /\ NULL \notin Node /\ NULL \notin Item /\ m \notin Desc
  BY NodeAssumption DEF Init, Node
<1>4. \A t \in Thread : /\ pc[t] = "idle" /\ haz[t].self = NULL /\ haz[t].ret = "idle"
                        /\ deq[t].res = NULL /\ enq[t].node = NULL
  BY DEF Init, NoHaz, NoDeq, NoEnq
<1>5. InUseInv
  <2> SUFFICES ASSUME NEW d \in Desc PROVE HeapUse(d) /\ \A t \in Thread : HandUse(d, t)
    BY DEF InUseInv
  <2>1. ~ServesHeap(d)
    <3>1. DOMAIN queue = {1} /\ queue[1] = m
      BY <1>2
    <3> QED BY <1>3, <3>1 DEF ServesHeap, InSequence, Node
  <2>2. \A t \in Thread : ~ServesHand(d, t)
    BY <1>3, <1>4, ItemsOf DEF ServesHand, HasItem, OwnerLabels, FreeFunc, Node
  <2> QED BY <1>3, <2>1, <2>2 DEF HeapUse, HandUse
<1>6. SlotInv
  BY <1>3, <1>4 DEF Holding, HasSlot, Out, SlotLocals, AllocSlots, FreeSlots, FreshSlots, SlotInv,
    NoDoubleAllocation, ObjectsInUse, LiveWords, Chains
<1> QED BY <1>1, <1>3, <1>5, <1>6 DEF SlotsInv

(* A stuttering step keeps the invariant.                                  *)
LEMMA SlotsStutter ==
  ASSUME SlotsInv, UNCHANGED vars
  PROVE  SlotsInv'
<1>1. UNCHANGED <<sharedVars, pc, frameVars, aborted>>
  BY DEF vars
<1>2. OwnershipInv'
  BY OwnershipStutter DEF SlotsInv
<1>3. InUseInv'
  BY <1>1 DEF SlotsInv, InUseInv, HeapUse, HandUse, ServesHeap, ServesHand, RetiredHeap,
    RetiredHand, HasItem
<1>4. /\ \A t : Holding(t)' = Holding(t)
      /\ \A o : Out(o)' <=> Out(o)
  BY <1>1 DEF Out, Holding, HasSlot
<1>5. \A d \in Desc : ChainOK(d) => ChainOK(d)'
  BY <1>1, <1>4, ChainSame
<1>6. SlotInv'
  BY <1>1, <1>4, <1>5 DEF SlotsInv, SlotInv, NoDoubleAllocation, ObjectsInUse, LiveWords, Chains,
    SlotLocals, AllocSlots, FreeSlots, FreshSlots
<1> QED BY <1>1, <1>2, <1>3, <1>6 DEF SlotsInv

(* Every step keeps the invariant.                                         *)
LEMMA SlotsStep == SlotsInv /\ [Next]_vars => SlotsInv'
<1> SUFFICES ASSUME SlotsInv, [Next]_vars PROVE SlotsInv'
  OBVIOUS
<1>1. CASE UNCHANGED vars
  BY <1>1, SlotsStutter
<1>2. ASSUME NEW t \in Thread, Step(t) PROVE SlotsInv'
  <2>1. TypeInv /\ UsedInv /\ OwnInv /\ InUseInv /\ SlotInv /\ OwnershipInv
    BY DEF SlotsInv, OwnershipInv
  <2>2. OwnershipInv'
    BY <1>2, <2>1, OwnershipStep DEF Next
  <2>3. TypeInv'
    BY <2>2 DEF OwnershipInv
  <2>4. \A u \in Thread \ {t} : SameLocals(u)
    BY <1>2, <2>1, StepLocals
  <2>5. HeldInUse(t)
    BY <2>1, OutObject DEF Holding, Out, HeldInUse, SlotInv, ObjectsInUse
  <2>6. UseStep(t)
    BY <1>2, <2>1, <2>5, AllocStepUse, NewSbStepUse, FreeStepUse, QueueStepUse, HazardStepUse
    DEF Step
  <2>7. InUseInv'
    BY <2>1, <2>4, <2>6, UseKept DEF OwnInv
  <2>8. SlotInv'
    BY <1>2, <2>1, <2>3, <2>4, AllocStepSlots, NewSbStepSlots, FreeStepSlots, QueueStepSlots,
       HazardStepSlots DEF Step
  <2>9. mapped' = in_use'
    BY <1>2, <2>1, StepMaps DEF SlotsInv
  <2> QED BY <2>2, <2>7, <2>8, <2>9 DEF SlotsInv
<1> QED BY <1>1, <1>2 DEF Next

(* Whatever the numbers of threads, descriptors and slots,                 *)
(* mono_lock_free_alloc never returns an object that is live or that       *)
(* another thread has: the CAS of set_anchor (lock-free-alloc.c:317) takes *)
(* a slot out of the chain once.                                           *)
THEOREM AllocatesOnce == Spec => []NoDoubleAllocation
<1>1. SlotsInv => NoDoubleAllocation
  BY DEF SlotsInv, SlotInv
<1> QED BY <1>1, SlotsInit, SlotsStep, PTL DEF Spec

(* The invariant is strong enough for the objects.                         *)
LEMMA SlotsImplyObjects == SlotsInv => ObjectsIntact
  BY OutObject DEF SlotsInv, SlotInv, LiveWords, Out, ObjectsInUse, OwnershipInv, ObjectsIntact

(* What a mutator keeps in an object stays there, and no superblock is     *)
(* unmapped under an object, be it live, about to be returned or being     *)
(* freed (lock-free-alloc.c:227, test.c:173).                              *)
THEOREM ObjectsAlwaysIntact == Spec => []ObjectsIntact
BY SlotsInit, SlotsStep, SlotsImplyObjects, PTL DEF Spec

(* No CAS of an anchor succeeds on an EMPTY one, and who gives a           *)
(* descriptor a new superblock has a retired one.                          *)
LEMMA EmptyStays ==
  ASSUME SlotsInv, [Next]_vars, NEW d \in Desc, anchor[d].state = "EMPTY", anchor'[d] # anchor[d]
  PROVE  ~in_use[d] /\ in_use'[d]
<1>1. anchor' # anchor
  OBVIOUS
<1>2. PICK t \in Thread : Step(t)
  BY <1>1 DEF Next, vars
<1>3. /\ OpFrame(t) /\ OpUsed(t) /\ SlotLocals(t) /\ HandUse(d, t)
      /\ in_use \in [Desc -> BOOLEAN] /\ anchor \in [Desc -> Anchor]
  BY DEF SlotsInv, OwnershipInv, TypeInv, TypeOK, HeapTypeOK, Frames, UsedInv, UsedLocals,
    SlotInv, InUseInv
<1>4. ~QueueStep(t) /\ ~HazardStep(t)
  BY <1>1 DEF QueueStep, DequeueReadHead, DequeueTry, DequeueDummy, ReenqueuePickDummy,
    ReenqueueClaim, EnqueueStart, EnqueueReadTail, EnqueueLink, HazardStep, FreePop, FreeCheck,
    FreeDone, FreeDummy, DescPutPartial, DescEnqueueAvail
<1>5. CASE AllocStep(t)
  BY <1>1, <1>3, <1>5 DEF AllocStep, AllocBegin, AllocReadActive, AllocTakeActive, AllocGotPartial,
    AllocDequeueAgain, AllocReadAnchor, AllocReadNext, AllocGiveBack, AllocReturn, AllocSetAnchor,
    SetAnchorSucceeds, OpUsed
<1>6. CASE NewSbStep(t)
  <2>1. AllocNewSb(t) \/ AllocPublishSb(t)
    BY <1>1, <1>6 DEF NewSbStep, DescAllocPeek, DescAllocPop, DescAllocBatch
  <2>2. CASE AllocNewSb(t)
    BY <1>3, <2>2 DEF AllocNewSb, HandUse, RetiredHand
  <2>3. CASE AllocPublishSb(t)
    BY <1>1, <1>3, <2>3 DEF AllocPublishSb, SlotLocals, FreshSlots, NewAnchor
  <2> QED BY <2>1, <2>2, <2>3
<1>7. CASE FreeStep(t)
  BY <1>1, <1>3, <1>7 DEF FreeStep, FreeBegin, FreeReadAnchor, FreeSteal, FreeRetire, FreeGiveBack,
    RemoveEmptyGot, RemoveEmptyAgain, FreeSetAnchor, SetAnchorSucceeds, SlotLocals, FreeSlots
<1> QED BY <1>2, <1>4, <1>5, <1>6, <1>7 DEF Step

(* An EMPTY anchor is final until its retired descriptor gets a new        *)
(* superblock (lock-free-alloc.c:321), for every value of the constants.   *)
THEOREM EmptyAlwaysFinal == Spec => EmptyIsFinal
<1>1. SlotsInv /\ [Next]_vars =>
        [\A d \in Desc : anchor[d].state = "EMPTY" /\ anchor'[d] # anchor[d] =>
           ~in_use[d] /\ in_use'[d]]_vars
  BY EmptyStays
<1> QED BY <1>1, SlotsInit, SlotsStep, PTL DEF Spec, EmptyIsFinal

-----------------------------------------------------------------------------
(* The chain that FreeChain computes. Its definition is recursive, so a    *)
(* chain of the invariant is compared with it at the least place where     *)
(* they might differ.                                                      *)

(* The least element of a set of natural numbers, from the order of the    *)
(* finite sets by inclusion.                                               *)
LEMMA Least ==
  ASSUME NEW T, T \subseteq Nat, T # {}
  PROVE  \E x \in T : \A y \in T : ~(y < x)
<1> DEFINE F == {1 .. n : n \in T}
<1>1. F \subseteq FiniteSubsetsOf(Nat)
  BY FS_Interval DEF FiniteSubsetsOf
<1>2. F # {}
  OBVIOUS
<1>3. PICK X \in F : \A Y \in F : <<Y, X>> \notin StrictSubsetOrdering(Nat)
  <2> HIDE DEF F
  <2> QED BY <1>1, <1>2, FS_StrictSubsetOrderingWellFounded, WFMin
<1>4. PICK x \in T : X = 1 .. x
  OBVIOUS
<1>5. ASSUME NEW y \in T, y < x PROVE FALSE
  <2>1. 1 .. y \subseteq 1 .. x /\ 1 .. y # 1 .. x
    <3>1. y \in Nat /\ x \in Nat /\ x \in 1 .. x /\ x \notin 1 .. y
      BY <1>5
    <3> QED BY <3>1, <1>5
  <2>2. <<1 .. y, X>> \in StrictSubsetOrdering(Nat)
    BY <1>4, <2>1 DEF StrictSubsetOrdering
  <2> QED BY <1>3, <2>2
<1> QED BY <1>5

(* A chain of free slots is what FreeChain computes.                       *)
LEMMA FreeChainIs ==
  ASSUME NEW d \in Desc, NEW n \in Nat, n = anchor[d].count, NEW c \in [1 .. n -> Slot],
         n > 0 => c[1] = anchor[d].avail,
         \A i \in 1 .. n : i # 1 => c[i] = word[d][c[i - 1]]
  PROVE  FreeChain(d) = c
<1> DEFINE Link(f, i) == IF i = 1 THEN anchor[d].avail
                         ELSE IF f[i - 1] \in Slot THEN word[d][f[i - 1]] ELSE User
           Eq(f) == f = [i \in 1 .. n |-> Link(f, i)]
<1>1. \A i \in 1 .. n : i # 1 => i - 1 \in 1 .. n
  OBVIOUS
<1>2. \A i \in 1 .. n : c[i] = Link(c, i)
  BY <1>1
<1>3. Eq(c)
  BY <1>2
<1>4. FreeChain(d) = CHOOSE f : Eq(f)
  BY DEF FreeChain
<1>5. Eq(FreeChain(d))
  <2> HIDE DEF Eq
  <2> QED BY <1>3, <1>4
<1>6. PICK g : g = FreeChain(d) 
  OBVIOUS
<1>7. g = [i \in 1 .. n |-> g[i]] /\ \A i \in 1 .. n : g[i] = Link(g, i)
  <2>1. g = [i \in 1 .. n |-> Link(g, i)]
    BY <1>5, <1>6
  <2> HIDE DEF Link
  <2> QED BY <2>1
<1> DEFINE B == {i \in 1 .. n : g[i] # c[i]}
<1>8. ASSUME B # {} PROVE FALSE
  <2>1. PICK x \in B : \A y \in B : ~(y < x)
    <3>1. B \subseteq Nat
      OBVIOUS
    <3> HIDE DEF B
    <3> QED BY <1>8, <3>1, Least
  <2>2. x # 1
    BY <1>2, <1>7
  <2>3. x - 1 \in 1 .. n /\ x - 1 < x
    BY <2>2
  <2>4. g[x - 1] = c[x - 1]
    BY <2>1, <2>3
  <2>5. c[x - 1] \in Slot /\ c[x] = word[d][c[x - 1]] /\ g[x] = Link(g, x)
    BY <1>7, <2>2, <2>3
  <2>6. g[x] = word[d][g[x - 1]]
    BY <2>2, <2>4, <2>5
  <2> QED BY <2>4, <2>5, <2>6
<1>9. \A i \in 1 .. n : g[i] = c[i]
  BY <1>8
<1>10. g = c
  <2> HIDE DEF Eq, Link
  <2>1. c = [i \in 1 .. n |-> c[i]]
    OBVIOUS
  <2> QED BY <1>7, <1>9, <2>1
<1> QED BY <1>6, <1>10

(* The slots that are taken are those that are out.                        *)
LEMMA TakenIsOut ==
  ASSUME TypeInv, NEW d \in Desc
  PROVE  Taken(d) = OutOf(d)
<1> DEFINE L == live \cup UNION {Holding(t) : t \in Thread}
<1>1. \A o : o \in L <=> Out(o)
  BY DEF Out
<1>2. \A o \in L : o \in Object
  BY <1>1, OutObject
<1>3. Taken(d) = {o[2] : o \in {x \in L : x[1] = d}}
  BY DEF Taken
<1> HIDE DEF L
<1>4. ASSUME NEW s \in Taken(d) PROVE s \in OutOf(d)
  BY <1>1, <1>2, <1>3, <1>4 DEF Object, OutOf
<1>5. ASSUME NEW s \in OutOf(d) PROVE s \in Taken(d)
  <2>1. <<d, s>> \in L
    BY <1>1, <1>5 DEF OutOf
  <2> QED BY <1>3, <2>1
<1> QED BY <1>4, <1>5

(* The invariant is strong enough for the account of the slots.            *)
LEMMA SlotsImplyAccount == SlotsInv => SlotsAccounted
  BY FreeChainIs, TakenIsOut, EmptyHasNone, MaxCountAssumption DEF SlotsAccounted, SlotsInv,
    SlotInv, Chains, OwnershipInv, ChainOK, Chained, IsChain, StateOf

(* descriptor_check_consistency (lock-free-alloc.c:509) holds at every     *)
(* moment and for every number of threads, descriptors and slots: state    *)
(* and count agree, and the chain from avail has each free slot once.      *)
THEOREM SlotsAlwaysAccounted == Spec => []SlotsAccounted
BY SlotsInit, SlotsStep, SlotsImplyAccount, PTL DEF Spec

-----------------------------------------------------------------------------
(* The link of a node.  The assertions of lock-free-queue.c speak of       *)
(* node->next, which says where the node is: LINKED in the queue or about  *)
(* to be, FREE when it is ready for an enqueue, INVALID otherwise.         *)

(* Node n is in the hands of thread t's enqueue, before or after the       *)
(* latter has set its link.                                                *)
Starts(n, t) == enq[t].node = n /\ pc[t] = "enq_start"
Links(n, t) == enq[t].node = n /\ pc[t] \in {"enq_tail", "enq_link"}
Picked(n, t) == deq[t].res = n /\ pc[t] = "reenq_claim"

Linked(n) == InSequence(n, queue) \/ \E t \in Thread : Links(n, t)
Ready(n) ==
  \/ \E t \in Thread : Starts(n, t)
  \/ n \in Dummy /\ (~dummy_in_use[n] \/ \E t \in Thread : Picked(n, t))

NextOf(n) ==
  /\ Linked(n) => next[n] = "LINKED"
  /\ Ready(n) => next[n] = "FREE"
  /\ n \in Dummy \cup Acquired /\ ~Linked(n) /\ ~Ready(n) => next[n] = "INVALID"
NextInv == \A n \in Node : NextOf(n)

(* A dequeue knows its caller, and has a descriptor only as its result.    *)
InDequeue(t) ==
  \/ pc[t] \in {"deq_head", "deq_try", "deq_dummy", "reenq_pick", "reenq_claim"}
  \/ enq[t].ret = "deq_head" \/ haz[t].ret = "reenq_pick"
DequeueLocals(t) ==
  /\ InDequeue(t) => deq[t].ret # "idle"
  /\ deq[t].res \in Desc => pc[t] \in {"alloc_partial", "rm_got"}
  /\ pc[t] \notin EnqLabels => enq[t] = NoEnq

LinkLabels == EnqLabels \cup {"reenq_claim"}

(* What thread t and the heap say of a node's link.                        *)
LinkedTo(n, t) == InSequence(n, queue) \/ Links(n, t)
ReadyTo(n, t) == Starts(n, t) \/ (n \in Dummy /\ (~dummy_in_use[n] \/ Picked(n, t)))

(* A step after which they say the same.                                   *)
LEMMA LinkKept ==
  ASSUME NEW t \in Thread, \A u \in Thread \ {t} : SameLocals(u), NEW n, NextOf(n),
         next'[n] = next[n], LinkedTo(n, t)' <=> LinkedTo(n, t), ReadyTo(n, t)' <=> ReadyTo(n, t),
         n \in Acquired' => n \in Acquired
  PROVE  NextOf(n)'
  BY DEF SameLocals, Starts, Links, Picked, Linked, LinkedTo, Ready, ReadyTo, NextOf

(* A step that sets the link of a node that is the thread's or nobody's.   *)
Settled(n, t) ==
  \/ LinkedTo(n, t) /\ ~ReadyTo(n, t) /\ next[n] = "LINKED"
  \/ ReadyTo(n, t) /\ ~LinkedTo(n, t) /\ next[n] = "FREE"
  \/ ~LinkedTo(n, t) /\ ~ReadyTo(n, t) /\ next[n] = "INVALID"

(* A node whose places the step of thread t has changed is right if its    *)
(* new link is Settled.                                                    *)
LEMMA LinkChanged ==
  ASSUME NEW t \in Thread, \A u \in Thread \ {t} : SameLocals(u), NEW n, Unique(n),
         Near(n, t) # {} \/ Nowhere(n), Settled(n, t)'
  PROVE  NextOf(n)'
<1>1. \A u \in Thread \ {t} : Holds(n, u) = {}
  BY PlaceNames DEF Unique, Near, Nowhere
<1>2. \A u \in Thread \ {t} : Holds(n, u)' = {}
  BY <1>1, HoldsOther
<1>3. \A u \in Thread \ {t} : ~Starts(n, u)' /\ ~Links(n, u)' /\ ~Picked(n, u)'
  BY <1>2 DEF Starts, Links, Picked, Holds
<1>4. Linked(n)' <=> LinkedTo(n, t)'
  BY <1>3 DEF Linked, LinkedTo
<1>5. Ready(n)' <=> ReadyTo(n, t)'
  BY <1>3 DEF Ready, ReadyTo
<1> QED BY <1>4, <1>5 DEF NextOf, Settled

(* A step outside the queue's operations.                                  *)
LEMMA LinksUntouched ==
  ASSUME NEW t \in Thread, \A u \in Thread \ {t} : SameLocals(u), NextInv,
         UNCHANGED <<queue, next, dummy_in_use, batches>>,
         pc[t] \notin LinkLabels, pc'[t] \notin LinkLabels
  PROVE  NextInv'
  BY LinkKept DEF Acquired, LinkedTo, Links, LinkLabels, EnqLabels, ReadyTo, Starts, Picked, NextInv

(* A node listed or held is not at rest.                                   *)
LEMMA NotAtRest ==
  ASSUME OwnInv, NEW n \in Node, NEW t \in Thread, Near(n, t) # {}
  PROVE  n \in Dummy => dummy_in_use[n]
BY DEF OwnInv, Unlisted, Nowhere, Near

(* An allocation touches no link.                                          *)
LEMMA AllocStepLinks ==
  ASSUME NEW t \in Thread, TypeInv, NextInv, AllocStep(t), \A u \in Thread \ {t} : SameLocals(u)
  PROVE  NextInv'
<1> USE DEF LinkLabels, EnqLabels, CallDequeue, DescRetire, ListPutPartial, FreeOrQueue
<1>1. pc \in [Thread -> Label]
  BY DEF TypeInv, TypeOK, ThreadTypeOK
<1>2. UNCHANGED <<queue, next, dummy_in_use, batches>>
  BY DEF AllocStep, AllocBegin, AllocReadActive, AllocTakeActive, AllocGotPartial,
     AllocDequeueAgain, AllocReadAnchor, AllocReadNext, AllocSetAnchor, AllocGiveBack, AllocReturn
<1>3. pc[t] \notin LinkLabels
  BY DEF AllocStep, AllocBegin, AllocReadActive, AllocTakeActive, AllocGotPartial,
     AllocDequeueAgain, AllocReadAnchor, AllocReadNext, AllocSetAnchor, AllocGiveBack, AllocReturn
<1>4. pc'[t] \notin LinkLabels
  BY <1>1 DEF AllocBegin, AllocReadActive, AllocTakeActive, AllocGotPartial, AllocDequeueAgain,
    AllocReadAnchor, AllocReadNext, AllocSetAnchor, AllocGiveBack, AllocReturn, AllocStep
<1> QED BY <1>2, <1>3, <1>4, LinksUntouched

(* A free touches no link.                                                 *)
LEMMA FreeStepLinks ==
  ASSUME NEW t \in Thread, TypeInv, NextInv, FreeStep(t), \A u \in Thread \ {t} : SameLocals(u)
  PROVE  NextInv'
<1> USE DEF LinkLabels, EnqLabels, CallDequeue, DescRetire, ListPutPartial, FreeOrQueue
<1>1. pc \in [Thread -> Label]
  BY DEF TypeInv, TypeOK, ThreadTypeOK
<1>2. UNCHANGED <<queue, next, dummy_in_use, batches>>
  BY DEF FreeStep, FreeBegin, FreeReadAnchor, FreeSetAnchor, FreeSteal, FreeRetire, FreeGiveBack,
     RemoveEmptyGot, RemoveEmptyAgain
<1>3. pc[t] \notin LinkLabels
  BY DEF FreeStep, FreeBegin, FreeReadAnchor, FreeSetAnchor, FreeSteal, FreeRetire, FreeGiveBack,
     RemoveEmptyGot, RemoveEmptyAgain
<1>4. pc'[t] \notin LinkLabels
  BY <1>1, <1>3 DEF FreeBegin, FreeReadAnchor, FreeSetAnchor, FreeSteal, FreeRetire, FreeGiveBack,
    RemoveEmptyGot, RemoveEmptyAgain, FreeStep
<1> QED BY <1>2, <1>3, <1>4, LinksUntouched

(* A fresh batch of descriptors has invalid links and is nowhere but in    *)
(* the available list and in the hand of the thread.                       *)
LEMMA NewSbStepLinks ==
  ASSUME NEW t \in Thread, TypeInv, OwnInv, NextInv, NewSbStep(t),
         \A u \in Thread \ {t} : SameLocals(u)
  PROVE  NextInv'
<1> USE DEF LinkLabels, EnqLabels, DescRetire, FreeOrQueue
<1>1. pc \in [Thread -> Label] /\ batches \in Nat
  BY BatchesAssumption DEF TypeInv, TypeOK, ThreadTypeOK, HeapTypeOK
<1>2. CASE ~DescAllocBatch(t) \/ batches' = batches
  <2>1. UNCHANGED <<queue, next, dummy_in_use, batches>> /\ pc[t] \notin LinkLabels
    BY <1>1, <1>2 DEF NewSbStep, DescAllocPeek, DescAllocPop, AllocNewSb, AllocPublishSb,
       DescAllocBatch
  <2>2. pc'[t] \notin LinkLabels
    BY <1>1, <1>2 DEF DescAllocPeek, DescAllocPop, AllocNewSb, AllocPublishSb, DescAllocBatch,
      NewSbStep
  <2> QED BY <2>1, <2>2, LinksUntouched
<1>3. CASE DescAllocBatch(t) /\ batches' # batches
  <2>1. PICK b : b = Batches[batches + 1]
    OBVIOUS
  <2>2. /\ batches < Len(Batches) /\ batches' = batches + 1
        /\ next' = [n \in Node |-> IF \E i \in DOMAIN b : b[i] = n THEN "INVALID" ELSE next[n]]
        /\ pc[t] = "avail_batch" /\ pc'[t] = "new_sb" /\ UNCHANGED <<queue, dummy_in_use, enq, deq>>
    BY <1>1, <1>3, <2>1 DEF DescAllocBatch
  <2>3. /\ \A m : InSequence(m, b) => m \in Desc /\ m \notin Acquired
        /\ DOMAIN Batches = 1 .. Len(Batches) /\ batches \in Nat
    BY <2>1, <2>2, FreshBatch, BatchesAssumption DEF TypeInv, TypeOK, HeapTypeOK
  <2>4. ASSUME NEW n \in Node, InSequence(n, b) PROVE NextOf(n)'
    BY <2>2, <2>3, <2>4, NodeAssumption, LinkChanged DEF OwnInv, Unlisted, InSequence, Nowhere,
      HeapPlaces, LinkedTo, ReadyTo, Links, Starts, Settled
  <2>5. ASSUME NEW n \in Node, ~InSequence(n, b) PROVE NextOf(n)'
    <3>1. next'[n] = next[n]
      BY <2>2, <2>5 DEF InSequence
    <3>2. n \in Acquired' => n \in Acquired
      BY <2>1, <2>2, <2>3, <2>5 DEF Acquired
    <3>3. /\ LinkedTo(n, t)' <=> LinkedTo(n, t)
          /\ ReadyTo(n, t)' <=> ReadyTo(n, t)
      BY <2>2 DEF LinkedTo, ReadyTo, Links, Starts, Picked, InSequence
    <3> QED BY <3>1, <3>2, <3>3, LinkKept DEF NextInv
  <2> QED BY <2>4, <2>5 DEF NextInv
<1> QED BY <1>2, <1>3

(* What an appended sequence contains.                                     *)
LEMMA InAppended ==
  ASSUME NEW S, NEW s \in Seq(S), NEW e \in S
  PROVE  \A m : InSequence(m, Append(s, e)) <=> InSequence(m, s) \/ m = e
<1>1. \A m : InSequence(m, Append(s, e)) => InSequence(m, s) \/ m = e
  BY NodeAppended
<1>2. \A m : InSequence(m, s) => InSequence(m, Append(s, e))
  BY AppendElements DEF InSequence
<1>3. InSequence(e, Append(s, e))
  <2>1. Len(s) + 1 \in DOMAIN Append(s, e) /\ Append(s, e)[Len(s) + 1] = e
    OBVIOUS
  <2> QED BY <2>1 DEF InSequence
<1> QED BY <1>1, <1>2, <1>3

(* A dequeue invalidates the link of the node it takes out, an enqueue     *)
(* sets the one of the node it puts in; both have the node for themselves. *)
LEMMA QueueStepLinks ==
  ASSUME NEW t \in Thread, TypeInv, OwnInv, NextInv, DequeueLocals(t), QueueStep(t),
         \A u \in Thread \ {t} : SameLocals(u)
  PROVE  NextInv'
<1>1. /\ pc \in [Thread -> Label] /\ queue \in Seq(Node) /\ queue # <<>>
      /\ deq \in [Thread -> Deq] /\ enq \in [Thread -> Enq]
      /\ hp \in [Thread -> [{0, 1} -> Node \cup {NULL}]]
      /\ next \in [Node -> {"NULL", "INVALID", "FREE", "LINKED"}]
      /\ dummy_in_use \in [Dummy -> BOOLEAN]
      /\ QueueFrame(t) /\ NULL \notin Node /\ Desc \cap Dummy = {}
      /\ \A n \in Node : Unique(n)
  BY NodeAssumption DEF TypeInv, TypeOK, ThreadTypeOK, ServiceTypeOK, Frames, OwnInv
<1>2. /\ deq[t].ret \in {"idle", "alloc_partial", "rm_got"}
      /\ enq[t].ret \in {"idle", "deq_head", "fq_done"}
  BY <1>1 DEF Deq, Enq
<1>3. CASE DequeueReadHead(t)
  BY <1>1, <1>3, LinksUntouched DEF DequeueReadHead, LinkLabels, EnqLabels
<1>4. CASE DequeueTry(t)
  <2>1. CASE Head(queue) = hp[t][0] /\ ~AtLastNode
    <3>1. PICK n \in Node : n = hp[t][0]
      BY <1>1, <1>4 DEF DequeueTry, QueueFrame
    <3>10. /\ queue' = Tail(queue) /\ next' = [next EXCEPT ![n] = "INVALID"]
          /\ UNCHANGED <<enq, dummy_in_use, batches>> /\ pc[t] = "deq_try"
      BY <1>4, <2>1, <3>1 DEF DequeueTry
    <3>11. deq' = [deq EXCEPT ![t].res = n]
      BY <1>4, <2>1, <3>1 DEF DequeueTry, DequeueReturn
    <3>12. pc'[t] \in {"deq_dummy", "idle", "alloc_partial", "rm_got"}
      BY <1>1, <1>2, <1>4, <2>1, <3>1 DEF DequeueTry, DequeueReturn
    <3>2. /\ queue' = Tail(queue) /\ next' = [next EXCEPT ![n] = "INVALID"]
          /\ UNCHANGED <<enq, dummy_in_use, batches>> /\ deq'[t].res = n
          /\ pc[t] = "deq_try" /\ pc'[t] \in {"deq_dummy", "idle", "alloc_partial", "rm_got"}
      BY <1>1, <3>10, <3>11, <3>12
    <3>3. /\ InSequence(n, queue) /\ ~InSequence(n, Tail(queue))
          /\ \A m \in Node \ {n} : InSequence(m, Tail(queue)) <=> InSequence(m, queue)
      BY <1>1, <2>1, <3>1, HeadLeaves, HeadOrTail DEF OwnInv, ListsDistinct
    <3>4. \A m : InSequence(m, queue)' <=> InSequence(m, Tail(queue))
      BY <3>2 DEF InSequence
    <3>5. "queue" \in Near(n, t)
      BY <3>3 DEF Near, HeapPlaces
    <3>6. ~LinkedTo(n, t)' /\ ~ReadyTo(n, t)'
      <4>1. n \in Dummy => dummy_in_use[n]
        BY <3>5, NotAtRest
      <4> QED BY <3>2, <3>3, <3>4, <4>1 DEF LinkedTo, Links, ReadyTo, Starts, Picked
    <3>7. next'[n] = "INVALID"
      BY <1>1, <3>2
    <3>8. NextOf(n)'
      BY <1>1, <3>5, <3>6, <3>7, LinkChanged DEF Settled
    <3>9. ASSUME NEW m \in Node, m # n PROVE NextOf(m)'
      BY <3>2, <3>3, <3>4, <3>9, LinkKept DEF Acquired, LinkedTo, Links, ReadyTo, Starts, Picked,
        NextInv
    <3> QED BY <3>8, <3>9 DEF NextInv
  <2>2. CASE ~(Head(queue) = hp[t][0] /\ ~AtLastNode)
    BY <1>1, <1>2, <1>4, <2>2, LinksUntouched DEF DequeueTry, DequeueReturn, LinkLabels, EnqLabels
  <2> QED BY <2>1, <2>2
<1>5. CASE DequeueDummy(t)
  BY <1>1, <1>5, LinksUntouched DEF DequeueDummy, FreeOrQueue, LinkLabels, EnqLabels
<1>6. CASE ReenqueuePickDummy(t)
  <2>1. CASE NoDummyToEnqueue(t) /\ UNCHANGED dummy_in_use
    BY <1>1, <1>2, <1>6, <2>1, LinksUntouched DEF ReenqueuePickDummy, NoDummyToEnqueue,
      DequeueReturn, LinkLabels, EnqLabels
  <2>2. CASE ~(NoDummyToEnqueue(t) /\ UNCHANGED dummy_in_use)
    <3>1. PICK m \in Dummy :
            /\ ~dummy_in_use[m] /\ dummy_in_use' = [dummy_in_use EXCEPT ![m] = TRUE]
            /\ deq' = [deq EXCEPT ![t].res = m]
      BY <1>6, <2>2 DEF ReenqueuePickDummy
    <3>2. /\ UNCHANGED <<queue, next, batches, enq>> /\ pc[t] = "reenq_pick"
          /\ pc'[t] = "reenq_claim" /\ deq'[t].res = m
      BY <1>1, <1>6, <2>2, <3>1 DEF ReenqueuePickDummy
    <3>3. ASSUME NEW n \in Node PROVE ReadyTo(n, t)' <=> ReadyTo(n, t)
      BY <1>1, <3>1, <3>2 DEF ReadyTo, Starts, Picked
    <3>4. ASSUME NEW n \in Node PROVE LinkedTo(n, t)' <=> LinkedTo(n, t)
      BY <3>2 DEF LinkedTo, Links, InSequence
    <3>5. Acquired' = Acquired
      BY <3>2 DEF Acquired
    <3> QED BY <3>2, <3>3, <3>4, <3>5, LinkKept DEF NextInv
  <2> QED BY <2>1, <2>2
<1>7. CASE ReenqueueClaim(t)
  <2>1. PICK m \in Dummy : m = deq[t].res
    BY <1>1, <1>7 DEF ReenqueueClaim, QueueFrame
  <2>2. UNCHANGED <<queue, next, batches>> /\ pc[t] = "reenq_claim" /\ enq[t].node = NULL
    BY <1>1, <1>7 DEF ReenqueueClaim, DequeueLocals, EnqLabels, NoEnq
  <2>3. \/ /\ dummy_in_use' = dummy_in_use /\ enq'[t].node = m /\ pc'[t] = "enq_start"
        \/ /\ dummy_in_use' = [dummy_in_use EXCEPT ![m] = FALSE] /\ enq' = enq
           /\ pc'[t] \in {"idle", "alloc_partial", "rm_got"}
    BY <1>1, <1>2, <1>7, <2>1 DEF ReenqueueClaim, CallEnqueue, NoDummyToEnqueue, DequeueReturn
  <2>4. ASSUME NEW n \in Node PROVE ReadyTo(n, t)' <=> ReadyTo(n, t)
    BY <1>1, <2>1, <2>2, <2>3 DEF ReadyTo, Starts, Picked
  <2>5. ASSUME NEW n \in Node PROVE LinkedTo(n, t)' <=> LinkedTo(n, t)
    BY <1>1, <2>2, <2>3 DEF LinkedTo, Links, InSequence
  <2>6. Acquired' = Acquired
    BY <2>2 DEF Acquired
  <2> QED BY <2>2, <2>4, <2>5, <2>6, LinkKept DEF NextInv
<1>8. CASE EnqueueStart(t)
  <2>1. PICK n \in Node : n = enq[t].node
    BY <1>1, <1>8 DEF EnqueueStart, QueueFrame, EnqLabels
  <2>2. /\ next' = [next EXCEPT ![n] = "LINKED"]
        /\ UNCHANGED <<queue, dummy_in_use, batches, enq, deq>>
        /\ pc[t] = "enq_start" /\ pc'[t] = "enq_tail"
    BY <1>1, <1>8, <2>1 DEF EnqueueStart
  <2>3. "enq" \in Near(n, t)
    BY <2>1 DEF Near, Holds
  <2>4. n \in Dummy => dummy_in_use[n]
    BY <2>3, NotAtRest
  <2>5. LinkedTo(n, t)' /\ ~ReadyTo(n, t)' /\ next'[n] = "LINKED"
    BY <1>1, <2>1, <2>2, <2>4 DEF LinkedTo, Links, ReadyTo, Starts, Picked
  <2>6. NextOf(n)'
    BY <1>1, <2>3, <2>5, LinkChanged DEF Settled
  <2>7. ASSUME NEW m \in Node, m # n PROVE NextOf(m)'
    BY <2>1, <2>2, <2>7, LinkKept DEF Acquired, LinkedTo, Links, ReadyTo, Starts, Picked,
      InSequence, NextInv
  <2> QED BY <2>6, <2>7 DEF NextInv
<1>9. CASE EnqueueReadTail(t)
  BY <1>1, <1>9, LinkKept DEF EnqueueReadTail, LinkedTo, Links, ReadyTo, Starts, Picked, InSequence,
    Acquired, NextInv
<1>10. CASE EnqueueLink(t)
  <2>1. UNCHANGED <<next, dummy_in_use, batches, deq>> /\ pc[t] = "enq_link" /\ enq[t].node \in Node
    BY <1>1, <1>10 DEF EnqueueLink, QueueFrame, EnqLabels
  <2>2. \/ queue' = queue /\ enq' = enq /\ pc'[t] = "enq_tail"
        \/ /\ queue' = Append(queue, enq[t].node) /\ enq'[t].node = NULL
           /\ pc'[t] \in {"idle", "deq_head", "fq_done"}
    BY <1>1, <1>2, <1>10 DEF EnqueueLink, NoEnq
  <2>3. ASSUME NEW n \in Node PROVE LinkedTo(n, t)' <=> LinkedTo(n, t)
    <3>1. CASE queue' = queue /\ enq' = enq /\ pc'[t] = "enq_tail"
      BY <2>1, <3>1 DEF LinkedTo, Links, InSequence
    <3>2. CASE /\ queue' = Append(queue, enq[t].node) /\ enq'[t].node = NULL
               /\ pc'[t] \in {"idle", "deq_head", "fq_done"}
      <4>1. InSequence(n, Append(queue, enq[t].node)) <=> InSequence(n, queue) \/ n = enq[t].node
        BY <1>1, <2>1, InAppended
      <4>2. InSequence(n, queue)' <=> InSequence(n, Append(queue, enq[t].node))
        BY <3>2 DEF InSequence
      <4> QED BY <2>1, <3>2, <4>1, <4>2 DEF LinkedTo, Links
    <3> QED BY <2>2, <3>1, <3>2
  <2>4. ASSUME NEW n \in Node PROVE ReadyTo(n, t)' <=> ReadyTo(n, t)
    BY <1>1, <2>1, <2>2 DEF ReadyTo, Starts, Picked
  <2>5. Acquired' = Acquired
    BY <2>1 DEF Acquired
  <2> QED BY <2>1, <2>3, <2>4, <2>5, LinkKept DEF NextInv
<1> QED BY <1>3, <1>4, <1>5, <1>6, <1>7, <1>8, <1>9, <1>10 DEF QueueStep

(* desc_put_partial and free_dummy make the link of their item ready for   *)
(* an enqueue.                                                             *)
LEMMA HazardStepLinks ==
  ASSUME NEW t \in Thread, TypeInv, OwnInv, NextInv, DequeueLocals(t), HazardStep(t),
         \A u \in Thread \ {t} : SameLocals(u)
  PROVE  NextInv'
<1>1. /\ pc \in [Thread -> Label] /\ haz \in [Thread -> Haz] /\ enq \in [Thread -> Enq]
      /\ next \in [Node -> {"NULL", "INVALID", "FREE", "LINKED"}]
      /\ dummy_in_use \in [Dummy -> BOOLEAN]
      /\ FreeFrame(t) /\ NULL \notin Node /\ Desc \cap Dummy = {}
      /\ \A n \in Node : Unique(n)
  BY NodeAssumption DEF TypeInv, TypeOK, ThreadTypeOK, ServiceTypeOK, Frames, OwnInv
<1>2. /\ NextItem(t) => pc'[t] \in HazReturn \cup {"fq_try"}
      /\ (HazReturn \cup {"fq_try"}) \cap LinkLabels = {}
  BY <1>1, NextItemKeepsSelf DEF HazReturn, LinkLabels, EnqLabels
<1>3. CASE FreePop(t) \/ FreeCheck(t) \/ FreeDone(t) \/ DescEnqueueAvail(t)
  <2>1. UNCHANGED <<queue, next, dummy_in_use, batches>>
    BY <1>3 DEF FreePop, FreeCheck, FreeDone, DescEnqueueAvail
  <2>2. pc[t] \in {"fq_try", "fq_check", "fq_done", "desc_enqueue_avail"}
    BY <1>3 DEF FreePop, FreeCheck, FreeDone, DescEnqueueAvail
  <2>3. pc'[t] \in FreeFunc \cup {"fq_try", "fq_check"} \cup HazReturn
    <3>1. CASE FreePop(t)
      BY <1>1, <3>1 DEF FreePop
    <3>2. CASE FreeCheck(t)
      <4>1. haz[t].item.fn \in FreeFunc
        BY <1>1, <3>2 DEF FreeCheck, FreeFrame, Item, FreeFunc
      <4> QED BY <1>1, <1>2, <3>2, <4>1 DEF FreeCheck
    <3>3. CASE FreeDone(t) \/ DescEnqueueAvail(t)
      BY <1>2, <3>3 DEF FreeDone, DescEnqueueAvail
    <3> QED BY <1>3, <3>1, <3>2, <3>3
  <2> QED BY <2>1, <2>2, <2>3, LinksUntouched DEF FreeFunc, HazReturn, LinkLabels, EnqLabels
<1>4. CASE FreeDummy(t)
  <2>1. /\ pc[t] = "free_dummy" /\ haz[t].item \in Item /\ haz[t].item.fn = "free_dummy"
    BY <1>1, <1>4 DEF FreeDummy, FreeFrame, FreeFunc
  <2>2. PICK n \in Dummy : n = haz[t].item.p
    BY <2>1 DEF Item
  <2>3. /\ next' = [next EXCEPT ![n] = "FREE"] /\ dummy_in_use' = [dummy_in_use EXCEPT ![n] = FALSE]
        /\ UNCHANGED <<queue, batches, enq, deq>> /\ pc'[t] \in HazReturn \cup {"fq_try"}
    BY <1>2, <1>4, <2>2 DEF FreeDummy
  <2>4. "item" \in Holds(n, t) /\ n \in Node
    BY <2>1, <2>2 DEF Holds, FreeFunc, Node
  <2>5. ~InSequence(n, queue)
    BY <1>1, <2>4, PlaceNames DEF Unique, Near, HeapPlaces
  <2>6. ~LinkedTo(n, t)' /\ ReadyTo(n, t)' /\ next'[n] = "FREE"
    BY <1>1, <2>3, <2>4, <2>5 DEF LinkedTo, Links, ReadyTo, InSequence, HazReturn
  <2>7. NextOf(n)'
    BY <1>1, <2>4, <2>6, LinkChanged DEF Settled, Near
  <2>8. ASSUME NEW m \in Node, m # n PROVE NextOf(m)'
    BY <1>1, <2>1, <2>3, <2>8, LinkKept DEF Acquired, LinkedTo, Links, InSequence, HazReturn,
      ReadyTo, Starts, Picked, NextInv
  <2> QED BY <2>7, <2>8 DEF NextInv
<1>5. CASE DescPutPartial(t)
  <2>1. /\ pc[t] = "desc_put_partial" /\ haz[t].item \in Item /\ haz[t].item.fn = "desc_put_partial"
        /\ enq[t].node = NULL
    BY <1>1, <1>5 DEF DescPutPartial, FreeFrame, FreeFunc, DequeueLocals, EnqLabels, NoEnq
  <2>2. PICK n \in Desc : n = haz[t].item.p
    BY <2>1 DEF Item
  <2>3. /\ next' = [next EXCEPT ![n] = "FREE"] /\ pc'[t] = "enq_start" /\ enq'[t].node = n
        /\ UNCHANGED <<queue, batches, dummy_in_use, deq>>
    BY <1>1, <1>5, <2>2 DEF DescPutPartial, CallEnqueue
  <2>4. "item" \in Holds(n, t) /\ n \in Node /\ n \notin Dummy
    BY <1>1, <2>1, <2>2 DEF Holds, FreeFunc, Node
  <2>5. ~InSequence(n, queue)
    BY <1>1, <2>4, PlaceNames DEF Unique, Near, HeapPlaces
  <2>6. ~LinkedTo(n, t)' /\ ReadyTo(n, t)' /\ next'[n] = "FREE"
    BY <1>1, <2>3, <2>4, <2>5 DEF LinkedTo, Links, ReadyTo, Starts, InSequence
  <2>7. NextOf(n)'
    BY <1>1, <2>4, <2>6, LinkChanged DEF Settled, Near
  <2>8. ASSUME NEW m \in Node, m # n PROVE NextOf(m)'
    BY <1>1, <2>1, <2>3, <2>8, LinkKept DEF Acquired, LinkedTo, Links, InSequence, ReadyTo, Starts,
      Picked, NextInv
  <2> QED BY <2>7, <2>8 DEF NextInv
<1> QED BY <1>3, <1>4, <1>5 DEF HazardStep

(* What a step does to the locals of the queue's operations.               *)
LEMMA OtherDequeues ==
  ASSUME NEW u \in Thread, SameLocals(u), DequeueLocals(u)
  PROVE  DequeueLocals(u)'
BY DEF SameLocals, DequeueLocals, InDequeue, EnqLabels

(* An allocation calls dequeue and uses up its result.                     *)
LEMMA AllocStepDequeues ==
  ASSUME NEW t \in Thread, TypeInv, DequeueLocals(t), AllocStep(t)
  PROVE  DequeueLocals(t)'
<1> USE DEF InDequeue, EnqLabels, NoEnq, NoDeq, NoHaz, CallDequeue, DescRetire, ListPutPartial,
   FreeOrQueue, Op
<1>1. /\ pc \in [Thread -> Label] /\ op \in [Thread -> Op] /\ deq \in [Thread -> Deq]
      /\ enq \in [Thread -> Enq] /\ haz \in [Thread -> Haz]
      /\ FreeFrame(t) /\ NULL \notin Desc /\ QueueFrame(t)
  BY NodeAssumption DEF TypeInv, TypeOK, ThreadTypeOK, Frames, Node
<1>2. pc[t] \notin EnqLabels => enq[t].ret = "idle"
  BY DEF DequeueLocals
<1>3. CASE AllocBegin(t)
  BY <1>1, <1>3 DEF AllocBegin, DequeueLocals
<1>4. CASE AllocReadActive(t)
  BY <1>1, <1>4 DEF AllocReadActive, DequeueLocals
<1>5. CASE AllocTakeActive(t)
  BY <1>1, <1>5 DEF AllocTakeActive, DequeueLocals
<1>6. CASE AllocGotPartial(t)
  BY <1>1, <1>6 DEF AllocGotPartial, DequeueLocals, FreeFrame, InFree, FreeFunc
<1>7. CASE AllocDequeueAgain(t)
  BY <1>1, <1>7 DEF AllocDequeueAgain, DequeueLocals
<1>8. CASE AllocReadAnchor(t)
  BY <1>1, <1>8 DEF AllocReadAnchor, DequeueLocals
<1>9. CASE AllocReadNext(t)
  BY <1>1, <1>9 DEF AllocReadNext, DequeueLocals
<1>10. CASE AllocSetAnchor(t)
  BY <1>1, <1>10 DEF AllocSetAnchor, DequeueLocals
<1>11. CASE AllocGiveBack(t)
  BY <1>1, <1>11 DEF AllocGiveBack, DequeueLocals
<1>12. CASE AllocReturn(t)
  BY <1>1, <1>12 DEF AllocReturn, DequeueLocals
<1> QED BY <1>3, <1>4, <1>5, <1>6, <1>7, <1>8, <1>9, <1>10, <1>11, <1>12 DEF AllocStep

(* alloc_from_new_sb has nothing to do with the queue.                     *)
LEMMA NewSbStepDequeues ==
  ASSUME NEW t \in Thread, TypeInv, DequeueLocals(t), NewSbStep(t)
  PROVE  DequeueLocals(t)'
<1> USE DEF InDequeue, EnqLabels, NoEnq, NoDeq, NoHaz, DescRetire, FreeOrQueue
<1>1. /\ pc \in [Thread -> Label] /\ haz \in [Thread -> Haz]
  BY DEF TypeInv, TypeOK, ThreadTypeOK
<1>2. /\ UNCHANGED <<deq, enq>>
      /\ pc[t] \in {"avail_peek", "avail_pop", "avail_batch", "new_sb", "new_publish"}
  BY DEF NewSbStep, DescAllocPeek, DescAllocPop, DescAllocBatch, AllocNewSb, AllocPublishSb
<1>3. /\ pc'[t] \in {"avail_peek", "avail_pop", "avail_batch", "new_sb", "new_publish",
                  "alloc_done", "fq_try"}
      /\ haz'[t].ret \in {haz[t].ret, "alloc_active"}
  BY <1>1 DEF DescAllocPeek, DescAllocPop, DescAllocBatch, AllocNewSb, AllocPublishSb, NewSbStep
<1> QED BY <1>2, <1>3 DEF DequeueLocals

(* A free calls dequeue in list_remove_empty_desc and uses up its result.  *)
LEMMA FreeStepDequeues ==
  ASSUME NEW t \in Thread, TypeInv, DequeueLocals(t), FreeStep(t)
  PROVE  DequeueLocals(t)'
<1> USE DEF InDequeue, EnqLabels, NoEnq, NoDeq, NoHaz, NoOp, CallDequeue, DescRetire,
   ListPutPartial, FreeOrQueue, Op
<1>1. /\ pc \in [Thread -> Label] /\ op \in [Thread -> Op] /\ deq \in [Thread -> Deq]
      /\ enq \in [Thread -> Enq] /\ haz \in [Thread -> Haz]
      /\ FreeFrame(t) /\ NULL \notin Desc
  BY NodeAssumption DEF TypeInv, TypeOK, ThreadTypeOK, Frames, Node
<1>2. CASE FreeBegin(t)
  BY <1>1, <1>2 DEF FreeBegin, DequeueLocals
<1>3. CASE FreeReadAnchor(t)
  BY <1>1, <1>3 DEF FreeReadAnchor, DequeueLocals
<1>4. CASE FreeSetAnchor(t)
  BY <1>1, <1>4 DEF FreeSetAnchor, DequeueLocals
<1>5. CASE FreeSteal(t)
  BY <1>1, <1>5 DEF FreeSteal, DequeueLocals
<1>6. CASE FreeRetire(t)
  BY <1>1, <1>6 DEF FreeRetire, DequeueLocals
<1>7. CASE FreeGiveBack(t)
  BY <1>1, <1>7 DEF FreeGiveBack, DequeueLocals
<1>8. CASE RemoveEmptyGot(t)
  BY <1>1, <1>8 DEF RemoveEmptyGot, DequeueLocals, FreeFrame, InFree, FreeFunc
<1>9. CASE RemoveEmptyAgain(t)
  BY <1>1, <1>9 DEF RemoveEmptyAgain, DequeueLocals
<1> QED BY <1>2, <1>3, <1>4, <1>5, <1>6, <1>7, <1>8, <1>9 DEF FreeStep

(* A dequeue returns to its caller, and with a descriptor only as it       *)
(* returns.                                                                *)
LEMMA QueueStepDequeues ==
  ASSUME NEW t \in Thread, TypeInv, DequeueLocals(t), QueueStep(t)
  PROVE  DequeueLocals(t)'
<1> USE DEF InDequeue, EnqLabels, NoEnq, CallEnqueue, DequeueReturn, NoDummyToEnqueue,
   FreeOrQueue
<1>1. /\ pc \in [Thread -> Label] /\ deq \in [Thread -> Deq]
      /\ enq \in [Thread -> Enq] /\ haz \in [Thread -> Haz]
      /\ QueueFrame(t) /\ FreeFrame(t) /\ NULL \notin Desc /\ Desc \cap Dummy = {}
  BY NodeAssumption DEF TypeInv, TypeOK, ThreadTypeOK, Frames, Node
<1>2. /\ deq[t].ret \in {"idle", "alloc_partial", "rm_got"}
      /\ enq[t].ret \in {"idle", "deq_head", "fq_done"}
  BY <1>1 DEF Deq, Enq
<1>3. CASE DequeueReadHead(t)
  BY <1>1, <1>3 DEF DequeueReadHead, DequeueLocals
<1>4. CASE DequeueTry(t)
  <2>1. /\ UNCHANGED <<enq, haz>> /\ pc[t] = "deq_try" /\ enq[t] = NoEnq
        /\ deq[t].ret \in {"alloc_partial", "rm_got"} /\ deq[t].res \notin Desc
    BY <1>2, <1>4 DEF DequeueTry, DequeueLocals
  <2>2. deq' = deq \/ \E n : deq' = [deq EXCEPT ![t].res = n]
    BY <1>4 DEF DequeueTry
  <2>3. deq'[t].ret = deq[t].ret
    BY <1>1, <2>2 DEF Deq
  <2>4. pc'[t] \in {"deq_head", "reenq_pick", "deq_dummy"} \/ pc'[t] = deq[t].ret
    BY <1>1, <1>4 DEF DequeueTry
  <2>5. deq'[t].res \in Desc => pc'[t] = deq[t].ret
    <3>1. CASE deq' = deq
      BY <2>1, <3>1
    <3>2. CASE hp[t][0] \in Dummy /\ deq' = [deq EXCEPT ![t].res = hp[t][0]]
      BY <1>1, <3>2
    <3>3. CASE pc'[t] = deq[t].ret
      BY <3>3
    <3> QED BY <1>1, <1>4, <3>1, <3>2, <3>3 DEF DequeueTry
  <2> QED BY <2>1, <2>3, <2>4, <2>5 DEF DequeueLocals
<1>5. CASE DequeueDummy(t)
  BY <1>1, <1>5 DEF DequeueDummy, DequeueLocals, Deq
<1>6. CASE ReenqueuePickDummy(t)
  BY <1>1, <1>2, <1>6 DEF ReenqueuePickDummy, DequeueLocals, Deq
<1>7. CASE ReenqueueClaim(t)
  BY <1>1, <1>2, <1>7 DEF ReenqueueClaim, DequeueLocals, Deq
<1>8. CASE EnqueueStart(t)
  BY <1>1, <1>8 DEF EnqueueStart, DequeueLocals
<1>9. CASE EnqueueReadTail(t)
  BY <1>1, <1>9 DEF EnqueueReadTail, DequeueLocals
<1>10. CASE EnqueueLink(t)
  BY <1>1, <1>2, <1>10 DEF EnqueueLink, DequeueLocals
<1> QED BY <1>3, <1>4, <1>5, <1>6, <1>7, <1>8, <1>9, <1>10 DEF QueueStep

(* The hazardous free enqueues for desc_put_partial and returns to dequeue *)
(* after a dummy.                                                          *)
LEMMA HazardStepDequeues ==
  ASSUME NEW t \in Thread, TypeInv, DequeueLocals(t), HazardStep(t)
  PROVE  DequeueLocals(t)'
<1> USE DEF InDequeue, EnqLabels, NoEnq, NoHaz, CallEnqueue
<1>1. /\ pc \in [Thread -> Label] /\ enq \in [Thread -> Enq] /\ haz \in [Thread -> Haz]
      /\ FreeFrame(t) /\ NULL \notin Desc
  BY NodeAssumption DEF TypeInv, TypeOK, ThreadTypeOK, Frames, Node
<1>2. haz[t].ret \in HazReturn /\ haz[t].tries \in Int /\ FreeAttempts \in Nat
  BY <1>1, FreeAttemptsAssumption DEF Haz
<1>3. NextItem(t) => \/ pc'[t] = haz[t].ret /\ haz'[t] = NoHaz
                     \/ pc'[t] = "fq_try" /\ haz'[t].ret = haz[t].ret
  BY <1>1 DEF NextItem, Haz
<1>4. CASE FreePop(t)
  BY <1>1, <1>4, FreePopFields DEF FreePop, DequeueLocals
<1>5. CASE FreeCheck(t)
  <2>1. UNCHANGED <<deq, enq>> /\ pc[t] = "fq_check"
    BY <1>5 DEF FreeCheck
  <2>2. NextItem(t) \/ (haz' = haz /\ pc'[t] \in FreeFunc)
    <3>1. haz[t].item.fn \in FreeFunc
      BY <1>1, <1>5 DEF FreeCheck, FreeFrame, Item, FreeFunc
    <3> QED BY <1>1, <1>5, <3>1 DEF FreeCheck
  <2> QED BY <1>2, <1>3, <2>1, <2>2 DEF DequeueLocals, FreeFunc, HazReturn
<1>6. CASE FreeDone(t) \/ FreeDummy(t) \/ DescEnqueueAvail(t)
  BY <1>2, <1>3, <1>6 DEF FreeDone, FreeDummy, DescEnqueueAvail, DequeueLocals, FreeFunc, HazReturn
<1>7. CASE DescPutPartial(t)
  BY <1>1, <1>7 DEF DescPutPartial, DequeueLocals
<1> QED BY <1>4, <1>5, <1>6, <1>7 DEF HazardStep

-----------------------------------------------------------------------------
(* The invariant behind the assertions.                                    *)
AssertInv == SlotsInv /\ DummyInv /\ NextInv /\ \A t \in Thread : DequeueLocals(t)

(* It holds at the start: the only node in the queue is a dummy, the       *)
(* others are ready, and no descriptor has been acquired.                  *)
LEMMA AssertInit == Init => AssertInv
<1> SUFFICES ASSUME Init PROVE AssertInv
  OBVIOUS
<1>1. SlotsInv /\ DummyInv
  BY SlotsInit, DummyInit
<1>2. PICK m \in Dummy :
        /\ queue = <<m>>
        /\ next = [n \in Node |->
                     CASE n = m -> "LINKED" [] n \in Dummy \ {m} -> "FREE" [] OTHER -> "NULL"]
        /\ dummy_in_use = [n \in Dummy |-> n = m]
  BY DEF Init
<1>3. /\ batches = 0 /\ NULL \notin Node
      /\ \A t \in Thread : pc[t] = "idle" /\ deq[t] = NoDeq /\ enq[t] = NoEnq /\ haz[t] = NoHaz
  BY NodeAssumption DEF Init
<1>4. \A t \in Thread : DequeueLocals(t)
  BY <1>3 DEF DequeueLocals, InDequeue, NoDeq, NoEnq, NoHaz, Node
<1>5. \A n : Linked(n) <=> n = m
  <2>1. \A n : InSequence(n, queue) <=> n = m
    BY <1>2 DEF InSequence
  <2> QED BY <1>3, <2>1 DEF Linked, Links
<1>6. \A n : Ready(n) <=> n \in Dummy \ {m}
  BY <1>2, <1>3 DEF Ready, Starts, Picked
<1>7. Acquired = {}
  BY <1>3 DEF Acquired
<1>8. NextInv
  BY <1>2, <1>5, <1>6, <1>7 DEF NextInv, NextOf, Node
<1> QED BY <1>1, <1>4, <1>8 DEF AssertInv

(* A stuttering step keeps it ...                                          *)
LEMMA AssertStutter ==
  ASSUME AssertInv, UNCHANGED vars
  PROVE  AssertInv'
<1>1. UNCHANGED <<sharedVars, pc, frameVars, aborted>>
  BY DEF vars
<1>2. SlotsInv' /\ DummyInv'
  <2>1. SlotsInv /\ OwnershipInv /\ DummyInv /\ [Next]_vars
    BY DEF AssertInv, SlotsInv
  <2> QED BY <2>1, SlotsStep, DummyStep
<1>3. NextInv'
  BY <1>1 DEF Acquired, Linked, Links, Ready, Starts, Picked, InSequence, AssertInv, NextInv, NextOf
<1>4. \A t \in Thread : DequeueLocals(t)'
  BY <1>1 DEF AssertInv, DequeueLocals, InDequeue
<1> QED BY <1>2, <1>3, <1>4 DEF AssertInv

(* ... and so does every step.                                             *)
LEMMA AssertStep == AssertInv /\ [Next]_vars => AssertInv'
<1> SUFFICES ASSUME AssertInv, [Next]_vars PROVE AssertInv'
  OBVIOUS
<1>1. CASE UNCHANGED vars
  BY <1>1, AssertStutter
<1>2. ASSUME NEW t \in Thread, Step(t) PROVE AssertInv'
  <2>1. /\ SlotsInv /\ OwnershipInv /\ DummyInv /\ TypeInv /\ OwnInv /\ NextInv
        /\ \A u \in Thread : DequeueLocals(u)
    BY DEF AssertInv, SlotsInv, OwnershipInv
  <2>2. SlotsInv' /\ DummyInv'
    BY <2>1, SlotsStep, DummyStep
  <2>3. \A u \in Thread \ {t} : SameLocals(u)
    BY <1>2, <2>1, StepLocals
  <2>4. NextInv'
    BY <1>2, <2>1, <2>3, AllocStepLinks, NewSbStepLinks, FreeStepLinks, QueueStepLinks,
       HazardStepLinks DEF Step
  <2>5. DequeueLocals(t)'
    BY <1>2, <2>1, AllocStepDequeues, NewSbStepDequeues, FreeStepDequeues, QueueStepDequeues,
       HazardStepDequeues DEF Step
  <2>6. \A u \in Thread : DequeueLocals(u)'
    BY <2>1, <2>3, <2>5, OtherDequeues
  <2> QED BY <2>2, <2>4, <2>6 DEF AssertInv
<1> QED BY <1>1, <1>2 DEF Next

(* A superblock in somebody's hands is in use and not FULL.                *)
LEMMA ServingNotFull ==
  ASSUME SlotsInv, NEW d \in Desc, NEW t \in Thread, ServesHand(d, t)
  PROVE  /\ in_use[d] /\ anchor[d].state # "FULL" /\ ChainOK(d)
         /\ anchor[d].state # "EMPTY" => anchor[d].state = "PARTIAL" /\ anchor[d].count > 0
  BY ServesHolds DEF SlotsInv, InUseInv, HandUse, SlotInv, Chains, OwnershipInv, OwnInv, Unlisted,
    FullInUse, Nowhere, ChainOK, StateOf

(* An item has no other place, so its link has been invalidated.           *)
LEMMA ItemIsInvalid ==
  ASSUME OwnInv, NextInv, NEW n \in Node, NEW t \in Thread, n \in Dummy \cup Acquired,
         "item" \in Holds(n, t)
  PROVE  next[n] = "INVALID"
<1>1. /\ \A p \in HeapPlaces(n) \cup Holds(n, t) : p = "item"
      /\ \A u \in Thread \ {t} : Holds(n, u) = {}
  BY DEF OwnInv, Unique, Near
<1>2. ~InSequence(n, queue)
  BY <1>1 DEF HeapPlaces
<1>3. \A u \in Thread : enq[u].node # n /\ deq[u].res # n
  BY <1>1 DEF Holds
<1>4. n \in Dummy => dummy_in_use[n]
  BY NotAtRest DEF Near
<1>5. ~Linked(n) /\ ~Ready(n)
  BY <1>2, <1>3, <1>4 DEF Linked, Links, Ready, Starts, Picked
<1> QED BY <1>5 DEF NextInv, NextOf

(* What each assertion follows from.                                       *)
LEMMA AssertInvImpliesAsserts == AssertInv => GAsserts
<1> SUFFICES ASSUME AssertInv, NEW t \in Thread,
                    NEW d, d = op[t].desc, NEW n, n = haz[t].item.p, NEW got, got = deq[t].res
             PROVE  /\ pc[t] = "new_sb" => ~in_use[d]
                    /\ pc[t] = "desc_enqueue_avail" => anchor[n].state = "EMPTY" /\ ~in_use[n]
                    /\ pc[t] \in {"alloc_partial", "rm_got"} /\ got # NULL => in_use[got]
                    /\ pc[t] = "alloc_anchor" =>
                         CASE anchor[d].state = "EMPTY" -> in_use[d]
                           [] OTHER -> anchor[d].state = "PARTIAL" /\ anchor[d].count > 0
                    /\ pc[t] = "alloc_cas" => op[t].nxt \in Slot
                    /\ pc[t] \in {"alloc_giveback", "free_giveback"} => anchor[d].state # "FULL"
                    /\ pc[t] = "free_cas" => op[t].old.state # "EMPTY"
                    /\ pc[t] = "desc_put_partial" =>
                         anchor[n].state # "FULL" /\ next[n] = "INVALID"
                    /\ pc[t] = "free_dummy" => next[n] = "INVALID" /\ dummy_in_use[n]
                    /\ pc[t] = "enq_start" => next[enq[t].node] = "FREE"
                    /\ pc[t] \in {"enq_link", "deq_try"} /\ InSequence(hp[t][0], queue) =>
                         next[hp[t][0]] = "LINKED"
                    /\ pc[t] = "deq_dummy" => has_dummy
  BY DEF GAsserts
<1>1. /\ SlotsInv /\ OwnershipInv /\ DummyInv /\ NextInv /\ OwnInv /\ InUseInv /\ SlotInv
      /\ OpFrame(t) /\ QueueFrame(t) /\ FreeFrame(t) /\ FreeUsed(t)
  BY DEF AssertInv, SlotsInv, OwnershipInv, TypeInv, Frames, UsedInv, UsedLocals
<1>2. \A e \in Desc : HandUse(e, t)
  BY <1>1 DEF InUseInv
<1>3. pc[t] = "new_sb" => ~in_use[d]
  BY <1>1, <1>2 DEF OpFrame, OwnerLabels, HandUse, RetiredHand
<1>4. ASSUME pc[t] = "desc_enqueue_avail" PROVE anchor[n].state = "EMPTY" /\ ~in_use[n]
  BY <1>1, <1>2, <1>4, NodeAssumption DEF FreeFrame, FreeFunc, Item, Avail, HandUse, RetiredHand,
    HasItem, FreeUsed, Used
<1>5. pc[t] \in {"alloc_partial", "rm_got"} /\ got # NULL => in_use[got]
  BY <1>1, <1>2 DEF QueueFrame, HandUse, ServesHand
<1>6. ASSUME pc[t] = "alloc_anchor"
      PROVE  CASE anchor[d].state = "EMPTY" -> in_use[d]
               [] OTHER -> anchor[d].state = "PARTIAL" /\ anchor[d].count > 0
  <2>1. d \in Desc /\ ServesHand(d, t)
    BY <1>1, <1>6 DEF OpFrame, OwnerLabels, ServesHand
  <2> QED BY <1>1, <2>1, ServingNotFull
<1>7. ASSUME pc[t] = "alloc_cas" PROVE op[t].nxt \in Slot
  BY <1>1, <1>7, ServingNotFull DEF OpFrame, OwnerLabels, ServesHand, SlotInv, SlotLocals,
    AllocSlots, OutOf, ChainOK
<1>8. ASSUME pc[t] \in {"alloc_giveback", "free_giveback"} PROVE anchor[d].state # "FULL"
  <2>1. d \in Desc /\ ServesHand(d, t)
    BY <1>1, <1>8 DEF OpFrame, OwnerLabels, ServesHand
  <2> QED BY <1>1, <2>1, ServingNotFull
<1>9. pc[t] = "free_cas" => op[t].old.state # "EMPTY"
  BY <1>1 DEF SlotInv, SlotLocals, FreeSlots
<1>10. ASSUME pc[t] = "desc_put_partial" PROVE anchor[n].state # "FULL" /\ next[n] = "INVALID"
  BY <1>1, <1>10, ServingNotFull, ItemIsInvalid DEF FreeFrame, FreeFunc, Item, Put, Node,
    ServesHand, HasItem, Holds, OwnInv, Unlisted, Nowhere
<1>11. ASSUME pc[t] = "free_dummy" PROVE next[n] = "INVALID" /\ dummy_in_use[n]
  BY <1>1, <1>11, ItemIsInvalid, NotAtRest DEF FreeFrame, FreeFunc, Item, Node, Holds, Near
<1>12. pc[t] = "enq_start" => next[enq[t].node] = "FREE"
  BY <1>1 DEF QueueFrame, EnqLabels, NextInv, NextOf, Ready, Starts
<1>13. ASSUME pc[t] \in {"enq_link", "deq_try"}, InSequence(hp[t][0], queue)
       PROVE  next[hp[t][0]] = "LINKED"
  BY <1>1, <1>13 DEF QueueFrame, NextInv, NextOf, Linked
<1>14. pc[t] = "deq_dummy" => has_dummy
  BY <1>1 DEF QueueFrame, DummyInv, Current, Carries
<1> QED BY <1>3, <1>4, <1>5, <1>6, <1>7, <1>8, <1>9, <1>10, <1>11, <1>12, <1>13, <1>14

(* Every assertion of lock-free-alloc.c and lock-free-queue.c holds when   *)
(* it is evaluated, whatever the numbers of threads, descriptors, dummies  *)
(* and slots, but for the one of desc_retire that the run retire_aba       *)
(* refutes.                                                                *)
THEOREM AssertsAlwaysHold == Spec => []GAsserts
<1>1. Init => AssertInv
  BY AssertInit
<1>2. AssertInv /\ [Next]_vars => AssertInv'
  BY AssertStep
<1>3. AssertInv => GAsserts
  BY AssertInvImpliesAsserts
<1> QED BY <1>1, <1>2, <1>3, PTL DEF Spec

-----------------------------------------------------------------------------
(* No descriptor is lost.  A step takes a descriptor from no place without *)
(* giving it another, unless it makes it FULL, and a FULL descriptor stays *)
(* so until its next free has it in hand.                                  *)

(* Descriptor d is in one of the heap's structures, or in thread t's hand. *)
HeapHas(d) ==
  active = d \/ InSequence(d, queue) \/ InSequence(d, desc_avail) \/ \E x \in delayed : x.p = d
HasSelf(d, t) == haz[t].self # NULL /\ haz[t].tries <= FreeAttempts /\ haz[t].self.p = d
FreesItem(d, t) == pc[t] \in FreeFunc \cup {"fq_check"} /\ haz[t].item.p = d
HandHas(d, t) ==
  \/ pc[t] \in OwnerLabels /\ op[t].desc = d
  \/ deq[t].res = d \/ enq[t].node = d \/ HasSelf(d, t) \/ FreesItem(d, t)

(* The same in terms of the places of a node.                              *)
LEMMA NearHas ==
  ASSUME NEW d, NEW t \in Thread
  PROVE  /\ HeapPlaces(d) # {} <=> HeapHas(d)
         /\ Holds(d, t) # {} <=> HandHas(d, t)
BY DEF HeapPlaces, Holds, HeapHas, HandHas, HasSelf, FreesItem

AccountInv == \A d \in Acquired : FullInUse(d) \/ ~Nowhere(d)

(* What a step of thread t must do.                                        *)
KeepsPlaces(t) ==
  \A d \in Desc : HeapHas(d) \/ HandHas(d, t) =>
    HeapHas(d)' \/ HandHas(d, t)' \/ FullInUse(d)'
KeepsFull(t) == \A d \in Desc : FullInUse(d) => FullInUse(d)' \/ HandHas(d, t)'
PlacesNew(t) == \A d \in Acquired' \ Acquired : HeapHas(d)' \/ HandHas(d, t)'

(* These three suffice: a descriptor of another thread stays where it is.  *)
LEMMA AccountKept ==
  ASSUME NEW t \in Thread, \A u \in Thread \ {t} : SameLocals(u), AccountInv,
         KeepsPlaces(t), KeepsFull(t), PlacesNew(t)
  PROVE  AccountInv'
<1> SUFFICES ASSUME NEW d \in Desc, d \in Acquired' PROVE FullInUse(d)' \/ ~Nowhere(d)'
  BY DEF AccountInv, Acquired
<1>1. HeapHas(d)' \/ HandHas(d, t)' => ~Nowhere(d)'
  BY DEF HeapPlaces, Holds, HeapHas, HandHas, HasSelf, FreesItem, Nowhere
<1>2. CASE d \notin Acquired \/ FullInUse(d)
  BY <1>1, <1>2 DEF PlacesNew, KeepsFull
<1>3. CASE ~Nowhere(d)
  <2>1. CASE \E u \in Thread \ {t} : Holds(d, u) # {}
    BY <2>1, HoldsOther DEF Nowhere
  <2>2. CASE HeapPlaces(d) # {} \/ Holds(d, t) # {}
    <3>1. HeapHas(d) \/ HandHas(d, t)
      BY <2>2, NearHas
    <3> QED BY <1>1, <3>1 DEF KeepsPlaces
  <2> QED BY <1>3, <2>1, <2>2 DEF Nowhere
<1> QED BY <1>2, <1>3 DEF AccountInv

(* A step that leaves the heap's structures alone.                         *)
LEMMA HandsKeep ==
  ASSUME NEW t \in Thread, UNCHANGED <<active, queue, desc_avail, delayed>>,
         \A d \in Desc : HandHas(d, t) => HandHas(d, t)' \/ FullInUse(d)'
  PROVE  KeepsPlaces(t)
BY DEF KeepsPlaces, HeapHas, InSequence

(* A step of an allocation or a free that keeps hold of its descriptor.    *)
LEMMA OpKeeps ==
  ASSUME NEW t \in Thread, UNCHANGED <<active, queue, desc_avail, delayed, deq, enq, haz>>,
         pc[t] \in OwnerLabels => pc'[t] \in OwnerLabels /\ op'[t].desc = op[t].desc,
         pc[t] \notin FreeFunc \cup {"fq_check"}
  PROVE  KeepsPlaces(t)
<1> \A d \in Desc : HandHas(d, t) => HandHas(d, t)'
  BY DEF HandHas, HasSelf, FreesItem
<1> QED BY HandsKeep

(* The hazardous free takes the node it is called for.                     *)
LEMMA FreeOrQueueHas ==
  ASSUME NEW t \in Thread, NEW d \in Desc, haz \in [Thread -> Haz], NEW r,
         NEW fn \in {"desc_enqueue_avail", "desc_put_partial"}, FreeOrQueue(t, d, fn, r)
  PROVE  HasSelf(d, t)'
  BY NodeAssumption, FreeAttemptsAssumption DEF Item, FreeOrQueue, HasSelf

(* An allocation that lets go of its descriptor retires it, gives it back, *)
(* or has taken its last slot: then it is FULL.                            *)
LEMMA AllocStepKeeps ==
  ASSUME NEW t \in Thread, TypeInv, OwnInv, OpUsed(t), InUseInv, DequeueLocals(t), AllocStep(t)
  PROVE  KeepsPlaces(t)
<1>1. /\ pc \in [Thread -> Label] /\ op \in [Thread -> Op] /\ deq \in [Thread -> Deq]
      /\ haz \in [Thread -> Haz] /\ anchor \in [Desc -> Anchor]
      /\ OpFrame(t) /\ FreeFrame(t) /\ QueueFrame(t) /\ NULL \notin Desc
      /\ active \in Desc \cup {NULL}
      /\ \A d \in Desc : HandUse(d, t)
  BY NodeAssumption DEF TypeInv, TypeOK, ThreadTypeOK, HeapTypeOK, Frames, Node, InUseInv
<1>2. pc[t] \notin {"alloc_partial", "rm_got"} => deq[t].res \notin Desc
  BY DEF DequeueLocals
<1>3. haz[t] = NoHaz /\ pc[t] \notin FreeFunc \cup {"fq_check"}
  BY <1>1 DEF AllocStep, AllocBegin, AllocReadActive, AllocTakeActive, AllocGotPartial,
     AllocDequeueAgain, AllocReadAnchor, AllocReadNext, AllocSetAnchor, AllocGiveBack, AllocReturn,
     FreeFrame, InFree, EnqLabels, FreeFunc
<1>4. \A d \in Desc : HandHas(d, t) <=> \/ pc[t] \in OwnerLabels /\ op[t].desc = d
                                        \/ deq[t].res = d \/ enq[t].node = d
  BY <1>3 DEF HandHas, HasSelf, FreesItem, NoHaz
<1>5. \A d \in Desc : \/ pc'[t] \in OwnerLabels /\ op'[t].desc = d
                      \/ deq'[t].res = d \/ enq'[t].node = d \/ HasSelf(d, t)'
                      => HandHas(d, t)'
  BY DEF HandHas
<1>6. CASE AllocBegin(t)
  BY <1>1, <1>3, <1>6, OpKeeps DEF AllocBegin, OwnerLabels
<1>7. CASE AllocReadActive(t)
  BY <1>2, <1>4, <1>5, <1>7, HandsKeep DEF AllocReadActive, OwnerLabels
<1>8. CASE AllocTakeActive(t)
  BY <1>1, <1>4, <1>5, <1>8 DEF AllocTakeActive, ActiveIs, OwnerLabels, HeapHas, InSequence,
    KeepsPlaces
<1>9. CASE AllocGotPartial(t)
  <2>1. UNCHANGED <<active, queue, desc_avail, delayed, enq>> /\ pc[t] = "alloc_partial"
    BY <1>9 DEF AllocGotPartial
  <2>2. ASSUME NEW d \in Desc, deq[t].res = d PROVE HandHas(d, t)'
    <3>1. CASE anchor[d].state = "EMPTY"
      BY <1>1, <1>5, <1>9, <2>2, <3>1, FreeOrQueueHas DEF AllocGotPartial, DescRetire
    <3>2. CASE anchor[d].state # "EMPTY"
      <4>1. op'[t].desc = d /\ pc'[t] = "alloc_anchor"
        BY <1>1, <1>9, <2>2, <3>2 DEF AllocGotPartial, Op
      <4> QED BY <1>5, <4>1 DEF OwnerLabels
    <3> QED BY <3>1, <3>2
  <2>3. \A d \in Desc : HandHas(d, t) => HandHas(d, t)'
    BY <1>4, <1>5, <2>1, <2>2 DEF OwnerLabels
  <2> QED BY <2>1, <2>3, HandsKeep
<1>10. CASE AllocDequeueAgain(t)
  BY <1>2, <1>4, <1>5, <1>10, HandsKeep DEF AllocDequeueAgain, OwnerLabels
<1>11. CASE AllocReadAnchor(t)
  <2>1. /\ UNCHANGED <<active, queue, desc_avail, delayed, deq, enq>> /\ pc[t] = "alloc_anchor"
        /\ op[t].desc \in Desc
    BY <1>1, <1>11 DEF AllocReadAnchor, OpFrame, OwnerLabels
  <2>2. ASSUME NEW d \in Desc, op[t].desc = d PROVE HandHas(d, t)'
    <3>1. CASE anchor[d].state = "EMPTY"
      BY <1>1, <1>5, <1>11, <2>2, <3>1, FreeOrQueueHas DEF AllocReadAnchor, DescRetire
    <3>2. CASE anchor[d].state # "EMPTY"
      <4>1. op'[t].desc = d /\ pc'[t] = "alloc_next"
        BY <1>1, <1>11, <2>2, <3>2 DEF AllocReadAnchor, Op
      <4> QED BY <1>5, <4>1 DEF OwnerLabels
    <3> QED BY <3>1, <3>2
  <2>3. \A d \in Desc : HandHas(d, t) => HandHas(d, t)'
    BY <1>4, <1>5, <2>1, <2>2
  <2> QED BY <2>1, <2>3, HandsKeep
<1>12. CASE AllocReadNext(t)
  BY <1>1, <1>3, <1>12, OpKeeps DEF AllocReadNext, OwnerLabels, Op
<1>13. CASE AllocSetAnchor(t)
  <2>1. PICK d \in Desc : d = op[t].desc
    BY <1>1, <1>13 DEF AllocSetAnchor, OpFrame, OwnerLabels
  <2>2. /\ UNCHANGED <<active, queue, desc_avail, delayed, deq, enq, in_use>> /\ pc[t] = "alloc_cas"
        /\ op'[t].desc = d
    BY <1>1, <1>13, <2>1 DEF AllocSetAnchor, Op
  <2>3. in_use[d]
    BY <1>1, <2>1, <2>2 DEF HandUse, ServesHand, OwnerLabels
  <2>4. pc'[t] \in {"alloc_giveback", "alloc_anchor"} \/ FullInUse(d)'
    BY <1>1, <1>13, <2>1, <2>2, <2>3 DEF OpFrame, OpUsed, Anchor, State, AllocSetAnchor,
      AllocatedAnchor, FullInUse
  <2>5. \A e \in Desc : HandHas(e, t) => HandHas(e, t)' \/ FullInUse(e)'
    BY <1>4, <1>5, <2>1, <2>2, <2>4 DEF OwnerLabels
  <2> QED BY <2>2, <2>5, HandsKeep
<1>14. CASE AllocGiveBack(t)
  BY <1>1, <1>4, <1>5, <1>14, FreeOrQueueHas DEF AllocGiveBack, OpFrame, OwnerLabels, ActiveIs,
    ListPutPartial, HeapHas, InSequence, KeepsPlaces
<1>15. CASE AllocReturn(t)
  BY <1>1, <1>3, <1>15, OpKeeps DEF AllocReturn, OwnerLabels
<1> QED BY <1>6, <1>7, <1>8, <1>9, <1>10, <1>11, <1>12, <1>13, <1>14, <1>15 DEF AllocStep

(* A new superblock comes from the available list or a fresh batch and     *)
(* becomes active or is retired.                                           *)
LEMMA NewSbStepKeeps ==
  ASSUME NEW t \in Thread, TypeInv, OwnInv, DequeueLocals(t), NewSbStep(t)
  PROVE  KeepsPlaces(t) /\ PlacesNew(t)
<1>1. /\ pc \in [Thread -> Label] /\ op \in [Thread -> Op] /\ haz \in [Thread -> Haz]
      /\ OpFrame(t) /\ FreeFrame(t) /\ QueueFrame(t) /\ NULL \notin Desc
      /\ active \in Desc \cup {NULL} /\ desc_avail \in Seq(Desc) /\ batches \in Nat
  BY NodeAssumption, BatchesAssumption DEF TypeInv, TypeOK, ThreadTypeOK, HeapTypeOK, ServiceTypeOK,
     Frames, Node
<1>2. haz[t] = NoHaz /\ pc[t] \notin FreeFunc \cup {"fq_check"} /\ UNCHANGED <<deq, enq>>
  BY <1>1 DEF NewSbStep, DescAllocPeek, DescAllocPop, DescAllocBatch, AllocNewSb, AllocPublishSb,
     FreeFrame, InFree, EnqLabels, FreeFunc
<1>3. \A d \in Desc : HandHas(d, t) <=> \/ pc[t] \in OwnerLabels /\ op[t].desc = d
                                        \/ deq[t].res = d \/ enq[t].node = d
  BY <1>2 DEF HandHas, HasSelf, FreesItem, NoHaz
<1>4. \A d \in Desc : \/ pc'[t] \in OwnerLabels /\ op'[t].desc = d
                      \/ deq'[t].res = d \/ enq'[t].node = d \/ HasSelf(d, t)'
                      => HandHas(d, t)'
  BY DEF HandHas
<1>5. batches' = batches => PlacesNew(t)
  BY DEF PlacesNew, Acquired
<1>6. CASE DescAllocPeek(t)
  BY <1>2, <1>5, <1>6, OpKeeps DEF DescAllocPeek, OwnerLabels
<1>7. CASE DescAllocPop(t)
  <2>1. UNCHANGED <<active, queue, delayed, batches>> /\ pc[t] = "avail_pop"
    BY <1>7 DEF DescAllocPop
  <2>2. \A d \in Desc : HandHas(d, t) => HandHas(d, t)'
    BY <1>2, <1>3, <1>4, <2>1 DEF OwnerLabels
  <2>3. CASE desc_avail # <<>> /\ Head(desc_avail) = hp[t][1]
    <3>1. /\ desc_avail' = Tail(desc_avail) /\ pc'[t] = "new_sb"
          /\ op'[t].desc = Head(desc_avail)
      BY <1>1, <1>7, <2>3 DEF DescAllocPop, Op
    <3>2. \A d \in Desc : InSequence(d, desc_avail) =>
                          d = Head(desc_avail) \/ InSequence(d, Tail(desc_avail))
      BY <1>1, <2>3, HeadOrTail
    <3>3. \A d \in Desc : HeapHas(d) => HeapHas(d)' \/ HandHas(d, t)'
      BY <1>4, <2>1, <3>1, <3>2 DEF HeapHas, InSequence, OwnerLabels
    <3> QED BY <1>5, <2>1, <2>2, <3>3 DEF KeepsPlaces
  <2>4. CASE ~(desc_avail # <<>> /\ Head(desc_avail) = hp[t][1])
    <3>1. UNCHANGED desc_avail
      BY <1>7, <2>4 DEF DescAllocPop
    <3> QED BY <1>5, <2>1, <2>2, <3>1, HandsKeep
  <2> QED BY <2>3, <2>4
<1>8. CASE DescAllocBatch(t) /\ batches' = batches
  BY <1>1, <1>2, <1>5, <1>8, OpKeeps DEF DescAllocBatch, OwnerLabels
<1>9. CASE DescAllocBatch(t) /\ batches' # batches
  <2>1. PICK b : b = Batches[batches + 1]
    OBVIOUS
  <2>2. /\ batches < Len(Batches) /\ batches' = batches + 1 /\ desc_avail = <<>>
        /\ desc_avail' = Tail(b) /\ op' = [op EXCEPT ![t].desc = Head(b)]
        /\ pc[t] = "avail_batch" /\ pc'[t] = "new_sb" /\ UNCHANGED <<active, queue, delayed>>
    BY <1>1, <1>9, <2>1 DEF DescAllocBatch
  <2>3. /\ b \in Seq(Desc) /\ b # <<>>
        /\ \A m : InSequence(m, b) => m \in Desc /\ m \notin Acquired
    BY <2>1, <2>2, FreshBatch
  <2>4. op'[t].desc = Head(b)
    BY <1>1, <2>2 DEF Op
  <2>5. ASSUME NEW d \in Desc, InSequence(d, b) PROVE HeapHas(d)' \/ HandHas(d, t)'
    <3>1. d = Head(b) \/ InSequence(d, Tail(b))
      BY <2>3, <2>5, HeadOrTail
    <3>2. d = Head(b) => HandHas(d, t)'
      BY <1>4, <2>2, <2>4 DEF OwnerLabels
    <3>3. InSequence(d, Tail(b)) => HeapHas(d)'
      BY <2>2 DEF HeapHas, InSequence
    <3> QED BY <3>1, <3>2, <3>3
  <2>6. PlacesNew(t)
    BY <1>1, <2>1, <2>2, <2>5 DEF PlacesNew, Acquired
  <2>7. \A d \in Desc : HandHas(d, t) => HandHas(d, t)'
    BY <1>2, <1>3, <1>4, <2>2 DEF OwnerLabels
  <2>8. \A d \in Desc : HeapHas(d) => HeapHas(d)'
    BY <2>2 DEF HeapHas, InSequence
  <2> QED BY <2>6, <2>7, <2>8 DEF KeepsPlaces
<1>10. CASE AllocNewSb(t)
  BY <1>1, <1>2, <1>5, <1>10, OpKeeps DEF AllocNewSb, Op, OwnerLabels
<1>11. CASE AllocPublishSb(t)
  BY <1>1, <1>2, <1>3, <1>4, <1>5, <1>11, FreeOrQueueHas DEF AllocPublishSb, OpFrame, OwnerLabels,
    ActiveIs, DescRetire, HeapHas, InSequence, KeepsPlaces
<1> QED BY <1>6, <1>7, <1>8, <1>9, <1>10, <1>11 DEF NewSbStep

(* A free that takes a descriptor from heap->active or from the partial    *)
(* queue retires it or puts it back.                                       *)
LEMMA FreeStepKeeps ==
  ASSUME NEW t \in Thread, TypeInv, DequeueLocals(t), FreeStep(t)
  PROVE  KeepsPlaces(t)
<1>1. /\ pc \in [Thread -> Label] /\ op \in [Thread -> Op] /\ deq \in [Thread -> Deq]
      /\ haz \in [Thread -> Haz] /\ anchor \in [Desc -> Anchor]
      /\ OpFrame(t) /\ FreeFrame(t) /\ QueueFrame(t) /\ NULL \notin Desc
      /\ active \in Desc \cup {NULL}
  BY NodeAssumption DEF TypeInv, TypeOK, ThreadTypeOK, HeapTypeOK, Frames, Node
<1>2. pc[t] \notin {"alloc_partial", "rm_got"} => deq[t].res \notin Desc
  BY DEF DequeueLocals
<1>3. haz[t] = NoHaz /\ pc[t] \notin FreeFunc \cup {"fq_check"}
  BY <1>1 DEF FreeStep, FreeBegin, FreeReadAnchor, FreeSetAnchor, FreeSteal, FreeRetire,
     FreeGiveBack, RemoveEmptyGot, RemoveEmptyAgain, FreeFrame, InFree, EnqLabels, FreeFunc
<1>4. \A d \in Desc : HandHas(d, t) <=> \/ pc[t] \in OwnerLabels /\ op[t].desc = d
                                        \/ deq[t].res = d \/ enq[t].node = d
  BY <1>3 DEF HandHas, HasSelf, FreesItem, NoHaz
<1>5. \A d \in Desc : \/ pc'[t] \in OwnerLabels /\ op'[t].desc = d
                      \/ deq'[t].res = d \/ enq'[t].node = d \/ HasSelf(d, t)'
                      => HandHas(d, t)'
  BY DEF HandHas
<1>6. CASE FreeBegin(t) \/ FreeReadAnchor(t) \/ FreeSetAnchor(t)
  BY <1>3, <1>6, OpKeeps DEF FreeBegin, FreeReadAnchor, FreeSetAnchor, OwnerLabels
<1>7. CASE FreeSteal(t)
  BY <1>1, <1>2, <1>4, <1>5, <1>7 DEF FreeSteal, ActiveIs, OwnerLabels, HeapHas, InSequence,
    KeepsPlaces
<1>8. CASE FreeRetire(t)
  BY <1>1, <1>4, <1>5, <1>8, FreeOrQueueHas, HandsKeep DEF FreeRetire, OpFrame, OwnerLabels,
    DescRetire
<1>9. CASE FreeGiveBack(t)
  BY <1>1, <1>4, <1>5, <1>9, FreeOrQueueHas DEF FreeGiveBack, OpFrame, OwnerLabels, ActiveIs,
    ListPutPartial, HeapHas, InSequence, KeepsPlaces
<1>10. CASE RemoveEmptyGot(t)
  BY <1>1, <1>4, <1>5, <1>10, FreeOrQueueHas, HandsKeep DEF RemoveEmptyGot, DescRetire,
    ListPutPartial, OwnerLabels
<1>11. CASE RemoveEmptyAgain(t)
  BY <1>2, <1>4, <1>5, <1>11, HandsKeep DEF RemoveEmptyAgain, OwnerLabels
<1> QED BY <1>6, <1>7, <1>8, <1>9, <1>10, <1>11 DEF FreeStep

(* A dequeue has in hand what it takes out of the queue, an enqueue leaves *)
(* it there.                                                               *)
LEMMA QueueStepKeeps ==
  ASSUME NEW t \in Thread, TypeInv, DequeueLocals(t), QueueStep(t)
  PROVE  KeepsPlaces(t)
<1>1. /\ pc \in [Thread -> Label] /\ deq \in [Thread -> Deq] /\ enq \in [Thread -> Enq]
      /\ haz \in [Thread -> Haz] /\ queue \in Seq(Node) /\ queue # <<>>
      /\ QueueFrame(t) /\ FreeFrame(t) /\ NULL \notin Desc /\ Desc \cap Dummy = {}
  BY NodeAssumption DEF TypeInv, TypeOK, ThreadTypeOK, ServiceTypeOK, Frames, Node
<1>2. /\ UNCHANGED <<active, desc_avail, delayed, op>> /\ deq[t].res \notin Desc
      /\ pc[t] \notin OwnerLabels \cup FreeFunc \cup {"fq_check"}
  BY DEF QueueStep, DequeueReadHead, DequeueTry, DequeueDummy, ReenqueuePickDummy, ReenqueueClaim,
     EnqueueStart, EnqueueReadTail, EnqueueLink, OwnerLabels, FreeFunc, DequeueLocals
<1>3. \A d \in Desc : HandHas(d, t) <=> enq[t].node = d \/ HasSelf(d, t)
  BY <1>2 DEF HandHas, FreesItem
<1>4. \A d \in Desc : deq'[t].res = d \/ enq'[t].node = d \/ HasSelf(d, t)' => HandHas(d, t)'
  BY DEF HandHas
<1>5. haz' = haz => \A d \in Desc : HasSelf(d, t)' <=> HasSelf(d, t)
  BY DEF HasSelf
<1>6. pc[t] \notin EnqLabels => /\ \A d \in Desc : enq[t].node # d
                                /\ haz[t] = NoHaz
  BY <1>1, <1>2 DEF DequeueLocals, NoEnq, FreeFrame, InFree, EnqLabels, QueueStep, DequeueReadHead,
     DequeueTry, DequeueDummy, ReenqueuePickDummy, ReenqueueClaim, EnqueueStart, EnqueueReadTail,
     EnqueueLink, FreeFunc
<1>7. pc[t] \notin EnqLabels => \A d \in Desc : ~HandHas(d, t)
  BY <1>3, <1>6 DEF HasSelf, NoHaz
<1>8. CASE DequeueReadHead(t) \/ DequeueDummy(t) \/ ReenqueuePickDummy(t) \/ ReenqueueClaim(t)
  <2>1. UNCHANGED queue /\ pc[t] \notin EnqLabels
    BY <1>8 DEF DequeueReadHead, DequeueDummy, ReenqueuePickDummy, ReenqueueClaim, EnqLabels
  <2> QED BY <1>2, <1>7, <2>1, HandsKeep
<1>9. CASE DequeueTry(t)
  <2>1. pc[t] \notin EnqLabels
    BY <1>9 DEF DequeueTry, EnqLabels
  <2>2. CASE queue' = queue
    BY <1>2, <1>7, <2>1, <2>2, HandsKeep
  <2>3. CASE queue' # queue
    <3>n. PICK n \in Node : n = Head(queue)
      BY <1>1
    <3>a. queue' = Tail(queue)
      BY <1>9, <2>3 DEF DequeueTry
    <3>b. deq' = [deq EXCEPT ![t].res = n]
      BY <1>9, <2>3, <3>n DEF DequeueTry, DequeueReturn
    <3>1. queue' = Tail(queue) /\ deq'[t].res = Head(queue)
      BY <1>1, <3>n, <3>a, <3>b
    <3>2. \A d \in Desc : InSequence(d, queue) => d = Head(queue) \/ InSequence(d, Tail(queue))
      BY <1>1, HeadOrTail
    <3>3. \A d \in Desc : HeapHas(d) => HeapHas(d)' \/ HandHas(d, t)'
      BY <1>2, <1>4, <3>1, <3>2 DEF HeapHas, InSequence
    <3> QED BY <1>7, <2>1, <3>3 DEF KeepsPlaces
  <2> QED BY <2>2, <2>3
<1>10. CASE EnqueueStart(t) \/ EnqueueReadTail(t)
  BY <1>2, <1>3, <1>4, <1>5, <1>10, HandsKeep DEF EnqueueStart, EnqueueReadTail
<1>11. CASE EnqueueLink(t)
  <2>1. /\ UNCHANGED haz /\ enq[t].node \in Node
        /\ \/ UNCHANGED <<queue, enq>>
           \/ queue' = Append(queue, enq[t].node)
    BY <1>1, <1>11 DEF EnqueueLink, QueueFrame, EnqLabels
  <2>2. CASE UNCHANGED <<queue, enq>>
    <3>1. \A d \in Desc : HandHas(d, t) => HandHas(d, t)'
      BY <1>3, <1>4, <1>5, <2>1, <2>2
    <3> QED BY <1>2, <2>2, <3>1, HandsKeep
  <2>3. CASE queue' = Append(queue, enq[t].node)
    BY <1>1, <1>2, <1>3, <1>4, <1>5, <2>1, <2>3, InAppended DEF HeapHas, InSequence, KeepsPlaces
  <2> QED BY <2>1, <2>2, <2>3
<1> QED BY <1>8, <1>9, <1>10, <1>11 DEF QueueStep


(* What a push in front leaves in a sequence.                              *)
LEMMA InPrepended ==
  ASSUME NEW S, NEW s \in Seq(S), NEW e \in S
  PROVE  \A m : InSequence(m, s) \/ m = e => InSequence(m, <<e>> \o s)
<1>1. /\ Len(s) \in Nat /\ DOMAIN s = 1 .. Len(s) /\ DOMAIN (<<e>> \o s) = 1 .. Len(s) + 1
      /\ (<<e>> \o s)[1] = e /\ \A i \in DOMAIN s : (<<e>> \o s)[i + 1] = s[i]
  OBVIOUS
<1>2. InSequence(e, <<e>> \o s)
  BY <1>1 DEF InSequence
<1>3. ASSUME NEW m, InSequence(m, s) PROVE InSequence(m, <<e>> \o s)
  <2>1. PICK i \in DOMAIN s : s[i] = m
    BY <1>3 DEF InSequence
  <2>2. i + 1 \in DOMAIN (<<e>> \o s) /\ (<<e>> \o s)[i + 1] = m
    BY <1>1, <2>1
  <2> QED BY <2>2 DEF InSequence
<1> QED BY <1>2, <1>3

(* The hazardous free takes an item from the delayed queue, puts it back,  *)
(* or passes it on to where it belongs.                                    *)
LEMMA HazardStepKeeps ==
  ASSUME NEW t \in Thread, TypeInv, DequeueLocals(t), HazardStep(t)
  PROVE  KeepsPlaces(t)
<1>1. /\ pc \in [Thread -> Label] /\ enq \in [Thread -> Enq] /\ haz \in [Thread -> Haz]
      /\ desc_avail \in Seq(Desc) /\ delayed \subseteq Item
      /\ FreeFrame(t) /\ NULL \notin Desc /\ Desc \cap Dummy = {}
  BY NodeAssumption DEF TypeInv, TypeOK, ThreadTypeOK, ServiceTypeOK, Frames, Node
<1>2. /\ UNCHANGED <<active, queue, op, deq>> /\ pc[t] \notin OwnerLabels \cup EnqLabels
      /\ deq[t].res \notin Desc /\ enq[t].node = NULL
      /\ haz[t].self \in Item /\ haz[t].tries \in Nat /\ FreeAttempts \in Nat
  BY <1>1, FreeAttemptsAssumption DEF HazardStep, FreePop, FreeCheck, FreeDone, FreeDummy,
     DescPutPartial, DescEnqueueAvail, OwnerLabels, EnqLabels, FreeFunc, DequeueLocals, NoEnq,
     FreeFrame, InFree, Haz
<1>3. \A d \in Desc : HandHas(d, t) <=> HasSelf(d, t) \/ FreesItem(d, t)
  BY <1>1, <1>2 DEF HandHas
<1>4. \A d \in Desc : enq'[t].node = d \/ HasSelf(d, t)' \/ FreesItem(d, t)' => HandHas(d, t)'
  BY DEF HandHas
<1>5. NextItem(t) => \A d \in Desc : HasSelf(d, t) => HasSelf(d, t)'
  BY <1>1, <1>2, NextItemKeepsSelf DEF HasSelf
<1>6. CASE FreePop(t)
  <2>1. UNCHANGED desc_avail /\ pc[t] = "fq_try"
    BY <1>6 DEF FreePop
  <2>2. /\ haz'[t].self = haz[t].self /\ haz'[t].tries = haz[t].tries + 1
        /\ \/ haz[t].tries < FreeAttempts /\ delayed' = delayed
           \/ /\ haz[t].tries < FreeAttempts /\ pc'[t] = "fq_check"
              /\ haz'[t].item \in delayed /\ delayed' = delayed \ {haz'[t].item}
           \/ /\ pc'[t] = "fq_check" /\ haz'[t].item = haz[t].self /\ delayed' = delayed
    BY <1>1, <1>6, FreePopFields
  <2>3. \A d \in Desc : HandHas(d, t) => HandHas(d, t)'
    BY <1>2, <1>3, <1>4, <2>1, <2>2 DEF HasSelf, FreesItem, FreeFunc
  <2>4. \A d \in Desc : HeapHas(d) => HeapHas(d)' \/ HandHas(d, t)'
    BY <1>2, <1>4, <2>1, <2>2 DEF HeapHas, InSequence, FreesItem
  <2> QED BY <2>3, <2>4 DEF KeepsPlaces
<1>7. CASE FreeCheck(t)
  <2>1. UNCHANGED desc_avail /\ pc[t] = "fq_check" /\ haz[t].item \in Item
    BY <1>1, <1>7 DEF FreeCheck, FreeFrame
  <2>2. CASE Hazardous(haz[t].item.p)
    BY <1>2, <1>3, <1>4, <1>5, <1>7, <2>1, <2>2 DEF FreeCheck, HeapHas, FreesItem, InSequence,
      KeepsPlaces
  <2>3. CASE ~Hazardous(haz[t].item.p)
    BY <1>1, <1>2, <1>3, <1>4, <1>7, <2>1, <2>3, HandsKeep DEF FreeCheck, Item, FreeFunc, HasSelf,
      FreesItem
  <2> QED BY <2>2, <2>3
<1>8. CASE FreeDone(t) \/ FreeDummy(t)
  BY <1>1, <1>2, <1>3, <1>4, <1>5, <1>8, HandsKeep DEF FreeDone, FreeDummy, FreeFrame, FreesItem,
    FreeFunc, Item
<1>9. CASE DescPutPartial(t)
  BY <1>1, <1>2, <1>3, <1>4, <1>9, HandsKeep DEF DescPutPartial, CallEnqueue, HasSelf, FreesItem
<1>10. CASE DescEnqueueAvail(t)
  <2>1. PICK e \in Desc : e = haz[t].item.p
    BY <1>1, <1>10 DEF DescEnqueueAvail, FreeFrame, FreeFunc, Item
  <2>2. UNCHANGED delayed /\ NextItem(t) /\ desc_avail' = <<e>> \o desc_avail
    BY <1>10, <2>1 DEF DescEnqueueAvail
  <2>3. \A d \in Desc : InSequence(d, desc_avail) \/ d = e => InSequence(d, <<e>> \o desc_avail)
    BY <1>1, <2>1, InPrepended
  <2>4. \A d \in Desc : HeapHas(d) \/ FreesItem(d, t) => HeapHas(d)'
    BY <1>2, <2>1, <2>2, <2>3 DEF HeapHas, InSequence, FreesItem
  <2> QED BY <1>3, <1>4, <1>5, <2>2, <2>4 DEF KeepsPlaces
<1> QED BY <1>6, <1>7, <1>8, <1>9, <1>10 DEF HazardStep

(* A superblock that only its objects lead to is no business of a step     *)
(* that neither holds it nor frees into it.                                *)
LEMMA FullUntouched ==
  ASSUME NEW t \in Thread, OwnInv, NEW e,
         \A d \in Desc : d # e => anchor'[d] = anchor[d] /\ in_use'[d] = in_use[d],
         e \in Desc => HandHas(e, t)
  PROVE  KeepsFull(t)
  BY NearHas DEF KeepsFull, OwnInv, Unlisted, Nowhere, FullInUse

(* A superblock stays FULL until a free has it in hand.                    *)
LEMMA StepKeepsFull ==
  ASSUME NEW t \in Thread, SlotsInv, Step(t)
  PROVE  KeepsFull(t)
<1>1. /\ OwnInv /\ TypeInv /\ anchor \in [Desc -> Anchor] /\ in_use \in [Desc -> BOOLEAN]
      /\ pc \in [Thread -> Label] /\ op \in [Thread -> Op] /\ deq \in [Thread -> Deq]
      /\ OpFrame(t) /\ QueueFrame(t) /\ NULL \notin Desc
  BY NodeAssumption DEF SlotsInv, OwnershipInv, TypeInv, TypeOK, HeapTypeOK, ThreadTypeOK, Frames,
     Node
<1>2. CASE UNCHANGED <<anchor, in_use>>
  BY <1>2 DEF KeepsFull, FullInUse
<1>3. CASE AllocGotPartial(t) \/ RemoveEmptyGot(t)
  BY <1>1, <1>3, FullUntouched DEF HandHas, AllocGotPartial, RemoveEmptyGot, DescRetire
<1>4. CASE \/ AllocReadAnchor(t) \/ AllocSetAnchor(t) \/ AllocNewSb(t) \/ AllocPublishSb(t)
           \/ FreeRetire(t)
  BY <1>1, <1>4, FullUntouched DEF HandHas, OwnerLabels, AllocReadAnchor, AllocSetAnchor,
    AllocNewSb, AllocPublishSb, FreeRetire, DescRetire
<1>5. CASE FreeSetAnchor(t)
  <2>1. PICK e \in Desc : e = op[t].desc
    BY <1>1, <1>5 DEF FreeSetAnchor, OpFrame
  <2>2. \A d \in Desc : d # e => anchor'[d] = anchor[d] /\ in_use'[d] = in_use[d]
    BY <1>1, <1>5, <2>1 DEF FreeSetAnchor
  <2>3. ASSUME anchor'[e] # anchor[e], FullInUse(e) PROVE HandHas(e, t)'
    <3>1. /\ anchor[e] = op[t].old /\ anchor[e].state = "FULL" /\ in_use[e]
          /\ anchor[e].count = 0
      <4>1. ChainOK(e)
        BY <2>3 DEF FullInUse, SlotsInv, SlotInv, Chains
      <4> QED BY <1>1, <1>5, <2>1, <2>3, <4>1, MaxCountAssumption DEF FreeSetAnchor,
            SetAnchorSucceeds, FullInUse, ChainOK, StateOf
    <3>2. FreedAnchor(op[t].old, op[t].slot).state # "EMPTY"
      BY <3>1, MaxCountAssumption DEF FreedAnchor
    <3>3. /\ op' = [op EXCEPT ![t] = [NoOp EXCEPT !.desc = e]]
          /\ pc' = [pc EXCEPT ![t] = "free_giveback"]
      BY <1>1, <1>5, <2>1, <2>3, <3>1, <3>2 DEF FreeSetAnchor, SetAnchorSucceeds
    <3>4. op'[t].desc = e /\ pc'[t] = "free_giveback"
      BY <1>1, <3>3 DEF NoOp
    <3> QED BY <3>4 DEF HandHas, OwnerLabels
  <2>4. in_use' = in_use
    BY <1>5 DEF FreeSetAnchor
  <2> QED BY <2>2, <2>3, <2>4 DEF KeepsFull, FullInUse
<1>6. \/ UNCHANGED <<anchor, in_use>> \/ AllocGotPartial(t) \/ RemoveEmptyGot(t)
      \/ AllocReadAnchor(t) \/ AllocSetAnchor(t) \/ AllocNewSb(t) \/ AllocPublishSb(t)
      \/ FreeRetire(t) \/ FreeSetAnchor(t)
  BY DEF Step, AllocStep, NewSbStep, FreeStep, QueueStep, HazardStep, AllocBegin, AllocReadActive,
     AllocTakeActive, AllocDequeueAgain, AllocReadNext, AllocGiveBack, AllocReturn, DescAllocPeek,
     DescAllocPop, DescAllocBatch, FreeBegin, FreeReadAnchor, FreeSteal, FreeGiveBack,
     RemoveEmptyAgain, DequeueReadHead, DequeueTry, DequeueDummy, ReenqueuePickDummy,
     ReenqueueClaim, EnqueueStart, EnqueueReadTail, EnqueueLink, FreePop, FreeCheck, FreeDone,
     FreeDummy, DescPutPartial, DescEnqueueAvail
<1> QED BY <1>2, <1>3, <1>4, <1>5, <1>6

(* Only a fresh batch brings new descriptors.                              *)
LEMMA NoneNew ==
  ASSUME NEW t \in Thread, AllocStep(t) \/ FreeStep(t) \/ QueueStep(t) \/ HazardStep(t)
  PROVE  PlacesNew(t)
<1>1. batches' = batches
  BY DEF AllocStep, FreeStep, QueueStep, HazardStep, AllocBegin, AllocReadActive, AllocTakeActive,
     AllocGotPartial, AllocDequeueAgain, AllocReadAnchor, AllocReadNext, AllocSetAnchor,
     AllocGiveBack, AllocReturn, FreeBegin, FreeReadAnchor, FreeSetAnchor, FreeSteal, FreeRetire,
     FreeGiveBack, RemoveEmptyGot, RemoveEmptyAgain, DequeueReadHead, DequeueTry, DequeueDummy,
     ReenqueuePickDummy, ReenqueueClaim, EnqueueStart, EnqueueReadTail, EnqueueLink, FreePop,
     FreeCheck, FreeDone, FreeDummy, DescPutPartial, DescEnqueueAvail
<1> QED BY <1>1 DEF PlacesNew, Acquired

(* The account holds at the start, when there is no descriptor yet ...     *)
LEMMA AccountInit == Init => AccountInv
<1>1. Init => Acquired = {}
  BY DEF Init, Acquired
<1> QED BY <1>1 DEF AccountInv

(* ... and every step keeps it.                                            *)
LEMMA AccountStep == AssertInv /\ AccountInv /\ [Next]_vars => AccountInv'
<1> SUFFICES ASSUME AssertInv, AccountInv, [Next]_vars PROVE AccountInv'
  OBVIOUS
<1>1. CASE UNCHANGED vars
  <2>1. UNCHANGED <<sharedVars, pc, frameVars>>
    BY <1>1 DEF vars
  <2>2. \A d \in Desc : /\ HeapPlaces(d)' = HeapPlaces(d)
                        /\ \A t \in Thread : Holds(d, t)' = Holds(d, t)
    BY <2>1 DEF HeapPlaces, Holds, InSequence
  <2>3. Acquired' = Acquired /\ \A d \in Desc : FullInUse(d)' <=> FullInUse(d)
    BY <2>1 DEF Acquired, FullInUse
  <2>4. \A d \in Desc : Nowhere(d)' <=> Nowhere(d)
    BY <2>2 DEF Nowhere
  <2> QED BY <2>3, <2>4 DEF AccountInv, Acquired
<1>2. ASSUME NEW t \in Thread, Step(t) PROVE AccountInv'
  BY <1>2, StepLocals, AllocStepKeeps, NewSbStepKeeps, FreeStepKeeps, QueueStepKeeps,
    HazardStepKeeps, StepKeepsFull, NoneNew, AccountKept DEF AssertInv, SlotsInv, OwnershipInv,
    UsedInv, UsedLocals, Step
<1> QED BY <1>1, <1>2 DEF Next

(* No descriptor is ever lost: the acquired ones that are referenced from  *)
(* nowhere are exactly the FULL ones in use (lock-free-alloc.c:56).        *)
THEOREM NoneEverLost == Spec => []NoneLost
<1>1. Init => AssertInv /\ AccountInv
  BY AssertInit, AccountInit
<1>2. AssertInv /\ AccountInv /\ [Next]_vars => AssertInv' /\ AccountInv'
  BY AssertStep, AccountStep
<1>3. AssertInv /\ AccountInv => NoneLost
  <2> SUFFICES ASSUME AssertInv, AccountInv, NEW d \in Acquired
               PROVE  (PlacesOf(d) = {}) <=> FullInUse(d)
    BY DEF NoneLost, FullInUse
  <2>1. PlacesOf(d) = {} <=> Nowhere(d)
    <3>1. ASSUME Nowhere(d) PROVE PlacesOf(d) = {}
      BY <3>1 DEF PlacesOf, Nowhere
    <3>2. ASSUME NEW p \in HeapPlaces(d) PROVE PlacesOf(d) # {}
      <4>1. <<"heap", p>> \in PlacesOf(d)
        BY DEF PlacesOf
      <4> QED BY <4>1
    <3>3. ASSUME NEW t \in Thread, NEW f \in Holds(d, t) PROVE PlacesOf(d) # {}
      <4>1. <<t, f>> \in PlacesOf(d)
        BY DEF PlacesOf
      <4> QED BY <4>1
    <3> QED BY <3>1, <3>2, <3>3 DEF Nowhere
  <2>2. FullInUse(d) => Nowhere(d)
    BY DEF Acquired, AssertInv, SlotsInv, OwnershipInv, OwnInv, Unlisted
  <2> QED BY <2>1, <2>2 DEF AccountInv
<1> QED BY <1>1, <1>2, <1>3, PTL DEF Spec

=============================================================================
