------------------------ MODULE LockFreeAllocProgress ------------------------
(***************************************************************************)
(* Progress of the allocator.  LockFreeAlloc has a call of delayed_free_   *)
(* queue as one step, its commit.  In the code it is a loop, and one that  *)
(* is not lock-free: while a thread is stopped inside the queue, others    *)
(* can go round in it for ever (lock-free-array-queue.c:139, 169; FairSpec *)
(* of LockFreeArrayQueue).  Here a round without success is a step as      *)
(* well, so that a thread that takes steps need not get on, and what is    *)
(* assumed of the queue is part of the fairness.                           *)
(***************************************************************************)
EXTENDS LockFreeAlloc

VARIABLE turn       \* changes with every fruitless round, and with nothing else

progressVars == <<vars, turn>>

(* A thread is in mono_lock_free_array_queue_pop ... *)
Popping(t) == At(t, "fq_try") /\ haz[t].tries < FreeAttempts
(* ... or about to push the pointer that it has found guarded. *)
Pushing(t) == At(t, "fq_check") /\ Hazardous(haz[t].item.p)

(* Once more round the loop of a pop or a push.  A call that meets nobody  *)
(* in the queue goes through.                                              *)
Spin(t) ==
  /\ Popping(t) \/ Pushing(t)
  /\ InCompany(t)
  /\ turn' = ~turn
  /\ UNCHANGED vars

(* A call of the queue gets through. *)
DelayedQueueCall(t) ==
  \/ Popping(t) /\ FreePop(t)
  \/ Pushing(t) /\ FreeCheck(t)

ProgressInit == Init /\ turn = FALSE
ProgressNext ==
  \/ \E t \in Thread : Step(t) /\ turn' = FALSE
  \/ \E t \in Thread : Spin(t)

(* Some thread that can take a step does, and nothing is assumed of any    *)
(* particular thread; but nobody stops inside the delayed queue, so that,  *)
(* as long as there are calls of it, one gets through (CallsReturn of      *)
(* LockFreeArrayQueue).                                                    *)
FairSpec ==
  /\ ProgressInit /\ [][ProgressNext]_progressVars
  /\ WF_progressVars(ProgressNext)
  /\ WF_progressVars(\E t \in Thread : DelayedQueueCall(t) /\ turn' = FALSE)

Returns(t) == pc[t] # "idle" /\ pc'[t] = "idle"
OutOfMemory ==
  \E t \in Thread : pc[t] = "avail_batch" /\ desc_avail = <<>> /\ batches = Len(Batches)

(* Calls of mono_lock_free_alloc and mono_lock_free_free keep returning    *)
(* wherever a thread has stopped outside the delayed queue: the loops of   *)
(* the allocator, of its queue and of its descriptors do not wait for it.  *)
(* The bound on batches is not the code's, so a run that exhausts it for   *)
(* good is excepted, and one that ends in an assertion.                    *)
LockFree ==
  []<><<\E t \in Thread : Returns(t)>>_progressVars \/ <>[](aborted \/ OutOfMemory)
=============================================================================
