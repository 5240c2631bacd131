----------------------------- MODULE HazardPointers -----------------------------
(***************************************************************************)
(* hazard-pointer.c, from get_hazardous_pointer to                         *)
(* mono_thread_hazardous_try_free_all, for threads that use it like the    *)
(* code in this repository does: they follow pointers from shared words to *)
(* nodes under a hazard pointer, keep a node by moving it to another       *)
(* hazard pointer, take nodes out of their words with a CAS, and pass      *)
(* them on.                                                                *)
(*                                                                         *)
(* Memory is that of x86 processors (TotalStoreOrder).  Stores to the      *)
(* hazard table go through the store buffer of the processor, from which   *)
(* they reach memory in order; a CAS, which is a locked instruction, and a *)
(* barrier with StoreLoad wait for it to be empty.  The scan of the table  *)
(* reads one pointer a step, in the order of the code.  Processors that    *)
(* let a later load pass a CAS, or loads pass one another, are not         *)
(* modelled: is_pointer_hazardous has no barrier that would stop them.     *)
(*                                                                         *)
(* delayed_free_queue is what ConcurrentBag promises of it; its items are  *)
(* in a sequence, since calls that do not overlap use it as a stack.       *)
(***************************************************************************)
EXTENDS Integers, FiniteSets, Sequences, SequencesExt, Membar

CONSTANTS
  Threads,
  Nodes,
  Words,            \* where pointers to nodes are
  NULL,
  MightLock,        \* the nodes whose free function might lock
  OnPlatform,       \* for the barriers
  FreeAttempts,     \* the delayed items that a free tries first
  BufferSize        \* the stores that a processor can buffer

ASSUME NullIsNoNode == NULL \notin Nodes
ASSUME MightLockAreNodes == MightLock \subseteq Nodes
ASSUME StoresAreOrdered == OnPlatform \in TotalStoreOrder
ASSUME FreeAttemptsIsNat == FreeAttempts \in Nat
ASSUME BufferHoldsTwo == BufferSize \in Nat \ {0, 1}

VARIABLES
  word,                 \* the shared words
  unused,               \* the nodes that are free
  hazard_table,         \* as it is in memory
  buffer,               \* per thread: its stores that have not reached memory
  attached,             \* the threads, in the order of their small ids
  delayed_free_queue,
  pc,
  from,                 \* the word a thread reads a pointer from
  got, kept,            \* nodes it relies on: the one just read, one moved on
  p,                    \* the node it gives to mono_thread_hazardous_free_or_queue
  tries,                \* delayed items it still tries; Unlimited in try_free_all
  item,                 \* the node it scans the hazard table for
  highest, pos          \* state of the scan

shared == <<word, unused, hazard_table, attached, delayed_free_queue>>
scan == <<item, highest, pos>>
vars == <<shared, buffer, pc, from, got, kept, p, tries, scan>>

Unlimited == FreeAttempts + 1

(* Pointers are read under the first hazard pointer and kept under a later one,
   the order in which a scan sees them. *)
HAZARD_POINTER_COUNT == 2
HazardIndex_Descending(use) == IF use = "get" THEN 1 ELSE 0  (* a mutant *)
HazardIndex(use) == IF use = "get" THEN 0 ELSE 1

Init ==
  /\ word = [w \in Words |-> NULL]
  /\ unused = Nodes
  /\ hazard_table = [t \in Threads |-> [j \in 0 .. HAZARD_POINTER_COUNT - 1 |-> NULL]]
  /\ attached = <<>>
  /\ delayed_free_queue = <<>>
  /\ buffer = [t \in Threads |-> <<>>]
  /\ pc = [t \in Threads |-> "detached"]
  /\ from = [t \in Threads |-> NULL]
  /\ got = [t \in Threads |-> NULL]
  /\ kept = [t \in Threads |-> NULL]
  /\ p = [t \in Threads |-> NULL]
  /\ tries = [t \in Threads |-> 0]
  /\ item = [t \in Threads |-> NULL]
  /\ highest = [t \in Threads |-> 0]
  /\ pos = [t \in Threads |-> 0]

At(t, label) == pc[t] = label
Goto(t, label) == pc' = [pc EXCEPT ![t] = label]

-----------------------------------------------------------------------------
(* Memory *)

(* mono_hazard_pointer_set, mono_hazard_pointer_clear *)
Store(t, use, n) == <<HazardIndex(use), n>>
Sets(t, stores) ==
  /\ Len(buffer[t] \o stores) <= BufferSize
  /\ buffer' = [buffer EXCEPT ![t] = @ \o stores]
ClearBoth_OnlyGet(t) == Sets(t, <<Store(t, "get", NULL)>>)  (* a mutant *)
ClearBoth(t) == Sets(t, <<Store(t, "get", NULL), Store(t, "keep", NULL)>>)

(* The oldest store of a thread reaches memory. *)
Drain(t) ==
  /\ buffer[t] # <<>>
  /\ hazard_table' = [hazard_table EXCEPT ![t][Head(buffer[t])[1]] = Head(buffer[t])[2]]
  /\ buffer' = [buffer EXCEPT ![t] = Tail(@)]
  /\ UNCHANGED <<word, unused, attached, delayed_free_queue, pc, from, got, kept, p, tries, scan>>

(* What a locked instruction waits for. *)
Drained(t) == buffer[t] = <<>>
(* What a mono_memory_barrier waits for. *)
Fenced(t) == "StoreLoad" \in mono_memory_barrier(OnPlatform) => Drained(t)

-----------------------------------------------------------------------------
(* The threads *)

(* mono_thread_attach: the next small id.  The unlock at its end drains the
   buffer, so highest_small_id is in memory when the thread goes on. *)
Attach(t) ==
  /\ At(t, "detached")
  /\ attached' = Append(attached, t)
  /\ Goto(t, "idle")
  /\ UNCHANGED <<word, unused, hazard_table, delayed_free_queue, buffer, from, got, kept, p, tries, scan>>

Exit(t) ==
  /\ At(t, "idle")
  /\ Drained(t)
  /\ Goto(t, "exited")
  /\ UNCHANGED <<shared, buffer, from, got, kept, p, tries, scan>>

(* Put a node into an empty word: a CAS, like all changes of words. *)
Publish(t) ==
  /\ At(t, "idle")
  /\ Drained(t)
  /\ \E w \in Words, n \in unused :
       /\ word[w] = NULL
       /\ word' = [word EXCEPT ![w] = n]
       /\ unused' = unused \ {n}
  /\ UNCHANGED <<hazard_table, attached, delayed_free_queue, buffer, pc, from, got, kept, p, tries, scan>>

(* get_hazardous_pointer (&word, hp, 0): called here, and read and set. *)
GetBegin(t) ==
  /\ \/ At(t, "idle")
     \/ At(t, "have") /\ kept[t] # NULL
  /\ \E w \in Words : from' = [from EXCEPT ![t] = w]
  /\ Goto(t, "get")
  /\ got' = [got EXCEPT ![t] = NULL]
  /\ UNCHANGED <<shared, buffer, kept, p, tries, scan>>

GetRead(t) ==
  /\ At(t, "get")
  /\ p' = [p EXCEPT ![t] = word[from[t]]]
  /\ Sets(t, <<Store(t, "get", word[from[t]])>>)
  /\ Goto(t, "check")
  /\ UNCHANGED <<shared, from, got, kept, tries, scan>>

(* The barrier, and the second read. *)
Same(t) == word[from[t]] = p[t]
GetCheck(t) ==
  /\ At(t, "check")
  /\ Fenced(t)
  /\ \/ /\ Same(t)
        /\ got' = [got EXCEPT ![t] = p[t]]
        /\ Goto(t, "have")
        /\ UNCHANGED buffer
     \/ /\ ~Same(t)
        /\ Sets(t, <<Store(t, "get", NULL)>>)
        /\ Goto(t, "get")
        /\ UNCHANGED got
  /\ p' = [p EXCEPT ![t] = NULL]
  /\ UNCHANGED <<shared, from, kept, tries, scan>>

(* Keep the node under the other hazard pointer, instead of the node that was
   kept there before (mono_hazard_pointer_set (hp, 2, cur)). *)
Keep(t) ==
  /\ At(t, "have")
  /\ got[t] \notin {NULL, kept[t]}
  /\ Sets(t, <<Store(t, "keep", got[t])>>)
  /\ kept' = [kept EXCEPT ![t] = got[t]]
  /\ UNCHANGED <<shared, pc, from, got, p, tries, scan>>

Done(t) ==
  /\ At(t, "have")
  /\ ClearBoth(t)
  /\ Goto(t, "idle")
  /\ from' = [from EXCEPT ![t] = NULL]
  /\ got' = [got EXCEPT ![t] = NULL]
  /\ kept' = [kept EXCEPT ![t] = NULL]
  /\ UNCHANGED <<shared, p, tries, scan>>

(* Whether the CAS that takes the node out succeeds. *)
StillThere_Unchecked(t) == TRUE  (* a mutant *)
StillThere(t) == word[from[t]] = got[t]

(* Take the node out of its word, clear the hazard pointers, and free it. *)
Unlink(t) ==
  /\ At(t, "have")
  /\ got[t] # NULL
  /\ Drained(t)
  /\ StillThere(t)
  /\ word' = [word EXCEPT ![from[t]] = NULL]
  /\ ClearBoth(t)
  /\ p' = [p EXCEPT ![t] = got[t]]
  /\ tries' = [tries EXCEPT ![t] = FreeAttempts]
  /\ Goto(t, "try")
  /\ from' = [from EXCEPT ![t] = NULL]
  /\ got' = [got EXCEPT ![t] = NULL]
  /\ kept' = [kept EXCEPT ![t] = NULL]
  /\ UNCHANGED <<unused, hazard_table, attached, delayed_free_queue, scan>>

-----------------------------------------------------------------------------
(* delayed_free_queue *)

(* Another thread may be in the middle of a call. *)
Others(t) == {u \in Threads \ {t} : pc[u] \in {"try", "queue"}}

(* Alone, a pop takes what the last push has left; else it may meet any. *)
Poppable(t) ==
  IF Others(t) = {} THEN {Len(delayed_free_queue)} \ {0} ELSE DOMAIN delayed_free_queue
Pushable(t) ==
  IF Others(t) = {} THEN {Len(delayed_free_queue) + 1} ELSE 1 .. Len(delayed_free_queue) + 1
PopMayFail(t) == Len(delayed_free_queue) <= Cardinality(Others(t))

-----------------------------------------------------------------------------
(* Freeing *)

(* mono_thread_hazardous_free_or_queue is called with lock_free_context unless
   the free function might lock; mono_thread_hazardous_try_free_all without. *)
lock_free_context(t) == p[t] \in Nodes \ MightLock

TryFreeAll(t) ==
  /\ At(t, "idle")
  /\ tries' = [tries EXCEPT ![t] = Unlimited]
  /\ Goto(t, "try")
  /\ UNCHANGED <<shared, buffer, from, got, kept, p, scan>>

(* is_pointer_hazardous (n), up to the first look into the table *)
BeginScan(t, n) ==
  /\ item' = [item EXCEPT ![t] = n]
  /\ highest' = [highest EXCEPT ![t] = Len(attached)]
  /\ pos' = [pos EXCEPT ![t] = 0]
  /\ Goto(t, "scan")

MustWait_Never(t, n) == FALSE  (* a mutant *)
MustWait(t, n) == lock_free_context(t) /\ n \in MightLock

(* try_free_delayed_free_item, up to the test: an item comes out, or none. *)
Pop(t) ==
  /\ At(t, "try")
  /\ tries[t] > 0
  /\ \E n \in Poppable(t) :
       /\ delayed_free_queue' = RemoveAt(delayed_free_queue, n)
       /\ \/ /\ ~MustWait(t, delayed_free_queue[n])
             /\ BeginScan(t, delayed_free_queue[n])
          \/ /\ MustWait(t, delayed_free_queue[n])
             /\ item' = [item EXCEPT ![t] = delayed_free_queue[n]]
             /\ Goto(t, "queue")
             /\ UNCHANGED <<highest, pos>>
  /\ UNCHANGED <<word, unused, hazard_table, attached, buffer, from, got, kept, p, tries>>

(* The next item to try, if there is one; try_free_all ends when one fails. *)
NextTry(t, freed) ==
  IF tries[t] = Unlimited
    THEN /\ tries' = [tries EXCEPT ![t] = IF freed THEN Unlimited ELSE 0]
         /\ Goto(t, IF freed THEN "try" ELSE "idle")
    ELSE /\ tries' = [tries EXCEPT ![t] = @ - 1]
         /\ Goto(t, "try")

PopNone(t) ==
  /\ At(t, "try")
  /\ tries[t] > 0
  /\ PopMayFail(t)
  /\ NextTry(t, FALSE)
  /\ UNCHANGED <<shared, buffer, from, got, kept, p, scan>>

(* After the delayed items, its own. *)
ScanOwn(t) ==
  /\ At(t, "try")
  /\ tries[t] = 0
  /\ BeginScan(t, p[t])
  /\ UNCHANGED <<shared, buffer, from, got, kept, p, tries>>

(* What t sees in a slot of u: its own last store to it, or what is in memory. *)
Seen(t, u, j) ==
  LET own == {i \in DOMAIN buffer[t] : t = u /\ buffer[t][i][1] = j} IN
  IF own = {} THEN hazard_table[u][j] ELSE buffer[t][Max(own)][2]

(* One iteration of the inner loop of is_pointer_hazardous: the loads, between
   which the code has no barrier, are in program order. *)
Scanned(t) ==
  Seen(t, attached[pos[t] \div HAZARD_POINTER_COUNT + 1], pos[t] % HAZARD_POINTER_COUNT)
ScanStep(t) ==
  /\ At(t, "scan")
  /\ pos[t] < highest[t] * HAZARD_POINTER_COUNT
  /\ \/ /\ Scanned(t) = item[t]
        /\ Goto(t, "queue")
        /\ UNCHANGED pos
     \/ /\ Scanned(t) # item[t]
        /\ pos' = [pos EXCEPT ![t] = @ + 1]
        /\ UNCHANGED pc
  /\ UNCHANGED <<shared, buffer, from, got, kept, p, tries, item, highest>>

(* The call for the own node is over, or the one for a delayed item. *)
After(t, freed) ==
  /\ IF item[t] = p[t]
       THEN /\ Goto(t, "idle")
            /\ p' = [p EXCEPT ![t] = NULL]
            /\ UNCHANGED tries
       ELSE NextTry(t, freed) /\ UNCHANGED p
  /\ item' = [item EXCEPT ![t] = NULL]
  /\ highest' = [highest EXCEPT ![t] = 0]
  /\ pos' = [pos EXCEPT ![t] = 0]

(* Nobody guards it: free_func (p). *)
Free(t) ==
  /\ At(t, "scan")
  /\ pos[t] = highest[t] * HAZARD_POINTER_COUNT
  /\ unused' = unused \cup {item[t]}
  /\ After(t, TRUE)
  /\ UNCHANGED <<word, hazard_table, attached, delayed_free_queue, buffer, from, got, kept>>

(* Somebody does, or it has to wait for another context: back into the queue. *)
Queue(t) ==
  /\ At(t, "queue")
  /\ \E n \in Pushable(t) : delayed_free_queue' = InsertAt(delayed_free_queue, n, item[t])
  /\ After(t, FALSE)
  /\ UNCHANGED <<word, unused, hazard_table, attached, buffer, from, got, kept>>

-----------------------------------------------------------------------------

Freeing(t) == Pop(t) \/ PopNone(t) \/ ScanOwn(t) \/ ScanStep(t) \/ Free(t) \/ Queue(t)
Reading(t) == GetRead(t) \/ GetCheck(t)
Using(t) == GetBegin(t) \/ Keep(t) \/ Done(t) \/ Unlink(t)

Next ==
  \E t \in Threads :
    \/ Drain(t) \/ Attach(t) \/ Exit(t) \/ Publish(t) \/ TryFreeAll(t)
    \/ Reading(t) \/ Using(t) \/ Freeing(t)

Spec == Init /\ [][Next]_vars

(* Calls go on, and try_free_all is called again and again; a pop that is
   possible time and again takes place.  Nobody has to let go of a node. *)
FairSpec ==
  /\ Spec
  /\ \A t \in Threads :
       /\ WF_vars(Drain(t))
       /\ WF_vars(Reading(t))
       /\ WF_vars(Freeing(t))
       /\ SF_vars(TryFreeAll(t))
  /\ SF_vars(\E t \in Threads : Pop(t))

(* Readers let go in the end. *)
ReadersFairSpec == FairSpec /\ \A t \in Threads : SF_vars(Done(t))

-----------------------------------------------------------------------------
(* Properties *)

OrNull(S) == S \cup {NULL}
Labels == {"detached", "idle", "get", "check", "have", "try", "scan", "queue", "exited"}

(* The variables have their types, and a thread has an item exactly while it
   looks for it in the hazard table or puts it into the queue. *)
TypeOK ==
  /\ word \in [Words -> OrNull(Nodes)]
  /\ unused \subseteq Nodes
  /\ hazard_table \in [Threads -> [0 .. HAZARD_POINTER_COUNT - 1 -> OrNull(Nodes)]]
  /\ attached \in Seq(Threads)
  /\ delayed_free_queue \in Seq(Nodes)
  /\ buffer \in [Threads -> Seq((0 .. HAZARD_POINTER_COUNT - 1) \X OrNull(Nodes))]
  /\ \A t \in Threads : Len(buffer[t]) <= BufferSize
  /\ pc \in [Threads -> Labels]
  /\ from \in [Threads -> OrNull(Words)]
  /\ got \in [Threads -> OrNull(Nodes)]
  /\ kept \in [Threads -> OrNull(Nodes)]
  /\ p \in [Threads -> OrNull(Nodes)]
  /\ tries \in [Threads -> 0 .. Unlimited]
  /\ item \in [Threads -> OrNull(Nodes)]
  /\ highest \in [Threads -> Nat]
  /\ pos \in [Threads -> Nat]
  /\ \A t \in Threads :
       highest[t] <= Len(attached) /\ pos[t] <= highest[t] * HAZARD_POINTER_COUNT
  /\ \A t \in Threads : item[t] # NULL <=> pc[t] \in {"scan", "queue"}

(* Where memory is as above, a node that get_hazardous_pointer has returned is not
   freed before its reader lets go of it, even when it has moved on to another
   hazard pointer: the one read under the store buffer of the reader, the other in
   the middle of the scan of the one who frees. *)
NoUseAfterFree == \A t \in Threads : {got[t], kept[t]} \cap unused = {}

(* The types, and: every node is in one place, free, in a word, delayed, or with
   the one thread that is freeing it.  So none is freed twice, and none is lost
   when items are popped, found hazardous and pushed back. *)
IsInWord(n) == \E w \in Words : word[w] = n
IsDelayed(n) == \E i \in DOMAIN delayed_free_queue : delayed_free_queue[i] = n
IsWith(t, n) == n = item[t] \/ (n = p[t] /\ pc[t] \in {"try", "scan", "queue"})
OnePlace ==
  /\ TypeOK
  /\ \A n \in Nodes : n \in unused \/ IsInWord(n) \/ IsDelayed(n) \/ \E t \in Threads : IsWith(t, n)
  /\ \A n \in unused : ~IsInWord(n) /\ ~IsDelayed(n)
  /\ \A n \in Nodes : IsInWord(n) => ~IsDelayed(n)
  /\ \A t \in Threads, n \in Nodes :
       IsWith(t, n) => n \notin unused /\ ~IsInWord(n) /\ ~IsDelayed(n)
  /\ \A w, v \in Words : word[w] = word[v] => w = v \/ word[w] = NULL
  /\ \A i, j \in DOMAIN delayed_free_queue : delayed_free_queue[i] = delayed_free_queue[j] => i = j
  /\ \A t, u \in Threads, n \in Nodes : IsWith(t, n) /\ IsWith(u, n) => t = u

(* The free function of a delayed item that might lock is not called by a
   thread that frees in a lock-free context, whoever queued the item. *)
MightLockWaits ==
  [][\A t \in Threads :
       lock_free_context(t) => unused' \cap MightLock \subseteq unused \/ ~Free(t)]_vars

TriedTimeAndAgain == []<>(\E t \in Threads : tries[t] = Unlimited)

(* When no more nodes are published and the readers let go, try_free_all has
   freed every node in the end. *)
AllFreed ==
  TriedTimeAndAgain /\ <>[](\A w \in Words : word[w] = NULL) => []<>(unused = Nodes)

=============================================================================
