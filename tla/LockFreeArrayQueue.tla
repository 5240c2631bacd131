-------------------------- MODULE LockFreeArrayQueue --------------------------
(***************************************************************************)
(* lock-free-array-queue.c, one action per access to shared memory: a list *)
(* of chunks of entries that only grows, a count of used entries, and an   *)
(* entry state by which a thread claims the entry its index led it to.     *)
(*                                                                         *)
(* What the model adds is `pool', the items the callers have not pushed.   *)
(* The assertions of the code (index >= 0, chunks are there) are what the  *)
(* type invariant says of index, and of the chunks a walk has seen.        *)
(***************************************************************************)
EXTENDS Integers, FiniteSets, Sequences

CONSTANTS
  Threads,      \* the threads that call push and pop
  Items,        \* the data of entries
  NoItem,
  Chunks,       \* what alloc_chunk can return
  NoChunk,
  NumEntries,   \* chunk->num_entries
  MaxUsed       \* bound on num_used_entries

ASSUME ThreadsAreFinite == IsFiniteSet(Threads)
ASSUME NumEntriesIsPositive == NumEntries \in Nat \ {0}
ASSUME NoItemIsNoItem == NoItem \notin Items
ASSUME NoChunkIsNoChunk == NoChunk \notin Chunks

VARIABLES
  chunks,               \* the list that begins at arr->chunk_list
  allocated,            \* the chunks that are mapped
  state, data,          \* of every entry of every chunk
  num_used_entries,
  pool,
  pc,
  index, num_used,      \* locals of push and pop
  entry, item,
  spare, slot           \* locals of nth: the chunk it made, and where for

shared == <<chunks, allocated, state, data, num_used_entries, pool>>
vars == <<shared, pc, index, num_used, entry, item, spare, slot>>

(* An entry is a place in a chunk. *)
Entry == Chunks \X (0 .. NumEntries - 1)
NoEntry == <<NoChunk, 0>>

State == {"FREE", "USED", "BUSY"}

Label ==
  {"idle", "push_claim", "push_nth", "push_link", "push_busy", "push_write",
   "push_used", "push_check", "push_raise", "pop_read", "pop_claim",
   "pop_nth", "pop_link", "pop_busy", "pop_copy", "pop_free", "done"}

Init ==
  /\ chunks = <<>>
  /\ allocated = {}
  /\ state = [e \in Entry |-> "FREE"]
  /\ data = [e \in Entry |-> NoItem]
  /\ num_used_entries = 0
  /\ pool = Items
  /\ pc = [t \in Threads |-> "idle"]
  /\ index = [t \in Threads |-> 0]
  /\ num_used = [t \in Threads |-> 0]
  /\ entry = [t \in Threads |-> NoEntry]
  /\ item = [t \in Threads |-> NoItem]
  /\ spare = [t \in Threads |-> NoChunk]
  /\ slot = [t \in Threads |-> 0]

Goto(t, label) == pc' = [pc EXCEPT ![t] = label]
At(t, label) == pc[t] = label

(* The locals end with the call. *)
Return(t) ==
  /\ Goto(t, "idle")
  /\ index' = [index EXCEPT ![t] = 0]
  /\ entry' = [entry EXCEPT ![t] = NoEntry]

-----------------------------------------------------------------------------
(* mono_lock_free_array_nth *)

Linked(i) == i \div NumEntries < Len(chunks)
CHUNK_NTH(i) == <<chunks[i \div NumEntries + 1], i % NumEntries>>

(* Walk the list; where it ends too early, make another chunk.  Links never
   change once they are set, so the walk up to there is one step. *)
Walk(t, here, link, found) ==
  /\ At(t, here)
  /\ \/ /\ Linked(index[t])
        /\ entry' = [entry EXCEPT ![t] = CHUNK_NTH(index[t])]
        /\ Goto(t, found)
        /\ UNCHANGED <<allocated, state, spare, slot>>
     \/ /\ ~Linked(index[t])
        /\ \E c \in Chunks \ allocated :
             /\ allocated' = allocated \cup {c}
             /\ state' = [e \in Entry |-> IF e[1] = c THEN "FREE" ELSE state[e]]
             /\ spare' = [spare EXCEPT ![t] = c]
        /\ slot' = [slot EXCEPT ![t] = Len(chunks)]
        /\ Goto(t, link)
        /\ UNCHANGED entry
  /\ UNCHANGED <<chunks, data, num_used_entries, pool, index, num_used, item>>

free_chunk_Leaks(c) == allocated                                  (* a mutant *)
free_chunk(c) == allocated \ {c}

(* The link the walk found empty still is. *)
IsLast(t) == Len(chunks) = slot[t]

(* Append the chunk, or free it when another thread has been faster. *)
Link(t, here, back) ==
  /\ At(t, here)
  /\ \/ /\ IsLast(t)
        /\ chunks' = Append(chunks, spare[t])
        /\ UNCHANGED allocated
     \/ /\ ~IsLast(t)
        /\ allocated' = free_chunk(spare[t])
        /\ UNCHANGED chunks
  /\ spare' = [spare EXCEPT ![t] = NoChunk]
  /\ slot' = [slot EXCEPT ![t] = 0]
  /\ Goto(t, back)
  /\ UNCHANGED <<state, data, num_used_entries, pool, index, num_used, entry, item>>

-----------------------------------------------------------------------------
(* mono_lock_free_array_queue_push *)

PushBegin(t) ==
  /\ At(t, "idle")
  /\ \E x \in pool :
       /\ pool' = pool \ {x}
       /\ item' = [item EXCEPT ![t] = x]
  /\ Goto(t, "push_claim")
  /\ UNCHANGED <<chunks, allocated, state, data, num_used_entries, index, num_used, entry, spare, slot>>

PushClaim(t) ==
  /\ At(t, "push_claim")
  /\ num_used_entries < MaxUsed
  /\ num_used_entries' = num_used_entries + 1
  /\ index' = [index EXCEPT ![t] = num_used_entries]
  /\ Goto(t, "push_nth")
  /\ UNCHANGED <<chunks, allocated, state, data, pool, num_used, entry, item, spare, slot>>

(* CAS of entry->state from `old' to BUSY; without success, start over. *)
Claims_Unchecked(t, old) == TRUE                                  (* a mutant *)
Claims(t, old) == state[entry[t]] = old
MakeBusy(t, here, old, mine, again) ==
  /\ At(t, here)
  /\ \/ /\ Claims(t, old)
        /\ state' = [state EXCEPT ![entry[t]] = "BUSY"]
        /\ Goto(t, mine)
        /\ UNCHANGED entry
     \/ /\ ~Claims(t, old)
        /\ entry' = [entry EXCEPT ![t] = NoEntry]
        /\ Goto(t, again)
        /\ UNCHANGED state
  /\ UNCHANGED <<chunks, allocated, data, num_used_entries, pool, index, num_used, item, spare, slot>>

PushWrite(t) ==
  /\ At(t, "push_write")
  /\ data' = [data EXCEPT ![entry[t]] = item[t]]
  /\ Goto(t, "push_used")
  /\ UNCHANGED <<chunks, allocated, state, num_used_entries, pool, index, num_used, entry, item, spare, slot>>

PushUsed(t) ==
  /\ At(t, "push_used")
  /\ state' = [state EXCEPT ![entry[t]] = "USED"]
  /\ item' = [item EXCEPT ![t] = NoItem]
  /\ Goto(t, "push_check")
  /\ UNCHANGED <<chunks, allocated, data, num_used_entries, pool, index, num_used, entry, spare, slot>>

Covered_OffByOne(t) == num_used_entries >= index[t]               (* a mutant *)
Covered(t) == num_used_entries > index[t]
PushCheck(t) ==
  /\ At(t, "push_check")
  /\ \/ /\ Covered(t)
        /\ Return(t)
        /\ UNCHANGED num_used
     \/ /\ ~Covered(t)
        /\ num_used' = [num_used EXCEPT ![t] = num_used_entries]
        /\ Goto(t, "push_raise")
        /\ UNCHANGED <<index, entry>>
  /\ UNCHANGED <<shared, item, spare, slot>>

(* The CAS of num_used_entries compares it with what was read. *)
Unchanged_Inverted(t) == num_used_entries # num_used[t]           (* a mutant *)
Unchanged(t) == num_used_entries = num_used[t]
PushRaise(t) ==
  /\ At(t, "push_raise")
  /\ \/ /\ Unchanged(t)
        /\ num_used_entries' = index[t] + 1
        /\ Return(t)
     \/ /\ ~Unchanged(t)
        /\ Goto(t, "push_check")
        /\ UNCHANGED <<num_used_entries, index, entry>>
  /\ num_used' = [num_used EXCEPT ![t] = 0]
  /\ UNCHANGED <<chunks, allocated, state, data, pool, item, spare, slot>>

Push(t) ==
  \/ PushClaim(t)
  \/ Walk(t, "push_nth", "push_link", "push_busy")
  \/ Link(t, "push_link", "push_nth")
  \/ MakeBusy(t, "push_busy", "FREE", "push_write", "push_claim")
  \/ PushWrite(t)
  \/ PushUsed(t)
  \/ PushCheck(t)
  \/ PushRaise(t)

-----------------------------------------------------------------------------
(* mono_lock_free_array_queue_pop *)

PopBegin(t) ==
  /\ At(t, "idle")
  /\ Goto(t, "pop_read")
  /\ UNCHANGED <<shared, index, num_used, entry, item, spare, slot>>

(* No used entries: return FALSE. *)
IsEmpty == num_used_entries = 0
PopRead(t) ==
  /\ At(t, "pop_read")
  /\ \/ /\ IsEmpty
        /\ Return(t)
        /\ UNCHANGED num_used
     \/ /\ ~IsEmpty
        /\ num_used' = [num_used EXCEPT ![t] = num_used_entries]
        /\ Goto(t, "pop_claim")
        /\ UNCHANGED <<index, entry>>
  /\ UNCHANGED <<shared, item, spare, slot>>

PopClaim(t) ==
  /\ At(t, "pop_claim")
  /\ \/ /\ Unchanged(t)
        /\ num_used_entries' = num_used[t] - 1
        /\ index' = [index EXCEPT ![t] = num_used[t] - 1]
        /\ Goto(t, "pop_nth")
     \/ /\ ~Unchanged(t)
        /\ Goto(t, "pop_read")
        /\ UNCHANGED <<num_used_entries, index>>
  /\ num_used' = [num_used EXCEPT ![t] = 0]
  /\ UNCHANGED <<chunks, allocated, state, data, pool, entry, item, spare, slot>>

PopCopy(t) ==
  /\ At(t, "pop_copy")
  /\ item' = [item EXCEPT ![t] = data[entry[t]]]
  /\ Goto(t, "pop_free")
  /\ UNCHANGED <<shared, index, num_used, entry, spare, slot>>

PopFree(t) ==
  /\ At(t, "pop_free")
  /\ state' = [state EXCEPT ![entry[t]] = "FREE"]
  /\ pool' = pool \cup {item[t]}
  /\ item' = [item EXCEPT ![t] = NoItem]
  /\ Return(t)
  /\ UNCHANGED <<chunks, allocated, data, num_used_entries, num_used, spare, slot>>

Pop(t) ==
  \/ PopRead(t)
  \/ PopClaim(t)
  \/ Walk(t, "pop_nth", "pop_link", "pop_busy")
  \/ Link(t, "pop_link", "pop_nth")
  \/ MakeBusy(t, "pop_busy", "USED", "pop_copy", "pop_read")
  \/ PopCopy(t)
  \/ PopFree(t)

-----------------------------------------------------------------------------
(* The end of the program: threads end, and main cleans up after them. *)

Exit(t) ==
  /\ At(t, "idle")
  /\ Goto(t, "done")
  /\ UNCHANGED <<shared, index, num_used, entry, item, spare, slot>>

Joined == \A t \in Threads : At(t, "done")

(* mono_lock_free_array_queue_cleanup: what is in the queue is forgotten. *)
Cleanup ==
  /\ Joined
  /\ chunks' = <<>>
  /\ allocated' = {c \in allocated : \A n \in DOMAIN chunks : chunks[n] # c}
  /\ num_used_entries' = 0
  /\ UNCHANGED <<state, data, pool, pc, index, num_used, entry, item, spare, slot>>

Call(t) == PushBegin(t) \/ PopBegin(t)
Step(t) == Push(t) \/ Pop(t)

Next ==
  \/ \E t \in Threads : Call(t) \/ Step(t) \/ Exit(t)
  \/ Cleanup

Spec == Init /\ [][Next]_vars

(* Some thread that is in a call and can go on does; the others may stop for ever.
   CallsReturn does not hold under this. *)
FairSpec == Spec /\ WF_vars(\E t \in Threads : Step(t))

(* Every thread that is in a call and can go on does. *)
ThreadFairSpec == Spec /\ \A t \in Threads : WF_vars(Step(t))

-----------------------------------------------------------------------------
(* Properties *)

(* The variables keep their types.  In particular num_used_entries never falls
   below zero (g_assert (index >= 0), lock-free-array-queue.c:61). *)
TypeOK ==
  /\ chunks \in Seq(Chunks)
  /\ allocated \subseteq Chunks
  /\ state \in [Entry -> State]
  /\ data \in [Entry -> Items \cup {NoItem}]
  /\ num_used_entries \in Nat
  /\ pool \subseteq Items
  /\ pc \in [Threads -> Label]
  /\ index \in [Threads -> Nat]
  /\ num_used \in [Threads -> Nat]
  /\ entry \in [Threads -> Entry \cup {NoEntry}]
  /\ item \in [Threads -> Items \cup {NoItem}]
  /\ spare \in [Threads -> Chunks \cup {NoChunk}]
  /\ slot \in [Threads -> Nat]

Owns(t) == pc[t] \in {"push_write", "push_used", "pop_copy", "pop_free"}

(* The types, and: the entry a thread has made BUSY "belongs" to that thread
   (lines 13-17), every BUSY entry to exactly one, whatever indices others hold. *)
BusyIsOwned ==
  /\ TypeOK
  /\ \A e \in Entry : state[e] = "BUSY" => \E t \in Threads : Owns(t) /\ entry[t] = e
  /\ \A t \in Threads : Owns(t) => state[entry[t]] = "BUSY"
  /\ \A t, u \in Threads : Owns(t) /\ Owns(u) /\ entry[t] = entry[u] => t = u

(* A used entry that num_used_entries does not cover is about to be covered by
   its push (lines 156-160), or a pop that has lowered the count is on its way
   to it.  In particular every used entry is covered when no call is active. *)
Raises(t, i) == pc[t] \in {"push_check", "push_raise"} /\ index[t] = i
Seeks(t, i) == pc[t] \in {"pop_nth", "pop_link", "pop_busy"} /\ index[t] = i
NotStranded ==
  \A i \in 0 .. Len(chunks) * NumEntries - 1 : state[CHUNK_NTH(i)] = "USED" =>
    \/ i < num_used_entries
    \/ \E t \in Threads : Raises(t, i) \/ Seeks(t, i)

(* A chunk is in the list or in the hands of the one thread that made it: of two
   threads that append at the same place the loser frees its own (line 76), and
   after the cleanup no chunk is left. *)
IsLinked(c) == \E n \in DOMAIN chunks : chunks[n] = c
ChunksAccounted ==
  /\ \A c \in allocated : IsLinked(c) # \E t \in Threads : spare[t] = c
  /\ \A n \in DOMAIN chunks : chunks[n] \in allocated
  /\ \A t, u \in Threads : spare[t] = spare[u] => t = u \/ spare[t] = NoChunk

(* The queue is a bag: a push puts its item in when it makes the entry USED, a
   pop takes it out when it makes it BUSY, and a pop returns FALSE only when
   other calls account for everything that is in. *)
Hand(t) == IF At(t, "pop_copy") THEN data[entry[t]] ELSE item[t]
Pushing(t) ==
  pc[t] \in {"push_claim", "push_nth", "push_link", "push_busy", "push_write",
            "push_used", "push_check", "push_raise"}
Calling(t) ==
  CASE pc[t] \in {"idle", "done"} -> "none"
    [] Pushing(t) -> "push"
    [] OTHER -> "pop"
InBag(e) == state[e] = "USED" /\ IsLinked(e[1])
BagOf == {data[e] : e \in {f \in Entry : InBag(f)}}
CallOf == [t \in Threads |-> Calling(t)]
HandOf == [t \in Threads |-> Hand(t)]
Bag == INSTANCE ConcurrentBag WITH bag <- BagOf, call <- CallOf, hand <- HandOf
IsBag == Bag!Spec

(* Calls keep returning, unless nobody makes any (or the bound MaxUsed stops
   those that do).  Every thread has to be scheduled for it: one that stops
   between claiming an index and freeing the entry can keep others trying. *)
Returns == \E t \in Threads : ~At(t, "idle") /\ At(t, "idle")'
Rests == \A t \in Threads : \/ pc[t] \in {"idle", "done"}
                            \/ At(t, "push_claim") /\ num_used_entries = MaxUsed
CallsReturn == []<><<Returns>>_vars \/ <>[]Rests

=============================================================================
