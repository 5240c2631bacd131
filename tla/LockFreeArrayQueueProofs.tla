----------------------- MODULE LockFreeArrayQueueProofs -----------------------
(***************************************************************************)
(* Theorems about LockFreeArrayQueue, for every number of threads, items   *)
(* and chunks, every size of chunks and every bound on the count: entries  *)
(* have one owner while they are BUSY, no used entry is stranded above     *)
(* num_used_entries, no chunk is lost, and the queue implements            *)
(* ConcurrentBag.                                                          *)
(***************************************************************************)
EXTENDS LockFreeArrayQueue, TLAPS, FiniteSetTheorems

-----------------------------------------------------------------------------
(* Indices *)

(* An index is a place in a chunk, and no two are the same one. *)
LEMMA Division ==
  ASSUME NEW n \in Nat \ {0}, NEW i \in Nat
  PROVE  /\ i \div n \in Nat /\ (i % n) \in 0 .. n - 1
         /\ i = n * (i \div n) + (i % n)
OBVIOUS

LEMMA DivisionBelow ==
  ASSUME NEW n \in Nat \ {0}, NEW i \in Nat, NEW k \in Nat
  PROVE  i < k * n <=> i \div n < k
<1>1. PICK q \in Nat, r \in 0 .. n - 1 : q = i \div n /\ i = n * q + r
  BY Division
<1>2. CASE q < k
  <2>1. q + 1 <= k
    BY <1>2
  <2>2. n * (q + 1) <= n * k
    BY <2>1
  <2> QED
    BY <1>1, <1>2, <2>2
<1>3. CASE q >= k
  <2>1. n * k <= n * q
    BY <1>3
  <2> QED
    BY <1>1, <1>3, <2>1
<1> QED
  BY <1>2, <1>3

LEMMA SameIndex ==
  ASSUME NEW n \in Nat \ {0}, NEW i \in Nat, NEW j \in Nat, i \div n = j \div n, i % n = j % n
  PROVE  i = j
<1>1. PICK q \in Nat, r \in 0 .. n - 1 : q = i \div n /\ r = i % n /\ i = n * q + r
  BY Division
<1>2. j = n * q + r
  BY <1>1, Division
<1> QED
  BY <1>1, <1>2

LEMMA LinkedIs ==
  ASSUME NEW i \in Nat, chunks \in Seq(Chunks), Linked(i)
  PROVE  /\ i \div NumEntries + 1 \in DOMAIN chunks
         /\ CHUNK_NTH(i) \in Entry
         /\ CHUNK_NTH(i)[1] = chunks[i \div NumEntries + 1]
<1>1. /\ i \div NumEntries \in Nat /\ (i % NumEntries) \in 0 .. NumEntries - 1
      /\ i \div NumEntries < Len(chunks) /\ Len(chunks) \in Nat
  <2>1. i \div NumEntries \in Nat /\ (i % NumEntries) \in 0 .. NumEntries - 1
    BY Division, NumEntriesIsPositive
  <2> QED
    BY <2>1 DEF Linked
<1>2. i \div NumEntries + 1 \in DOMAIN chunks
  BY <1>1
<1>3. chunks[i \div NumEntries + 1] \in Chunks
  BY <1>2
<1> QED
  BY <1>1, <1>2, <1>3 DEF CHUNK_NTH, Entry

-----------------------------------------------------------------------------
(* Types and frames *)

InPush(t) ==
  pc[t] \in {"push_claim", "push_nth", "push_link", "push_busy", "push_write", "push_used"}
AtEntry(t) ==
  pc[t] \in {"push_busy", "push_write", "push_used", "push_check", "push_raise",
             "pop_busy", "pop_copy", "pop_free"}

(* What the locals of a thread are at each label. *)
FrameOK(t) ==
  /\ InPush(t) \/ pc[t] = "pop_free" => item[t] \in Items
  /\ AtEntry(t) => entry[t] = CHUNK_NTH(index[t]) /\ Linked(index[t])
  /\ pc[t] \in {"push_used", "pop_copy"} => data[entry[t]] \in Items
  /\ pc[t] \in {"push_link", "pop_link"} <=> spare[t] # NoChunk
  /\ pc[t] = "push_raise" => num_used[t] <= index[t]
  /\ pc[t] = "pop_claim" => num_used[t] > 0
Frames == \A t \in Threads : FrameOK(t)

(* The item of a used entry is one, and entries that are not owned are not BUSY. *)
Filled == \A e \in Entry : state[e] = "USED" => data[e] \in Items

Owned ==
  /\ \A e \in Entry : state[e] = "BUSY" => \E t \in Threads : Owns(t) /\ entry[t] = e
  /\ \A t \in Threads : Owns(t) => state[entry[t]] = "BUSY"
  /\ \A t, u \in Threads : Owns(t) /\ Owns(u) /\ entry[t] = entry[u] => t = u

(* The list has no chunk twice, and a chunk that is not yet in it has only free
   entries. *)
Distinct == \A m, n \in DOMAIN chunks : chunks[m] = chunks[n] => m = n
SpareIsFree ==
  \A t \in Threads : spare[t] # NoChunk =>
    spare[t] \in allocated /\ \A e \in Entry : e[1] = spare[t] => state[e] = "FREE"

-----------------------------------------------------------------------------
(* The types *)

TypeInv == TypeOK /\ Frames /\ Filled

(* Where an index leads does not change when the list grows. *)
LEMMA PlacesStay ==
  ASSUME chunks \in Seq(Chunks), NEW c, chunks' = chunks \/ chunks' = Append(chunks, c),
         NEW i \in Nat, Linked(i)
  PROVE  Linked(i)' /\ CHUNK_NTH(i)' = CHUNK_NTH(i)
<1>1. i \div NumEntries \in Nat
  BY Division, NumEntriesIsPositive
<1>2. PICK k \in Nat : k = i \div NumEntries
  BY <1>1
<1>3. PICK a \in Seq(Chunks) : a = chunks
  OBVIOUS
<1>4. k + 1 \in 1 .. Len(a)
  BY <1>2, <1>3 DEF Linked
<1>5. CASE chunks' = chunks
  BY <1>5 DEF Linked, CHUNK_NTH
<1>6. CASE chunks' = Append(a, c)
  <2>1. Len(Append(a, c)) = Len(a) + 1 /\ Append(a, c)[k + 1] = a[k + 1]
    BY <1>4
  <2>2. k < Len(a) + 1
    BY <1>4
  <2> QED
    BY <1>2, <1>3, <1>6, <2>1, <2>2 DEF Linked, CHUNK_NTH
<1> QED
  BY <1>3, <1>5, <1>6

LEMMA TypePushBegin ==
  ASSUME TypeInv, NEW t \in Threads, PushBegin(t)
  PROVE  TypeInv'
<1>1. TypeOK'
  BY DEF TypeInv, TypeOK, State, Label, Frames, FrameOK, InPush, PushBegin, At, Goto, Return, shared
<1>2. Frames'
  BY DEF TypeInv, TypeOK, Frames, FrameOK, InPush, AtEntry, Linked, CHUNK_NTH, PushBegin, At, Goto, Return, shared
<1>3. Filled'
  BY DEF TypeInv, TypeOK, Frames, FrameOK, Filled, PushBegin, At, shared
<1> QED
  BY <1>1, <1>2, <1>3 DEF TypeInv

LEMMA TypePushClaim ==
  ASSUME TypeInv, NEW t \in Threads, PushClaim(t)
  PROVE  TypeInv'
<1>1. TypeOK'
  BY DEF TypeInv, TypeOK, State, Label, Frames, FrameOK, InPush, PushClaim, At, Goto, Return, shared
<1>2. Frames'
  BY DEF TypeInv, TypeOK, Frames, FrameOK, InPush, AtEntry, Linked, CHUNK_NTH, PushClaim, At, Goto, Return, shared
<1>3. Filled'
  BY DEF TypeInv, TypeOK, Frames, FrameOK, Filled, PushClaim, At, shared
<1> QED
  BY <1>1, <1>2, <1>3 DEF TypeInv

LEMMA TypePushUsed ==
  ASSUME TypeInv, NEW t \in Threads, PushUsed(t)
  PROVE  TypeInv'
<1>1. TypeOK'
  BY DEF TypeInv, TypeOK, State, Label, Frames, FrameOK, InPush, PushUsed, At, Goto, Return, shared
<1>2. Frames'
  BY DEF TypeInv, TypeOK, Frames, FrameOK, InPush, AtEntry, Linked, CHUNK_NTH, PushUsed, At, Goto, Return, shared
<1>3. Filled'
  BY DEF TypeInv, TypeOK, Frames, FrameOK, Filled, PushUsed, At, shared
<1> QED
  BY <1>1, <1>2, <1>3 DEF TypeInv

LEMMA TypePopBegin ==
  ASSUME TypeInv, NEW t \in Threads, PopBegin(t)
  PROVE  TypeInv'
<1>1. TypeOK'
  BY DEF TypeInv, TypeOK, State, Label, Frames, FrameOK, InPush, PopBegin, At, Goto, Return, shared
<1>2. Frames'
  BY DEF TypeInv, TypeOK, Frames, FrameOK, InPush, AtEntry, Linked, CHUNK_NTH, PopBegin, At, Goto, Return, shared
<1>3. Filled'
  BY DEF TypeInv, TypeOK, Frames, FrameOK, Filled, PopBegin, At, shared
<1> QED
  BY <1>1, <1>2, <1>3 DEF TypeInv

LEMMA TypePopCopy ==
  ASSUME TypeInv, NEW t \in Threads, PopCopy(t)
  PROVE  TypeInv'
<1>1. TypeOK'
  BY DEF TypeInv, TypeOK, State, Label, Frames, FrameOK, InPush, PopCopy, At, Goto, Return, shared
<1>2. Frames'
  BY DEF TypeInv, TypeOK, Frames, FrameOK, InPush, AtEntry, Linked, CHUNK_NTH, PopCopy, At, Goto, Return, shared
<1>3. Filled'
  BY DEF TypeInv, TypeOK, Frames, FrameOK, Filled, PopCopy, At, shared
<1> QED
  BY <1>1, <1>2, <1>3 DEF TypeInv

LEMMA TypePopFree ==
  ASSUME TypeInv, NEW t \in Threads, PopFree(t)
  PROVE  TypeInv'
<1>1. TypeOK'
  BY DEF TypeInv, TypeOK, State, Label, Frames, FrameOK, InPush, PopFree, At, Goto, Return, shared
<1>2. Frames'
  BY DEF TypeInv, TypeOK, Frames, FrameOK, InPush, AtEntry, Linked, CHUNK_NTH, PopFree, At, Goto, Return, shared
<1>3. Filled'
  BY DEF TypeInv, TypeOK, Frames, FrameOK, Filled, PopFree, At, shared
<1> QED
  BY <1>1, <1>2, <1>3 DEF TypeInv

LEMMA TypeExit ==
  ASSUME TypeInv, NEW t \in Threads, Exit(t)
  PROVE  TypeInv'
<1>1. TypeOK'
  BY DEF TypeInv, TypeOK, State, Label, Frames, FrameOK, InPush, Exit, At, Goto, Return, shared
<1>2. Frames'
  BY DEF TypeInv, TypeOK, Frames, FrameOK, InPush, AtEntry, Linked, CHUNK_NTH, Exit, At, Goto, Return, shared
<1>3. Filled'
  BY DEF TypeInv, TypeOK, Frames, FrameOK, Filled, Exit, At, shared
<1> QED
  BY <1>1, <1>2, <1>3 DEF TypeInv

LEMMA ReturnType ==
  ASSUME TypeInv, NEW t \in Threads, Return(t)
  PROVE  /\ index' \in [Threads -> Nat] /\ pc' \in [Threads -> Label]
         /\ entry' \in [Threads -> Entry \cup {NoEntry}]
BY DEF TypeInv, TypeOK, Label, Return, Goto

LEMMA CountType ==
  ASSUME TypeInv, NEW t \in Threads, PopClaim(t), Unchanged(t)
  PROVE  num_used_entries' \in Nat /\ index' \in [Threads -> Nat]
<1>1. num_used[t] - 1 \in Nat
  BY DEF TypeInv, TypeOK, Frames, FrameOK, PopClaim, At
<1>2. num_used_entries' = num_used[t] - 1 /\ index' = [index EXCEPT ![t] = num_used[t] - 1]
  BY DEF PopClaim
<1> QED
  BY <1>1, <1>2 DEF TypeInv, TypeOK

LEMMA TypePushCheck ==
  ASSUME TypeInv, NEW t \in Threads, PushCheck(t)
  PROVE  TypeInv'
<1>1. CASE Covered(t)
  <2>1. TypeOK'
    BY <1>1, ReturnType DEF TypeInv, TypeOK, PushCheck, shared
  <2>2. Frames'
    BY <1>1 DEF TypeInv, TypeOK, Frames, FrameOK, InPush, AtEntry, Linked, CHUNK_NTH, PushCheck, At, Goto, Return, shared
  <2> QED
    BY <2>1, <2>2 DEF TypeInv, Filled, PushCheck, shared
<1>2. CASE ~Covered(t)
  <2>1. TypeOK'
    BY <1>2 DEF TypeInv, TypeOK, State, Label, Frames, FrameOK, InPush, PushCheck, At, Goto, shared
  <2>2. Frames'
    BY <1>2 DEF TypeInv, TypeOK, Frames, FrameOK, InPush, AtEntry, Linked, CHUNK_NTH, PushCheck, Covered, IsEmpty, At, Goto, shared
  <2> QED
    BY <2>1, <2>2 DEF TypeInv, Filled, PushCheck, shared
<1> QED
  BY <1>1, <1>2

LEMMA TypePushRaise ==
  ASSUME TypeInv, NEW t \in Threads, PushRaise(t)
  PROVE  TypeInv'
<1>1. CASE Unchanged(t)
  <2>1. TypeOK'
    BY <1>1, ReturnType DEF TypeInv, TypeOK, PushRaise, shared
  <2>2. Frames'
    BY <1>1 DEF TypeInv, TypeOK, Frames, FrameOK, InPush, AtEntry, Linked, CHUNK_NTH, PushRaise, At, Goto, Return, shared
  <2> QED
    BY <2>1, <2>2 DEF TypeInv, Filled, PushRaise, shared
<1>2. CASE ~Unchanged(t)
  <2>1. TypeOK'
    BY <1>2 DEF TypeInv, TypeOK, State, Label, Frames, FrameOK, InPush, PushRaise, At, Goto, shared
  <2>2. Frames'
    BY <1>2 DEF TypeInv, TypeOK, Frames, FrameOK, InPush, AtEntry, Linked, CHUNK_NTH, PushRaise, Covered, IsEmpty, At, Goto, shared
  <2> QED
    BY <2>1, <2>2 DEF TypeInv, Filled, PushRaise, shared
<1> QED
  BY <1>1, <1>2

LEMMA TypePopRead ==
  ASSUME TypeInv, NEW t \in Threads, PopRead(t)
  PROVE  TypeInv'
<1>1. CASE IsEmpty
  <2>1. TypeOK'
    BY <1>1, ReturnType DEF TypeInv, TypeOK, PopRead, shared
  <2>2. Frames'
    BY <1>1 DEF TypeInv, TypeOK, Frames, FrameOK, InPush, AtEntry, Linked, CHUNK_NTH, PopRead, At, Goto, Return, shared
  <2> QED
    BY <2>1, <2>2 DEF TypeInv, Filled, PopRead, shared
<1>2. CASE ~IsEmpty
  <2>1. TypeOK'
    BY <1>2 DEF TypeInv, TypeOK, State, Label, Frames, FrameOK, InPush, PopRead, At, Goto, shared
  <2>2. Frames'
    BY <1>2 DEF TypeInv, TypeOK, Frames, FrameOK, InPush, AtEntry, Linked, CHUNK_NTH, PopRead, Covered, IsEmpty, At, Goto, shared
  <2> QED
    BY <2>1, <2>2 DEF TypeInv, Filled, PopRead, shared
<1> QED
  BY <1>1, <1>2

LEMMA TypePopClaim ==
  ASSUME TypeInv, NEW t \in Threads, PopClaim(t)
  PROVE  TypeInv'
<1>1. CASE Unchanged(t)
  <2>1. TypeOK'
    BY <1>1, CountType DEF TypeInv, TypeOK, Label, Goto, PopClaim, shared
  <2>2. Frames'
    BY <1>1 DEF TypeInv, TypeOK, Frames, FrameOK, InPush, AtEntry, Linked, CHUNK_NTH, PopClaim, At, Goto, Return, shared
  <2> QED
    BY <2>1, <2>2 DEF TypeInv, Filled, PopClaim, shared
<1>2. CASE ~Unchanged(t)
  <2>1. TypeOK'
    BY <1>2 DEF TypeInv, TypeOK, State, Label, Frames, FrameOK, InPush, PopClaim, At, Goto, shared
  <2>2. Frames'
    BY <1>2 DEF TypeInv, TypeOK, Frames, FrameOK, InPush, AtEntry, Linked, CHUNK_NTH, PopClaim, Covered, IsEmpty, At, Goto, shared
  <2> QED
    BY <2>1, <2>2 DEF TypeInv, Filled, PopClaim, shared
<1> QED
  BY <1>1, <1>2

LEMMA EntryIs ==
  ASSUME TypeInv, NEW t \in Threads, AtEntry(t)
  PROVE  entry[t] \in Entry
BY LinkedIs DEF TypeInv, TypeOK, Frames, FrameOK

LEMMA TypePushWrite ==
  ASSUME TypeInv, NEW t \in Threads, PushWrite(t)
  PROVE  TypeInv'
<1>1. PICK e \in Entry : e = entry[t]
  BY EntryIs DEF PushWrite, At, AtEntry
<1>2. PICK x \in Items : x = item[t]
  BY DEF TypeInv, Frames, FrameOK, InPush, PushWrite, At
<1>3. data' = [data EXCEPT ![e] = x] /\ data \in [Entry -> Items \cup {NoItem}]
  BY <1>1, <1>2 DEF PushWrite, TypeInv, TypeOK
<1>4. \A f \in Entry : data[f] \in Items => data'[f] \in Items
  BY <1>3
<1>5. data'[e] \in Items
  BY <1>3
<1>6. TypeOK'
  BY <1>3 DEF TypeInv, TypeOK, Label, PushWrite, Goto
<1>7. Filled'
  BY <1>4 DEF TypeInv, Filled, PushWrite
<1>8. ASSUME NEW u \in Threads PROVE FrameOK(u)'
  <2>1. pc'[u] \in {"push_used", "pop_copy"} => data'[entry[u]] \in Items
    <3>1. CASE u = t
      BY <1>1, <1>5, <3>1
    <3>2. CASE u # t
      <4>1. pc'[u] = pc[u]
        BY <3>2 DEF TypeInv, TypeOK, PushWrite, Goto
      <4> QED
        BY <1>4, <4>1, EntryIs DEF TypeInv, Frames, FrameOK, AtEntry
    <3> QED
      BY <3>1, <3>2
  <2> QED
    BY <2>1 DEF TypeInv, TypeOK, Frames, FrameOK, InPush, AtEntry, Linked, CHUNK_NTH, PushWrite, At, Goto
<1> QED
  BY <1>6, <1>7, <1>8 DEF TypeInv, Frames

LEMMA TypeWalk ==
  ASSUME TypeInv, NEW t \in Threads, NEW here, NEW link, NEW found, Walk(t, here, link, found),
         \/ here = "push_nth" /\ link = "push_link" /\ found = "push_busy"
         \/ here = "pop_nth" /\ link = "pop_link" /\ found = "pop_busy"
  PROVE  TypeInv'
<1>1. CASE Linked(index[t])
  <2>1. /\ UNCHANGED <<chunks, allocated, state, data, num_used_entries, pool, index, num_used, item, spare, slot>>
        /\ entry' = [entry EXCEPT ![t] = CHUNK_NTH(index[t])] /\ pc' = [pc EXCEPT ![t] = found]
        /\ pc[t] = here
    BY <1>1 DEF Walk, At, Goto
  <2>2. CHUNK_NTH(index[t]) \in Entry
    BY <1>1, LinkedIs DEF TypeInv, TypeOK
  <2>3. TypeOK'
    BY <2>1, <2>2 DEF TypeInv, TypeOK, Label
  <2>4. Frames'
    BY <1>1, <2>1, <2>2 DEF TypeInv, TypeOK, Frames, FrameOK, InPush, AtEntry, Linked, CHUNK_NTH
  <2> QED
    BY <2>1, <2>3, <2>4 DEF TypeInv, Filled
<1>2. CASE ~Linked(index[t])
  <2>1. PICK c \in Chunks \ allocated :
          /\ allocated' = allocated \cup {c}
          /\ state' = [e \in Entry |-> IF e[1] = c THEN "FREE" ELSE state[e]]
          /\ spare' = [spare EXCEPT ![t] = c]
    BY <1>2 DEF Walk
  <2>2. /\ UNCHANGED <<chunks, data, num_used_entries, pool, index, num_used, item, entry>>
        /\ slot' = [slot EXCEPT ![t] = Len(chunks)] /\ pc' = [pc EXCEPT ![t] = link]
        /\ pc[t] = here
    BY <1>2 DEF Walk, At, Goto
  <2>3. TypeOK'
    BY <2>1, <2>2 DEF TypeInv, TypeOK, Label, State
  <2>4. Frames'
    BY <2>1, <2>2, NoChunkIsNoChunk DEF TypeInv, TypeOK, Frames, FrameOK, InPush, AtEntry, Linked, CHUNK_NTH
  <2>5. Filled'
    BY <2>1, <2>2 DEF TypeInv, Filled
  <2> QED
    BY <2>3, <2>4, <2>5 DEF TypeInv
<1> QED
  BY <1>1, <1>2

LEMMA TypeLink ==
  ASSUME TypeInv, NEW t \in Threads, NEW here, NEW back, Link(t, here, back),
         \/ here = "push_link" /\ back = "push_nth"
         \/ here = "pop_link" /\ back = "pop_nth"
  PROVE  TypeInv'
<1>1. /\ UNCHANGED <<state, data, num_used_entries, pool, index, num_used, entry, item>>
      /\ spare' = [spare EXCEPT ![t] = NoChunk] /\ slot' = [slot EXCEPT ![t] = 0]
      /\ pc' = [pc EXCEPT ![t] = back] /\ pc[t] = here
  BY DEF Link, At, Goto
<1>2. PICK c \in Chunks : c = spare[t]
  BY <1>1 DEF TypeInv, TypeOK, Frames, FrameOK
<1>3. /\ chunks' = chunks \/ chunks' = Append(chunks, c)
      /\ allocated' \subseteq allocated
  BY <1>2 DEF Link, free_chunk
<1>4. chunks' \in Seq(Chunks)
  <2>1. chunks \in Seq(Chunks)
    BY DEF TypeInv, TypeOK
  <2> QED
    BY <1>3, <2>1
<1>5. TypeOK'
  BY <1>1, <1>3, <1>4 DEF TypeInv, TypeOK, Label
<1>6. ASSUME NEW u \in Threads PROVE FrameOK(u)'
  <2>1. AtEntry(u)' => AtEntry(u)
    BY <1>1 DEF TypeInv, TypeOK, AtEntry
  <2>2. AtEntry(u) => Linked(index[u])' /\ CHUNK_NTH(index[u])' = CHUNK_NTH(index[u])
    <3>1. PICK i \in Nat : i = index[u]
      BY DEF TypeInv, TypeOK
    <3>2. Linked(i) => Linked(i)' /\ CHUNK_NTH(i)' = CHUNK_NTH(i)
      BY <1>3, PlacesStay DEF TypeInv, TypeOK
    <3>3. i = index'[u]
      BY <1>1, <3>1
    <3> QED
      BY <3>1, <3>2, <3>3 DEF TypeInv, Frames, FrameOK, Linked, CHUNK_NTH
  <2>3. AtEntry(u)' => (entry[u] = CHUNK_NTH(index[u]) /\ Linked(index[u]))'
    BY <1>1, <2>1, <2>2 DEF TypeInv, Frames, FrameOK
  <2> QED
    BY <1>1, <2>3 DEF TypeInv, TypeOK, Frames, FrameOK, InPush, AtEntry
<1>7. Filled'
  BY <1>1 DEF TypeInv, Filled
<1> QED
  BY <1>5, <1>6, <1>7 DEF TypeInv, Frames

LEMMA TypeMakeBusy ==
  ASSUME TypeInv, NEW t \in Threads, NEW here, NEW old, NEW mine, NEW again,
         MakeBusy(t, here, old, mine, again),
         \/ here = "push_busy" /\ old = "FREE" /\ mine = "push_write" /\ again = "push_claim"
         \/ here = "pop_busy" /\ old = "USED" /\ mine = "pop_copy" /\ again = "pop_read"
  PROVE  TypeInv'
<1>1. /\ UNCHANGED <<chunks, allocated, data, num_used_entries, pool, index, num_used, item, spare, slot>>
      /\ pc[t] = here
  BY DEF MakeBusy, At
<1>2. entry[t] \in Entry
  BY <1>1, EntryIs DEF AtEntry
<1>3. CASE Claims(t, old)
  <2>1. state' = [state EXCEPT ![entry[t]] = "BUSY"] /\ pc' = [pc EXCEPT ![t] = mine] /\ entry' = entry
    BY <1>3 DEF MakeBusy, Goto
  <2>2. old = "USED" => data[entry[t]] \in Items
    BY <1>2, <1>3 DEF TypeInv, Filled, Claims
  <2>3. TypeOK'
    BY <1>1, <2>1 DEF TypeInv, TypeOK, State, Label
  <2>4. Frames'
    BY <1>1, <2>1, <2>2 DEF TypeInv, TypeOK, Frames, FrameOK, InPush, AtEntry, Linked, CHUNK_NTH
  <2>5. Filled'
    BY <1>1, <2>1 DEF TypeInv, TypeOK, Filled
  <2> QED
    BY <2>3, <2>4, <2>5 DEF TypeInv
<1>4. CASE ~Claims(t, old)
  <2>1. entry' = [entry EXCEPT ![t] = NoEntry] /\ pc' = [pc EXCEPT ![t] = again] /\ state' = state
    BY <1>4 DEF MakeBusy, Goto
  <2>2. TypeOK'
    BY <1>1, <2>1 DEF TypeInv, TypeOK, Label
  <2>3. Frames'
    BY <1>1, <2>1 DEF TypeInv, TypeOK, Frames, FrameOK, InPush, AtEntry, Linked, CHUNK_NTH
  <2> QED
    BY <1>1, <2>1, <2>2, <2>3 DEF TypeInv, Filled
<1> QED
  BY <1>3, <1>4

LEMMA TypeCleanup ==
  ASSUME TypeInv, Cleanup
  PROVE  TypeInv'
<1>1. TypeOK'
  BY DEF TypeInv, TypeOK, Cleanup
<1>2. Frames'
  BY DEF TypeInv, Frames, FrameOK, InPush, AtEntry, Cleanup, Joined, At
<1> QED
  BY <1>1, <1>2 DEF TypeInv, Filled, Cleanup

LEMMA TypeStep == TypeInv /\ [Next]_vars => TypeInv'
<1> SUFFICES ASSUME TypeInv, [Next]_vars PROVE TypeInv'
  OBVIOUS
<1>1. CASE UNCHANGED vars
  <2>1. TypeOK' /\ Filled'
    BY <1>1 DEF TypeInv, TypeOK, Filled, vars, shared
  <2>2. Frames'
    BY <1>1 DEF TypeInv, Frames, FrameOK, InPush, AtEntry, Linked, CHUNK_NTH, vars, shared
  <2> QED
    BY <2>1, <2>2 DEF TypeInv
<1>2. CASE Next
  BY <1>2, TypePushBegin, TypePushClaim, TypePushWrite, TypePushUsed, TypePushCheck, TypePushRaise, TypePopBegin,
     TypePopRead, TypePopClaim, TypePopCopy, TypePopFree, TypeExit, TypeWalk, TypeLink, TypeMakeBusy, TypeCleanup
  DEF Next, Call, Step, Push, Pop
<1> QED
  BY <1>1, <1>2

LEMMA TypeInit == Init => TypeInv
<1> SUFFICES ASSUME Init PROVE TypeInv
  OBVIOUS
<1>1. TypeOK
  BY DEF Init, TypeOK, State, Label
<1>2. Frames /\ Filled
  BY DEF Init, Frames, FrameOK, InPush, AtEntry, Filled
<1> QED
  BY <1>1, <1>2 DEF TypeInv

-----------------------------------------------------------------------------
(* Chunks *)

ChunkInv == ChunksAccounted /\ Distinct /\ SpareIsFree

(* ChunksAccounted, one half at a time. *)
Accounted ==
  /\ \A c \in allocated : IsLinked(c) \/ \E t \in Threads : spare[t] = c
  /\ \A c \in allocated, t \in Threads : IsLinked(c) => spare[t] # c
  /\ \A n \in DOMAIN chunks : chunks[n] \in allocated
  /\ \A t, u \in Threads : spare[t] = spare[u] => t = u \/ spare[t] = NoChunk

LEMMA ChunksAccountedIs == ChunksAccounted <=> Accounted
<1>1. ASSUME NEW c
      PROVE  (IsLinked(c) # \E t \in Threads : spare[t] = c)
               <=> /\ IsLinked(c) \/ \E t \in Threads : spare[t] = c
                   /\ \A t \in Threads : IsLinked(c) => spare[t] # c
  BY DEF IsLinked
<1> QED
  BY <1>1 DEF ChunksAccounted, Accounted

LEMMA EntryLinked ==
  ASSUME TypeInv, NEW t \in Threads, AtEntry(t)
  PROVE  entry[t] \in Entry /\ IsLinked(entry[t][1])
<1>1. chunks \in Seq(Chunks) /\ index[t] \in Nat /\ Linked(index[t]) /\ entry[t] = CHUNK_NTH(index[t])
  BY DEF TypeInv, TypeOK, Frames, FrameOK
<1>2. /\ index[t] \div NumEntries + 1 \in DOMAIN chunks
      /\ CHUNK_NTH(index[t]) \in Entry
      /\ CHUNK_NTH(index[t])[1] = chunks[index[t] \div NumEntries + 1]
  BY <1>1, LinkedIs
<1> QED
  BY <1>1, <1>2 DEF IsLinked

(* Steps that do not touch the list, when they change an entry that is linked. *)
LEMMA ChunkSame ==
  ASSUME TypeInv, ChunkInv, UNCHANGED <<chunks, allocated, spare>>,
         NEW e, NEW x, state' = state \/ (e \in Entry /\ IsLinked(e[1]) /\ state' = [state EXCEPT ![e] = x])
  PROVE  ChunkInv'
<1>1. ChunksAccounted' /\ Distinct'
  BY DEF ChunkInv, ChunksAccounted, Distinct, IsLinked
<1>2. ASSUME NEW t \in Threads, spare[t] # NoChunk
      PROVE  spare[t] \in allocated /\ \A f \in Entry : f[1] = spare[t] => state'[f] = "FREE"
  <2>1. spare[t] \in allocated /\ \A f \in Entry : f[1] = spare[t] => state[f] = "FREE"
    BY <1>2 DEF ChunkInv, SpareIsFree
  <2>2. ~IsLinked(spare[t])
    BY <2>1, ChunksAccountedIs DEF ChunkInv, Accounted
  <2>3. state' = state \/ e[1] # spare[t]
    BY <2>2
  <2>4. state \in [Entry -> State]
    BY DEF TypeInv, TypeOK
  <2> QED
    BY <2>1, <2>3, <2>4
<1>3. SpareIsFree'
  BY <1>2 DEF SpareIsFree
<1> QED
  BY <1>1, <1>3 DEF ChunkInv

LEMMA ChunkWalk ==
  ASSUME TypeInv, ChunkInv, NEW t \in Threads, NEW here, NEW link, NEW found, Walk(t, here, link, found),
         here \notin {"push_link", "pop_link"}
  PROVE  ChunkInv'
<1>1. CASE Linked(index[t])
  <2>1. UNCHANGED <<chunks, allocated, spare, state>>
    BY <1>1 DEF Walk
  <2> QED
    BY <2>1, ChunkSame
<1>2. CASE ~Linked(index[t])
  <2>1. PICK c \in Chunks \ allocated :
          /\ allocated' = allocated \cup {c}
          /\ state' = [e \in Entry |-> IF e[1] = c THEN "FREE" ELSE state[e]]
          /\ spare' = [spare EXCEPT ![t] = c]
    BY <1>2 DEF Walk
  <2>2. chunks' = chunks /\ c # NoChunk
    BY <1>2, NoChunkIsNoChunk DEF Walk
  <2>3. spare[t] = NoChunk /\ spare'[t] = c /\ \A u \in Threads \ {t} : spare'[u] = spare[u]
    BY <2>1 DEF TypeInv, TypeOK, Frames, FrameOK, Walk, At
  <2>4. \A d : IsLinked(d)' <=> IsLinked(d)
    BY <2>2 DEF IsLinked
  <2>5. ~IsLinked(c)
    BY ChunksAccountedIs DEF ChunkInv, Accounted, IsLinked
  <2>6. \A u \in Threads : spare[u] # c
    BY <2>2 DEF ChunkInv, SpareIsFree
  <2>7. Accounted
    BY ChunksAccountedIs DEF ChunkInv
  <2>8. \A d \in allocated' : (IsLinked(d) \/ \E u \in Threads : spare[u] = d)'
    <3>1. NoChunk \notin allocated
      BY NoChunkIsNoChunk DEF TypeInv, TypeOK
    <3> QED
      BY <2>1, <2>2, <2>3, <2>4, <2>7, <3>1 DEF Accounted
  <2>9. \A d \in allocated', u \in Threads : (IsLinked(d) => spare[u] # d)'
    BY <2>1, <2>3, <2>4, <2>5, <2>6, <2>7 DEF Accounted
  <2>10. \A n \in DOMAIN chunks' : chunks'[n] \in allocated'
    BY <2>1, <2>2, <2>7 DEF Accounted
  <2>11. \A u, v \in Threads : (spare[u] = spare[v] => u = v \/ spare[u] = NoChunk)'
    BY <2>3, <2>6, <2>7 DEF Accounted
  <2>12. ChunksAccounted'
    <3>1. Accounted'
      BY <2>8, <2>9, <2>10, <2>11 DEF Accounted
    <3>2. (ChunksAccounted <=> Accounted)'
      BY ChunksAccountedIs, PTL
    <3> QED
      BY <3>1, <3>2
  <2>13. Distinct'
    BY <2>2 DEF ChunkInv, Distinct
  <2>14. SpareIsFree'
    BY <2>1, <2>3 DEF ChunkInv, SpareIsFree
  <2> QED
    BY <2>12, <2>13, <2>14 DEF ChunkInv
<1> QED
  BY <1>1, <1>2

LEMMA ChunkLink ==
  ASSUME TypeInv, ChunkInv, NEW t \in Threads, NEW here, NEW back, Link(t, here, back),
         here \in {"push_link", "pop_link"}
  PROVE  ChunkInv'
<1>1. PICK c \in Chunks : c = spare[t]
  BY DEF TypeInv, TypeOK, Frames, FrameOK, Link, At
<1>2. c # NoChunk /\ spare' = [spare EXCEPT ![t] = NoChunk] /\ state' = state
  BY NoChunkIsNoChunk DEF Link
<1>3. spare'[t] = NoChunk /\ \A u \in Threads \ {t} : spare'[u] = spare[u] /\ spare[u] # c
  BY <1>1, <1>2, ChunksAccountedIs DEF TypeInv, TypeOK, ChunkInv, Accounted
<1>4. Accounted /\ Distinct /\ SpareIsFree /\ chunks \in Seq(Chunks)
  BY ChunksAccountedIs DEF ChunkInv, TypeInv, TypeOK
<1>5. c \in allocated /\ ~IsLinked(c)
  BY <1>1, <1>2, <1>4 DEF SpareIsFree, Accounted
<1>6. CASE IsLast(t)
  <2>1. chunks' = Append(chunks, c) /\ allocated' = allocated
    BY <1>1, <1>6 DEF Link
  <2>2. PICK a \in Seq(Chunks) : a = chunks
    BY <1>4
  <2>3. /\ Len(a) \in Nat /\ DOMAIN a = 1 .. Len(a) /\ DOMAIN chunks' = 1 .. Len(a) + 1
        /\ chunks'[Len(a) + 1] = c
        /\ \A n \in 1 .. Len(a) : chunks'[n] = a[n]
    BY <2>1, <2>2
  <2>4. \A d : IsLinked(d)' <=> IsLinked(d) \/ d = c
    BY <2>2, <2>3 DEF IsLinked
  <2>5. \A d \in allocated' : (IsLinked(d) \/ \E u \in Threads : spare[u] = d)'
    <3>1. ASSUME NEW d \in allocated PROVE IsLinked(d)' \/ \E u \in Threads : spare'[u] = d
      <4>1. IsLinked(d) \/ \E u \in Threads : spare[u] = d
        BY <1>4 DEF Accounted
      <4>2. CASE IsLinked(d)
        BY <2>4, <4>2
      <4>3. ASSUME NEW u \in Threads, spare[u] = d PROVE IsLinked(d)' \/ spare'[u] = d
        BY <1>1, <1>3, <2>4, <4>3
      <4> QED
        BY <4>1, <4>2, <4>3
    <3> QED
      BY <2>1, <3>1 DEF IsLinked
  <2>6. \A d \in allocated', u \in Threads : (IsLinked(d) => spare[u] # d)'
    BY <1>2, <1>3, <1>4, <2>1, <2>4, NoChunkIsNoChunk DEF Accounted, TypeInv, TypeOK
  <2>7. \A n \in DOMAIN chunks' : chunks'[n] \in allocated'
    BY <1>4, <1>5, <2>1, <2>2, <2>3 DEF Accounted
  <2>8. Distinct'
    <3>1. \A n \in 1 .. Len(a) : a[n] # c
      BY <1>5, <2>2, <2>3 DEF IsLinked
    <3> QED
      BY <1>4, <2>2, <2>3, <3>1 DEF Distinct
  <2> QED
    <3>1. \A u, v \in Threads : (spare[u] = spare[v] => u = v \/ spare[u] = NoChunk)'
      BY <1>3, <1>4 DEF Accounted
    <3>2. Accounted'
      BY <2>5, <2>6, <2>7, <3>1 DEF Accounted
    <3>3. (ChunksAccounted <=> Accounted)'
      BY ChunksAccountedIs, PTL
    <3>4. SpareIsFree'
      BY <1>2, <1>3, <1>4, <2>1 DEF SpareIsFree
    <3> QED
      BY <2>8, <3>2, <3>3, <3>4 DEF ChunkInv
<1>7. CASE ~IsLast(t)
  <2>1. chunks' = chunks /\ allocated' = allocated \ {c}
    BY <1>1, <1>7 DEF Link, free_chunk
  <2>2. \A d : IsLinked(d)' <=> IsLinked(d)
    BY <2>1 DEF IsLinked
  <2>3. \A d \in allocated' : (IsLinked(d) \/ \E u \in Threads : spare[u] = d)'
    BY <1>1, <1>3, <1>4, <2>1, <2>2 DEF Accounted
  <2>4. \A d \in allocated', u \in Threads : (IsLinked(d) => spare[u] # d)'
    BY <1>2, <1>3, <1>4, <2>1, <2>2, NoChunkIsNoChunk DEF Accounted, TypeInv, TypeOK
  <2>5. \A n \in DOMAIN chunks' : chunks'[n] \in allocated'
    BY <1>4, <1>5, <2>1 DEF Accounted, IsLinked
  <2>6. \A u, v \in Threads : (spare[u] = spare[v] => u = v \/ spare[u] = NoChunk)'
    BY <1>3, <1>4 DEF Accounted
  <2>7. Accounted'
    BY <2>3, <2>4, <2>5, <2>6 DEF Accounted
  <2>8. (ChunksAccounted <=> Accounted)'
    BY ChunksAccountedIs, PTL
  <2>9. SpareIsFree'
    BY <1>2, <1>3, <1>4, <2>1 DEF SpareIsFree
  <2> QED
    BY <1>4, <2>1, <2>7, <2>8, <2>9 DEF ChunkInv, Distinct
<1> QED
  BY <1>6, <1>7

LEMMA ChunkCleanup ==
  ASSUME TypeInv, ChunkInv, Cleanup
  PROVE  ChunkInv'
<1>1. \A t \in Threads : spare[t] = NoChunk
  BY DEF TypeInv, Frames, FrameOK, Cleanup, Joined, At
<1>2. \A c \in allocated : IsLinked(c) \/ c = NoChunk
  BY <1>1, ChunksAccountedIs DEF ChunkInv, Accounted
<1>3. chunks' = <<>> /\ allocated' = {} /\ spare' = spare
  BY <1>2, NoChunkIsNoChunk DEF Cleanup, IsLinked, TypeInv, TypeOK
<1>4. Accounted'
  BY <1>1, <1>3 DEF Accounted
<1>5. (ChunksAccounted <=> Accounted)'
  BY ChunksAccountedIs, PTL
<1>6. Distinct' /\ SpareIsFree'
  BY <1>1, <1>3 DEF Distinct, SpareIsFree
<1> QED
  BY <1>4, <1>5, <1>6 DEF ChunkInv

LEMMA ChunkStep == TypeInv /\ ChunkInv /\ [Next]_vars => ChunkInv'
<1> SUFFICES ASSUME TypeInv, ChunkInv, [Next]_vars PROVE ChunkInv'
  OBVIOUS
<1>1. CASE UNCHANGED vars
  BY <1>1, ChunkSame DEF vars, shared
<1>2. ASSUME NEW t \in Threads,
             \/ PushBegin(t) \/ PushClaim(t) \/ PushWrite(t) \/ PushCheck(t) \/ PushRaise(t)
             \/ PopBegin(t) \/ PopRead(t) \/ PopClaim(t) \/ PopCopy(t) \/ Exit(t)
      PROVE  ChunkInv'
  <2>1. UNCHANGED <<chunks, allocated, spare, state>>
    BY <1>2 DEF PushBegin, PushClaim, PushWrite, PushCheck, PushRaise, PopBegin, PopRead, PopClaim, PopCopy, Exit, shared
  <2> QED
    BY <2>1, ChunkSame
<1>3. ASSUME NEW t \in Threads, NEW x, AtEntry(t), state' = [state EXCEPT ![entry[t]] = x],
             UNCHANGED <<chunks, allocated, spare>>
      PROVE  ChunkInv'
  <2>1. entry[t] \in Entry /\ IsLinked(entry[t][1])
    BY <1>3, EntryLinked
  <2> QED
    BY <1>3, <2>1, ChunkSame
<1>4. ASSUME NEW t \in Threads, PushUsed(t) \/ PopFree(t) PROVE ChunkInv'
  BY <1>3, <1>4 DEF PushUsed, PopFree, At, AtEntry
<1>5. ASSUME NEW t \in Threads,
             \/ MakeBusy(t, "push_busy", "FREE", "push_write", "push_claim")
             \/ MakeBusy(t, "pop_busy", "USED", "pop_copy", "pop_read")
      PROVE  ChunkInv'
  <2>1. AtEntry(t) /\ UNCHANGED <<chunks, allocated, spare>>
    BY <1>5 DEF MakeBusy, At, AtEntry
  <2>2. state' = [state EXCEPT ![entry[t]] = "BUSY"] \/ state' = state
    BY <1>5 DEF MakeBusy
  <2> QED
    BY <1>3, <2>1, <2>2, ChunkSame
<1>6. CASE Next
  BY <1>2, <1>4, <1>5, <1>6, ChunkWalk, ChunkLink, ChunkCleanup DEF Next, Call, Step, Push, Pop
<1> QED
  BY <1>1, <1>6

LEMMA ChunkInit == Init => ChunkInv
BY DEF Init, ChunkInv, ChunksAccounted, Distinct, SpareIsFree, TypeOK

(* A chunk is in the list or in the hands of the one thread that made it. *)
THEOREM ChunksAlwaysAccounted == Spec => []ChunksAccounted
<1>1. Init => TypeInv /\ ChunkInv
  BY TypeInit, ChunkInit
<1>2. TypeInv /\ ChunkInv /\ [Next]_vars => (TypeInv /\ ChunkInv)'
  BY TypeStep, ChunkStep
<1>3. ChunkInv => ChunksAccounted
  BY DEF ChunkInv
<1> QED
  BY <1>1, <1>2, <1>3, PTL DEF Spec

-----------------------------------------------------------------------------
(* Busy entries *)

LEMMA OwnedSame ==
  ASSUME Owned, state' = state,
         \A u \in Threads : (Owns(u)' <=> Owns(u)) /\ (Owns(u) => entry'[u] = entry[u])
  PROVE  Owned'
BY DEF Owned

LEMMA OwnedWalk ==
  ASSUME TypeInv, ChunkInv, Owned, NEW t \in Threads, NEW here, NEW link, NEW found,
         Walk(t, here, link, found),
         \/ here = "push_nth" /\ link = "push_link" /\ found = "push_busy"
         \/ here = "pop_nth" /\ link = "pop_link" /\ found = "pop_busy"
  PROVE  Owned'
<1>1. /\ ~Owns(t) /\ ~Owns(t)'
      /\ \A u \in Threads \ {t} : (Owns(u)' <=> Owns(u)) /\ entry'[u] = entry[u]
  BY DEF Walk, At, Goto, Owns, TypeInv, TypeOK
<1>2. CASE Linked(index[t])
  <2>1. state' = state
    BY <1>2 DEF Walk
  <2> QED
    BY <1>1, <2>1, OwnedSame
<1>3. CASE ~Linked(index[t])
  <2>1. PICK c \in Chunks \ allocated : state' = [e \in Entry |-> IF e[1] = c THEN "FREE" ELSE state[e]]
    BY <1>3 DEF Walk
  <2>2. ASSUME NEW u \in Threads, Owns(u) PROVE entry[u] \in Entry /\ entry[u][1] # c
    <3>1. entry[u] \in Entry /\ IsLinked(entry[u][1])
      BY <2>2, EntryLinked DEF Owns, AtEntry
    <3> QED
      BY <2>1, <3>1, ChunksAccountedIs DEF ChunkInv, Accounted, IsLinked
  <2>3. \A u \in Threads : Owns(u) => state'[entry[u]] = "BUSY"
    BY <2>1, <2>2 DEF Owned
  <2>4. \A e \in Entry : state'[e] = "BUSY" => state[e] = "BUSY"
    BY <2>1
  <2> QED
    BY <1>1, <2>3, <2>4 DEF Owned
<1> QED
  BY <1>2, <1>3

LEMMA OwnedMakeBusy ==
  ASSUME TypeInv, Owned, NEW t \in Threads, NEW here, NEW old, NEW mine, NEW again,
         MakeBusy(t, here, old, mine, again),
         \/ here = "push_busy" /\ old = "FREE" /\ mine = "push_write" /\ again = "push_claim"
         \/ here = "pop_busy" /\ old = "USED" /\ mine = "pop_copy" /\ again = "pop_read"
  PROVE  Owned'
<1>1. /\ ~Owns(t) /\ AtEntry(t)
      /\ \A u \in Threads \ {t} : (Owns(u)' <=> Owns(u)) /\ entry'[u] = entry[u]
  BY DEF MakeBusy, At, Goto, Owns, AtEntry, TypeInv, TypeOK
<1>2. CASE Claims(t, old)
  <2>1. PICK e \in Entry : e = entry[t]
    BY <1>1, EntryIs
  <2>2. state' = [state EXCEPT ![e] = "BUSY"] /\ entry' = entry /\ state[e] # "BUSY" /\ Owns(t)'
    BY <1>2, <2>1 DEF MakeBusy, Claims, Goto, Owns, TypeInv, TypeOK
  <2>3. state'[e] = "BUSY" /\ \A f \in Entry : f # e => state'[f] = state[f]
    BY <2>2 DEF TypeInv, TypeOK
  <2>4. \A u \in Threads : Owns(u) => entry[u] \in Entry /\ entry[u] # e
    BY <2>2, EntryIs DEF Owned, Owns, AtEntry
  <2>5. \A f \in Entry : state'[f] = "BUSY" => \E u \in Threads : Owns(u)' /\ entry'[u] = f
    BY <1>1, <2>1, <2>2, <2>3 DEF Owned
  <2>6. \A u \in Threads : Owns(u)' => state'[entry'[u]] = "BUSY"
    BY <1>1, <2>1, <2>2, <2>3, <2>4 DEF Owned
  <2>7. \A u, v \in Threads : Owns(u)' /\ Owns(v)' /\ entry'[u] = entry'[v] => u = v
    BY <1>1, <2>1, <2>2, <2>4 DEF Owned
  <2> QED
    BY <2>5, <2>6, <2>7 DEF Owned
<1>3. CASE ~Claims(t, old)
  <2>1. state' = state /\ ~Owns(t)'
    BY <1>3 DEF MakeBusy, Goto, Owns, TypeInv, TypeOK
  <2> QED
    BY <1>1, <2>1, OwnedSame
<1> QED
  BY <1>2, <1>3

LEMMA OwnedLetGo ==
  ASSUME TypeInv, Owned, NEW t \in Threads, PushUsed(t) \/ PopFree(t)
  PROVE  Owned'
<1>1. /\ Owns(t) /\ AtEntry(t) /\ ~Owns(t)'
      /\ \A u \in Threads \ {t} : (Owns(u)' <=> Owns(u)) /\ entry'[u] = entry[u]
  BY DEF PushUsed, PopFree, Return, At, Goto, Owns, AtEntry, TypeInv, TypeOK
<1>2. PICK e \in Entry : e = entry[t]
  BY <1>1, EntryIs
<1>3. state'[e] # "BUSY" /\ \A f \in Entry : f # e => state'[f] = state[f]
  BY <1>2 DEF PushUsed, PopFree, TypeInv, TypeOK
<1>4. \A u \in Threads \ {t} : Owns(u) => entry[u] \in Entry /\ entry[u] # e
  BY <1>1, <1>2, EntryIs DEF Owned, Owns, AtEntry
<1>5. \A f \in Entry : state'[f] = "BUSY" => \E u \in Threads : Owns(u)' /\ entry'[u] = f
  BY <1>1, <1>2, <1>3 DEF Owned
<1>6. \A u \in Threads : Owns(u)' => state'[entry'[u]] = "BUSY"
  BY <1>1, <1>3, <1>4 DEF Owned
<1>7. \A u, v \in Threads : Owns(u)' /\ Owns(v)' /\ entry'[u] = entry'[v] => u = v
  BY <1>1 DEF Owned
<1> QED
  BY <1>5, <1>6, <1>7 DEF Owned

LEMMA OwnedOthers ==
  ASSUME TypeInv, Owned, NEW t \in Threads,
         \/ PushBegin(t) \/ PushClaim(t) \/ PushWrite(t) \/ PushCheck(t) \/ PushRaise(t)
         \/ PopBegin(t) \/ PopRead(t) \/ PopClaim(t) \/ PopCopy(t) \/ Exit(t)
         \/ Link(t, "push_link", "push_nth") \/ Link(t, "pop_link", "pop_nth")
  PROVE  Owned'
<1>1. state' = state
  BY DEF PushBegin, PushClaim, PushWrite, PushCheck, PushRaise, PopBegin, PopRead, PopClaim, PopCopy, Exit,
     Link, shared
<1>2. ASSUME NEW u \in Threads PROVE (Owns(u)' <=> Owns(u)) /\ (Owns(u) => entry'[u] = entry[u])
  <2>1. CASE PushBegin(t) \/ PushClaim(t) \/ PushWrite(t) \/ PopBegin(t) \/ PopCopy(t) \/ Exit(t)
    BY <2>1 DEF PushBegin, PushClaim, PushWrite, PopBegin, PopCopy, Exit, At, Goto, Owns, TypeInv, TypeOK
  <2>2. CASE PushCheck(t) \/ PushRaise(t) \/ PopRead(t) \/ PopClaim(t)
    BY <2>2 DEF PushCheck, PushRaise, PopRead, PopClaim, Return, At, Goto, Owns, TypeInv, TypeOK
  <2>3. CASE Link(t, "push_link", "push_nth") \/ Link(t, "pop_link", "pop_nth")
    BY <2>3 DEF Link, At, Goto, Owns, TypeInv, TypeOK
  <2> QED
    BY <2>1, <2>2, <2>3
<1> QED
  BY <1>1, <1>2, OwnedSame

LEMMA OwnedStep == TypeInv /\ ChunkInv /\ Owned /\ [Next]_vars => Owned'
<1> SUFFICES ASSUME TypeInv, ChunkInv, Owned, [Next]_vars PROVE Owned'
  OBVIOUS
<1>1. CASE UNCHANGED vars \/ Cleanup
  BY <1>1, OwnedSame DEF vars, shared, Cleanup, Owns
<1>2. CASE Next
  BY <1>1, <1>2, OwnedWalk, OwnedMakeBusy, OwnedLetGo, OwnedOthers DEF Next, Call, Step, Push, Pop
<1> QED
  BY <1>1, <1>2

(* The entry a thread has made BUSY belongs to that thread alone. *)
THEOREM BusyIsAlwaysOwned == Spec => []BusyIsOwned
<1>1. Init => TypeInv /\ ChunkInv /\ Owned
  <2>1. Init => Owned
    BY DEF Init, Owned, Owns
  <2> QED
    BY <2>1, TypeInit, ChunkInit
<1>2. TypeInv /\ ChunkInv /\ Owned /\ [Next]_vars => (TypeInv /\ ChunkInv /\ Owned)'
  BY TypeStep, ChunkStep, OwnedStep
<1>3. TypeInv /\ Owned => BusyIsOwned
  BY DEF TypeInv, BusyIsOwned, Owned
<1> QED
  BY <1>1, <1>2, <1>3, PTL DEF Spec

-----------------------------------------------------------------------------
(* Used entries *)

Covers(i) == i < num_used_entries \/ \E t \in Threads : Raises(t, i) \/ Seeks(t, i)
UsedAt(i) == Linked(i) /\ state[CHUNK_NTH(i)] = "USED"
Covering == \A i \in Nat : UsedAt(i) => Covers(i)

LEMMA NotStrandedIs ==
  ASSUME TypeInv
  PROVE  NotStranded <=> Covering
<1>1. Len(chunks) \in Nat
  BY DEF TypeInv, TypeOK
<1>2. PICK k \in Nat : k = Len(chunks)
  BY <1>1
<1>3. \A i \in Nat : i < k * NumEntries <=> i \div NumEntries < k
  BY DivisionBelow, NumEntriesIsPositive
<1>4. k * NumEntries \in Nat
  BY NumEntriesIsPositive
<1>5. \A i \in Nat : i \in 0 .. Len(chunks) * NumEntries - 1 <=> Linked(i)
  BY <1>2, <1>3, <1>4 DEF Linked
<1>6. \A i : i \in 0 .. Len(chunks) * NumEntries - 1 => i \in Nat
  BY <1>2, <1>4
<1> QED
  BY <1>5, <1>6 DEF NotStranded, Covering, UsedAt, Covers

LEMMA SamePlace ==
  ASSUME TypeInv, Distinct, NEW i \in Nat, NEW j \in Nat, Linked(i), Linked(j), CHUNK_NTH(i) = CHUNK_NTH(j)
  PROVE  i = j
<1>1. /\ chunks[i \div NumEntries + 1] = chunks[j \div NumEntries + 1]
      /\ i % NumEntries = j % NumEntries
  BY DEF CHUNK_NTH
<1>2. i \div NumEntries + 1 \in DOMAIN chunks /\ j \div NumEntries + 1 \in DOMAIN chunks
  BY LinkedIs DEF TypeInv, TypeOK
<1>3. i \div NumEntries + 1 = j \div NumEntries + 1
  BY <1>1, <1>2 DEF Distinct
<1>4. i \div NumEntries \in Nat /\ j \div NumEntries \in Nat
  BY Division, NumEntriesIsPositive
<1>5. i \div NumEntries = j \div NumEntries
  BY <1>3, <1>4
<1> QED
  BY <1>1, <1>5, SameIndex, NumEntriesIsPositive

(* A step of one thread, which leaves the list alone. *)
LEMMA CoveringKept ==
  ASSUME TypeInv, Covering, chunks' = chunks,
         \A i \in Nat : UsedAt(i)' => UsedAt(i),
         NEW t \in Threads, \A u \in Threads \ {t} : pc'[u] = pc[u] /\ index'[u] = index[u],
         \A i \in Nat : i < num_used_entries => Covers(i)',
         \A i \in Nat : UsedAt(i)' /\ (Raises(t, i) \/ Seeks(t, i)) => Covers(i)'
  PROVE  Covering'
<1>1. ASSUME NEW i \in Nat, UsedAt(i)' PROVE Covers(i)'
  <2>1. Covers(i)
    BY <1>1 DEF Covering
  <2>2. CASE i < num_used_entries
    BY <2>2
  <2>3. CASE Raises(t, i) \/ Seeks(t, i)
    BY <1>1, <2>3
  <2>4. ASSUME NEW u \in Threads \ {t}, Raises(u, i) \/ Seeks(u, i) PROVE Covers(i)'
    BY <2>4 DEF Raises, Seeks, Covers
  <2> QED
    BY <2>1, <2>2, <2>3, <2>4 DEF Covers
<1> QED
  BY <1>1 DEF Covering

LEMMA UsedKept ==
  ASSUME TypeInv, chunks' = chunks, \A e \in Entry : state'[e] = "USED" => state[e] = "USED"
  PROVE  \A i \in Nat : UsedAt(i)' => UsedAt(i)
<1>1. ASSUME NEW i \in Nat, UsedAt(i)' PROVE UsedAt(i)
  <2>1. Linked(i) /\ CHUNK_NTH(i)' = CHUNK_NTH(i) /\ state'[CHUNK_NTH(i)] = "USED"
    BY <1>1 DEF UsedAt, Linked, CHUNK_NTH
  <2>2. CHUNK_NTH(i) \in Entry
    BY <2>1, LinkedIs DEF TypeInv, TypeOK
  <2> QED
    BY <2>1, <2>2 DEF UsedAt
<1> QED
  BY <1>1

LEMMA CoveringQuiet ==
  ASSUME TypeInv, Covering, NEW t \in Threads,
         \/ PushBegin(t) \/ PushClaim(t) \/ PushWrite(t) \/ PopBegin(t) \/ PopRead(t) \/ PopCopy(t)
         \/ PopFree(t) \/ Exit(t)
  PROVE  Covering'
<1>1. /\ chunks' = chunks /\ \A u \in Threads \ {t} : pc'[u] = pc[u] /\ index'[u] = index[u]
      /\ num_used_entries' \in Nat /\ num_used_entries <= num_used_entries'
      /\ pc[t] \notin {"push_check", "push_raise", "pop_nth", "pop_link", "pop_busy"}
  BY DEF TypeInv, TypeOK, PushBegin, PushClaim, PushWrite, PopBegin, PopRead, PopCopy, PopFree, Exit, Return, At, Goto, shared
<1>2. \A e \in Entry : state'[e] = "USED" => state[e] = "USED"
  BY DEF TypeInv, TypeOK, PushBegin, PushClaim, PushWrite, PopBegin, PopRead, PopCopy, PopFree, Exit, shared
<1>3. \A i \in Nat : i < num_used_entries => Covers(i)'
  BY <1>1 DEF Covers, TypeInv, TypeOK
<1>4. \A i \in Nat : ~Raises(t, i) /\ ~Seeks(t, i)
  BY <1>1 DEF Raises, Seeks
<1>5. \A i \in Nat : UsedAt(i)' => UsedAt(i)
  BY <1>1, <1>2, UsedKept
<1> QED
  BY <1>1, <1>3, <1>4, <1>5, CoveringKept

LEMMA CoveringPopClaim ==
  ASSUME TypeInv, Covering, NEW t \in Threads, PopClaim(t)
  PROVE  Covering'
<1>1. /\ chunks' = chunks /\ state' = state
      /\ \A u \in Threads \ {t} : pc'[u] = pc[u] /\ index'[u] = index[u]
      /\ pc[t] = "pop_claim"
  BY DEF TypeInv, TypeOK, PopClaim, At, Goto
<1>2. ASSUME NEW i \in Nat, i < num_used_entries PROVE Covers(i)'
  <2>1. CASE Unchanged(t)
    <3>1. num_used_entries' = num_used_entries - 1 /\ index'[t] = num_used_entries - 1 /\ pc'[t] = "pop_nth"
      BY <2>1 DEF TypeInv, TypeOK, PopClaim, Unchanged, Goto
    <3>2. num_used_entries \in Nat
      BY DEF TypeInv, TypeOK
    <3>3. i < num_used_entries - 1 \/ i = num_used_entries - 1
      BY <1>2, <3>2
    <3> QED
      BY <3>1, <3>3 DEF Covers, Seeks
  <2>2. CASE ~Unchanged(t)
    BY <1>2, <2>2 DEF PopClaim, Covers
  <2> QED
    BY <2>1, <2>2
<1>3. \A i \in Nat : ~Raises(t, i) /\ ~Seeks(t, i)
  BY <1>1 DEF Raises, Seeks
<1>4. \A i \in Nat : UsedAt(i)' => UsedAt(i)
  BY <1>1, UsedKept
<1> QED
  BY <1>1, <1>2, <1>3, <1>4, CoveringKept

LEMMA CoveringPushCheck ==
  ASSUME TypeInv, Covering, NEW t \in Threads, PushCheck(t) \/ PushRaise(t)
  PROVE  Covering'
<1>1. /\ chunks' = chunks /\ state' = state
      /\ \A u \in Threads \ {t} : pc'[u] = pc[u] /\ index'[u] = index[u]
      /\ pc[t] \in {"push_check", "push_raise"}
  BY DEF TypeInv, TypeOK, PushCheck, PushRaise, Return, At, Goto, shared
<1>2. /\ num_used_entries \in Nat /\ num_used_entries' \in Nat /\ num_used_entries <= num_used_entries'
      /\ index[t] < num_used_entries' \/ (pc'[t] \in {"push_check", "push_raise"} /\ index'[t] = index[t])
  <2>0. num_used_entries \in Nat /\ index[t] \in Nat /\ num_used[t] \in Nat /\ pc \in [Threads -> Label]
    BY DEF TypeInv, TypeOK
  <2>1. CASE PushCheck(t)
    BY <2>0, <2>1 DEF PushCheck, Covered, Goto, shared
  <2>2. CASE PushRaise(t) /\ Unchanged(t)
    <3>1. num_used[t] <= index[t]
      BY <2>2 DEF TypeInv, Frames, FrameOK, PushRaise, At
    <3> QED
      BY <2>0, <2>2, <3>1 DEF PushRaise, Unchanged
  <2>3. CASE PushRaise(t) /\ ~Unchanged(t)
    BY <2>0, <2>3 DEF PushRaise, Goto
  <2> QED
    BY <2>1, <2>2, <2>3
<1>3. \A i \in Nat : i < num_used_entries => Covers(i)'
  BY <1>2 DEF Covers
<1>4. \A i \in Nat : Raises(t, i) => Covers(i)'
  BY <1>2 DEF Covers, Raises
<1>5. \A i \in Nat : ~Seeks(t, i)
  BY <1>1 DEF Seeks
<1>6. \A i \in Nat : UsedAt(i)' => UsedAt(i)
  BY <1>1, UsedKept
<1> QED
  BY <1>1, <1>3, <1>4, <1>5, <1>6, CoveringKept

LEMMA CoveringPushUsed ==
  ASSUME TypeInv, Distinct, Covering, NEW t \in Threads, PushUsed(t)
  PROVE  Covering'
<1>1. /\ chunks' = chunks /\ index' = index /\ num_used_entries' = num_used_entries
      /\ pc[t] = "push_used" /\ pc' = [pc EXCEPT ![t] = "push_check"]
      /\ state' = [state EXCEPT ![entry[t]] = "USED"]
  BY DEF PushUsed, At, Goto
<1>2. PICK j \in Nat : j = index[t] /\ Linked(j) /\ entry[t] = CHUNK_NTH(j)
  BY <1>1 DEF TypeInv, TypeOK, Frames, FrameOK, AtEntry
<1>3. pc'[t] = "push_check" /\ \A u \in Threads \ {t} : pc'[u] = pc[u]
  BY <1>1 DEF TypeInv, TypeOK
<1>4. ASSUME NEW i \in Nat, UsedAt(i)' PROVE Covers(i)'
  <2>1. Linked(i) /\ state'[CHUNK_NTH(i)] = "USED"
    BY <1>1, <1>4 DEF UsedAt, Linked, CHUNK_NTH
  <2>2. CASE i = j
    BY <1>1, <1>2, <1>3, <2>2 DEF Covers, Raises
  <2>3. CASE i # j
    <3>1. CHUNK_NTH(i) \in Entry /\ CHUNK_NTH(i) # entry[t]
      BY <1>2, <2>1, <2>3, SamePlace, LinkedIs DEF TypeInv, TypeOK
    <3>2. state[CHUNK_NTH(i)] = "USED"
      BY <1>1, <2>1, <3>1 DEF TypeInv, TypeOK
    <3>3. Covers(i)
      BY <2>1, <3>2 DEF Covering, UsedAt
    <3>4. \A u \in Threads : Raises(u, i) \/ Seeks(u, i) => (Raises(u, i) \/ Seeks(u, i))'
      BY <1>1, <1>3 DEF Raises, Seeks
    <3> QED
      BY <1>1, <3>3, <3>4 DEF Covers
  <2> QED
    BY <2>2, <2>3
<1> QED
  BY <1>4 DEF Covering

LEMMA CoveringMakeBusy ==
  ASSUME TypeInv, Covering, NEW t \in Threads, NEW here, NEW old, NEW mine, NEW again,
         MakeBusy(t, here, old, mine, again),
         \/ here = "push_busy" /\ old = "FREE" /\ mine = "push_write" /\ again = "push_claim"
         \/ here = "pop_busy" /\ old = "USED" /\ mine = "pop_copy" /\ again = "pop_read"
  PROVE  Covering'
<1>1. /\ chunks' = chunks /\ index' = index /\ num_used_entries' = num_used_entries
      /\ \A u \in Threads \ {t} : pc'[u] = pc[u] /\ index'[u] = index[u]
      /\ pc[t] = here /\ AtEntry(t)
  BY DEF MakeBusy, At, Goto, AtEntry, TypeInv, TypeOK
<1>2. entry[t] \in Entry /\ entry[t] = CHUNK_NTH(index[t])
  BY <1>1, EntryIs DEF TypeInv, Frames, FrameOK
<1>3. \A e \in Entry : state'[e] = "USED" => state[e] = "USED"
  BY <1>2 DEF MakeBusy, TypeInv, TypeOK
<1>4. here = "pop_busy" => state'[entry[t]] # "USED"
  BY <1>2 DEF MakeBusy, Claims, TypeInv, TypeOK
<1>5. ASSUME NEW i \in Nat, UsedAt(i)', Raises(t, i) \/ Seeks(t, i) PROVE Covers(i)'
  <2>1. here = "pop_busy" /\ i = index[t]
    BY <1>1, <1>5 DEF Raises, Seeks
  <2>2. state'[CHUNK_NTH(i)] = "USED"
    BY <1>1, <1>5 DEF UsedAt, CHUNK_NTH
  <2> QED
    BY <1>2, <1>4, <2>1, <2>2
<1>6. \A i \in Nat : i < num_used_entries => Covers(i)'
  BY <1>1 DEF Covers
<1>7. \A i \in Nat : UsedAt(i)' => UsedAt(i)
  BY <1>1, <1>3, UsedKept
<1> QED
  BY <1>1, <1>5, <1>6, <1>7, CoveringKept

LEMMA CoveringWalk ==
  ASSUME TypeInv, Covering, NEW t \in Threads, NEW here, NEW link, NEW found, Walk(t, here, link, found),
         \/ here = "push_nth" /\ link = "push_link" /\ found = "push_busy"
         \/ here = "pop_nth" /\ link = "pop_link" /\ found = "pop_busy"
  PROVE  Covering'
<1>1. /\ chunks' = chunks /\ index' = index /\ num_used_entries' = num_used_entries
      /\ \A u \in Threads \ {t} : pc'[u] = pc[u] /\ index'[u] = index[u]
      /\ pc[t] = here /\ pc'[t] \in {link, found}
  BY DEF Walk, At, Goto, TypeInv, TypeOK
<1>2. \A e \in Entry : state'[e] = "USED" => state[e] = "USED"
  BY DEF Walk
<1>3. \A i \in Nat : Raises(t, i) \/ Seeks(t, i) => Covers(i)'
  BY <1>1 DEF Raises, Seeks, Covers
<1>4. \A i \in Nat : i < num_used_entries => Covers(i)'
  BY <1>1 DEF Covers
<1>5. \A i \in Nat : UsedAt(i)' => UsedAt(i)
  BY <1>1, <1>2, UsedKept
<1> QED
  BY <1>1, <1>3, <1>4, <1>5, CoveringKept

LEMMA CoveringLink ==
  ASSUME TypeInv, ChunkInv, Covering, NEW t \in Threads, NEW here, NEW back, Link(t, here, back),
         \/ here = "push_link" /\ back = "push_nth"
         \/ here = "pop_link" /\ back = "pop_nth"
  PROVE  Covering'
<1>1. /\ state' = state /\ index' = index /\ num_used_entries' = num_used_entries
      /\ \A u \in Threads \ {t} : pc'[u] = pc[u]
      /\ pc[t] = here /\ pc'[t] = back
  BY DEF Link, At, Goto, TypeInv, TypeOK
<1>2. PICK c \in Chunks : c = spare[t]
  BY <1>1 DEF TypeInv, TypeOK, Frames, FrameOK
<1>3. \A e \in Entry : e[1] = c => state[e] = "FREE"
  BY <1>2, NoChunkIsNoChunk DEF ChunkInv, SpareIsFree
<1>4. PICK a \in Seq(Chunks) : a = chunks
  BY DEF TypeInv, TypeOK
<1>5. chunks' = a \/ chunks' = Append(a, c)
  BY <1>2, <1>4 DEF Link
<1>6. \A u \in Threads, i \in Nat : Raises(u, i) \/ Seeks(u, i) => (Raises(u, i) \/ Seeks(u, i))'
  BY <1>1 DEF Raises, Seeks
<1>7. ASSUME NEW i \in Nat, UsedAt(i)' PROVE UsedAt(i)
  <2>1. PICK k \in Nat : k = i \div NumEntries
    BY Division, NumEntriesIsPositive
  <2>2. CASE k < Len(a)
    <3>1. Linked(i)
      BY <1>4, <2>1, <2>2 DEF Linked
    <3>2. CHUNK_NTH(i)' = CHUNK_NTH(i)
      BY <1>4, <1>5, <3>1, PlacesStay
    <3> QED
      BY <1>1, <1>7, <3>1, <3>2 DEF UsedAt
  <2>3. CASE ~(k < Len(a))
    <3>1. k < Len(chunks')
      BY <1>7, <2>1 DEF UsedAt, Linked
    <3>2. chunks' = Append(a, c) /\ k = Len(a)
      BY <1>5, <2>3, <3>1
    <3>3. chunks'[k + 1] = c
      BY <3>2
    <3>4. CHUNK_NTH(i)' = <<c, i % NumEntries>>
      BY <2>1, <3>3 DEF CHUNK_NTH
    <3>5. <<c, i % NumEntries>> \in Entry
      <4>1. (i % NumEntries) \in 0 .. NumEntries - 1
        BY Division, NumEntriesIsPositive
      <4> QED
        BY <4>1 DEF Entry
    <3>6. state[<<c, i % NumEntries>>] = "FREE"
      BY <1>3, <3>5
    <3> QED
      BY <1>1, <1>7, <3>4, <3>6 DEF UsedAt
  <2> QED
    BY <2>2, <2>3
<1>8. ASSUME NEW i \in Nat, UsedAt(i)' PROVE Covers(i)'
  <2>1. Covers(i)
    BY <1>7, <1>8 DEF Covering
  <2> QED
    BY <1>1, <1>6, <2>1 DEF Covers
<1> QED
  BY <1>8 DEF Covering

LEMMA CoveringStep == TypeInv /\ ChunkInv /\ Covering /\ [Next]_vars => Covering'
<1> SUFFICES ASSUME TypeInv, ChunkInv, Covering, [Next]_vars PROVE Covering'
  OBVIOUS
<1>1. CASE UNCHANGED vars
  BY <1>1 DEF vars, shared, Covering, Covers, UsedAt, Linked, CHUNK_NTH, Raises, Seeks
<1>2. CASE Cleanup
  <2>1. \A i \in Nat : ~Linked(i)'
    <3>1. Len(chunks') = 0
      BY <1>2 DEF Cleanup
    <3> QED
      BY <3>1, Division, NumEntriesIsPositive DEF Linked
  <2> QED
    BY <2>1 DEF Covering, UsedAt
<1>3. ASSUME NEW t \in Threads, PushUsed(t) PROVE Covering'
  BY <1>3, CoveringPushUsed DEF ChunkInv
<1>4. CASE Next
  BY <1>2, <1>3, <1>4, CoveringQuiet, CoveringPopClaim, CoveringPushCheck, CoveringMakeBusy, CoveringWalk,
     CoveringLink DEF Next, Call, Step, Push, Pop
<1> QED
  BY <1>1, <1>4

LEMMA CoveringInit == Init => Covering
<1> SUFFICES ASSUME Init, NEW i \in Nat PROVE ~Linked(i)
  BY DEF Covering, UsedAt
<1>1. Len(chunks) = 0
  BY DEF Init
<1> QED
  BY <1>1, Division, NumEntriesIsPositive DEF Linked

(* A used entry that the count does not cover has a push that is about to raise
   the count, or a pop that has lowered it and is on its way to the entry. *)
THEOREM NeverStranded == Spec => []NotStranded
<1>1. Init => TypeInv /\ ChunkInv /\ Covering
  BY TypeInit, ChunkInit, CoveringInit
<1>2. TypeInv /\ ChunkInv /\ Covering /\ [Next]_vars => (TypeInv /\ ChunkInv /\ Covering)'
  BY TypeStep, ChunkStep, CoveringStep
<1>3. TypeInv /\ Covering => NotStranded
  BY NotStrandedIs
<1> QED
  BY <1>1, <1>2, <1>3, PTL DEF Spec

-----------------------------------------------------------------------------
(* The queue is a bag: the steps of push and pop put items in, take them   *)
(* out, and find nothing only when other calls account for what is there.  *)

IsUsed(e) == e \in Entry /\ state[e] = "USED"

(* What the hands of a thread hold at each label. *)
HandsOK(t) ==
  /\ InPush(t) \/ pc[t] = "pop_free" \/ item[t] = NoItem
  /\ pc[t] = "push_used" => data[entry[t]] = item[t]
Hands == \A t \in Threads : HandsOK(t)

(* An item is in one place: with the callers, in one entry, or in one hand. *)
Apart ==
  /\ \A e, f \in Entry : IsUsed(e) /\ IsUsed(f) /\ data[e] = data[f] => e = f
  /\ \A e \in Entry : IsUsed(e) => data[e] \notin pool
  /\ \A t \in Threads : Hand(t) \notin pool
  /\ \A t \in Threads, e \in Entry : IsUsed(e) => Hand(t) # data[e]
  /\ \A t, u \in Threads : Hand(t) = Hand(u) => t = u \/ Hand(t) = NoItem

(* A step that moves no item. *)
Stays ==
  /\ pool' = pool
  /\ \A u \in Threads : Hand(u)' = Hand(u)
  /\ \A e \in Entry : InBag(e)' <=> InBag(e)
  /\ \A e \in Entry : IsUsed(e)' => IsUsed(e)
  /\ \A e \in Entry : IsUsed(e) => data'[e] = data[e]

(* The steps that do: into a push, into the bag, out of it, out of a pop. *)
Starts(t, x) ==
  /\ x \in pool /\ pool' = pool \ {x}
  /\ Hand(t) = NoItem /\ Hand(t)' = x
  /\ \A u \in Threads \ {t} : Hand(u)' = Hand(u)
  /\ chunks' = chunks /\ state' = state /\ data' = data
Puts(t, e, x) ==
  /\ e \in Entry /\ IsLinked(e[1]) /\ state[e] = "BUSY" /\ data[e] = x
  /\ state' = [state EXCEPT ![e] = "USED"]
  /\ Hand(t) = x /\ Hand(t)' = NoItem
  /\ \A u \in Threads \ {t} : Hand(u)' = Hand(u)
  /\ chunks' = chunks /\ pool' = pool /\ data' = data
Takes(t, e, x) ==
  /\ e \in Entry /\ InBag(e) /\ data[e] = x
  /\ state' = [state EXCEPT ![e] = "BUSY"]
  /\ Hand(t) = NoItem /\ Hand(t)' = x
  /\ \A u \in Threads \ {t} : Hand(u)' = Hand(u)
  /\ chunks' = chunks /\ pool' = pool /\ data' = data
Ends(t, e, x) ==
  /\ e \in Entry /\ state[e] = "BUSY"
  /\ state' = [state EXCEPT ![e] = "FREE"]
  /\ Hand(t) = x /\ Hand(t)' = NoItem
  /\ pool' = pool \cup {x}
  /\ \A u \in Threads \ {t} : Hand(u)' = Hand(u)
  /\ chunks' = chunks /\ data' = data

ItemInv == Apart /\ Hands

(* What is used is an item. *)
LEMMA UsedType ==
  ASSUME TypeInv, NEW e \in Entry, IsUsed(e)
  PROVE  data[e] \in Items
BY DEF TypeInv, Filled, IsUsed

-----------------------------------------------------------------------------
(* Each step moves one item at most. *)

LEMMA StaysHere ==
  ASSUME UNCHANGED <<chunks, state, data, pool>>, \A u \in Threads : Hand(u)' = Hand(u)
  PROVE  Stays
BY DEF Stays, InBag, IsLinked, IsUsed

LEMMA OthersHands ==
  ASSUME TypeInv, NEW t \in Threads, NEW u \in Threads \ {t}, pc'[u] = pc[u], item'[u] = item[u],
         entry'[u] = entry[u], data' = data
  PROVE  Hand(u)' = Hand(u)
BY DEF Hand, At

LEMMA StaysQuiet ==
  ASSUME TypeInv, NEW t \in Threads,
         \/ PushClaim(t) \/ PushCheck(t) \/ PushRaise(t) \/ PopBegin(t) \/ PopRead(t)
         \/ PopClaim(t) \/ PopCopy(t) \/ Exit(t)
  PROVE  Stays
<1>1. UNCHANGED <<chunks, state, data, pool>>
  BY DEF PushClaim, PushCheck, PushRaise, PopBegin, PopRead, PopClaim, PopCopy, Exit, shared
<1>2. \A u \in Threads \ {t} : pc'[u] = pc[u] /\ item'[u] = item[u] /\ entry'[u] = entry[u]
  <2>1. CASE PushClaim(t) \/ PopBegin(t) \/ PopClaim(t) \/ PopCopy(t) \/ Exit(t)
    BY <2>1 DEF PushClaim, PopBegin, PopClaim, PopCopy, Exit, Goto, TypeInv, TypeOK
  <2>2. CASE PushCheck(t) \/ PushRaise(t) \/ PopRead(t)
    BY <2>2 DEF PushCheck, PushRaise, PopRead, Return, Goto, TypeInv, TypeOK
  <2> QED
    BY <2>1, <2>2
<1>3. Hand(t)' = Hand(t)
  <2>1. CASE PopCopy(t)
    <3>1. pc[t] = "pop_copy" /\ pc'[t] = "pop_free" /\ item'[t] = data[entry[t]]
      BY <2>1 DEF PopCopy, At, Goto, TypeInv, TypeOK
    <3> QED
      BY <3>1 DEF Hand, At
  <2>2. CASE ~PopCopy(t)
    <3>1. item' = item /\ pc[t] # "pop_copy" /\ pc'[t] # "pop_copy"
      BY <2>2 DEF PushClaim, PushCheck, PushRaise, PopBegin, PopRead, PopClaim, Exit, Return, At, Goto,
         TypeInv, TypeOK
    <3> QED
      BY <3>1 DEF Hand, At
  <2> QED
    BY <2>1, <2>2
<1> QED
  BY <1>1, <1>2, <1>3, StaysHere, OthersHands

LEMMA StaysPushWrite ==
  ASSUME TypeInv, Owned, NEW t \in Threads, PushWrite(t)
  PROVE  Stays
<1>1. PICK e \in Entry : e = entry[t]
  BY EntryIs DEF PushWrite, At, AtEntry
<1>2. /\ UNCHANGED <<chunks, state, pool, item, entry>>
      /\ data' = [data EXCEPT ![e] = item[t]]
      /\ pc[t] = "push_write" /\ pc'[t] = "push_used" /\ \A u \in Threads \ {t} : pc'[u] = pc[u]
  BY <1>1 DEF PushWrite, At, Goto, TypeInv, TypeOK
<1>3. \A f \in Entry : f # e => data'[f] = data[f]
  BY <1>2 DEF TypeInv, TypeOK
<1>4. state[e] = "BUSY"
  BY <1>1, <1>2 DEF Owned, Owns
<1>5. ASSUME NEW u \in Threads PROVE Hand(u)' = Hand(u)
  <2>1. CASE u = t
    BY <1>2, <2>1 DEF Hand, At
  <2>2. CASE u # t /\ pc[u] = "pop_copy"
    <3>1. entry[u] \in Entry /\ entry[u] # e
      BY <1>1, <1>2, <2>2, EntryIs DEF AtEntry, Owned, Owns
    <3> QED
      BY <1>2, <1>3, <2>2, <3>1 DEF Hand, At
  <2>3. CASE u # t /\ pc[u] # "pop_copy"
    BY <1>2, <2>3 DEF Hand, At
  <2> QED
    BY <2>1, <2>2, <2>3
<1> QED
  BY <1>2, <1>3, <1>4, <1>5 DEF Stays, InBag, IsLinked, IsUsed

LEMMA StaysWalk ==
  ASSUME TypeInv, ChunkInv, NEW t \in Threads, NEW here, NEW link, NEW found, Walk(t, here, link, found),
         \/ here = "push_nth" /\ link = "push_link" /\ found = "push_busy"
         \/ here = "pop_nth" /\ link = "pop_link" /\ found = "pop_busy"
  PROVE  Stays
<1>1. /\ UNCHANGED <<chunks, data, pool, item>>
      /\ pc[t] = here /\ pc'[t] \in {link, found}
      /\ \A u \in Threads \ {t} : pc'[u] = pc[u] /\ entry'[u] = entry[u]
  BY DEF Walk, At, Goto, TypeInv, TypeOK
<1>2. \A u \in Threads : Hand(u)' = Hand(u)
  BY <1>1 DEF Hand, At
<1>3. CASE Linked(index[t])
  <2>1. state' = state
    BY <1>3 DEF Walk
  <2> QED
    BY <1>1, <1>2, <2>1, StaysHere
<1>4. CASE ~Linked(index[t])
  <2>1. PICK c \in Chunks \ allocated : state' = [e \in Entry |-> IF e[1] = c THEN "FREE" ELSE state[e]]
    BY <1>4 DEF Walk
  <2>2. ~IsLinked(c)
    BY <2>1, ChunksAccountedIs DEF ChunkInv, Accounted, IsLinked
  <2>3. \A d : IsLinked(d)' <=> IsLinked(d)
    BY <1>1 DEF IsLinked
  <2>4. \A e \in Entry : state'[e] = IF e[1] = c THEN "FREE" ELSE state[e]
    BY <2>1
  <2>5. \A e \in Entry : InBag(e)' <=> InBag(e)
    BY <2>2, <2>3, <2>4 DEF InBag
  <2>6. \A e \in Entry : IsUsed(e)' => IsUsed(e)
    BY <2>4 DEF IsUsed
  <2> QED
    BY <1>1, <1>2, <2>5, <2>6 DEF Stays
<1> QED
  BY <1>3, <1>4

LEMMA StaysLink ==
  ASSUME TypeInv, ChunkInv, NEW t \in Threads, NEW here, NEW back, Link(t, here, back),
         \/ here = "push_link" /\ back = "push_nth"
         \/ here = "pop_link" /\ back = "pop_nth"
  PROVE  Stays
<1>1. /\ UNCHANGED <<state, data, pool, item, entry>>
      /\ pc[t] = here /\ pc'[t] = back
      /\ \A u \in Threads \ {t} : pc'[u] = pc[u]
  BY DEF Link, At, Goto, TypeInv, TypeOK
<1>2. \A u \in Threads : Hand(u)' = Hand(u)
  BY <1>1 DEF Hand, At
<1>3. PICK c \in Chunks : c = spare[t]
  BY <1>1 DEF TypeInv, TypeOK, Frames, FrameOK
<1>4. \A e \in Entry : e[1] = c => state[e] = "FREE"
  BY <1>3, NoChunkIsNoChunk DEF ChunkInv, SpareIsFree
<1>5. PICK a \in Seq(Chunks) : a = chunks
  BY DEF TypeInv, TypeOK
<1>6. chunks' = a \/ chunks' = Append(a, c)
  BY <1>3, <1>5 DEF Link
<1>7. \A d : d # c => (IsLinked(d)' <=> IsLinked(d))
  <2>1. CASE chunks' = a
    BY <1>5, <2>1 DEF IsLinked
  <2>2. CASE chunks' = Append(a, c)
    <3>1. /\ Len(a) \in Nat /\ DOMAIN a = 1 .. Len(a) /\ DOMAIN chunks' = 1 .. Len(a) + 1
          /\ chunks'[Len(a) + 1] = c
          /\ \A n \in 1 .. Len(a) : chunks'[n] = a[n]
      BY <2>2
    <3> QED
      BY <1>5, <3>1 DEF IsLinked
  <2> QED
    BY <1>6, <2>1, <2>2
<1>8. \A e \in Entry : InBag(e)' <=> InBag(e)
  BY <1>1, <1>4, <1>7 DEF InBag
<1> QED
  BY <1>1, <1>2, <1>8 DEF Stays, IsUsed

LEMMA MakesBusy ==
  ASSUME TypeInv, ChunkInv, Hands, NEW t \in Threads, NEW here, NEW old, NEW mine, NEW again,
         MakeBusy(t, here, old, mine, again),
         \/ here = "push_busy" /\ old = "FREE" /\ mine = "push_write" /\ again = "push_claim"
         \/ here = "pop_busy" /\ old = "USED" /\ mine = "pop_copy" /\ again = "pop_read"
  PROVE  Stays \/ (here = "pop_busy" /\ pc'[t] = "pop_copy" /\ \E e \in Entry, x \in Items : Takes(t, e, x))
<1>1. /\ UNCHANGED <<chunks, data, pool, item>>
      /\ pc[t] = here /\ pc'[t] \in {mine, again}
      /\ \A u \in Threads \ {t} : pc'[u] = pc[u] /\ entry'[u] = entry[u]
  BY DEF MakeBusy, At, Goto, TypeInv, TypeOK
<1>2. PICK e \in Entry : e = entry[t] /\ IsLinked(e[1])
  BY <1>1, EntryLinked DEF AtEntry
<1>3. \A u \in Threads \ {t} : Hand(u)' = Hand(u)
  BY <1>1 DEF Hand, At
<1>4. CASE ~Claims(t, old)
  <2>1. state' = state /\ pc'[t] = again
    BY <1>4 DEF MakeBusy, Goto, TypeInv, TypeOK
  <2>2. Hand(t)' = Hand(t)
    BY <1>1, <2>1 DEF Hand, At
  <2> QED
    BY <1>1, <1>3, <2>1, <2>2, StaysHere
<1>5. CASE Claims(t, old)
  <2>1. /\ state' = [state EXCEPT ![e] = "BUSY"] /\ pc'[t] = mine /\ entry' = entry
        /\ state[e] = old
    BY <1>2, <1>5 DEF MakeBusy, Claims, Goto, TypeInv, TypeOK
  <2>2. CASE here = "push_busy"
    <3>1. Hand(t)' = Hand(t)
      BY <1>1, <2>1, <2>2 DEF Hand, At
    <3>2. state[e] = "FREE" /\ state'[e] = "BUSY" /\ \A f \in Entry : f # e => state'[f] = state[f]
      BY <2>1, <2>2 DEF TypeInv, TypeOK
    <3>3. \A f \in Entry : InBag(f)' <=> InBag(f)
      BY <1>1, <3>2 DEF InBag, IsLinked
    <3> QED
      BY <1>1, <1>3, <3>1, <3>2, <3>3 DEF Stays, IsUsed
  <2>3. CASE here = "pop_busy"
    <3>1. item[t] = NoItem
      BY <1>1, <2>3 DEF Hands, HandsOK, InPush
    <3>2. Hand(t) = NoItem /\ Hand(t)' = data[e]
      BY <1>1, <1>2, <2>1, <2>3, <3>1 DEF Hand, At
    <3>3. PICK x \in Items : x = data[e]
      BY <2>1, <2>3, UsedType DEF IsUsed
    <3>4. InBag(e)
      BY <1>2, <2>1, <2>3 DEF InBag
    <3>5. Takes(t, e, x)
      BY <1>1, <1>3, <2>1, <3>2, <3>3, <3>4 DEF Takes
    <3> QED
      BY <2>1, <2>3, <3>5
  <2> QED
    BY <2>2, <2>3
<1> QED
  BY <1>4, <1>5

LEMMA StartsPush ==
  ASSUME TypeInv, Hands, NEW t \in Threads, PushBegin(t)
  PROVE  \E x \in Items : Starts(t, x)
<1>1. PICK x \in pool : pool' = pool \ {x} /\ item' = [item EXCEPT ![t] = x]
  BY DEF PushBegin
<1>2. /\ UNCHANGED <<chunks, state, data, entry>>
      /\ pc[t] = "idle" /\ pc'[t] = "push_claim" /\ \A u \in Threads \ {t} : pc'[u] = pc[u]
  BY DEF PushBegin, At, Goto, TypeInv, TypeOK
<1>3. item'[t] = x /\ \A u \in Threads \ {t} : item'[u] = item[u]
  BY <1>1 DEF TypeInv, TypeOK
<1>4. item[t] = NoItem
  BY <1>2 DEF Hands, HandsOK, InPush
<1>5. Hand(t) = NoItem /\ Hand(t)' = x /\ \A u \in Threads \ {t} : Hand(u)' = Hand(u)
  BY <1>2, <1>3, <1>4 DEF Hand, At
<1>6. x \in Items
  BY DEF TypeInv, TypeOK
<1> QED
  BY <1>1, <1>2, <1>5, <1>6 DEF Starts

LEMMA PutsUsed ==
  ASSUME TypeInv, Owned, Hands, NEW t \in Threads, PushUsed(t)
  PROVE  \E e \in Entry, x \in Items : Puts(t, e, x)
<1>1. /\ UNCHANGED <<chunks, data, pool, entry>>
      /\ pc[t] = "push_used" /\ pc'[t] = "push_check" /\ \A u \in Threads \ {t} : pc'[u] = pc[u]
      /\ item'[t] = NoItem /\ \A u \in Threads \ {t} : item'[u] = item[u]
  BY DEF PushUsed, At, Goto, TypeInv, TypeOK
<1>2. PICK e \in Entry : e = entry[t] /\ IsLinked(e[1])
  BY <1>1, EntryLinked DEF AtEntry
<1>3. PICK x \in Items : x = item[t]
  BY <1>1 DEF TypeInv, Frames, FrameOK, InPush
<1>4. data[e] = x
  BY <1>1, <1>2, <1>3 DEF Hands, HandsOK
<1>5. state[e] = "BUSY" /\ state' = [state EXCEPT ![e] = "USED"]
  BY <1>1, <1>2 DEF Owned, Owns, PushUsed
<1>6. Hand(t) = x /\ Hand(t)' = NoItem /\ \A u \in Threads \ {t} : Hand(u)' = Hand(u)
  BY <1>1, <1>3 DEF Hand, At
<1> QED
  BY <1>1, <1>2, <1>4, <1>5, <1>6 DEF Puts

LEMMA EndsPop ==
  ASSUME TypeInv, Owned, NEW t \in Threads, PopFree(t)
  PROVE  \E e \in Entry, x \in Items : Ends(t, e, x)
<1>1. /\ UNCHANGED <<chunks, data>>
      /\ pc[t] = "pop_free" /\ pc'[t] = "idle" /\ \A u \in Threads \ {t} : pc'[u] = pc[u]
      /\ item'[t] = NoItem /\ \A u \in Threads \ {t} : item'[u] = item[u] /\ entry'[u] = entry[u]
  BY DEF PopFree, Return, At, Goto, TypeInv, TypeOK
<1>2. PICK e \in Entry : e = entry[t]
  BY <1>1, EntryIs DEF AtEntry
<1>3. PICK x \in Items : x = item[t]
  BY <1>1 DEF TypeInv, Frames, FrameOK
<1>4. /\ state[e] = "BUSY" /\ state' = [state EXCEPT ![e] = "FREE"]
      /\ pool' = pool \cup {x}
  BY <1>1, <1>2, <1>3 DEF Owned, Owns, PopFree
<1>5. Hand(t) = x /\ Hand(t)' = NoItem /\ \A u \in Threads \ {t} : Hand(u)' = Hand(u)
  BY <1>1, <1>3 DEF Hand, At
<1> QED
  BY <1>1, <1>2, <1>4, <1>5 DEF Ends

-----------------------------------------------------------------------------
(* Items stay apart. *)

LEMMA ApartStays == Apart /\ Stays => Apart'
BY DEF Apart, Stays

LEMMA ApartStarts ==
  ASSUME TypeInv, Apart, NEW t \in Threads, NEW x \in Items, Starts(t, x)
  PROVE  Apart'
<1>1. \A e : IsUsed(e)' <=> IsUsed(e)
  BY DEF Starts, IsUsed
<1>2. \A e \in Entry : IsUsed(e) => data[e] # x
  BY DEF Apart, Starts
<1>3. \A u \in Threads : Hand(u) # x
  BY DEF Apart, Starts
<1> QED
  BY <1>1, <1>2, <1>3 DEF Apart, Starts

LEMMA ApartPuts ==
  ASSUME TypeInv, Apart, NEW t \in Threads, NEW e \in Entry, NEW x \in Items, Puts(t, e, x)
  PROVE  Apart'
<1>1. \A f \in Entry : IsUsed(f)' <=> IsUsed(f) \/ f = e
  BY DEF Puts, IsUsed, TypeInv, TypeOK
<1>2. NoItem \notin pool /\ x # NoItem
  BY NoItemIsNoItem DEF TypeInv, TypeOK
<1>3. \A f \in Entry : IsUsed(f) => data[f] # x /\ data[f] # NoItem
  BY UsedType, NoItemIsNoItem DEF Apart, Puts
<1>4. x \notin pool /\ \A u \in Threads : Hand(u) = x => u = t
  BY <1>2 DEF Apart, Puts
<1>5. ~IsUsed(e)
  BY DEF Puts, IsUsed
<1> QED
  BY <1>1, <1>2, <1>3, <1>4, <1>5 DEF Apart, Puts

LEMMA ApartTakes ==
  ASSUME TypeInv, Apart, NEW t \in Threads, NEW e \in Entry, NEW x \in Items, Takes(t, e, x)
  PROVE  Apart'
<1>1. IsUsed(e) /\ \A f \in Entry : IsUsed(f)' <=> IsUsed(f) /\ f # e
  BY DEF Takes, IsUsed, InBag, TypeInv, TypeOK
<1>2. \A f \in Entry : IsUsed(f) /\ f # e => data[f] # x
  BY <1>1 DEF Apart, Takes
<1>3. x \notin pool /\ \A u \in Threads : Hand(u) # x
  BY <1>1 DEF Apart, Takes
<1> QED
  BY <1>1, <1>2, <1>3 DEF Apart, Takes

LEMMA ApartEnds ==
  ASSUME TypeInv, Apart, NEW t \in Threads, NEW e \in Entry, NEW x \in Items, Ends(t, e, x)
  PROVE  Apart'
<1>1. \A f \in Entry : IsUsed(f)' <=> IsUsed(f)
  BY DEF Ends, IsUsed, TypeInv, TypeOK
<1>2. NoItem \notin pool /\ x # NoItem
  BY NoItemIsNoItem DEF TypeInv, TypeOK
<1>3. \A f \in Entry : IsUsed(f) => data[f] # x /\ data[f] # NoItem
  BY UsedType, NoItemIsNoItem DEF Apart, Ends
<1>4. \A u \in Threads : Hand(u) = x => u = t
  BY <1>2 DEF Apart, Ends
<1> QED
  BY <1>1, <1>2, <1>3, <1>4 DEF Apart, Ends

LEMMA HandsStep == TypeInv /\ Owned /\ Hands /\ [Next]_vars => Hands'
<1> SUFFICES ASSUME TypeInv, Owned, Hands, [Next]_vars, NEW u \in Threads PROVE HandsOK(u)'
  BY DEF Hands
<1>0. HandsOK(u)
  BY DEF Hands
<1>1. CASE UNCHANGED vars \/ Cleanup
  BY <1>0, <1>1 DEF HandsOK, InPush, vars, shared, Cleanup
<1>2. ASSUME NEW t \in Threads,
             PushBegin(t) \/ PushClaim(t) \/ PushUsed(t) \/ PopBegin(t) \/ PopCopy(t) \/ Exit(t)
      PROVE  HandsOK(u)'
  BY <1>0, <1>2 DEF HandsOK, InPush, PushBegin, PushClaim, PushUsed, PopBegin, PopCopy, Exit, At, Goto, shared,
     TypeInv, TypeOK
<1>3. ASSUME NEW t \in Threads, PushCheck(t) \/ PushRaise(t) \/ PopRead(t) \/ PopClaim(t) \/ PopFree(t)
      PROVE  HandsOK(u)'
  BY <1>0, <1>3 DEF HandsOK, InPush, PushCheck, PushRaise, PopRead, PopClaim, PopFree, Return, At, Goto, shared,
     TypeInv, TypeOK
<1>4. ASSUME NEW t \in Threads,
             \/ Walk(t, "push_nth", "push_link", "push_busy") \/ Walk(t, "pop_nth", "pop_link", "pop_busy")
             \/ Link(t, "push_link", "push_nth") \/ Link(t, "pop_link", "pop_nth")
             \/ MakeBusy(t, "push_busy", "FREE", "push_write", "push_claim")
             \/ MakeBusy(t, "pop_busy", "USED", "pop_copy", "pop_read")
      PROVE  HandsOK(u)'
  <2>1. data' = data /\ item' = item /\ \A v \in Threads \ {t} : pc'[v] = pc[v] /\ entry'[v] = entry[v]
    BY <1>4 DEF Walk, Link, MakeBusy, Goto, TypeInv, TypeOK
  <2>2. pc'[t] # "push_used" /\ (InPush(t) <=> InPush(t)') /\ pc[t] # "pop_free"
    BY <1>4 DEF Walk, Link, MakeBusy, At, Goto, InPush, TypeInv, TypeOK
  <2> QED
    BY <1>0, <2>1, <2>2 DEF HandsOK, InPush
<1>5. ASSUME NEW t \in Threads, PushWrite(t) PROVE HandsOK(u)'
  <2>1. PICK e \in Entry : e = entry[t]
    BY <1>5, EntryIs DEF PushWrite, At, AtEntry
  <2>2. /\ item' = item /\ entry' = entry /\ pc[t] = "push_write" /\ pc'[t] = "push_used"
        /\ data'[e] = item[t] /\ \A f \in Entry : f # e => data'[f] = data[f]
        /\ \A v \in Threads \ {t} : pc'[v] = pc[v]
    BY <1>5, <2>1 DEF PushWrite, At, Goto, TypeInv, TypeOK
  <2>3. CASE u = t
    BY <2>1, <2>2, <2>3 DEF HandsOK, InPush
  <2>4. CASE u # t
    <3>1. pc[u] = "push_used" => entry[u] \in Entry /\ entry[u] # e
      BY <2>1, <2>2, <2>4, EntryIs DEF AtEntry, Owned, Owns
    <3> QED
      BY <1>0, <2>2, <2>4, <3>1 DEF HandsOK, InPush
  <2> QED
    BY <2>3, <2>4
<1>6. CASE Next
  BY <1>1, <1>2, <1>3, <1>4, <1>5, <1>6 DEF Next, Call, Step, Push, Pop
<1> QED
  BY <1>1, <1>6

LEMMA ApartStep == TypeInv /\ ChunkInv /\ Owned /\ ItemInv /\ [Next]_vars => Apart'
<1> SUFFICES ASSUME TypeInv, ChunkInv, Owned, Apart, Hands, [Next]_vars PROVE Apart'
  BY DEF ItemInv
<1>1. CASE UNCHANGED vars
  BY <1>1 DEF Apart, IsUsed, Hand, At, vars, shared
<1>2. CASE Cleanup
  BY <1>2 DEF Apart, IsUsed, Hand, At, Cleanup
<1>3. ASSUME NEW t \in Threads, Call(t) \/ Step(t) \/ Exit(t) PROVE Apart'
  <2>1. CASE PushBegin(t)
    BY <2>1, StartsPush, ApartStarts
  <2>2. CASE PushUsed(t)
    BY <2>2, PutsUsed, ApartPuts
  <2>3. CASE PopFree(t)
    BY <2>3, EndsPop, ApartEnds
  <2>4. CASE \/ PushClaim(t) \/ PushCheck(t) \/ PushRaise(t) \/ PopBegin(t) \/ PopRead(t)
             \/ PopClaim(t) \/ PopCopy(t) \/ Exit(t) \/ PushWrite(t)
    BY <2>4, StaysQuiet, StaysPushWrite, ApartStays
  <2>5. CASE \/ Walk(t, "push_nth", "push_link", "push_busy") \/ Walk(t, "pop_nth", "pop_link", "pop_busy")
             \/ Link(t, "push_link", "push_nth") \/ Link(t, "pop_link", "pop_nth")
    <3>1. Stays
      BY <2>5, StaysWalk, StaysLink
    <3> QED
      BY <3>1, ApartStays
  <2>6. CASE MakeBusy(t, "push_busy", "FREE", "push_write", "push_claim")
    <3>1. Stays
      BY <2>6, MakesBusy
    <3> QED
      BY <3>1, ApartStays
  <2>7. CASE MakeBusy(t, "pop_busy", "USED", "pop_copy", "pop_read")
    <3>1. Stays \/ \E e \in Entry, x \in Items : Takes(t, e, x)
      BY <2>7, MakesBusy
    <3> QED
      BY <3>1, ApartStays, ApartTakes
  <2> QED
    BY <1>3, <2>1, <2>2, <2>3, <2>4, <2>5, <2>6, <2>7 DEF Call, Step, Push, Pop
<1> QED
  BY <1>1, <1>2, <1>3 DEF Next

LEMMA ItemInit == Init => ItemInv
<1> SUFFICES ASSUME Init PROVE Apart /\ Hands
  BY DEF ItemInv
<1>1. \A e \in Entry : ~IsUsed(e)
  BY DEF Init, IsUsed
<1>2. \A t \in Threads : Hand(t) = NoItem /\ NoItem \notin pool
  BY NoItemIsNoItem DEF Init, Hand, At
<1>3. Hands
  BY DEF Init, Hands, HandsOK, InPush
<1> QED
  BY <1>1, <1>2, <1>3 DEF Apart

(* The whole invariant. *)
Inv == TypeInv /\ ChunkInv /\ Owned /\ Covering /\ ItemInv

LEMMA InvInit == Init => Inv
<1>1. Init => Owned
  BY DEF Init, Owned, Owns
<1> QED
  BY <1>1, TypeInit, ChunkInit, CoveringInit, ItemInit DEF Inv

LEMMA InvStep == Inv /\ [Next]_vars => Inv'
<1> SUFFICES ASSUME Inv, [Next]_vars PROVE Inv'
  OBVIOUS
<1>1. TypeInv /\ ChunkInv /\ Owned /\ Covering /\ ItemInv /\ Apart /\ Hands
  BY DEF Inv, ItemInv
<1>2. ItemInv'
  BY <1>1, HandsStep, ApartStep DEF ItemInv
<1> QED
  BY <1>1, <1>2, TypeStep, ChunkStep, OwnedStep, CoveringStep DEF Inv

-----------------------------------------------------------------------------
(* What the steps do to the bag, the hands and the calls *)

LEMMA HandsOf ==
  ASSUME NEW t \in Threads, NEW x, Hand(t)' = x, \A u \in Threads \ {t} : Hand(u)' = Hand(u)
  PROVE  HandOf' = [HandOf EXCEPT ![t] = x]
BY DEF HandOf

LEMMA CallsOf ==
  ASSUME NEW t \in Threads, \A u \in Threads \ {t} : pc'[u] = pc[u]
  PROVE  CallOf' = [CallOf EXCEPT ![t] = Calling(t)']
<1>1. \A u \in Threads \ {t} : Calling(u)' = Calling(u)
  BY DEF Calling, Pushing
<1> QED
  BY <1>1 DEF CallOf

LEMMA BagStays ==
  ASSUME Stays
  PROVE  BagOf' = BagOf /\ HandOf' = HandOf
<1>1. \A e \in Entry : (InBag(e)' <=> InBag(e)) /\ (InBag(e) => data'[e] = data[e])
  BY DEF Stays, InBag, IsUsed
<1>2. BagOf' = BagOf
  BY <1>1 DEF BagOf
<1>3. HandOf' = HandOf
  BY DEF Stays, HandOf
<1> QED
  BY <1>2, <1>3

LEMMA BagStarts ==
  ASSUME Apart, NEW t \in Threads, NEW x \in Items, Starts(t, x)
  PROVE  /\ BagOf' = BagOf /\ HandOf' = [HandOf EXCEPT ![t] = x]
         /\ x \notin BagOf /\ \A u \in Threads : HandOf[u] # x
<1>1. \A e : InBag(e)' <=> InBag(e)
  BY DEF Starts, InBag, IsLinked
<1>2. BagOf' = BagOf
  BY <1>1 DEF BagOf, Starts
<1>3. x \notin BagOf
  BY DEF BagOf, Starts, Apart, InBag, IsUsed
<1>4. \A u \in Threads : HandOf[u] # x
  BY DEF HandOf, Starts, Apart
<1>5. HandOf' = [HandOf EXCEPT ![t] = x]
  BY HandsOf DEF Starts
<1> QED
  BY <1>2, <1>3, <1>4, <1>5

LEMMA BagPuts ==
  ASSUME TypeInv, NEW t \in Threads, NEW e \in Entry, NEW x \in Items, Puts(t, e, x)
  PROVE  BagOf' = BagOf \cup {x} /\ HandOf[t] = x /\ HandOf' = [HandOf EXCEPT ![t] = NoItem]
<1>1. \A f \in Entry : InBag(f)' <=> InBag(f) \/ f = e
  BY DEF Puts, InBag, IsLinked, TypeInv, TypeOK
<1>2. BagOf' = BagOf \cup {x}
  BY <1>1 DEF BagOf, Puts
<1>3. HandOf' = [HandOf EXCEPT ![t] = NoItem]
  BY HandsOf DEF Puts
<1> QED
  BY <1>2, <1>3 DEF HandOf, Puts

LEMMA BagTakes ==
  ASSUME TypeInv, Apart, NEW t \in Threads, NEW e \in Entry, NEW x \in Items, Takes(t, e, x)
  PROVE  /\ x \in BagOf /\ BagOf' = BagOf \ {x}
         /\ HandOf[t] = NoItem /\ HandOf' = [HandOf EXCEPT ![t] = x]
<1>1. \A f \in Entry : InBag(f)' <=> InBag(f) /\ f # e
  BY DEF Takes, InBag, IsLinked, TypeInv, TypeOK
<1>2. \A f \in Entry : InBag(f) /\ f # e => data[f] # x
  BY DEF Takes, Apart, InBag, IsUsed
<1>3. x \in BagOf
  BY DEF BagOf, Takes
<1>4. BagOf' = BagOf \ {x}
  BY <1>1, <1>2 DEF BagOf, Takes
<1>5. HandOf' = [HandOf EXCEPT ![t] = x]
  BY HandsOf DEF Takes
<1> QED
  BY <1>3, <1>4, <1>5 DEF HandOf, Takes

LEMMA BagEnds ==
  ASSUME TypeInv, NEW t \in Threads, NEW e \in Entry, NEW x \in Items, Ends(t, e, x)
  PROVE  BagOf' = BagOf /\ HandOf[t] = x /\ HandOf' = [HandOf EXCEPT ![t] = NoItem]
<1>1. \A f \in Entry : InBag(f)' <=> InBag(f)
  BY DEF Ends, InBag, IsLinked, TypeInv, TypeOK
<1>2. BagOf' = BagOf
  BY <1>1 DEF BagOf, Ends
<1>3. HandOf' = [HandOf EXCEPT ![t] = NoItem]
  BY HandsOf DEF Ends
<1> QED
  BY <1>2, <1>3 DEF HandOf, Ends

-----------------------------------------------------------------------------
(* A pop that finds nothing *)

(* A number is in one place of one chunk. *)
LEMMA Quotient ==
  ASSUME NEW n \in Nat \ {0}, NEW k \in Nat, NEW r \in 0 .. n - 1, NEW i \in Nat, i = n * k + r
  PROVE  i \div n = k /\ i % n = r
<1>1. PICK q \in Nat, s \in 0 .. n - 1 : q = i \div n /\ s = i % n /\ i = n * q + s
  BY Division
<1>2. q = k
  <2>1. CASE q < k
    <3>1. n * (q + 1) <= n * k
      BY <2>1
    <3> QED
      BY <1>1, <3>1
  <2>2. CASE k < q
    <3>1. n * (k + 1) <= n * q
      BY <2>2
    <3> QED
      BY <1>1, <3>1
  <2> QED
    BY <2>1, <2>2
<1> QED
  BY <1>1, <1>2

(* The linked entries are where indices lead to. *)
LEMMA HasIndex ==
  ASSUME TypeInv, NEW e \in Entry, IsLinked(e[1])
  PROVE  \E i \in Nat : Linked(i) /\ CHUNK_NTH(i) = e
<1>1. chunks \in Seq(Chunks) /\ NumEntries \in Nat \ {0}
  BY NumEntriesIsPositive DEF TypeInv, TypeOK
<1>2. PICK n \in 1 .. Len(chunks) : chunks[n] = e[1]
  BY <1>1 DEF IsLinked
<1>3. PICK k \in Nat : n = k + 1
  BY <1>1, <1>2
<1>4. PICK c \in Chunks, r \in 0 .. NumEntries - 1 : e = <<c, r>>
  BY DEF Entry
<1>5. PICK i \in Nat : i = NumEntries * k + r
  <2>1. NumEntries * k \in Nat /\ r \in Nat
    BY <1>1, <1>3, <1>4
  <2> QED
    BY <2>1
<1>6. i \div NumEntries = k /\ i % NumEntries = r
  BY <1>1, <1>3, <1>4, <1>5, Quotient
<1>7. Linked(i)
  BY <1>1, <1>2, <1>3, <1>6 DEF Linked
<1>8. CHUNK_NTH(i) = <<chunks[k + 1], r>>
  BY <1>6 DEF CHUNK_NTH
<1> QED
  BY <1>2, <1>3, <1>4, <1>7, <1>8

(* When the count is zero, every item in the bag is the business of another
   call, and each call has one such item at most: the one its index leads to. *)
LEMMA OthersHide ==
  ASSUME Inv, NEW t \in Threads, At(t, "pop_read"), num_used_entries = 0
  PROVE  Cardinality(BagOf) <= Cardinality(Bag!Busy \ {t})
<1> DEFINE W == {u \in Bag!Busy \ {t} : UsedAt(index[u])}
           g == [u \in W |-> data[CHUNK_NTH(index[u])]]
<1>1. TypeInv /\ Covering
  BY DEF Inv
<1>2. IsFiniteSet(Bag!Busy \ {t}) /\ W \in SUBSET (Bag!Busy \ {t})
  <2>1. Bag!Busy \ {t} \in SUBSET Threads
    BY DEF Bag!Busy
  <2> QED
    BY <2>1, ThreadsAreFinite, FS_Subset
<1>3. IsFiniteSet(W) /\ Cardinality(W) <= Cardinality(Bag!Busy \ {t})
  BY <1>2, FS_Subset
<1>4. \A u \in W : g[u] \in BagOf
  <2>1. ASSUME NEW u \in W PROVE data[CHUNK_NTH(index[u])] \in BagOf
    <3>1. PICK i \in Nat : i = index[u] /\ UsedAt(i)
      BY <1>1, <2>1 DEF TypeInv, TypeOK, Bag!Busy
    <3>2. Linked(i) /\ state[CHUNK_NTH(i)] = "USED"
      BY <3>1 DEF UsedAt
    <3>3. CHUNK_NTH(i) \in Entry /\ IsLinked(CHUNK_NTH(i)[1])
      BY <1>1, <3>2, LinkedIs DEF TypeInv, TypeOK, IsLinked
    <3> QED
      BY <3>1, <3>2, <3>3 DEF BagOf, InBag
  <2> QED
    BY <2>1
<1>5. \A x \in BagOf : \E u \in W : g[u] = x
  <2>1. ASSUME NEW x \in BagOf PROVE \E u \in W : g[u] = x
    <3>1. PICK e \in Entry : InBag(e) /\ data[e] = x
      BY DEF BagOf
    <3>2. PICK i \in Nat : Linked(i) /\ CHUNK_NTH(i) = e
      BY <1>1, <3>1, HasIndex DEF InBag
    <3>3. UsedAt(i)
      BY <3>1, <3>2 DEF UsedAt, InBag
    <3>4. Covers(i) /\ ~(i < num_used_entries)
      BY <1>1, <3>3 DEF Covering
    <3>5. PICK u \in Threads : Raises(u, i) \/ Seeks(u, i)
      BY <3>4 DEF Covers
    <3>6. index[u] = i /\ u # t
      BY <3>5 DEF Raises, Seeks, At
    <3>7. u \in Bag!Busy
      BY <3>5 DEF Bag!Busy, CallOf, Calling, Pushing, Raises, Seeks
    <3> QED
      BY <3>1, <3>2, <3>3, <3>6, <3>7
  <2> QED
    BY <2>1
<1>6. g \in Surjection(W, BagOf)
  BY <1>4, <1>5 DEF Surjection
<1>7. IsFiniteSet(BagOf) /\ Cardinality(BagOf) <= Cardinality(W)
  BY <1>3, <1>6, FS_Surjection
<1>8. Cardinality(BagOf) \in Nat /\ Cardinality(W) \in Nat /\ Cardinality(Bag!Busy \ {t}) \in Nat
  BY <1>2, <1>3, <1>7, FS_CardinalityType
<1> QED
  BY <1>3, <1>7, <1>8

-----------------------------------------------------------------------------
(* Every step is a step of the bag, or none. *)

LEMMA CallIs ==
  ASSUME NEW t \in Threads
  PROVE  CallOf[t] = Calling(t) /\ HandOf[t] = Hand(t)
BY DEF CallOf, HandOf

(* Calls go on. *)
LEMMA GoesOn ==
  ASSUME TypeInv, NEW t \in Threads, NEW label, pc' = [pc EXCEPT ![t] = label],
         Calling(t)' = Calling(t)
  PROVE  CallOf' = CallOf
<1>1. \A u \in Threads : Calling(u)' = Calling(u)
  BY DEF Calling, Pushing, TypeInv, TypeOK
<1> QED
  BY <1>1 DEF CallOf

Shifts(t) ==
  \/ PushClaim(t) \/ PushWrite(t) \/ PopClaim(t) \/ PopCopy(t) \/ Exit(t)
  \/ Walk(t, "push_nth", "push_link", "push_busy") \/ Walk(t, "pop_nth", "pop_link", "pop_busy")
  \/ Link(t, "push_link", "push_nth") \/ Link(t, "pop_link", "pop_nth")
  \/ MakeBusy(t, "push_busy", "FREE", "push_write", "push_claim")

LEMMA ShiftsStutter ==
  ASSUME Inv, NEW t \in Threads, Shifts(t)
  PROVE  UNCHANGED Bag!vars
<1>1. TypeInv /\ ChunkInv /\ Owned /\ Hands
  BY DEF Inv, ItemInv
<1>2. Stays
  <2>1. CASE PushClaim(t) \/ PopClaim(t) \/ PopCopy(t) \/ Exit(t)
    BY <1>1, <2>1, StaysQuiet
  <2>2. CASE PushWrite(t)
    BY <1>1, <2>2, StaysPushWrite
  <2>3. CASE Walk(t, "push_nth", "push_link", "push_busy") \/ Walk(t, "pop_nth", "pop_link", "pop_busy")
    BY <1>1, <2>3, StaysWalk
  <2>4. CASE Link(t, "push_link", "push_nth") \/ Link(t, "pop_link", "pop_nth")
    BY <1>1, <2>4, StaysLink
  <2>5. CASE MakeBusy(t, "push_busy", "FREE", "push_write", "push_claim")
    BY <1>1, <2>5, MakesBusy
  <2> QED
    BY <2>1, <2>2, <2>3, <2>4, <2>5 DEF Shifts
<1>3. CallOf' = CallOf
  <2>1. /\ pc \in [Threads -> Label]
        /\ \E label : pc' = [pc EXCEPT ![t] = label]
    BY <1>1 DEF TypeInv, TypeOK, Shifts, PushClaim, PushWrite, PopClaim, PopCopy, Exit, Walk, Link, MakeBusy, Goto
  <2>2. Calling(t)' = Calling(t)
    <3>1. CASE PushClaim(t) \/ PushWrite(t) \/ PopClaim(t) \/ PopCopy(t) \/ Exit(t)
      BY <2>1, <3>1 DEF PushClaim, PushWrite, PopClaim, PopCopy, Exit, At, Goto, Calling, Pushing
    <3>2. CASE ~(PushClaim(t) \/ PushWrite(t) \/ PopClaim(t) \/ PopCopy(t) \/ Exit(t))
      BY <2>1, <3>2 DEF Shifts, Walk, Link, MakeBusy, At, Goto, Calling, Pushing
    <3> QED
      BY <3>1, <3>2
  <2> QED
    BY <1>1, <2>1, <2>2, GoesOn
<1> QED
  BY <1>2, <1>3, BagStays DEF Bag!vars

(* The steps at which a call ends, with nothing but the bag in mind. *)
LEMMA EndOfPush ==
  ASSUME Inv, NEW t \in Threads, PushCheck(t) \/ PushRaise(t)
  PROVE  Bag!PushEnd(t) \/ UNCHANGED Bag!vars
<1>1. TypeInv /\ Hands
  BY DEF Inv, ItemInv
<1>2. BagOf' = BagOf /\ HandOf' = HandOf
  BY <1>1, StaysQuiet, BagStays
<1>3. /\ pc[t] \in {"push_check", "push_raise"} /\ pc'[t] \in {"idle", "push_check", "push_raise"}
      /\ \A u \in Threads \ {t} : pc'[u] = pc[u]
  BY <1>1 DEF PushCheck, PushRaise, Return, At, Goto, TypeInv, TypeOK
<1>4. CallOf' = [CallOf EXCEPT ![t] = Calling(t)']
  BY <1>3, CallsOf
<1>5. CallOf[t] = "push" /\ HandOf[t] = NoItem
  BY <1>1, <1>3, CallIs DEF Calling, Pushing, Hand, At, Hands, HandsOK, InPush
<1>6. CASE pc'[t] = "idle"
  <2>1. Calling(t)' = "none"
    BY <1>6 DEF Calling, Pushing
  <2> QED
    BY <1>2, <1>4, <1>5, <2>1 DEF Bag!PushEnd
<1>7. CASE pc'[t] # "idle"
  <2>1. Calling(t)' = "push"
    BY <1>3, <1>7 DEF Calling, Pushing
  <2>2. CallOf' = CallOf
    BY <1>4, <1>5, <2>1 DEF CallOf
  <2> QED
    BY <1>2, <2>2 DEF Bag!vars
<1> QED
  BY <1>6, <1>7

(* The Cardinality that ConcurrentBag means is the same. *)
LEMMA SameCardinality ==
  ASSUME NEW S
  PROVE  Bag!Cardinality(S) = Cardinality(S)
BY DEF Bag!Cardinality, Cardinality

LEMMA EmptyPop ==
  ASSUME Inv, NEW t \in Threads, PopRead(t)
  PROVE  Bag!PopFails(t) \/ UNCHANGED Bag!vars
<1>1. TypeInv /\ Hands
  BY DEF Inv, ItemInv
<1>2. BagOf' = BagOf /\ HandOf' = HandOf
  BY <1>1, StaysQuiet, BagStays
<1>3. /\ pc[t] = "pop_read" /\ pc'[t] \in {"idle", "pop_claim"}
      /\ pc'[t] = "idle" => num_used_entries = 0
      /\ \A u \in Threads \ {t} : pc'[u] = pc[u]
  BY <1>1 DEF PopRead, IsEmpty, Return, At, Goto, TypeInv, TypeOK
<1>4. CallOf' = [CallOf EXCEPT ![t] = Calling(t)']
  BY <1>3, CallsOf
<1>5. CallOf[t] = "pop" /\ HandOf[t] = NoItem
  BY <1>1, <1>3, CallIs DEF Calling, Pushing, Hand, At, Hands, HandsOK, InPush
<1>6. CASE pc'[t] = "idle"
  <2>1. Cardinality(BagOf) <= Cardinality(Bag!Busy \ {t})
    BY <1>3, <1>6, OthersHide DEF At
  <2>2. Calling(t)' = "none"
    BY <1>6 DEF Calling, Pushing
  <2>3. CallOf' = [CallOf EXCEPT ![t] = "none"]
    BY <1>4, <2>2
  <2>4. Bag!PopFails(t)
    BY <1>2, <1>5, <2>1, <2>3, SameCardinality DEF Bag!PopFails
  <2> QED
    BY <2>4
<1>7. CASE pc'[t] # "idle"
  <2>1. Calling(t)' = "pop"
    BY <1>3, <1>7 DEF Calling, Pushing
  <2>2. CallOf' = CallOf
    BY <1>4, <1>5, <2>1 DEF CallOf
  <2> QED
    BY <1>2, <2>2 DEF Bag!vars
<1> QED
  BY <1>6, <1>7

LEMMA BeginOfPush ==
  ASSUME Inv, NEW t \in Threads, PushBegin(t)
  PROVE  Bag!PushBegin(t)
<1>1. TypeInv /\ Apart /\ Hands
  BY DEF Inv, ItemInv
<1>2. PICK x \in Items : Starts(t, x)
  BY <1>1, StartsPush
<1>3. /\ BagOf' = BagOf /\ HandOf' = [HandOf EXCEPT ![t] = x]
      /\ x \notin BagOf /\ \A u \in Threads : HandOf[u] # x
  BY <1>1, <1>2, BagStarts
<1>4. /\ pc[t] = "idle" /\ pc'[t] = "push_claim" /\ \A u \in Threads \ {t} : pc'[u] = pc[u]
  BY <1>1 DEF PushBegin, At, Goto, TypeInv, TypeOK
<1>5. CallOf' = [CallOf EXCEPT ![t] = Calling(t)']
  BY <1>4, CallsOf
<1>6. CallOf[t] = "none" /\ Calling(t)' = "push"
  BY <1>4, CallIs DEF Calling, Pushing
<1>7. x \in Items \ (BagOf \cup {HandOf[u] : u \in Threads})
  BY <1>3
<1> QED
  BY <1>3, <1>5, <1>6, <1>7 DEF Bag!PushBegin

LEMMA BeginOfPop ==
  ASSUME Inv, NEW t \in Threads, PopBegin(t)
  PROVE  Bag!PopBegin(t)
<1>1. TypeInv
  BY DEF Inv
<1>2. BagOf' = BagOf /\ HandOf' = HandOf
  BY <1>1, StaysQuiet, BagStays
<1>3. /\ pc[t] = "idle" /\ pc'[t] = "pop_read" /\ \A u \in Threads \ {t} : pc'[u] = pc[u]
  BY <1>1 DEF PopBegin, At, Goto, TypeInv, TypeOK
<1>4. CallOf' = [CallOf EXCEPT ![t] = Calling(t)']
  BY <1>3, CallsOf
<1>5. CallOf[t] = "none" /\ Calling(t)' = "pop"
  BY <1>3, CallIs DEF Calling, Pushing
<1> QED
  BY <1>2, <1>4, <1>5 DEF Bag!PopBegin

LEMMA PutsIn ==
  ASSUME Inv, NEW t \in Threads, PushUsed(t)
  PROVE  Bag!Put(t)
<1>1. TypeInv /\ Owned /\ Hands
  BY DEF Inv, ItemInv
<1>2. PICK e \in Entry, x \in Items : Puts(t, e, x)
  BY <1>1, PutsUsed
<1>3. BagOf' = BagOf \cup {x} /\ HandOf[t] = x /\ HandOf' = [HandOf EXCEPT ![t] = NoItem]
  BY <1>1, <1>2, BagPuts
<1>4. /\ pc[t] = "push_used" /\ pc'[t] = "push_check" /\ \A u \in Threads \ {t} : pc'[u] = pc[u]
      /\ pc' = [pc EXCEPT ![t] = "push_check"]
  BY <1>1 DEF PushUsed, At, Goto, TypeInv, TypeOK
<1>5. CallOf' = CallOf
  BY <1>1, <1>4, GoesOn DEF Calling, Pushing
<1>6. CallOf[t] = "push" /\ x # NoItem
  BY <1>4, CallIs, NoItemIsNoItem DEF Calling, Pushing
<1> QED
  BY <1>3, <1>5, <1>6 DEF Bag!Put

LEMMA TakesOut ==
  ASSUME Inv, NEW t \in Threads, MakeBusy(t, "pop_busy", "USED", "pop_copy", "pop_read")
  PROVE  Bag!Take(t) \/ UNCHANGED Bag!vars
<1>1. TypeInv /\ ChunkInv /\ Apart /\ Hands
  BY DEF Inv, ItemInv
<1>2. Stays \/ \E e \in Entry, x \in Items : Takes(t, e, x)
  BY <1>1, MakesBusy
<1>3. /\ pc[t] = "pop_busy" /\ pc'[t] \in {"pop_copy", "pop_read"}
      /\ \E label : pc' = [pc EXCEPT ![t] = label]
  BY <1>1 DEF MakeBusy, At, Goto, TypeInv, TypeOK
<1>4. CallOf' = CallOf
  BY <1>1, <1>3, GoesOn DEF Calling, Pushing
<1>5. CallOf[t] = "pop"
  BY <1>3, CallIs DEF Calling, Pushing
<1>6. ASSUME NEW e \in Entry, NEW x \in Items, Takes(t, e, x) PROVE Bag!Take(t)
  <2>1. /\ x \in BagOf /\ BagOf' = BagOf \ {x}
        /\ HandOf[t] = NoItem /\ HandOf' = [HandOf EXCEPT ![t] = x]
    BY <1>1, <1>6, BagTakes
  <2> QED
    BY <1>4, <1>5, <2>1 DEF Bag!Take
<1> QED
  BY <1>2, <1>4, <1>6, BagStays DEF Bag!vars

LEMMA EndOfPop ==
  ASSUME Inv, NEW t \in Threads, PopFree(t)
  PROVE  Bag!PopEnd(t)
<1>1. TypeInv /\ Owned
  BY DEF Inv
<1>2. PICK e \in Entry, x \in Items : Ends(t, e, x)
  BY <1>1, EndsPop
<1>3. BagOf' = BagOf /\ HandOf[t] = x /\ HandOf' = [HandOf EXCEPT ![t] = NoItem]
  BY <1>1, <1>2, BagEnds
<1>4. /\ pc[t] = "pop_free" /\ pc'[t] = "idle" /\ \A u \in Threads \ {t} : pc'[u] = pc[u]
  BY <1>1 DEF PopFree, Return, At, Goto, TypeInv, TypeOK
<1>5. CallOf' = [CallOf EXCEPT ![t] = Calling(t)']
  BY <1>4, CallsOf
<1>6. CallOf[t] = "pop" /\ Calling(t)' = "none" /\ x # NoItem
  BY <1>4, CallIs, NoItemIsNoItem DEF Calling, Pushing
<1> QED
  BY <1>3, <1>5, <1>6 DEF Bag!PopEnd

LEMMA Forgets ==
  ASSUME Inv, Cleanup
  PROVE  Bag!Forget
<1>1. \A t \in Threads : pc[t] = "done" /\ pc' = pc /\ item' = item
  BY DEF Cleanup, Joined, At
<1>2. Bag!Busy = {}
  <2>1. \A t \in Threads : Calling(t) = "none"
    BY <1>1 DEF Calling, Pushing
  <2> QED
    BY <2>1, CallIs DEF Bag!Busy
<1>3. BagOf' = {}
  BY DEF Cleanup, BagOf, InBag, IsLinked
<1>4. CallOf' = CallOf /\ HandOf' = HandOf
  BY <1>1 DEF CallOf, Calling, Pushing, HandOf, Hand, At
<1> QED
  BY <1>2, <1>3, <1>4 DEF Bag!Forget

LEMMA BagInit == Init => Bag!Init
<1> SUFFICES ASSUME Init PROVE Bag!Init
  OBVIOUS
<1>1. BagOf = {}
  BY DEF Init, BagOf, InBag
<1>2. CallOf = [t \in Threads |-> "none"]
  <2>1. \A t \in Threads : Calling(t) = "none"
    BY DEF Init, Calling, Pushing
  <2> QED
    BY <2>1 DEF CallOf
<1>3. HandOf = [t \in Threads |-> NoItem]
  BY DEF Init, HandOf, Hand, At
<1> QED
  BY <1>1, <1>2, <1>3 DEF Bag!Init

LEMMA BagStep == Inv /\ [Next]_vars => [Bag!Next]_(Bag!vars)
<1> SUFFICES ASSUME Inv, [Next]_vars PROVE Bag!Next \/ UNCHANGED Bag!vars
  OBVIOUS
<1>1. CASE UNCHANGED vars
  <2>1. BagOf' = BagOf
    BY <1>1 DEF vars, shared, BagOf, InBag, IsLinked
  <2>2. CallOf' = CallOf /\ HandOf' = HandOf
    BY <1>1 DEF vars, shared, CallOf, Calling, Pushing, HandOf, Hand, At
  <2> QED
    BY <2>1, <2>2 DEF Bag!vars
<1>2. CASE Cleanup
  BY <1>2, Forgets DEF Bag!Next
<1>3. ASSUME NEW t \in Threads, Call(t) \/ Step(t) \/ Exit(t) PROVE Bag!Next \/ UNCHANGED Bag!vars
  <2>1. CASE Shifts(t)
    BY <2>1, ShiftsStutter
  <2>2. CASE PushBegin(t) \/ PopBegin(t)
    BY <2>2, BeginOfPush, BeginOfPop DEF Bag!Next
  <2>3. CASE PushUsed(t) \/ PopFree(t)
    BY <2>3, PutsIn, EndOfPop DEF Bag!Next
  <2>4. CASE PushCheck(t) \/ PushRaise(t)
    BY <2>4, EndOfPush DEF Bag!Next
  <2>5. CASE PopRead(t)
    BY <2>5, EmptyPop DEF Bag!Next
  <2>6. CASE MakeBusy(t, "pop_busy", "USED", "pop_copy", "pop_read")
    BY <2>6, TakesOut DEF Bag!Next
  <2> QED
    BY <1>3, <2>1, <2>2, <2>3, <2>4, <2>5, <2>6 DEF Call, Step, Push, Pop, Shifts
<1> QED
  BY <1>1, <1>2, <1>3 DEF Next

(* The queue keeps what was pushed until it is popped, once, and a pop returns
   FALSE only when every item is the business of another call: whatever the
   number of threads, items and chunks, and the size of chunks. *)
THEOREM QueueIsBag == Spec => IsBag
<1>1. Init => Inv /\ Bag!Init
  BY InvInit, BagInit
<1>2. Inv /\ [Next]_vars => Inv' /\ [Bag!Next]_(Bag!vars)
  BY InvStep, BagStep
<1> QED
  BY <1>1, <1>2, PTL DEF Spec, IsBag, Bag!Spec

=============================================================================
