------------------------------- MODULE SmallIds -------------------------------
(***************************************************************************)
(* hazard-pointer.c, small_id_alloc and small_id_free, and how a thread    *)
(* finds its hazard pointers.  small_id_alloc runs in a critical section,  *)
(* so it is one step.  Nobody calls small_id_free yet; it is modelled as a *)
(* thread that leaves would call it.                                       *)
(*                                                                         *)
(* hazard_table is one pointer per slot, and a pointer is the thread that  *)
(* has set it.  Memory is counted in units of which a slot has EntrySize   *)
(* and a page PageSize.                                                    *)
(***************************************************************************)
EXTENDS Integers, FiniteSets

CONSTANTS
  Threads,
  NULL,
  EntrySize,               \* sizeof (MonoThreadHazardPointers)
  PageSize,
  HAZARD_TABLE_MAX_SIZE

ASSUME NullIsNoThread == NULL \notin Threads
ASSUME SizesArePositive ==
  /\ EntrySize \in Nat \ {0}
  /\ PageSize \in Nat \ {0}
  /\ HAZARD_TABLE_MAX_SIZE \in Nat \ {0}
ASSUME SlotFitsPage == EntrySize <= PageSize
(* The id table has two entries, and doubles when all are taken. *)
ASSUME ThreadsFit ==
  /\ IsFiniteSet(Threads)
  /\ HAZARD_TABLE_MAX_SIZE >= 2
  /\ HAZARD_TABLE_MAX_SIZE >= 2 * (Cardinality(Threads) - 1)

VARIABLES
  small_id_table, small_id_table_size, small_id_next, highest_small_id,
  hazard_table, hazard_table_size,
  small_id,       \* per thread, in its MonoInternalThread
  live            \* the threads that are attached

table == <<small_id_table, small_id_table_size, small_id_next, highest_small_id>>
vars == <<table, hazard_table, hazard_table_size, small_id, live>>

(* A MonoInternalThread is filled with zeroes when the thread first asks for it. *)
Init ==
  /\ small_id_table = [i \in {} |-> NULL]
  /\ small_id_table_size = 0
  /\ small_id_next = 0
  /\ highest_small_id = -1
  /\ hazard_table = [i \in 0 .. HAZARD_TABLE_MAX_SIZE - 1 |-> NULL]
  /\ hazard_table_size = 0
  /\ small_id = [t \in Threads |-> 0]
  /\ live = {}

-----------------------------------------------------------------------------

Least(S) == CHOOSE i \in S : \A j \in S : i <= j

(* The table is allocated with two entries. *)
FirstSize == 2
OldSize == IF small_id_table_size = 0 THEN FirstSize ELSE small_id_table_size

(* The first free entry from small_id_next on, else the first one before it,
   else one beyond the table, which then doubles. *)
FreeEntries == {i \in 0 .. OldSize - 1 : i \in DOMAIN small_id_table => small_id_table[i] = NULL}
(* a mutant *)
NextId_FirstEarlier ==
  LET later == {i \in FreeEntries : i >= small_id_next} IN
  IF later # {} THEN Least(later) ELSE IF FreeEntries # {} THEN 0 ELSE OldSize
NextId ==
  LET later == {i \in FreeEntries : i >= small_id_next} IN
  IF later # {} THEN Least(later)
  ELSE IF FreeEntries # {} THEN Least(FreeEntries)
  ELSE OldSize
NewSize == IF NextId = OldSize THEN OldSize * 2 ELSE OldSize

Advance(size) == IF small_id_next + 1 > size THEN 0 ELSE small_id_next + 1

(* Make one more page of the hazard table accessible. *)
num_pages == (hazard_table_size * EntrySize + PageSize - 1) \div PageSize
GrownSize_NotCounted == (num_pages * PageSize) \div EntrySize  (* a mutant *)
GrownSize == ((num_pages + 1) * PageSize) \div EntrySize
(* What is reserved of it at first: a mapping is of whole pages. *)
ReservedPages == (HAZARD_TABLE_MAX_SIZE * EntrySize + PageSize - 1) \div PageSize

(* small_id_alloc *)
Attach(t) ==
  /\ t \notin live
  /\ live' = live \cup {t}
  /\ small_id' = [small_id EXCEPT ![t] = NextId]
  /\ small_id_table' =
       [i \in 0 .. NewSize - 1 |->
         IF i = NextId THEN t ELSE IF i \in DOMAIN small_id_table THEN small_id_table[i] ELSE NULL]
  /\ small_id_table_size' = NewSize
  /\ small_id_next' = Advance(NewSize)
  /\ \/ /\ NextId >= hazard_table_size
        /\ hazard_table_size' = GrownSize
        /\ hazard_table' = [hazard_table EXCEPT ![NextId] = NULL]
     \/ /\ NextId < hazard_table_size
        /\ UNCHANGED <<hazard_table, hazard_table_size>>
  /\ highest_small_id' = IF NextId > highest_small_id THEN NextId ELSE highest_small_id

(* mono_hazard_pointer_get; its emergency slot is none of the table. *)
Emergency == -1
mono_hazard_pointer_get(t) == IF small_id[t] >= 0 THEN small_id[t] ELSE Emergency

(* Set a hazard pointer, or clear it.  Nothing asks whether the thread has
   attached. *)
Guard(t) ==
  /\ mono_hazard_pointer_get(t) \in 0 .. hazard_table_size - 1
  /\ hazard_table' = [hazard_table EXCEPT ![mono_hazard_pointer_get(t)] = t]
  /\ UNCHANGED <<table, hazard_table_size, small_id, live>>

Clear(t) ==
  /\ mono_hazard_pointer_get(t) \in 0 .. hazard_table_size - 1
  /\ hazard_table' = [hazard_table EXCEPT ![mono_hazard_pointer_get(t)] = NULL]
  /\ UNCHANGED <<table, hazard_table_size, small_id, live>>

(* small_id_free, by a thread that leaves; its place can be taken by a new one. *)
Detach(t) ==
  /\ t \in live
  /\ hazard_table[small_id[t]] = NULL
  /\ live' = live \ {t}
  /\ small_id_table' = [small_id_table EXCEPT ![small_id[t]] = NULL]
  /\ small_id' = [small_id EXCEPT ![t] = 0]
  /\ UNCHANGED <<small_id_table_size, small_id_next, highest_small_id, hazard_table, hazard_table_size>>

Next == \E t \in Threads : Attach(t) \/ Guard(t) \/ Clear(t) \/ Detach(t)
Spec == Init /\ [][Next]_vars

-----------------------------------------------------------------------------
(* Properties *)

(* The variables have their types; small_id_next never passes the end. *)
TypeOK ==
  /\ small_id_table_size \in Nat
  /\ small_id_table \in [0 .. small_id_table_size - 1 -> Threads \cup {NULL}]
  /\ small_id_next \in 0 .. small_id_table_size
  /\ highest_small_id \in -1 .. HAZARD_TABLE_MAX_SIZE - 1
  /\ hazard_table \in [0 .. HAZARD_TABLE_MAX_SIZE - 1 -> Threads \cup {NULL}]
  /\ hazard_table_size \in Nat
  /\ small_id \in [Threads -> Nat]
  /\ live \subseteq Threads

(* The id of an attached thread is its own, however the search for a free entry
   wraps and the table doubles between attaching and leaving. *)
IdsAreOwn ==
  /\ \A t \in live : small_id[t] \in DOMAIN small_id_table /\ small_id_table[small_id[t]] = t
  /\ \A i \in DOMAIN small_id_table :
       small_id_table[i] # NULL => small_id_table[i] \in live /\ small_id[small_id_table[i]] = i

(* The types, and: is_pointer_hazardous looks at the slots of all attached threads and at no
   slot outside the table (hazard-pointer.c:172), and the pages that have been
   made accessible hold them all and have been reserved: hazard_table_size may pass
   HAZARD_TABLE_MAX_SIZE, as the last page may have room for more slots. *)
ScanCoversAll ==
  /\ TypeOK
  /\ \A t \in live : small_id[t] <= highest_small_id
  /\ highest_small_id < hazard_table_size \/ live = {}
  /\ hazard_table_size * EntrySize <= num_pages * PageSize
  /\ (hazard_table_size + 1) * EntrySize > num_pages * PageSize
  /\ num_pages <= ReservedPages

(* A hazard pointer stays until its thread clears it: no thread that attaches,
   leaves or guards something in the meantime writes to the slot.  But a thread
   that has not attached has the slot of id 0, where the emergency branch
   (hazard-pointer.c:203) would give it one of no other thread; so the thread
   with this id, and only this one, may lose what it guards. *)
Unattached == Threads \ live
GuardsStay ==
  [][\A t \in live : hazard_table[small_id[t]] = t =>
       \/ hazard_table'[small_id[t]] = t
       \/ Clear(t)
       \/ small_id[t] = 0 /\ \E u \in Unattached : Guard(u) \/ Clear(u)]_vars

=============================================================================
