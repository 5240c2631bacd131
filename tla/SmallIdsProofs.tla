----------------------------- MODULE SmallIdsProofs -----------------------------
(***************************************************************************)
(* Theorems about SmallIds, for every number of threads and every size of  *)
(* slots and pages: the ids of attached threads are their own and fit the  *)
(* hazard table (g_assert, hazard-pointer.c:114), a scan covers them all,  *)
(* and nobody else writes to the hazard pointers of an attached thread,    *)
(* but for the slot of id 0.                                               *)
(***************************************************************************)
EXTENDS SmallIds, FiniteSetTheorems, WellFoundedInduction, TLAPS

-----------------------------------------------------------------------------
(* The next id *)

LEMMA LeastIs ==
  ASSUME NEW S \in SUBSET Nat, S # {}
  PROVE  Least(S) \in S /\ \A i \in S : Least(S) <= i
<1>1. PICK m \in S : \A i \in S : ~(<<i, m>> \in OpToRel(<, Nat))
  BY NatLessThanWellFounded, WFMin
<1>2. \A i \in S : <<i, m>> \in OpToRel(<, Nat) <=> i < m
  BY DEF OpToRel
<1>3. ASSUME NEW i \in S PROVE m <= i
  <2>1. ~(i < m)
    BY <1>1, <1>2
  <2> QED
    BY <2>1
<1> QED
  BY <1>3 DEF Least

(* What the table and the ids are; who is not attached has the id 0. *)
Types ==
  /\ small_id_table_size \in Nat /\ small_id_table_size <= HAZARD_TABLE_MAX_SIZE
  /\ small_id_table \in [0 .. small_id_table_size - 1 -> Threads \cup {NULL}]
  /\ hazard_table \in [0 .. HAZARD_TABLE_MAX_SIZE - 1 -> Threads \cup {NULL}]
  /\ small_id_next \in Nat
  /\ small_id \in [Threads -> Nat]
  /\ live \subseteq Threads
  /\ \A t \in Threads \ live : small_id[t] = 0

Inv == Types /\ IdsAreOwn

LEMMA NextIs ==
  ASSUME Types
  PROVE  /\ OldSize \in Nat /\ NextId \in Nat /\ NewSize \in Nat
         /\ NextId < NewSize /\ OldSize <= NewSize /\ small_id_table_size <= OldSize
         /\ \/ NextId \in FreeEntries /\ NewSize = OldSize
            \/ FreeEntries = {} /\ NextId = OldSize /\ NewSize = OldSize * 2
<1> DEFINE later == {i \in FreeEntries : i >= small_id_next}
<1>1. OldSize \in Nat /\ OldSize > 0 /\ small_id_table_size <= OldSize
  BY DEF Types, OldSize, FirstSize
<1>2. FreeEntries \in SUBSET Nat /\ \A i \in FreeEntries : i < OldSize
  BY <1>1 DEF FreeEntries
<1>3. CASE later # {}
  <2>1. Least(later) \in later
    BY <1>2, <1>3, LeastIs
  <2>2. NextId = Least(later)
    BY <1>3 DEF NextId
  <2>3. NextId \in FreeEntries /\ NextId \in Nat /\ NextId < OldSize
    BY <1>2, <2>1, <2>2
  <2> QED
    BY <1>1, <2>3 DEF NewSize
<1>4. CASE later = {} /\ FreeEntries # {}
  <2>1. Least(FreeEntries) \in FreeEntries
    BY <1>2, <1>4, LeastIs
  <2>2. NextId = Least(FreeEntries)
    BY <1>4 DEF NextId
  <2>3. NextId \in FreeEntries /\ NextId \in Nat /\ NextId < OldSize
    BY <1>2, <2>1, <2>2
  <2> QED
    BY <1>1, <2>3 DEF NewSize
<1>5. CASE later = {} /\ FreeEntries = {}
  <2>1. NextId = OldSize
    BY <1>5 DEF NextId
  <2> QED
    BY <1>1, <1>5, <2>1 DEF NewSize
<1> QED
  BY <1>3, <1>4, <1>5

(* When all entries are taken, there are as many threads as entries. *)
LEMMA FullTable ==
  ASSUME Inv, NEW t \in Threads \ live, FreeEntries = {}
  PROVE  OldSize <= Cardinality(Threads) - 1
<1>1. OldSize \in Nat /\ OldSize > 0 /\ small_id_table_size <= OldSize
  BY DEF Inv, Types, OldSize, FirstSize
<1>2. ASSUME NEW i \in 0 .. OldSize - 1
      PROVE  /\ i \in DOMAIN small_id_table /\ small_id_table[i] # NULL
             /\ small_id_table[i] \in live /\ small_id[small_id_table[i]] = i
  <2>1. i \in DOMAIN small_id_table /\ small_id_table[i] # NULL
    BY <1>2 DEF FreeEntries
  <2> QED
    BY <2>1 DEF Inv, IdsAreOwn
<1> DEFINE f == [i \in 0 .. OldSize - 1 |-> small_id_table[i]]
<1>3. f \in Injection(0 .. OldSize - 1, Threads \ {t})
  <2>1. f \in [0 .. OldSize - 1 -> Threads \ {t}]
    BY <1>2 DEF Inv, Types
  <2>2. \A i, j \in 0 .. OldSize - 1 : f[i] = f[j] => i = j
    BY <1>2
  <2> QED
    BY <2>1, <2>2 DEF Injection, IsInjective
<1>4. IsFiniteSet(Threads \ {t}) /\ Cardinality(Threads \ {t}) = Cardinality(Threads) - 1
  BY ThreadsFit, FS_RemoveElement
<1>5. Cardinality(0 .. OldSize - 1) <= Cardinality(Threads) - 1
  BY <1>3, <1>4, FS_Injection
<1>6. Cardinality(0 .. OldSize - 1) = OldSize
  BY <1>1, FS_Interval
<1> QED
  BY <1>5, <1>6

(* g_assert (id < HAZARD_TABLE_MAX_SIZE) *)
LEMMA IdFits ==
  ASSUME Inv, NEW t \in Threads \ live
  PROVE  NewSize <= HAZARD_TABLE_MAX_SIZE /\ NextId \in 0 .. HAZARD_TABLE_MAX_SIZE - 1
<1>1. /\ OldSize \in Nat /\ NextId \in Nat /\ NewSize \in Nat /\ NextId < NewSize
      /\ HAZARD_TABLE_MAX_SIZE \in Nat /\ Cardinality(Threads) \in Nat
  BY NextIs, SizesArePositive, ThreadsFit, FS_CardinalityType DEF Inv
<1>2. OldSize <= HAZARD_TABLE_MAX_SIZE
  BY ThreadsFit, <1>1 DEF OldSize, FirstSize, Inv, Types
<1>3. NewSize = OldSize \/ (FreeEntries = {} /\ NewSize = OldSize * 2)
  BY NextIs DEF Inv
<1>4. FreeEntries = {} => OldSize <= Cardinality(Threads) - 1
  BY FullTable
<1>5. NewSize <= HAZARD_TABLE_MAX_SIZE
  BY <1>1, <1>2, <1>3, <1>4, ThreadsFit
<1> QED
  BY <1>1, <1>5

(* The entry of the next id is free. *)
LEMMA NextIsFree ==
  ASSUME Inv, NEW u \in live
  PROVE  small_id[u] # NextId
<1>1. small_id[u] \in DOMAIN small_id_table /\ small_id_table[small_id[u]] = u /\ u # NULL
  BY NullIsNoThread DEF Inv, IdsAreOwn, Types
<1>2. small_id[u] \notin FreeEntries /\ small_id[u] < small_id_table_size /\ small_id[u] \in Nat
  BY <1>1 DEF FreeEntries, Inv, Types
<1>3. NextId \in FreeEntries \/ NextId = OldSize
  BY NextIs DEF Inv
<1>4. small_id_table_size <= OldSize /\ OldSize \in Nat /\ small_id_table_size \in Nat
  BY NextIs DEF Inv, Types
<1> QED
  BY <1>2, <1>3, <1>4

-----------------------------------------------------------------------------
(* Every step keeps the ids own *)

LEMMA InvInit ==
  ASSUME Init
  PROVE  Inv
<1>1. Types
  BY SizesArePositive DEF Init, Types
<1>2. DOMAIN small_id_table = {} /\ live = {}
  BY DEF Init
<1> QED
  BY <1>1, <1>2 DEF Inv, IdsAreOwn

LEMMA AttachKeeps ==
  ASSUME Inv, NEW t \in Threads, Attach(t)
  PROVE  Inv'
<1>1. /\ t \in Threads \ live /\ t # NULL
      /\ Types /\ IdsAreOwn
  BY NullIsNoThread DEF Attach, Inv
<1>2. /\ OldSize \in Nat /\ NextId \in Nat /\ NewSize \in Nat
      /\ NextId < NewSize /\ OldSize <= NewSize /\ small_id_table_size <= OldSize
      /\ small_id_table_size \in Nat
  BY <1>1, NextIs DEF Types
<1>3. NewSize <= HAZARD_TABLE_MAX_SIZE
  BY <1>1, IdFits
<1>4. DOMAIN small_id_table = 0 .. small_id_table_size - 1
  BY <1>1 DEF Types
<1>5. DOMAIN small_id_table \subseteq 0 .. NewSize - 1
  BY <1>2, <1>4
<1>6. /\ small_id_table' =
           [i \in 0 .. NewSize - 1 |->
             IF i = NextId THEN t ELSE IF i \in DOMAIN small_id_table THEN small_id_table[i] ELSE NULL]
      /\ small_id' = [small_id EXCEPT ![t] = NextId]
      /\ live' = live \cup {t}
      /\ small_id_table_size' = NewSize
  BY DEF Attach
<1>7. Types'
  <2>1. small_id_table' \in [0 .. NewSize - 1 -> Threads \cup {NULL}]
    BY <1>1, <1>4, <1>6 DEF Types
  <2>2. hazard_table' \in [0 .. HAZARD_TABLE_MAX_SIZE - 1 -> Threads \cup {NULL}]
    BY <1>1 DEF Attach, Types
  <2>3. small_id_next' \in Nat
    BY <1>1, <1>2 DEF Attach, Advance, Types
  <2>4. small_id' \in [Threads -> Nat] /\ live' \subseteq Threads
    BY <1>1, <1>2, <1>6 DEF Types
  <2>5. \A u \in Threads \ live' : small_id'[u] = 0
    BY <1>1, <1>6 DEF Types
  <2> QED
    BY <1>2, <1>3, <1>6, <2>1, <2>2, <2>3, <2>4, <2>5 DEF Types
<1>8. \A u \in live' : small_id'[u] \in DOMAIN small_id_table' /\ small_id_table'[small_id'[u]] = u
  <2>1. SUFFICES ASSUME NEW u \in live'
                 PROVE  small_id'[u] \in 0 .. NewSize - 1 /\ small_id_table'[small_id'[u]] = u
    BY <1>6
  <2>2. CASE u = t
    <3>1. small_id'[u] = NextId
      BY <1>1, <1>6, <2>2 DEF Types
    <3> QED
      BY <1>2, <1>6, <2>2, <3>1
  <2>3. CASE u # t
    <3>1. u \in live /\ small_id'[u] = small_id[u]
      BY <1>1, <1>6, <2>3 DEF Types
    <3>2. small_id[u] \in DOMAIN small_id_table /\ small_id_table[small_id[u]] = u
      BY <1>1, <3>1 DEF IdsAreOwn
    <3>3. small_id[u] # NextId
      BY <3>1, NextIsFree
    <3> QED
      BY <1>5, <1>6, <3>1, <3>2, <3>3
  <2> QED
    BY <2>2, <2>3
<1>9. \A i \in DOMAIN small_id_table' :
        small_id_table'[i] # NULL => small_id_table'[i] \in live' /\ small_id'[small_id_table'[i]] = i
  <2>1. SUFFICES ASSUME NEW i \in 0 .. NewSize - 1, small_id_table'[i] # NULL
                 PROVE  small_id_table'[i] \in live' /\ small_id'[small_id_table'[i]] = i
    BY <1>6
  <2>2. CASE i = NextId
    <3>1. small_id_table'[i] = t
      BY <1>6, <2>2
    <3>2. small_id'[t] = NextId
      BY <1>1, <1>6 DEF Types
    <3> QED
      BY <1>6, <2>2, <3>1, <3>2
  <2>3. CASE i # NextId
    <3>1. i \in DOMAIN small_id_table /\ small_id_table'[i] = small_id_table[i]
      BY <1>6, <2>1, <2>3
    <3>2. small_id_table[i] \in live /\ small_id[small_id_table[i]] = i
      BY <1>1, <2>1, <3>1 DEF IdsAreOwn
    <3>3. small_id'[small_id_table[i]] = small_id[small_id_table[i]]
      BY <1>1, <1>6, <3>2 DEF Types
    <3> QED
      BY <1>6, <3>1, <3>2, <3>3
  <2> QED
    BY <2>2, <2>3
<1> QED
  BY <1>7, <1>8, <1>9 DEF Inv, IdsAreOwn

(* Setting and clearing a hazard pointer change nothing but the slot. *)
LEMMA SlotKeeps ==
  ASSUME Inv, NEW t \in Threads, Guard(t) \/ Clear(t)
  PROVE  Inv'
<1>1. UNCHANGED <<table, small_id, live>>
  BY DEF Guard, Clear
<1>2. hazard_table' \in [0 .. HAZARD_TABLE_MAX_SIZE - 1 -> Threads \cup {NULL}]
  BY DEF Guard, Clear, Inv, Types
<1> QED
  BY <1>1, <1>2 DEF Inv, Types, IdsAreOwn, table

LEMMA DetachKeeps ==
  ASSUME Inv, NEW t \in Threads, Detach(t)
  PROVE  Inv'
<1>1. /\ Types /\ IdsAreOwn
      /\ t \in live /\ t # NULL
      /\ live' = live \ {t}
      /\ small_id_table' = [small_id_table EXCEPT ![small_id[t]] = NULL]
      /\ small_id' = [small_id EXCEPT ![t] = 0]
      /\ UNCHANGED <<small_id_table_size, small_id_next, hazard_table>>
  BY NullIsNoThread DEF Detach, Inv
<1>2. Types'
  BY <1>1 DEF Types
<1>3. small_id[t] \in DOMAIN small_id_table /\ small_id_table[small_id[t]] = t
  BY <1>1 DEF IdsAreOwn
<1>4. \A u \in live' : small_id'[u] \in DOMAIN small_id_table' /\ small_id_table'[small_id'[u]] = u
  <2>1. SUFFICES ASSUME NEW u \in live'
                 PROVE  small_id'[u] \in DOMAIN small_id_table' /\ small_id_table'[small_id'[u]] = u
    OBVIOUS
  <2>2. u \in live /\ u # t /\ small_id'[u] = small_id[u]
    BY <1>1 DEF Types
  <2>3. small_id[u] \in DOMAIN small_id_table /\ small_id_table[small_id[u]] = u
    BY <1>1, <2>2 DEF IdsAreOwn
  <2> QED
    BY <1>1, <1>3, <2>2, <2>3
<1>5. \A i \in DOMAIN small_id_table' :
        small_id_table'[i] # NULL => small_id_table'[i] \in live' /\ small_id'[small_id_table'[i]] = i
  <2>1. SUFFICES ASSUME NEW i \in DOMAIN small_id_table', small_id_table'[i] # NULL
                 PROVE  small_id_table'[i] \in live' /\ small_id'[small_id_table'[i]] = i
    OBVIOUS
  <2>2. i \in DOMAIN small_id_table /\ i # small_id[t] /\ small_id_table'[i] = small_id_table[i]
    BY <1>1, <1>3, <2>1
  <2>3. small_id_table[i] \in live /\ small_id[small_id_table[i]] = i
    BY <1>1, <2>1, <2>2 DEF IdsAreOwn
  <2>4. small_id_table[i] # t
    BY <2>2, <2>3
  <2> QED
    BY <1>1, <2>2, <2>3, <2>4 DEF Types
<1> QED
  BY <1>2, <1>4, <1>5 DEF Inv, IdsAreOwn

LEMMA InvStep ==
  ASSUME Inv, [Next]_vars
  PROVE  Inv'
<1>1. CASE UNCHANGED vars
  BY <1>1 DEF vars, table, Inv, Types, IdsAreOwn
<1>2. ASSUME NEW t \in Threads, Attach(t) \/ Guard(t) \/ Clear(t) \/ Detach(t)
      PROVE  Inv'
  BY <1>2, AttachKeeps, SlotKeeps, DetachKeeps
<1> QED
  BY <1>1, <1>2 DEF Next

LEMMA InvAlways == Spec => []Inv
<1>1. Init => Inv
  BY InvInit
<1>2. Inv /\ [Next]_vars => Inv'
  BY InvStep
<1> QED
  BY <1>1, <1>2, PTL DEF Spec

(* The id of an attached thread is its own, whatever the sizes: the search of
   small_id_alloc never returns a taken entry. *)
THEOREM IdsAlwaysOwn == Spec => []IdsAreOwn
<1>1. Inv => IdsAreOwn
  BY DEF Inv
<1> QED
  BY <1>1, InvAlways, PTL

-----------------------------------------------------------------------------
(* Hazard pointers stay *)

(* The part of GuardsStay about one thread. *)
LEMMA GuardStays ==
  ASSUME Inv, Next, NEW t \in live, hazard_table[small_id[t]] = t
  PROVE  \/ hazard_table'[small_id[t]] = t
         \/ Clear(t)
         \/ small_id[t] = 0 /\ \E u \in Unattached : Guard(u) \/ Clear(u)
<1>1. /\ t \in Threads /\ small_id[t] \in 0 .. HAZARD_TABLE_MAX_SIZE - 1
      /\ small_id[t] \in DOMAIN small_id_table /\ small_id_table[small_id[t]] = t
  BY SizesArePositive DEF Inv, Types, IdsAreOwn
<1>2. \A u \in Threads : small_id[u] \in Nat /\ mono_hazard_pointer_get(u) = small_id[u]
  BY DEF mono_hazard_pointer_get, Inv, Types
<1>3. PICK u \in Threads : Attach(u) \/ Guard(u) \/ Clear(u) \/ Detach(u)
  BY DEF Next
<1>4. CASE Attach(u)
  <2>1. small_id[t] # NextId
    BY NextIsFree
  <2>2. hazard_table' = hazard_table \/ hazard_table' = [hazard_table EXCEPT ![NextId] = NULL]
    BY <1>4 DEF Attach
  <2> QED
    BY <1>1, <2>1, <2>2 DEF Inv, Types
<1>5. CASE Detach(u)
  BY <1>5 DEF Detach
<1>6. CASE (Guard(u) \/ Clear(u)) /\ small_id[u] # small_id[t]
  <2>1. \/ hazard_table' = [hazard_table EXCEPT ![small_id[u]] = u]
        \/ hazard_table' = [hazard_table EXCEPT ![small_id[u]] = NULL]
    BY <1>2, <1>6 DEF Guard, Clear
  <2> QED
    BY <1>1, <1>6, <2>1 DEF Inv, Types
<1>7. CASE (Guard(u) \/ Clear(u)) /\ small_id[u] = small_id[t]
  <2>1. CASE u \in live
    <3>1. u = t
      BY <1>1, <1>7, <2>1 DEF Inv, IdsAreOwn
    <3>2. CASE Guard(u)
      <4>1. hazard_table' = [hazard_table EXCEPT ![small_id[t]] = t]
        BY <1>2, <3>1, <3>2 DEF Guard
      <4> QED
        BY <1>1, <4>1 DEF Inv, Types
    <3> QED
      BY <1>7, <3>1, <3>2
  <2>2. CASE u \notin live
    <3>1. small_id[u] = 0 /\ u \in Unattached
      BY <2>2 DEF Inv, Types, Unattached
    <3> QED
      BY <1>7, <3>1
  <2> QED
    BY <2>1, <2>2
<1> QED
  BY <1>3, <1>4, <1>5, <1>6, <1>7

(* What a thread guards stays guarded until it clears the pointer, however
   threads attach and leave, but for the slot of id 0. *)
THEOREM GuardsAlwaysStay == Spec => GuardsStay
<1>1. Inv /\ [Next]_vars =>
        [\A t \in live : hazard_table[small_id[t]] = t =>
           \/ hazard_table'[small_id[t]] = t
           \/ Clear(t)
           \/ small_id[t] = 0 /\ \E u \in Unattached : Guard(u) \/ Clear(u)]_vars
  BY GuardStays
<1> QED
  BY <1>1, InvAlways, PTL DEF Spec, GuardsStay

-----------------------------------------------------------------------------
(* The scan covers all slots *)

(* Between which products a number is. *)
LEMMA Division ==
  ASSUME NEW n \in Nat \ {0}, NEW i \in Nat
  PROVE  /\ i \div n \in Nat /\ (i \div n) * n <= i /\ i < (i \div n + 1) * n
<1>1. PICK q \in Nat, r \in 0 .. n - 1 : q = i \div n /\ i = n * q + r
  OBVIOUS
<1>2. q * n <= i /\ i < (q + 1) * n
  BY <1>1
<1> QED
  BY <1>1, <1>2

(* Products are in the order of their factors. *)
LEMMA ProductGrows ==
  ASSUME NEW n \in Nat, NEW i \in Nat, NEW j \in Nat, i <= j
  PROVE  i * n <= j * n
<1>1. PICK d \in Nat : j = i + d
  OBVIOUS
<1>2. d * n \in Nat
  OBVIOUS
<1> QED
  BY <1>1, <1>2

(* The quotient rounded up is the only number whose product is so near. *)
LEMMA RoundedUp ==
  ASSUME NEW n \in Nat \ {0}, NEW i \in Nat, NEW k \in Nat
  PROVE  /\ (i + n - 1) \div n \in Nat /\ i <= ((i + n - 1) \div n) * n
         /\ k * n < i + n /\ i <= k * n => (i + n - 1) \div n = k
<1>1. PICK q \in Nat : q = (i + n - 1) \div n /\ q * n <= i + n - 1 /\ i + n - 1 < (q + 1) * n
  BY Division
<1>2. (q + 1) * n = q * n + n /\ (k + 1) * n = k * n + n
  OBVIOUS
<1>3. q * n \in Nat /\ k * n \in Nat
  OBVIOUS
<1>4. i <= q * n
  BY <1>1, <1>2, <1>3
<1>5. ASSUME k * n < i + n, i <= k * n PROVE q = k
  <2>1. CASE q < k
    <3>1. (q + 1) * n <= k * n
      BY <2>1, ProductGrows
    <3> QED BY <1>1, <1>3, <1>5, <3>1
  <2>2. CASE k < q
    <3>1. (k + 1) * n <= q * n
      BY <2>2, ProductGrows
    <3> QED BY <1>1, <1>2, <1>3, <1>5, <3>1
  <2> QED BY <2>1, <2>2
<1> QED BY <1>1, <1>4, <1>5

(* What the pages hold of the slots: all that hazard_table_size counts, and
   not one more. *)
PagesFit ==
  /\ hazard_table_size * EntrySize <= num_pages * PageSize
  /\ (hazard_table_size + 1) * EntrySize > num_pages * PageSize
  /\ num_pages <= ReservedPages

(* Ids are given out without a gap above highest_small_id. *)
ScanInv ==
  /\ highest_small_id \in -1 .. HAZARD_TABLE_MAX_SIZE - 1
  /\ hazard_table_size \in Nat /\ num_pages \in Nat
  /\ small_id_next <= small_id_table_size
  /\ small_id_next <= highest_small_id + 1
  /\ \A i \in DOMAIN small_id_table : small_id_table[i] # NULL => i <= highest_small_id
  /\ highest_small_id < hazard_table_size
  /\ PagesFit

(* At first no id has been given out, and no page is accessible. *)
LEMMA ScanInit ==
  ASSUME Init
  PROVE  ScanInv
<1>1. PICK e \in Nat \ {0}, p \in Nat \ {0}, m \in Nat :
        e = EntrySize /\ p = PageSize /\ m = HAZARD_TABLE_MAX_SIZE
  BY SizesArePositive
<1>2. (0 * e + p - 1) \div p = 0
  BY 0 * e = 0, 0 * p = 0, RoundedUp
<1>3. m * e \in Nat /\ (m * e + p - 1) \div p \in Nat
  BY RoundedUp
<1>4. num_pages = 0 /\ ReservedPages \in Nat
  BY <1>1, <1>2, <1>3 DEF Init, num_pages, ReservedPages
<1>5. PagesFit
  BY <1>1, <1>4 DEF Init, PagesFit
<1> QED
  BY <1>4, <1>5, SizesArePositive DEF Init, ScanInv

(* The next id is one that was given out before, or the first that was not. *)
LEMMA NextIsNear ==
  ASSUME Inv, ScanInv
  PROVE  NextId <= highest_small_id + 1
<1> DEFINE later == {i \in FreeEntries : i >= small_id_next}
<1>1. /\ OldSize \in Nat /\ OldSize > 0 /\ small_id_table_size <= OldSize
      /\ small_id_table_size \in Nat /\ small_id_next \in Nat /\ highest_small_id \in Int
      /\ small_id_next <= small_id_table_size /\ small_id_next <= highest_small_id + 1
      /\ highest_small_id >= -1
  BY SizesArePositive DEF Inv, Types, OldSize, FirstSize, ScanInv
<1>2. FreeEntries \in SUBSET Nat /\ \A i \in FreeEntries : i < OldSize
  BY <1>1 DEF FreeEntries
<1>3. \A i \in 0 .. OldSize - 1 : i \notin FreeEntries => i <= highest_small_id
  BY DEF FreeEntries, ScanInv
<1>4. CASE later # {}
  <2>1. Least(later) \in later /\ \A i \in later : Least(later) <= i
    BY <1>2, <1>4, LeastIs
  <2>2. NextId = Least(later)
    BY <1>4 DEF NextId
  <2>3. CASE highest_small_id + 1 < OldSize
    <3>1. highest_small_id + 1 \in later
      BY <1>1, <1>3, <2>3
    <3> QED BY <2>1, <2>2, <3>1
  <2>4. CASE highest_small_id + 1 >= OldSize
    <3>1. PICK m \in FreeEntries : m = NextId
      BY <2>1, <2>2
    <3>2. m \in Nat /\ m < OldSize
      BY <1>2
    <3> QED BY <1>1, <2>4, <3>1, <3>2
  <2> QED BY <1>1, <2>3, <2>4
<1>5. CASE later = {} /\ FreeEntries # {}
  <2>1. Least(FreeEntries) \in FreeEntries
    BY <1>2, <1>5, LeastIs
  <2>2. NextId = Least(FreeEntries)
    BY <1>5 DEF NextId
  <2>3. PICK m \in FreeEntries : m = NextId
    BY <2>1, <2>2
  <2>4. m \in Nat /\ ~(m >= small_id_next)
    BY <1>2, <1>5
  <2> QED BY <1>1, <2>3, <2>4
<1>6. CASE later = {} /\ FreeEntries = {}
  <2>1. NextId = OldSize
    BY <1>6 DEF NextId
  <2>2. OldSize - 1 <= highest_small_id
    BY <1>1, <1>3, <1>6
  <2> QED BY <1>1, <2>1, <2>2
<1> QED BY <1>4, <1>5, <1>6

(* One page more is counted and holds one slot more at least; it has been
   reserved, when there is an id for that slot. *)
LEMMA PageGrows ==
  ASSUME hazard_table_size \in Nat, num_pages \in Nat, PagesFit,
         hazard_table_size < HAZARD_TABLE_MAX_SIZE, hazard_table_size' = GrownSize
  PROVE  /\ hazard_table_size' \in Nat /\ hazard_table_size < hazard_table_size'
         /\ num_pages' \in Nat /\ PagesFit'
<1>1. PICK e \in Nat \ {0}, p \in Nat \ {0}, m \in Nat, h \in Nat, q \in Nat :
        /\ e = EntrySize /\ p = PageSize /\ m = HAZARD_TABLE_MAX_SIZE
        /\ h = hazard_table_size /\ q = num_pages
  BY SizesArePositive
<1>2. h * e <= q * p /\ (h + 1) * e > q * p /\ e <= p /\ h < m
  BY <1>1, SlotFitsPage DEF PagesFit
<1>3. (q + 1) * p \in Nat /\ h * e \in Nat /\ q * p \in Nat /\ m * e \in Nat
  OBVIOUS
<1>4. PICK g \in Nat :
        g = ((q + 1) * p) \div e /\ g * e <= (q + 1) * p /\ (q + 1) * p < (g + 1) * e
  BY <1>3, Division
<1>5. hazard_table_size' = g
  BY <1>1, <1>4 DEF GrownSize
<1>6. (q + 1) * p = q * p + p /\ (h + 1) * e = h * e + e /\ (g + 1) * e = g * e + e
  OBVIOUS
<1>7. g * e \in Nat
  OBVIOUS
<1>8. h < g
  <2>1. h * e < g * e
    BY <1>2, <1>3, <1>4, <1>6, <1>7
  <2> QED BY <1>7, <2>1, ProductGrows
<1>9. (g * e + p - 1) \div p = q + 1
  <2>1. (q + 1) * p < g * e + p /\ g * e <= (q + 1) * p
    BY <1>2, <1>3, <1>4, <1>6, <1>7
  <2> QED BY <1>7, <2>1, RoundedUp
<1>10. num_pages' = q + 1
  BY <1>1, <1>5, <1>9 DEF num_pages
<1>11. PICK r \in Nat : r = (m * e + p - 1) \div p /\ m * e <= r * p
  BY <1>3, RoundedUp
<1>12. q + 1 <= r
  <2>1. (h + 1) * e <= m * e
    BY <1>2, ProductGrows
  <2>2. q * p < r * p
    BY <1>2, <1>3, <1>11, <2>1
  <2> QED BY <2>2, ProductGrows
<1>13. ReservedPages = r
  BY <1>1, <1>11 DEF ReservedPages
<1>14. PagesFit'
  BY <1>1, <1>4, <1>5, <1>10, <1>12, <1>13 DEF PagesFit, ReservedPages
<1> QED BY <1>1, <1>5, <1>8, <1>10, <1>14

(* A thread that attaches gets an id without leaving a gap, and a page for it. *)
LEMMA ScanAttach ==
  ASSUME Inv, ScanInv, NEW t \in Threads, Attach(t)
  PROVE  ScanInv'
<1>1. /\ t \in Threads \ live
      /\ small_id_table' =
           [i \in 0 .. NewSize - 1 |->
             IF i = NextId THEN t ELSE IF i \in DOMAIN small_id_table THEN small_id_table[i] ELSE NULL]
      /\ small_id_table_size' = NewSize /\ small_id_next' = Advance(NewSize)
      /\ highest_small_id' = IF NextId > highest_small_id THEN NextId ELSE highest_small_id
  BY DEF Attach
<1>2. /\ OldSize \in Nat /\ NextId \in Nat /\ NewSize \in Nat
      /\ NextId < NewSize /\ OldSize <= NewSize /\ small_id_table_size <= OldSize
      /\ \/ NextId \in FreeEntries /\ NewSize = OldSize
         \/ FreeEntries = {} /\ NextId = OldSize /\ NewSize = OldSize * 2
  BY NextIs DEF Inv
<1>3. NextId \in 0 .. HAZARD_TABLE_MAX_SIZE - 1 /\ HAZARD_TABLE_MAX_SIZE \in Nat
  BY <1>1, IdFits, SizesArePositive
<1>4. NextId <= highest_small_id + 1
  BY NextIsNear
<1>5. /\ highest_small_id \in -1 .. HAZARD_TABLE_MAX_SIZE - 1 /\ hazard_table_size \in Nat
      /\ small_id_next \in Nat /\ small_id_next <= small_id_table_size
      /\ small_id_next <= highest_small_id + 1 /\ highest_small_id < hazard_table_size
      /\ small_id_table_size \in Nat
      /\ \A i \in DOMAIN small_id_table : small_id_table[i] # NULL => i <= highest_small_id
      /\ highest_small_id \in Int
  BY SizesArePositive DEF ScanInv, Inv, Types
<1>6. /\ highest_small_id' \in -1 .. HAZARD_TABLE_MAX_SIZE - 1
      /\ highest_small_id <= highest_small_id' /\ NextId <= highest_small_id'
      /\ highest_small_id' \in Int
  BY <1>1, <1>2, <1>3, <1>5
<1>7. \A i \in DOMAIN small_id_table' : small_id_table'[i] # NULL => i <= highest_small_id'
  <2>1. SUFFICES ASSUME NEW i \in 0 .. NewSize - 1, small_id_table'[i] # NULL
                 PROVE  i <= highest_small_id'
    BY <1>1
  <2>2. CASE i = NextId
    BY <1>6, <2>2
  <2>3. CASE i # NextId
    <3>1. i \in DOMAIN small_id_table /\ small_id_table[i] # NULL
      BY <1>1, <2>1, <2>3
    <3> QED BY <1>2, <1>5, <1>6, <3>1
  <2> QED BY <2>2, <2>3
<1>8. small_id_next' <= small_id_table_size'
  BY <1>1, <1>2, <1>5 DEF Advance
<1>9. small_id_next' <= highest_small_id' + 1
  <2>1. CASE small_id_next + 1 > NewSize
    BY <1>1, <1>6, <2>1 DEF Advance
  <2>2. CASE small_id_next + 1 <= NewSize /\ NextId >= small_id_next
    BY <1>1, <1>2, <1>5, <1>6, <2>2 DEF Advance
  <2>3. CASE small_id_next + 1 <= NewSize /\ NextId < small_id_next
    <3>1. NextId # OldSize
      BY <1>2, <1>5, <2>3
    <3>2. NextId \in FreeEntries /\ NewSize = OldSize
      BY <1>2, <3>1
    <3>3. small_id_next \notin FreeEntries
      <4> DEFINE later == {i \in FreeEntries : i >= small_id_next}
      <4>1. FreeEntries \in SUBSET Nat
        BY <1>2 DEF FreeEntries
      <4>2. ASSUME later # {} PROVE FALSE
        <5>1. NextId = Least(later)
          BY <4>2 DEF NextId
        <5>2. Least(later) \in later
          BY <4>1, <4>2, LeastIs
        <5> QED BY <1>2, <1>5, <2>3, <5>1, <5>2
      <4> QED BY <1>5, <4>2
    <3>4. small_id_next \in 0 .. OldSize - 1
      BY <1>2, <1>5, <2>3, <3>2
    <3>5. small_id_next <= highest_small_id
      BY <1>5, <3>3, <3>4 DEF FreeEntries
    <3>6. small_id_next' = small_id_next + 1
      BY <1>1, <1>2, <1>5, <2>3 DEF Advance
    <3>7. PICK i \in Int, j \in Int, k \in Int :
            i = small_id_next /\ j = highest_small_id /\ k = highest_small_id'
      BY <1>5, <1>6
    <3>8. i <= j /\ j <= k
      BY <1>6, <3>5, <3>7
    <3>9. i + 1 <= k + 1
      BY <3>8
    <3> QED BY <3>6, <3>7, <3>9
  <2> QED BY <1>2, <1>5, <2>1, <2>2, <2>3
<1>10. hazard_table_size' \in Nat /\ num_pages' \in Nat /\ highest_small_id' < hazard_table_size' /\ PagesFit'
  <2>1. CASE NextId >= hazard_table_size
    <3>1. hazard_table_size' = GrownSize
      BY <2>1, <1>2, <1>5 DEF Attach
    <3>2. NextId = hazard_table_size /\ highest_small_id' = NextId
      BY <1>1, <1>2, <1>4, <1>5, <2>1
    <3>3. /\ hazard_table_size' \in Nat /\ hazard_table_size < hazard_table_size'
          /\ num_pages' \in Nat /\ PagesFit'
      BY <1>3, <3>1, <3>2, PageGrows, SizesArePositive, SlotFitsPage DEF ScanInv
    <3> QED BY <3>2, <3>3
  <2>2. CASE NextId < hazard_table_size
    <3>1. hazard_table_size' = hazard_table_size
      BY <2>2, <1>2, <1>5 DEF Attach
    <3> QED BY <1>1, <1>2, <1>5, <2>2, <3>1 DEF ScanInv, PagesFit, num_pages
  <2> QED BY <1>2, <1>5, <2>1, <2>2
<1> QED
  BY <1>6, <1>7, <1>8, <1>9, <1>10 DEF ScanInv

(* No other step changes the sizes or the ids that have been given out. *)
LEMMA ScanStep ==
  ASSUME Inv, ScanInv, [Next]_vars
  PROVE  ScanInv'
<1>1. CASE UNCHANGED vars
  BY <1>1 DEF vars, table, ScanInv, PagesFit, num_pages
<1>2. ASSUME NEW t \in Threads, Guard(t) \/ Clear(t)
      PROVE  ScanInv'
  BY <1>2 DEF Guard, Clear, table, ScanInv, PagesFit, num_pages
<1>3. ASSUME NEW t \in Threads, Detach(t)
      PROVE  ScanInv'
  <2>1. /\ small_id_table' = [small_id_table EXCEPT ![small_id[t]] = NULL]
        /\ UNCHANGED <<small_id_table_size, small_id_next, highest_small_id, hazard_table_size>>
    BY <1>3 DEF Detach
  <2>2. \A i \in DOMAIN small_id_table' :
          i \in DOMAIN small_id_table /\ (small_id_table'[i] # NULL => small_id_table[i] # NULL)
    BY <2>1
  <2> QED BY <2>1, <2>2 DEF ScanInv, PagesFit, num_pages
<1> QED BY <1>1, <1>2, <1>3, ScanAttach DEF Next

(* A scan for hazard pointers looks at the slots of all attached threads, and
   at accessible and reserved pages only (hazard-pointer.c:172), whatever the
   sizes of slots and pages are. *)
THEOREM ScanAlwaysCovers == Spec => []ScanCoversAll
<1>1. Init => ScanInv
  BY ScanInit
<1>2. Inv /\ ScanInv /\ [Next]_vars => ScanInv'
  BY ScanStep
<1>3. ASSUME Inv, ScanInv PROVE ScanCoversAll
  <2>1. TypeOK
    BY <1>3 DEF TypeOK, Inv, Types, ScanInv
  <2>2. \A t \in live : small_id[t] <= highest_small_id
    BY <1>3, NullIsNoThread DEF Inv, Types, IdsAreOwn, ScanInv
  <2> QED BY <1>3, <2>1, <2>2 DEF ScanCoversAll, ScanInv, PagesFit
<1> QED
  BY <1>1, <1>2, <1>3, InvAlways, PTL DEF Spec

=============================================================================
