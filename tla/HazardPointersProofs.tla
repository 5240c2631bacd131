------------------------- MODULE HazardPointersProofs -------------------------
(***************************************************************************)
(* Theorems about HazardPointers, hence about processors with total store  *)
(* order (x86).  If mono_memory_barrier has an instruction, nothing that a *)
(* thread relies on is freed, however many threads, words, nodes, delayed  *)
(* items and buffered stores there are.  OnePlaceAlways needs no barrier.  *)
(***************************************************************************)
EXTENDS HazardPointers, TLAPS

IsFreeing(t) == pc[t] \in {"try", "scan", "queue"}

(* What the locals of a thread are at each label. *)
FrameOK(t) ==
  /\ got[t] # NULL => pc[t] = "have"
  /\ kept[t] # NULL => pc[t] \in {"have", "get", "check"}
  /\ pc[t] \in {"get", "check", "have"} => from[t] \in Words
  /\ p[t] # NULL => pc[t] = "check" \/ IsFreeing(t)
  /\ IsFreeing(t) => (p[t] = NULL <=> tries[t] = Unlimited)
  /\ pc[t] \in {"scan", "queue"} /\ item[t] # p[t] => tries[t] > 0
  /\ pc[t] # "detached" => \E i \in DOMAIN attached : attached[i] = t
Frames == \A t \in Threads : FrameOK(t)

(* The slot j of t is n in memory, and no store that is on its way changes it. *)
Settled(t, j, n) ==
  /\ hazard_table[t][j] = n
  /\ \A i \in DOMAIN buffer[t] : buffer[t][i][1] # j

(* The slot 1 is on its way to n, and slot 0 will be n until it gets there. *)
OnItsWay(t, n) ==
  /\ hazard_table[t][0] = n
  /\ \E i \in DOMAIN buffer[t] :
       /\ buffer[t][i] = <<1, n>>
       /\ \A j \in DOMAIN buffer[t] : (j > i => buffer[t][j][1] # 1) /\ (j < i => buffer[t][j][1] # 0)

(* The slot 0 is or will be n, when nothing more is stored to it. *)
WillBe(t, n) ==
  \/ buffer[t] = <<>> /\ hazard_table[t][0] = n
  \/ buffer[t] # <<>> /\ buffer[t][Len(buffer[t])] = <<0, n>>

GuardOK(t) ==
  /\ pc[t] = "check" => WillBe(t, p[t])
  /\ got[t] # NULL => Settled(t, 0, got[t])
  /\ kept[t] # NULL => Settled(t, 1, kept[t]) \/ OnItsWay(t, kept[t])
Guards == \A t \in Threads : GuardOK(t)

(* The scan of t has still to come to the slot of u that guards its item. *)
GotAhead(t, u) ==
  \E i \in 1 .. highest[t] : attached[i] = u /\ pos[t] <= 2 * (i - 1)
KeptAhead(t, u) ==
  \E i \in 1 .. highest[t] :
    /\ attached[i] = u
    /\ pos[t] <= 2 * (i - 1) \/ (pos[t] <= 2 * (i - 1) + 1 /\ Settled(u, 1, kept[u]))
Ahead(t, u) ==
  pc[t] = "scan" => /\ got[u] = item[t] => GotAhead(t, u)
                    /\ kept[u] = item[t] => KeptAhead(t, u)
Scans == \A t, u \in Threads : Ahead(t, u)

-----------------------------------------------------------------------------
(* Sequences *)

LEMMA ConcatFacts ==
  ASSUME NEW S, NEW a \in Seq(S), NEW b \in Seq(S)
  PROVE  /\ a \o b \in Seq(S)
         /\ Len(a \o b) = Len(a) + Len(b)
         /\ DOMAIN (a \o b) = 1 .. Len(a) + Len(b)
         /\ \A i \in 1 .. Len(a) + Len(b) :
              (a \o b)[i] = IF i <= Len(a) THEN a[i] ELSE b[i - Len(a)]
OBVIOUS

LEMMA RemoveAtFacts ==
  ASSUME NEW S, NEW q \in Seq(S), NEW n \in 1 .. Len(q)
  PROVE  /\ RemoveAt(q, n) \in Seq(S)
         /\ Len(RemoveAt(q, n)) = Len(q) - 1
         /\ \A i \in 1 .. Len(q) - 1 : RemoveAt(q, n)[i] = IF i < n THEN q[i] ELSE q[i + 1]
<1> DEFINE a == SubSeq(q, 1, n - 1)
           b == SubSeq(q, n + 1, Len(q))
           c == a \o b
<1>1. n \in 1 .. Len(q) /\ Len(q) \in Nat
  OBVIOUS
<1>2. a \in Seq(S) /\ Len(a) = n - 1 /\ \A i \in 1 .. n - 1 : a[i] = q[i]
  BY <1>1
<1>3. b \in Seq(S) /\ Len(b) = Len(q) - n /\ \A i \in 1 .. Len(q) - n : b[i] = q[n + i]
  BY <1>1
<1>4. RemoveAt(q, n) = c
  BY DEF RemoveAt
<1>5. /\ c \in Seq(S)
      /\ Len(c) = Len(a) + Len(b)
      /\ \A i \in 1 .. Len(a) + Len(b) : c[i] = IF i <= Len(a) THEN a[i] ELSE b[i - Len(a)]
  <2> HIDE DEF a, b
  <2> QED
    BY <1>2, <1>3, ConcatFacts
<1> HIDE DEF a, b, c
<1>6. Len(a) + Len(b) = Len(q) - 1
  BY <1>1, <1>2, <1>3
<1>7. ASSUME NEW i \in 1 .. Len(q) - 1 PROVE c[i] = IF i < n THEN q[i] ELSE q[i + 1]
  <2>1. c[i] = IF i <= n - 1 THEN a[i] ELSE b[i - (n - 1)]
    BY <1>2, <1>5, <1>6
  <2>2. CASE i < n
    BY <1>1, <1>2, <2>1, <2>2
  <2>3. CASE i >= n
    <3>1. i - (n - 1) \in 1 .. Len(q) - n /\ n + (i - (n - 1)) = i + 1
      BY <1>1, <2>3
    <3>2. b[i - (n - 1)] = q[i + 1]
      BY <1>3, <3>1
    <3> QED
      BY <1>1, <2>1, <2>3, <3>2
  <2> QED
    BY <1>1, <2>2, <2>3
<1> QED
  BY <1>4, <1>5, <1>6, <1>7

LEMMA InsertAtFacts ==
  ASSUME NEW S, NEW q \in Seq(S), NEW n \in 1 .. Len(q) + 1, NEW e \in S
  PROVE  /\ InsertAt(q, n, e) \in Seq(S)
         /\ Len(InsertAt(q, n, e)) = Len(q) + 1
         /\ \A i \in 1 .. n - 1 : InsertAt(q, n, e)[i] = q[i]
         /\ InsertAt(q, n, e)[n] = e
         /\ \A i \in n + 1 .. Len(q) + 1 : InsertAt(q, n, e)[i] = q[i - 1]
<1> DEFINE a == SubSeq(q, 1, n - 1)
           b == SubSeq(q, n, Len(q))
           c == a \o <<e>>
           d == c \o b
<1>1. n \in Nat \ {0} /\ Len(q) \in Nat /\ n <= Len(q) + 1
  OBVIOUS
<1>2. a \in Seq(S) /\ Len(a) = n - 1 /\ \A i \in 1 .. n - 1 : a[i] = q[i]
  BY <1>1
<1>3. b \in Seq(S) /\ Len(b) = Len(q) - n + 1 /\ \A i \in 1 .. Len(q) - n + 1 : b[i] = q[n + i - 1]
  BY <1>1
<1>4. InsertAt(q, n, e) = d
  BY DEF InsertAt
<1>5. <<e>> \in Seq(S) /\ Len(<<e>>) = 1 /\ <<e>>[1] = e
  OBVIOUS
<1>6. /\ c \in Seq(S)
      /\ Len(c) = n
      /\ \A i \in 1 .. n : c[i] = IF i < n THEN q[i] ELSE e
  <2> HIDE DEF a, b
  <2> QED
    BY <1>1, <1>2, <1>5, ConcatFacts
<1>7. /\ d \in Seq(S)
      /\ Len(d) = Len(c) + Len(b)
      /\ \A i \in 1 .. Len(c) + Len(b) : d[i] = IF i <= Len(c) THEN c[i] ELSE b[i - Len(c)]
  <2> HIDE DEF b, c
  <2> QED
    BY <1>3, <1>6, ConcatFacts
<1> HIDE DEF a, b, c, d
<1>8. Len(c) + Len(b) = Len(q) + 1
  BY <1>1, <1>3, <1>6
<1>9. ASSUME NEW i \in 1 .. n PROVE d[i] = IF i < n THEN q[i] ELSE e
  <2>1. d[i] = c[i]
    BY <1>1, <1>6, <1>7, <1>8
  <2> QED
    BY <1>1, <1>6, <2>1
<1>10. ASSUME NEW i \in n + 1 .. Len(q) + 1 PROVE d[i] = q[i - 1]
  <2>1. d[i] = b[i - n]
    BY <1>1, <1>6, <1>7, <1>8
  <2>2. i - n \in 1 .. Len(q) - n + 1 /\ n + (i - n) - 1 = i - 1
    BY <1>1
  <2> QED
    BY <1>3, <2>1, <2>2
<1>11. /\ \A i \in 1 .. n - 1 : d[i] = q[i]
       /\ d[n] = e
  BY <1>1, <1>9
<1> QED
  BY <1>4, <1>7, <1>8, <1>10, <1>11

Occurs(x, q) == \E i \in DOMAIN q : q[i] = x

(* What a removal, or an insertion, does to the places of the members. *)
LEMMA RemoveAtRange ==
  ASSUME NEW S, NEW q \in Seq(S), NEW n \in DOMAIN q,
         \A i, j \in DOMAIN q : q[i] = q[j] => i = j,
         NEW r, r = RemoveAt(q, n)
  PROVE  /\ r \in Seq(S)
         /\ \A i, j \in DOMAIN r : r[i] = r[j] => i = j
         /\ \A x : Occurs(x, r) <=> x # q[n] /\ Occurs(x, q)
<1>1. /\ r \in Seq(S) /\ Len(r) = Len(q) - 1 /\ Len(q) \in Nat /\ n \in 1 .. Len(q)
      /\ DOMAIN r = 1 .. Len(q) - 1 /\ DOMAIN q = 1 .. Len(q)
  BY RemoveAtFacts
<1>2. \A i \in 1 .. Len(q) - 1 : r[i] = IF i < n THEN q[i] ELSE q[i + 1]
  <2>1. n \in 1 .. Len(q)
    OBVIOUS
  <2>2. \A i \in 1 .. Len(q) - 1 : RemoveAt(q, n)[i] = IF i < n THEN q[i] ELSE q[i + 1]
    BY <2>1, RemoveAtFacts, Zenon
  <2> QED
    BY <2>2
<1>3. \A i, j \in DOMAIN r : r[i] = r[j] => i = j
  BY <1>1, <1>2
<1>4. ASSUME NEW x, NEW i \in DOMAIN r, r[i] = x PROVE x # q[n] /\ \E j \in DOMAIN q : q[j] = x
  BY <1>1, <1>2, <1>4
<1>5. ASSUME NEW x, x # q[n], NEW i \in DOMAIN q, q[i] = x PROVE \E j \in DOMAIN r : r[j] = x
  <2>1. CASE i < n
    BY <1>1, <1>2, <1>5, <2>1
  <2>2. CASE i > n
    <3>1. i - 1 \in DOMAIN r /\ r[i - 1] = x
      BY <1>1, <1>2, <1>5, <2>2
    <3> QED
      BY <3>1
  <2> QED
    BY <1>1, <1>5, <2>1, <2>2
<1> QED
  BY <1>1, <1>3, <1>4, <1>5 DEF Occurs

LEMMA Inserted ==
  ASSUME NEW S, NEW q \in Seq(S), NEW n \in 1 .. Len(q) + 1, NEW e \in S,
         NEW r, r = InsertAt(q, n, e)
  PROVE  /\ r \in Seq(S) /\ Len(r) = Len(q) + 1
         /\ r[n] = e
         /\ \A i \in 1 .. n - 1 : r[i] = q[i]
         /\ \A i \in n + 1 .. Len(q) + 1 : r[i] = q[i - 1]
<1>1. r \in Seq(S) /\ Len(r) = Len(q) + 1
  BY InsertAtFacts
<1>2. r[n] = e
  BY InsertAtFacts
<1>3. \A i \in 1 .. n - 1 : r[i] = q[i]
  BY InsertAtFacts
<1>4. \A i \in n + 1 .. Len(q) + 1 : r[i] = q[i - 1]
  BY InsertAtFacts
<1> QED
  BY <1>1, <1>2, <1>3, <1>4

LEMMA InsertAtRange ==
  ASSUME NEW S, NEW q \in Seq(S), NEW n \in 1 .. Len(q) + 1, NEW e \in S,
         \A i, j \in DOMAIN q : q[i] = q[j] => i = j,
         \A i \in DOMAIN q : q[i] # e,
         NEW r, r = InsertAt(q, n, e)
  PROVE  /\ r \in Seq(S)
         /\ \A i, j \in DOMAIN r : r[i] = r[j] => i = j
         /\ \A x : Occurs(x, r) <=> x = e \/ Occurs(x, q)
<1>1. /\ r \in Seq(S) /\ Len(r) = Len(q) + 1 /\ Len(q) \in Nat /\ n \in 1 .. Len(q) + 1
      /\ DOMAIN r = 1 .. Len(q) + 1 /\ DOMAIN q = 1 .. Len(q)
  BY Inserted
<1>2. /\ \A i \in 1 .. n - 1 : r[i] = q[i]
      /\ r[n] = e
      /\ \A i \in n + 1 .. Len(q) + 1 : r[i] = q[i - 1]
  <2>1. \A i \in 1 .. n - 1 : r[i] = q[i]
    BY Inserted
  <2>2. r[n] = e
    BY Inserted
  <2>3. \A i \in n + 1 .. Len(q) + 1 : r[i] = q[i - 1]
    BY Inserted
  <2> QED
    BY <2>1, <2>2, <2>3
<1> DEFINE place(k) == IF k < n THEN k ELSE k - 1
<1>a. ASSUME NEW k \in DOMAIN r, k # n PROVE place(k) \in DOMAIN q /\ r[k] = q[place(k)]
  BY <1>1, <1>2, <1>a
<1>3. ASSUME NEW i \in DOMAIN r, NEW j \in DOMAIN r, r[i] = r[j] PROVE i = j
  <2>1. CASE i = n \/ j = n
    <3> HIDE DEF place
    <3> QED
      BY <1>2, <1>3, <1>a, <2>1
  <2>2. CASE i # n /\ j # n
    <3>1. place(i) = place(j)
      <4> HIDE DEF place
      <4> QED
        BY <1>3, <1>a, <2>2
    <3> QED
      BY <1>1, <2>2, <3>1
  <2> QED
    BY <2>1, <2>2
<1>4. ASSUME NEW x, NEW i \in DOMAIN r, r[i] = x PROVE x = e \/ \E j \in DOMAIN q : q[j] = x
  BY <1>1, <1>2, <1>4
<1>5. \E j \in DOMAIN r : r[j] = e
  BY <1>1, <1>2
<1>6. ASSUME NEW x, NEW i \in DOMAIN q, q[i] = x PROVE \E j \in DOMAIN r : r[j] = x
  <2>1. CASE i < n
    BY <1>1, <1>2, <1>6, <2>1
  <2>2. CASE i >= n
    <3>1. i + 1 \in DOMAIN r /\ r[i + 1] = x
      BY <1>1, <1>2, <1>6, <2>2
    <3> QED
      BY <3>1
  <2> QED
    BY <1>1, <1>6, <2>1, <2>2
<1> QED
  BY <1>1, <1>3, <1>4, <1>5, <1>6 DEF Occurs

-----------------------------------------------------------------------------
(* Types and frames *)

TypeInv == TypeOK /\ Frames
StoreType == (0 .. 1) \X OrNull(Nodes)

(* Everything a thread stores is a store, and goes to the end of its buffer. *)
LEMMA SetsOne ==
  ASSUME TypeOK, NEW t \in Threads, NEW use, NEW n \in OrNull(Nodes), Sets(t, <<Store(t, use, n)>>)
  PROVE  /\ buffer' \in [Threads -> Seq(StoreType)]
         /\ \A u \in Threads : Len(buffer'[u]) <= BufferSize
         /\ \A u \in Threads \ {t} : buffer'[u] = buffer[u]
         /\ Len(buffer'[t]) = Len(buffer[t]) + 1
         /\ \A i \in 1 .. Len(buffer[t]) : buffer'[t][i] = buffer[t][i]
         /\ buffer'[t][Len(buffer[t]) + 1] = <<HazardIndex(use), n>>
<1> DEFINE b == buffer[t]
           s == <<Store(t, use, n)>>
<1>1. b \in Seq(StoreType) /\ buffer \in [Threads -> Seq(StoreType)] /\ Len(b) \in Nat
  BY DEF TypeOK, StoreType, HAZARD_POINTER_COUNT
<1>2. s \in Seq(StoreType) /\ Len(s) = 1 /\ s[1] = <<HazardIndex(use), n>>
  BY DEF Store, HazardIndex, StoreType
<1>3. buffer' = [buffer EXCEPT ![t] = b \o s] /\ Len(b \o s) <= BufferSize
  BY DEF Sets
<1> HIDE DEF s
<1>4. /\ b \o s \in Seq(StoreType) /\ Len(b \o s) = Len(b) + 1
      /\ \A i \in 1 .. Len(b) + 1 : (b \o s)[i] = IF i <= Len(b) THEN b[i] ELSE s[i - Len(b)]
  <2> HIDE DEF b
  <2>1. /\ b \o s \in Seq(StoreType) /\ Len(b \o s) = Len(b) + Len(s)
        /\ \A i \in 1 .. Len(b) + Len(s) : (b \o s)[i] = IF i <= Len(b) THEN b[i] ELSE s[i - Len(b)]
    BY <1>1, <1>2, ConcatFacts
  <2> QED
    BY <1>1, <1>2, <2>1
<1>5. \A i \in 1 .. Len(b) : (b \o s)[i] = b[i]
  BY <1>1, <1>4
<1>6. (b \o s)[Len(b) + 1] = <<HazardIndex(use), n>>
  BY <1>1, <1>2, <1>4
<1>7. buffer'[t] = b \o s /\ \A u \in Threads \ {t} : buffer'[u] = buffer[u]
  BY <1>1, <1>3
<1>8. buffer' \in [Threads -> Seq(StoreType)]
  BY <1>1, <1>3, <1>4
<1>9. \A u \in Threads : Len(buffer'[u]) <= BufferSize
  BY <1>3, <1>7 DEF TypeOK
<1> QED
  BY <1>4, <1>5, <1>6, <1>7, <1>8, <1>9

LEMMA ClearBothType ==
  ASSUME TypeOK, NEW t \in Threads, ClearBoth(t)
  PROVE  /\ buffer' \in [Threads -> Seq(StoreType)]
         /\ \A u \in Threads : Len(buffer'[u]) <= BufferSize
         /\ \A u \in Threads \ {t} : buffer'[u] = buffer[u]
<1> DEFINE b == buffer[t]
           s == <<Store(t, "get", NULL), Store(t, "keep", NULL)>>
<1>1. b \in Seq(StoreType) /\ buffer \in [Threads -> Seq(StoreType)]
  BY DEF TypeOK, StoreType, HAZARD_POINTER_COUNT
<1>2. s \in Seq(StoreType)
  BY DEF Store, HazardIndex, StoreType, OrNull
<1>3. buffer' = [buffer EXCEPT ![t] = b \o s] /\ Len(b \o s) <= BufferSize
  BY DEF Sets, ClearBoth
<1> HIDE DEF s
<1>4. b \o s \in Seq(StoreType)
  BY <1>1, <1>2
<1>5. buffer'[t] = b \o s /\ \A u \in Threads \ {t} : buffer'[u] = buffer[u]
  BY <1>1, <1>3
<1> QED
  BY <1>1, <1>3, <1>4, <1>5 DEF TypeOK

(* Each action keeps the types and the frames. *)

LEMMA OrNullFacts ==
  /\ NULL \in OrNull(Nodes) /\ NULL \in OrNull(Words)
  /\ \A n \in Nodes : n \in OrNull(Nodes)
  /\ \A w \in Words : w \in OrNull(Words)
BY DEF OrNull

LEMMA TypeAttach ==
  ASSUME TypeInv, NEW t \in Threads, Attach(t)
  PROVE  TypeInv'
<1>1. /\ attached' \in Seq(Threads) /\ Len(attached') = Len(attached) + 1 /\ Len(attached) \in Nat
      /\ DOMAIN attached' = 1 .. Len(attached) + 1 /\ DOMAIN attached = 1 .. Len(attached)
      /\ \A i \in DOMAIN attached : attached'[i] = attached[i]
      /\ attached'[Len(attached) + 1] = t
  <2>1. attached \in Seq(Threads) /\ attached' = Append(attached, t)
    BY DEF TypeInv, TypeOK, Attach
  <2> QED
    BY <2>1
<1>2. TypeOK'
  BY <1>1 DEF TypeInv, TypeOK, OrNull, Labels, Attach, At, Goto, shared, scan
<1>3. ASSUME NEW u \in Threads, pc'[u] # "detached" PROVE \E i \in DOMAIN attached' : attached'[i] = u
  <2>1. u = t \/ pc[u] # "detached"
    BY <1>3 DEF TypeInv, TypeOK, Attach, Goto
  <2> QED
    BY <1>1, <2>1 DEF TypeInv, Frames, FrameOK
<1>4. ASSUME NEW u \in Threads PROVE FrameOK(u)'
  <2>1. FrameOK(u) /\ pc' = [pc EXCEPT ![t] = "idle"] /\ pc \in [Threads -> Labels] /\ At(t, "detached")
    BY DEF TypeInv, Frames, TypeOK, Attach, Goto
  <2> QED
    BY <1>3, <2>1 DEF FrameOK, IsFreeing, Attach, At, scan
<1> QED
  BY <1>2, <1>4 DEF TypeInv, Frames

LEMMA TypeExit ==
  ASSUME TypeInv, NEW t \in Threads, Exit(t)
  PROVE  TypeInv'
<1>1. TypeOK'
  BY DEF TypeInv, TypeOK, OrNull, Labels, Exit, At, Goto, shared, scan
<1>2. Frames'
  BY DEF TypeInv, Frames, FrameOK, IsFreeing, TypeOK, OrNull, Exit, At, Goto, shared, scan
<1> QED
  BY <1>1, <1>2 DEF TypeInv

LEMMA TypePublish ==
  ASSUME TypeInv, NEW t \in Threads, Publish(t)
  PROVE  TypeInv'
<1>1. TypeOK'
  BY DEF TypeInv, TypeOK, OrNull, Labels, Publish, At, Goto, shared, scan
<1>2. Frames'
  BY DEF TypeInv, Frames, FrameOK, IsFreeing, TypeOK, OrNull, Publish, At, Goto, shared, scan
<1> QED
  BY <1>1, <1>2 DEF TypeInv

LEMMA TypeGetBegin ==
  ASSUME TypeInv, NEW t \in Threads, GetBegin(t)
  PROVE  TypeInv'
<1>1. TypeOK'
  BY DEF TypeInv, TypeOK, OrNull, Labels, GetBegin, At, Goto, shared, scan
<1>2. Frames'
  BY DEF TypeInv, Frames, FrameOK, IsFreeing, TypeOK, OrNull, GetBegin, At, Goto, shared, scan
<1> QED
  BY <1>1, <1>2 DEF TypeInv

LEMMA TypeTryFreeAll ==
  ASSUME TypeInv, NEW t \in Threads, TryFreeAll(t)
  PROVE  TypeInv'
<1>1. TypeOK'
  BY FreeAttemptsIsNat DEF TypeInv, TypeOK, OrNull, Labels, TryFreeAll, Unlimited, At, Goto, shared, scan
<1>2. Frames'
  BY FreeAttemptsIsNat DEF TypeInv, Frames, FrameOK, IsFreeing, TypeOK, OrNull, TryFreeAll, Unlimited, At, Goto, shared, scan
<1> QED
  BY <1>1, <1>2 DEF TypeInv

LEMMA TypeScanStep ==
  ASSUME TypeInv, NEW t \in Threads, ScanStep(t)
  PROVE  TypeInv'
<1>1. pos' \in [Threads -> Nat] /\ \A u \in Threads : pos'[u] <= highest[u] * HAZARD_POINTER_COUNT
  <2>1. /\ pos \in [Threads -> Nat] /\ highest \in [Threads -> Nat]
        /\ \A u \in Threads : pos[u] <= highest[u] * 2
        /\ pos[t] < highest[t] * 2
        /\ pos' = pos \/ pos' = [pos EXCEPT ![t] = pos[t] + 1]
    BY DEF TypeInv, TypeOK, ScanStep, HAZARD_POINTER_COUNT
  <2>2. pos[t] + 1 <= highest[t] * 2 /\ pos[t] + 1 \in Nat
    BY <2>1
  <2> QED
    BY <2>1, <2>2 DEF HAZARD_POINTER_COUNT
<1>2. TypeOK'
  BY <1>1 DEF TypeInv, TypeOK, OrNull, Labels, ScanStep, At, Goto, shared, scan
<1>3. Frames'
  BY DEF TypeInv, Frames, FrameOK, IsFreeing, TypeOK, OrNull, ScanStep, At, Goto, shared, scan
<1> QED
  BY <1>2, <1>3 DEF TypeInv

LEMMA TypeDrain ==
  ASSUME TypeInv, NEW t \in Threads, Drain(t)
  PROVE  TypeInv'
<1> DEFINE b == buffer[t]
<1>1. b \in Seq(StoreType) /\ b # <<>> /\ buffer \in [Threads -> Seq(StoreType)]
  BY DEF TypeInv, TypeOK, StoreType, HAZARD_POINTER_COUNT, Drain
<1>2. Head(b) \in StoreType /\ Tail(b) \in Seq(StoreType) /\ Len(Tail(b)) = Len(b) - 1 /\ Len(b) \in Nat
  BY <1>1
<1>3. Head(b)[1] \in 0 .. 1 /\ Head(b)[2] \in OrNull(Nodes)
  BY <1>2 DEF StoreType
<1>4. hazard_table' \in [Threads -> [0 .. HAZARD_POINTER_COUNT - 1 -> OrNull(Nodes)]]
  BY <1>3 DEF TypeInv, TypeOK, HAZARD_POINTER_COUNT, Drain
<1>5. /\ buffer' \in [Threads -> Seq((0 .. HAZARD_POINTER_COUNT - 1) \X OrNull(Nodes))]
      /\ \A u \in Threads : Len(buffer'[u]) <= BufferSize
  <2>1. buffer' = [buffer EXCEPT ![t] = Tail(b)]
    BY DEF Drain
  <2>2. buffer' \in [Threads -> Seq(StoreType)]
    BY <1>1, <1>2, <2>1
  <2>3. Len(b) <= BufferSize /\ BufferSize \in Nat
    BY BufferHoldsTwo DEF TypeInv, TypeOK
  <2>4. ASSUME NEW u \in Threads PROVE Len(buffer'[u]) <= BufferSize
    BY <1>1, <1>2, <2>1, <2>3 DEF TypeInv, TypeOK
  <2> QED
    BY <2>2, <2>4 DEF StoreType, HAZARD_POINTER_COUNT
<1> HIDE DEF b
<1>6. TypeOK'
  BY <1>4, <1>5 DEF TypeInv, TypeOK, OrNull, Labels, Drain, scan
<1>7. Frames'
  BY DEF TypeInv, Frames, FrameOK, IsFreeing, Drain, scan
<1> QED
  BY <1>6, <1>7 DEF TypeInv

LEMMA TypeGetRead ==
  ASSUME TypeInv, NEW t \in Threads, GetRead(t)
  PROVE  TypeInv'
<1>1. word[from[t]] \in OrNull(Nodes)
  BY NullIsNoNode DEF TypeInv, TypeOK, Frames, FrameOK, OrNull, GetRead, At
<1>2. /\ buffer' \in [Threads -> Seq((0 .. HAZARD_POINTER_COUNT - 1) \X OrNull(Nodes))]
      /\ \A u \in Threads : Len(buffer'[u]) <= BufferSize
  BY SetsOne, <1>1 DEF TypeInv, GetRead, StoreType, HAZARD_POINTER_COUNT
<1>3. TypeOK'
  BY <1>2, OrNullFacts DEF TypeInv, TypeOK, Frames, FrameOK, Labels, GetRead, At, Goto, shared, scan
<1>4. Frames'
  BY DEF TypeInv, Frames, FrameOK, IsFreeing, TypeOK, OrNull, GetRead, At, Goto, shared, scan
<1> QED
  BY <1>3, <1>4 DEF TypeInv

LEMMA TypeKeep ==
  ASSUME TypeInv, NEW t \in Threads, Keep(t)
  PROVE  TypeInv'
<1>1. got[t] \in OrNull(Nodes)
  BY NullIsNoNode DEF TypeInv, TypeOK, Frames, FrameOK, OrNull, Keep, At
<1>2. /\ buffer' \in [Threads -> Seq((0 .. HAZARD_POINTER_COUNT - 1) \X OrNull(Nodes))]
      /\ \A u \in Threads : Len(buffer'[u]) <= BufferSize
  BY SetsOne, <1>1 DEF TypeInv, Keep, StoreType, HAZARD_POINTER_COUNT
<1>3. TypeOK'
  BY <1>2, OrNullFacts DEF TypeInv, TypeOK, Frames, FrameOK, Labels, Keep, At, Goto, shared, scan
<1>4. Frames'
  BY DEF TypeInv, Frames, FrameOK, IsFreeing, TypeOK, OrNull, Keep, At, Goto, shared, scan
<1> QED
  BY <1>3, <1>4 DEF TypeInv

LEMMA TypeDone ==
  ASSUME TypeInv, NEW t \in Threads, Done(t)
  PROVE  TypeInv'
<1>2. /\ buffer' \in [Threads -> Seq((0 .. HAZARD_POINTER_COUNT - 1) \X OrNull(Nodes))]
      /\ \A u \in Threads : Len(buffer'[u]) <= BufferSize
  BY ClearBothType DEF TypeInv, Done, StoreType, HAZARD_POINTER_COUNT
<1>3. TypeOK'
  BY <1>2, OrNullFacts DEF TypeInv, TypeOK, Frames, FrameOK, Labels, Done, At, Goto, shared, scan
<1>4. Frames'
  BY DEF TypeInv, Frames, FrameOK, IsFreeing, TypeOK, OrNull, Done, At, Goto, shared, scan
<1> QED
  BY <1>3, <1>4 DEF TypeInv


LEMMA TypeGetCheck ==
  ASSUME TypeInv, NEW t \in Threads, GetCheck(t)
  PROVE  TypeInv'
<1>1. /\ buffer' \in [Threads -> Seq((0 .. HAZARD_POINTER_COUNT - 1) \X OrNull(Nodes))]
      /\ \A u \in Threads : Len(buffer'[u]) <= BufferSize
  <2>1. CASE Same(t)
    BY <2>1 DEF TypeInv, TypeOK, GetCheck
  <2>2. CASE ~Same(t)
    BY <2>2, SetsOne, OrNullFacts DEF TypeInv, GetCheck, StoreType, HAZARD_POINTER_COUNT
  <2> QED
    BY <2>1, <2>2
<1>2. TypeOK'
  BY <1>1, OrNullFacts DEF TypeInv, TypeOK, Labels, GetCheck, At, Goto, shared, scan
<1>3. Frames'
  BY DEF TypeInv, Frames, FrameOK, IsFreeing, TypeOK, GetCheck, At, Goto, shared, scan
<1> QED
  BY <1>2, <1>3 DEF TypeInv

LEMMA TypeUnlink ==
  ASSUME TypeInv, NEW t \in Threads, Unlink(t)
  PROVE  TypeInv'
<1>1. /\ buffer' \in [Threads -> Seq((0 .. HAZARD_POINTER_COUNT - 1) \X OrNull(Nodes))]
      /\ \A u \in Threads : Len(buffer'[u]) <= BufferSize
  BY ClearBothType DEF TypeInv, Unlink, StoreType, HAZARD_POINTER_COUNT
<1>2. FreeAttempts \in 0 .. Unlimited /\ FreeAttempts # Unlimited
  BY FreeAttemptsIsNat DEF Unlimited
<1>3. TypeOK'
  BY <1>1, <1>2, OrNullFacts DEF TypeInv, TypeOK, Labels, Unlink, At, Goto, scan
<1>4. Frames'
  BY <1>2, NullIsNoNode DEF TypeInv, Frames, FrameOK, IsFreeing, TypeOK, Unlink, At, Goto, scan
<1> QED
  BY <1>3, <1>4 DEF TypeInv

(* What a pop leaves. *)
LEMMA PopQueue ==
  ASSUME TypeOK, NEW t \in Threads, Pop(t)
  PROVE  \E n \in DOMAIN delayed_free_queue :
           /\ delayed_free_queue[n] \in Nodes
           /\ delayed_free_queue' = RemoveAt(delayed_free_queue, n)
           /\ delayed_free_queue' \in Seq(Nodes)
           /\ item' = [item EXCEPT ![t] = delayed_free_queue[n]]
           /\ \/ BeginScan(t, delayed_free_queue[n])
              \/ Goto(t, "queue") /\ UNCHANGED <<highest, pos>>
<1>1. delayed_free_queue \in Seq(Nodes) /\ Len(delayed_free_queue) \in Nat
  BY DEF TypeOK
<1>2. PICK n \in Poppable(t) :
        /\ delayed_free_queue' = RemoveAt(delayed_free_queue, n)
        /\ \/ BeginScan(t, delayed_free_queue[n])
           \/ /\ item' = [item EXCEPT ![t] = delayed_free_queue[n]]
              /\ Goto(t, "queue")
              /\ UNCHANGED <<highest, pos>>
  BY DEF Pop
<1>3. n \in DOMAIN delayed_free_queue /\ n \in 1 .. Len(delayed_free_queue)
  BY <1>1 DEF Poppable
<1>4. RemoveAt(delayed_free_queue, n) \in Seq(Nodes)
  BY <1>1, <1>3, RemoveAtFacts
<1>5. delayed_free_queue[n] \in Nodes
  BY <1>1, <1>3
<1> QED
  BY <1>2, <1>3, <1>4, <1>5 DEF BeginScan

(* What the beginning of a scan does to its bounds. *)
LEMMA BeginScanType ==
  ASSUME TypeOK, NEW t \in Threads, NEW n,
         BeginScan(t, n) \/ UNCHANGED <<highest, pos>>, UNCHANGED attached
  PROVE  /\ highest' \in [Threads -> Nat] /\ pos' \in [Threads -> Nat]
         /\ \A u \in Threads :
              highest'[u] <= Len(attached') /\ pos'[u] <= highest'[u] * HAZARD_POINTER_COUNT
<1>1. /\ highest \in [Threads -> Nat] /\ pos \in [Threads -> Nat] /\ Len(attached) \in Nat
      /\ \A u \in Threads : highest[u] <= Len(attached) /\ pos[u] <= highest[u] * 2
  BY DEF TypeOK, HAZARD_POINTER_COUNT
<1>2. CASE BeginScan(t, n)
  <2>1. /\ highest' = [highest EXCEPT ![t] = Len(attached)]
        /\ pos' = [pos EXCEPT ![t] = 0]
        /\ attached' = attached
    BY <1>2 DEF BeginScan
  <2>2. 0 <= Len(attached) * 2
    BY <1>1
  <2> QED
    BY <1>1, <2>1, <2>2 DEF HAZARD_POINTER_COUNT
<1>3. CASE UNCHANGED <<highest, pos>>
  BY <1>1, <1>3 DEF HAZARD_POINTER_COUNT
<1> QED
  BY <1>2, <1>3

LEMMA TypePop ==
  ASSUME TypeInv, NEW t \in Threads, Pop(t)
  PROVE  TypeInv'
<1>1. PICK n \in DOMAIN delayed_free_queue :
        /\ delayed_free_queue[n] \in Nodes
        /\ delayed_free_queue' \in Seq(Nodes)
        /\ item' = [item EXCEPT ![t] = delayed_free_queue[n]]
        /\ \/ BeginScan(t, delayed_free_queue[n])
           \/ Goto(t, "queue") /\ UNCHANGED <<highest, pos>>
  BY PopQueue DEF TypeInv
<1> DEFINE d == delayed_free_queue[n]
<1>2. d \in Nodes /\ d # NULL /\ item' = [item EXCEPT ![t] = d]
  BY <1>1, NullIsNoNode
<1>3. \/ BeginScan(t, d)
      \/ Goto(t, "queue") /\ UNCHANGED <<highest, pos>>
  BY <1>1
<1>4. /\ highest' \in [Threads -> Nat] /\ pos' \in [Threads -> Nat]
      /\ \A u \in Threads :
           highest'[u] <= Len(attached') /\ pos'[u] <= highest'[u] * HAZARD_POINTER_COUNT
  BY <1>3, BeginScanType DEF TypeInv, Pop
<1> HIDE DEF d
<1>5. TypeOK'
  BY <1>1, <1>2, <1>3, <1>4, OrNullFacts DEF TypeInv, TypeOK, Labels, Pop, BeginScan, At, Goto
<1>6. Frames'
  BY <1>2, <1>3 DEF TypeInv, Frames, FrameOK, IsFreeing, TypeOK, Pop, BeginScan, At, Goto
<1> QED
  BY <1>5, <1>6 DEF TypeInv

(* What the end of a try leaves. *)
LEMMA NextTryType ==
  ASSUME TypeInv, NEW t \in Threads, NEW freed \in BOOLEAN, tries[t] > 0, NextTry(t, freed)
  PROVE  /\ tries' \in [Threads -> 0 .. Unlimited] /\ pc' \in [Threads -> Labels]
         /\ \A u \in Threads \ {t} : tries'[u] = tries[u] /\ pc'[u] = pc[u]
         /\ \/ pc'[t] = "try" /\ (tries'[t] = Unlimited <=> tries[t] = Unlimited)
            \/ pc'[t] = "idle" /\ tries[t] = Unlimited
<1>1. tries \in [Threads -> 0 .. Unlimited] /\ pc \in [Threads -> Labels] /\ Unlimited \in Nat
  BY FreeAttemptsIsNat DEF TypeInv, TypeOK, Unlimited
<1>2. CASE tries[t] = Unlimited
  BY <1>1, <1>2 DEF NextTry, Goto, Labels
<1>3. CASE tries[t] # Unlimited
  BY <1>1, <1>3 DEF NextTry, Goto, Labels
<1> QED
  BY <1>2, <1>3

LEMMA TypePopNone ==
  ASSUME TypeInv, NEW t \in Threads, PopNone(t)
  PROVE  TypeInv'
<1>1. /\ tries' \in [Threads -> 0 .. Unlimited] /\ pc' \in [Threads -> Labels]
      /\ \A u \in Threads \ {t} : tries'[u] = tries[u] /\ pc'[u] = pc[u]
      /\ \/ pc'[t] = "try" /\ (tries'[t] = Unlimited <=> tries[t] = Unlimited)
         \/ pc'[t] = "idle" /\ tries[t] = Unlimited
  BY NextTryType DEF PopNone
<1>2. pc[t] = "try" /\ UNCHANGED <<shared, buffer, from, got, kept, p, scan>>
  BY DEF PopNone, At
<1>3. TypeOK'
  BY <1>1, <1>2 DEF TypeInv, TypeOK, shared, scan
<1>4. Frames'
  BY <1>1, <1>2 DEF TypeInv, Frames, FrameOK, IsFreeing, shared, scan
<1> QED
  BY <1>3, <1>4 DEF TypeInv

LEMMA TypeScanOwn ==
  ASSUME TypeInv, NEW t \in Threads, ScanOwn(t)
  PROVE  TypeInv'
<1>1. p[t] \in Nodes /\ p[t] # NULL
  <2>1. Unlimited # 0
    BY FreeAttemptsIsNat DEF Unlimited
  <2> QED
    BY <2>1 DEF TypeInv, TypeOK, Frames, FrameOK, IsFreeing, OrNull, ScanOwn, At
<1>2. /\ highest' \in [Threads -> Nat] /\ pos' \in [Threads -> Nat]
      /\ \A u \in Threads :
           highest'[u] <= Len(attached') /\ pos'[u] <= highest'[u] * HAZARD_POINTER_COUNT
  BY BeginScanType DEF TypeInv, ScanOwn, shared
<1>3. TypeOK'
  BY <1>1, <1>2, OrNullFacts DEF TypeInv, TypeOK, Labels, ScanOwn, BeginScan, At, Goto, shared
<1>4. Frames'
  BY <1>1 DEF TypeInv, Frames, FrameOK, IsFreeing, TypeOK, ScanOwn, BeginScan, At, Goto, shared
<1> QED
  BY <1>3, <1>4 DEF TypeInv

LEMMA AfterType ==
  ASSUME TypeInv, NEW t \in Threads, NEW freed \in BOOLEAN, pc[t] \in {"scan", "queue"}, After(t, freed),
         UNCHANGED <<word, hazard_table, attached, buffer, from, got, kept>>,
         unused' \subseteq Nodes, delayed_free_queue' \in Seq(Nodes)
  PROVE  TypeInv'
<1>1. /\ highest' \in [Threads -> Nat] /\ pos' \in [Threads -> Nat]
      /\ \A u \in Threads :
           highest'[u] <= Len(attached') /\ pos'[u] <= highest'[u] * HAZARD_POINTER_COUNT
  <2>1. /\ highest \in [Threads -> Nat] /\ pos \in [Threads -> Nat] /\ Len(attached) \in Nat
        /\ \A u \in Threads : highest[u] <= Len(attached) /\ pos[u] <= highest[u] * 2
    BY DEF TypeInv, TypeOK, HAZARD_POINTER_COUNT
  <2>2. /\ highest' = [highest EXCEPT ![t] = 0] /\ pos' = [pos EXCEPT ![t] = 0]
        /\ attached' = attached
    BY DEF After
  <2> QED
    BY <2>1, <2>2 DEF HAZARD_POINTER_COUNT
<1>2. CASE item[t] = p[t]
  <2>1. TypeOK'
    <3>1. /\ pc' = [pc EXCEPT ![t] = "idle"] /\ p' = [p EXCEPT ![t] = NULL]
          /\ item' = [item EXCEPT ![t] = NULL] /\ tries' = tries
      BY <1>2 DEF After, Goto
    <3> QED
      BY <1>1, <3>1, OrNullFacts DEF TypeInv, TypeOK, Labels
  <2>2. Frames'
    BY <1>2 DEF TypeInv, Frames, FrameOK, IsFreeing, TypeOK, After, Goto
  <2> QED
    BY <2>1, <2>2 DEF TypeInv
<1>3. CASE item[t] # p[t]
  <2>1. tries[t] > 0 /\ NextTry(t, freed) /\ p' = p
    BY <1>3 DEF TypeInv, Frames, FrameOK, After
  <2>2. /\ tries' \in [Threads -> 0 .. Unlimited] /\ pc' \in [Threads -> Labels]
        /\ \A u \in Threads \ {t} : tries'[u] = tries[u] /\ pc'[u] = pc[u]
        /\ \/ pc'[t] = "try" /\ (tries'[t] = Unlimited <=> tries[t] = Unlimited)
           \/ pc'[t] = "idle" /\ tries[t] = Unlimited
    BY <2>1, NextTryType
  <2>3. /\ item' = [item EXCEPT ![t] = NULL]
        /\ highest' = [highest EXCEPT ![t] = 0]
        /\ pos' = [pos EXCEPT ![t] = 0]
    BY DEF After
  <2>4. TypeOK'
    BY <1>1, <2>1, <2>2, <2>3, OrNullFacts DEF TypeInv, TypeOK
  <2>5. ASSUME NEW u \in Threads PROVE FrameOK(u)'
    <3>1. FrameOK(u) /\ UNCHANGED <<attached, from, got, kept>> /\ item \in [Threads -> OrNull(Nodes)]
      BY DEF TypeInv, TypeOK, Frames
    <3>2. CASE u = t
      BY <2>1, <2>2, <3>1, <3>2 DEF FrameOK, IsFreeing
    <3>3. CASE u # t
      <4>1. tries'[u] = tries[u] /\ pc'[u] = pc[u] /\ item'[u] = item[u] /\ p'[u] = p[u]
        BY <2>1, <2>2, <2>3, <3>1, <3>3
      <4> QED
        BY <3>1, <4>1 DEF FrameOK, IsFreeing
    <3> QED
      BY <3>2, <3>3
  <2> QED
    BY <2>4, <2>5 DEF TypeInv, Frames
<1> QED
  BY <1>2, <1>3

LEMMA TypeFree ==
  ASSUME TypeInv, NEW t \in Threads, Free(t)
  PROVE  TypeInv'
<1>1. item[t] \in Nodes /\ pc[t] \in {"scan", "queue"}
  BY DEF TypeInv, TypeOK, OrNull, Free, At
<1>2. unused' \subseteq Nodes /\ delayed_free_queue' \in Seq(Nodes)
  BY <1>1 DEF TypeInv, TypeOK, Free
<1> QED
  BY <1>1, <1>2, AfterType DEF Free

LEMMA TypeQueue ==
  ASSUME TypeInv, NEW t \in Threads, Queue(t)
  PROVE  TypeInv'
<1>1. item[t] \in Nodes /\ pc[t] \in {"scan", "queue"}
  BY DEF TypeInv, TypeOK, OrNull, Queue, At
<1>2. delayed_free_queue' \in Seq(Nodes)
  <2>1. delayed_free_queue \in Seq(Nodes) /\ Len(delayed_free_queue) \in Nat
    BY DEF TypeInv, TypeOK
  <2>2. PICK n \in Pushable(t) : delayed_free_queue' = InsertAt(delayed_free_queue, n, item[t])
    BY DEF Queue
  <2>3. n \in 1 .. Len(delayed_free_queue) + 1
    BY <2>1 DEF Pushable
  <2> QED
    BY <1>1, <2>1, <2>2, <2>3, InsertAtFacts
<1>3. unused' \subseteq Nodes
  BY DEF TypeInv, TypeOK, Queue
<1> QED
  BY <1>1, <1>2, <1>3, AfterType DEF Queue

LEMMA TypeStep == TypeInv /\ [Next]_vars => TypeInv'
<1> SUFFICES ASSUME TypeInv, [Next]_vars PROVE TypeInv'
  OBVIOUS
<1>1. CASE UNCHANGED vars
  BY <1>1 DEF TypeInv, TypeOK, Frames, FrameOK, IsFreeing, vars, shared, scan
<1>2. CASE Next
  BY <1>2, TypeAttach, TypeExit, TypePublish, TypeGetBegin, TypeTryFreeAll, TypeScanStep, TypeDrain,
     TypeGetRead, TypeKeep, TypeDone, TypeGetCheck, TypeUnlink, TypePop, TypePopNone, TypeScanOwn,
     TypeFree, TypeQueue DEF Next, Reading, Using, Freeing
<1> QED
  BY <1>1, <1>2

LEMMA TypeInit == Init => TypeInv
<1> SUFFICES ASSUME Init PROVE TypeInv
  OBVIOUS
<1>1. 0 \in 0 .. Unlimited
  BY FreeAttemptsIsNat DEF Unlimited
<1>2. TypeOK
  BY <1>1, OrNullFacts, BufferHoldsTwo DEF Init, TypeOK, Labels, HAZARD_POINTER_COUNT
<1>3. Frames
  BY DEF Init, Frames, FrameOK, IsFreeing
<1> QED
  BY <1>2, <1>3 DEF TypeInv

-----------------------------------------------------------------------------
(* Places *)

Placed ==
  /\ \A n \in Nodes : n \in unused \/ IsInWord(n) \/ IsDelayed(n) \/ \E t \in Threads : IsWith(t, n)
  /\ \A n \in unused : ~IsInWord(n) /\ ~IsDelayed(n)
  /\ \A n \in Nodes : IsInWord(n) => ~IsDelayed(n)
  /\ \A t \in Threads, n \in Nodes :
       IsWith(t, n) => n \notin unused /\ ~IsInWord(n) /\ ~IsDelayed(n)
  /\ \A t, u \in Threads, n \in Nodes : IsWith(t, n) /\ IsWith(u, n) => t = u
(* No two words, and no two entries of the queue, have the same node. *)
WordsDistinct == \A w, v \in Words : word[w] = word[v] => w = v \/ word[w] = NULL
QueueDistinct ==
  \A i, j \in DOMAIN delayed_free_queue : delayed_free_queue[i] = delayed_free_queue[j] => i = j
PlaceInv == Placed /\ WordsDistinct /\ QueueDistinct

LEMMA OnePlaceIs == OnePlace <=> TypeOK /\ PlaceInv
BY DEF OnePlace, PlaceInv, Placed, WordsDistinct, QueueDistinct

(* A step that leaves every node where it is. *)
LEMMA PlaceSame ==
  ASSUME TypeInv, PlaceInv, UNCHANGED <<word, unused, delayed_free_queue>>,
         \A u \in Threads, n \in Nodes : IsWith(u, n)' <=> IsWith(u, n)
  PROVE  PlaceInv'
BY DEF TypeInv, TypeOK, PlaceInv, Placed, WordsDistinct, QueueDistinct, IsInWord, IsDelayed

LEMMA PlaceReading ==
  ASSUME TypeInv, PlaceInv, NEW t \in Threads,
         Drain(t) \/ Attach(t) \/ Exit(t) \/ TryFreeAll(t) \/ GetBegin(t) \/ GetRead(t) \/ GetCheck(t)
           \/ Keep(t) \/ Done(t)
  PROVE  PlaceInv'
<1>1. UNCHANGED <<word, unused, delayed_free_queue, item>>
  BY DEF Drain, Attach, Exit, TryFreeAll, GetBegin, GetRead, GetCheck, Keep, Done, shared, scan
<1>2. ASSUME NEW u \in Threads, NEW n \in Nodes PROVE IsWith(u, n)' <=> IsWith(u, n)
  <2>1. CASE u = t
    <3>1. CASE Drain(t)
      BY <2>1, <3>1 DEF Drain, IsWith, scan
    <3>2. CASE ~Drain(t)
      <4>1. pc[t] \in {"detached", "idle", "have", "get", "check"} /\ pc'[t] \notin {"scan", "queue"}
        BY <3>2 DEF TypeInv, TypeOK, Attach, Exit, TryFreeAll, GetBegin, GetRead, GetCheck, Keep, Done, At, Goto, shared
      <4>2. item[t] = NULL
        BY <4>1 DEF TypeInv, TypeOK
      <4>3. p'[t] = NULL \/ pc'[t] \notin {"try", "scan", "queue"}
        BY <3>2 DEF TypeInv, TypeOK, Frames, FrameOK, IsFreeing, Attach, Exit, TryFreeAll, GetBegin, GetRead,
           GetCheck, Keep, Done, At, Goto, shared
      <4> QED
        BY <1>1, <2>1, <4>1, <4>2, <4>3, NullIsNoNode DEF IsWith
    <3> QED
      BY <3>1, <3>2
  <2>2. CASE u # t
    <3>1. pc'[u] = pc[u] /\ p'[u] = p[u]
      BY <2>2 DEF TypeInv, TypeOK, Drain, Attach, Exit, TryFreeAll, GetBegin, GetRead, GetCheck, Keep, Done,
         Goto, shared, scan
    <3> QED
      BY <1>1, <3>1 DEF IsWith
  <2> QED
    BY <2>1, <2>2
<1> QED
  BY <1>1, <1>2, PlaceSame

LEMMA PlaceTrying ==
  ASSUME TypeInv, PlaceInv, NEW t \in Threads, ScanStep(t) \/ PopNone(t) \/ ScanOwn(t)
  PROVE  PlaceInv'
<1>1. UNCHANGED <<word, unused, delayed_free_queue, p>>
  BY DEF ScanStep, PopNone, ScanOwn, shared
<1>2. ASSUME NEW u \in Threads \ {t} PROVE pc'[u] = pc[u] /\ item'[u] = item[u]
  <2>1. CASE ScanStep(t)
    BY <2>1 DEF TypeInv, TypeOK, ScanStep, Goto
  <2>2. CASE PopNone(t)
    BY <2>2 DEF TypeInv, TypeOK, PopNone, NextTry, Goto, scan
  <2>3. CASE ScanOwn(t)
    BY <2>3 DEF TypeInv, TypeOK, ScanOwn, BeginScan, Goto
  <2> QED
    BY <2>1, <2>2, <2>3
<1>3. ASSUME NEW n \in Nodes PROVE IsWith(t, n)' <=> IsWith(t, n)
  <2>1. CASE ScanStep(t)
    BY <1>1, <2>1 DEF TypeInv, TypeOK, ScanStep, At, Goto, IsWith
  <2>2. CASE PopNone(t)
    <3>1. item' = item /\ pc[t] = "try" /\ tries[t] > 0 /\ NextTry(t, FALSE)
      BY <2>2 DEF PopNone, At, scan
    <3>2. pc'[t] = "try" \/ (pc'[t] = "idle" /\ p[t] = NULL)
      BY <3>1, NextTryType DEF TypeInv, Frames, FrameOK, IsFreeing
    <3> QED
      BY <1>1, <3>1, <3>2, NullIsNoNode DEF IsWith
  <2>3. CASE ScanOwn(t)
    <3>1. pc[t] = "try" /\ pc'[t] = "scan" /\ item'[t] = p[t] /\ item[t] = NULL
      BY <2>3 DEF TypeInv, TypeOK, ScanOwn, BeginScan, At, Goto
    <3> QED
      BY <1>1, <3>1, NullIsNoNode DEF IsWith
  <2> QED
    BY <2>1, <2>2, <2>3
<1>4. ASSUME NEW u \in Threads, NEW n \in Nodes PROVE IsWith(u, n)' <=> IsWith(u, n)
  BY <1>1, <1>2, <1>3 DEF IsWith
<1> QED
  BY <1>1, <1>4, PlaceSame

LEMMA PlacePublish ==
  ASSUME TypeInv, PlaceInv, NEW t \in Threads, Publish(t)
  PROVE  PlaceInv'
<1>1. PICK w \in Words, n \in unused :
        word[w] = NULL /\ word' = [word EXCEPT ![w] = n] /\ unused' = unused \ {n}
  BY DEF Publish
<1>2. UNCHANGED <<delayed_free_queue, pc, p, item>>
  BY DEF Publish, scan
<1>3. n \in Nodes /\ n # NULL /\ word \in [Words -> OrNull(Nodes)] /\ unused \subseteq Nodes
  BY NullIsNoNode DEF TypeInv, TypeOK
<1>4. \A m \in Nodes : IsInWord(m)' <=> IsInWord(m) \/ m = n
  BY <1>1, <1>3, NullIsNoNode DEF IsInWord
<1>5. \A m : IsDelayed(m)' <=> IsDelayed(m)
  BY <1>2 DEF IsDelayed
<1>6. \A u \in Threads, m \in Nodes : IsWith(u, m)' <=> IsWith(u, m)
  BY <1>2 DEF IsWith
<1>7. Placed'
  BY <1>1, <1>3, <1>4, <1>5, <1>6 DEF PlaceInv, Placed
<1>8. WordsDistinct'
  BY <1>1, <1>3 DEF PlaceInv, Placed, WordsDistinct, IsInWord
<1> QED
  BY <1>2, <1>7, <1>8 DEF PlaceInv, QueueDistinct

LEMMA PlaceUnlink ==
  ASSUME TypeInv, PlaceInv, NEW t \in Threads, Unlink(t)
  PROVE  PlaceInv'
<1> DEFINE n == got[t]
<1>1. /\ n \in Nodes /\ n # NULL /\ from[t] \in Words /\ word[from[t]] = n
      /\ word' = [word EXCEPT ![from[t]] = NULL]
  BY NullIsNoNode DEF TypeInv, TypeOK, Frames, FrameOK, OrNull, Unlink, StillThere, At
<1>2. UNCHANGED <<delayed_free_queue, unused, item>>
  BY DEF Unlink, scan
<1>3. /\ pc[t] = "have" /\ item[t] = NULL /\ pc'[t] = "try" /\ p'[t] = n
      /\ \A u \in Threads \ {t} : pc'[u] = pc[u] /\ p'[u] = p[u]
  BY DEF TypeInv, TypeOK, Unlink, At, Goto
<1> HIDE DEF n
<1>4. \A m \in Nodes : IsInWord(m)' <=> IsInWord(m) /\ m # n
  BY <1>1, NullIsNoNode DEF IsInWord, TypeInv, TypeOK, PlaceInv, WordsDistinct
<1>5. \A m : IsDelayed(m)' <=> IsDelayed(m)
  BY <1>2 DEF IsDelayed
<1>6. /\ \A m \in Nodes : ~IsWith(t, m) /\ (IsWith(t, m)' <=> m = n)
      /\ \A u \in Threads \ {t}, m \in Nodes : IsWith(u, m)' <=> IsWith(u, m)
  BY <1>2, <1>3, NullIsNoNode DEF IsWith
<1>7. IsInWord(n)
  BY <1>1 DEF IsInWord
<1>8. Placed'
  <2>1. ASSUME NEW m \in Nodes
        PROVE  (m \in unused \/ IsInWord(m) \/ IsDelayed(m) \/ \E u \in Threads : IsWith(u, m))'
    BY <1>1, <1>2, <1>4, <1>5, <1>6, <1>7 DEF PlaceInv, Placed
  <2>2. ASSUME NEW m \in unused' PROVE m \in Nodes /\ (~IsInWord(m) /\ ~IsDelayed(m))'
    BY <1>1, <1>2, <1>4, <1>5, <1>6, <1>7 DEF PlaceInv, Placed, TypeInv, TypeOK
  <2>3. ASSUME NEW m \in Nodes PROVE (IsInWord(m) => ~IsDelayed(m))'
    BY <1>1, <1>2, <1>4, <1>5, <1>6, <1>7 DEF PlaceInv, Placed
  <2>4. ASSUME NEW u \in Threads, NEW m \in Nodes
        PROVE  (IsWith(u, m) => m \notin unused /\ ~IsInWord(m) /\ ~IsDelayed(m))'
    BY <1>1, <1>2, <1>4, <1>5, <1>6, <1>7 DEF PlaceInv, Placed
  <2>5. ASSUME NEW u \in Threads, NEW v \in Threads, NEW m \in Nodes
        PROVE  (IsWith(u, m) /\ IsWith(v, m) => u = v)'
    BY <1>1, <1>2, <1>4, <1>5, <1>6, <1>7 DEF PlaceInv, Placed
  <2> QED
    BY <2>1, <2>2, <2>3, <2>4, <2>5 DEF Placed
<1>9. WordsDistinct'
  BY <1>1 DEF PlaceInv, WordsDistinct, TypeInv, TypeOK
<1> QED
  BY <1>2, <1>8, <1>9 DEF PlaceInv, QueueDistinct

LEMMA PlacePop ==
  ASSUME TypeInv, PlaceInv, NEW t \in Threads, Pop(t)
  PROVE  PlaceInv'
<1> DEFINE q == delayed_free_queue
<1>1. PICK n \in DOMAIN q :
        /\ q[n] \in Nodes /\ q' = RemoveAt(q, n) /\ q' \in Seq(Nodes)
        /\ item' = [item EXCEPT ![t] = q[n]]
        /\ BeginScan(t, q[n]) \/ (Goto(t, "queue") /\ UNCHANGED <<highest, pos>>)
  BY PopQueue DEF TypeInv
<1>2. UNCHANGED <<word, unused, p>>
  BY DEF Pop
<1>3. /\ pc[t] = "try" /\ item[t] = NULL /\ item'[t] = q[n] /\ pc'[t] \in {"scan", "queue"}
      /\ \A u \in Threads \ {t} : pc'[u] = pc[u] /\ item'[u] = item[u]
  BY <1>1 DEF TypeInv, TypeOK, Pop, BeginScan, At, Goto
<1>4. \A i, j \in DOMAIN q : q[i] = q[j] => i = j
  BY DEF PlaceInv, QueueDistinct
<1>5. /\ \A i, j \in DOMAIN q' : q'[i] = q'[j] => i = j
      /\ \A x : Occurs(x, q') <=> x # q[n] /\ Occurs(x, q)
  <2>1. q \in Seq(Nodes)
    BY DEF TypeInv, TypeOK
  <2>2. PICK r : r = q' /\ r = RemoveAt(q, n)
    BY <1>1
  <2>3. n \in DOMAIN q
    BY <1>1
  <2> HIDE DEF q
  <2>4. \A i, j \in DOMAIN r : r[i] = r[j] => i = j
    BY <1>4, <2>1, <2>2, <2>3, RemoveAtRange
  <2>5. \A x : Occurs(x, r) <=> x # q[n] /\ Occurs(x, q)
    BY <1>4, <2>1, <2>2, <2>3, RemoveAtRange
  <2> QED
    BY <2>2, <2>4, <2>5
<1>6. \A m : IsDelayed(m)' <=> IsDelayed(m) /\ m # q[n]
  BY <1>5 DEF IsDelayed, Occurs
<1>7. /\ \A m \in Nodes : IsWith(t, m)' <=> IsWith(t, m) \/ m = q[n]
      /\ \A u \in Threads \ {t}, m \in Nodes : IsWith(u, m)' <=> IsWith(u, m)
  BY <1>2, <1>3, NullIsNoNode DEF IsWith
<1>8. IsDelayed(q[n])
  BY <1>1 DEF IsDelayed
<1>9. \A m : IsInWord(m)' <=> IsInWord(m)
  BY <1>2 DEF IsInWord
<1>10. PICK d : d = q[n]
  OBVIOUS
<1> HIDE DEF q
<1>a. /\ d \in Nodes /\ IsDelayed(d)
      /\ \A m : IsDelayed(m)' <=> IsDelayed(m) /\ m # d
      /\ \A m \in Nodes : IsWith(t, m)' <=> IsWith(t, m) \/ m = d
      /\ \A u \in Threads \ {t}, m \in Nodes : IsWith(u, m)' <=> IsWith(u, m)
  BY <1>1, <1>6, <1>7, <1>8, <1>10
<1>11. Placed'
  <2>1. ASSUME NEW m \in Nodes
        PROVE  (m \in unused \/ IsInWord(m) \/ IsDelayed(m) \/ \E u \in Threads : IsWith(u, m))'
    BY <1>a, <1>2, <1>9 DEF PlaceInv, Placed
  <2>2. ASSUME NEW m \in unused' PROVE m \in Nodes /\ (~IsInWord(m) /\ ~IsDelayed(m))'
    BY <1>a, <1>2, <1>9 DEF PlaceInv, Placed, TypeInv, TypeOK
  <2>3. ASSUME NEW m \in Nodes PROVE (IsInWord(m) => ~IsDelayed(m))'
    BY <1>a, <1>2, <1>9 DEF PlaceInv, Placed
  <2>4. ASSUME NEW u \in Threads, NEW m \in Nodes
        PROVE  (IsWith(u, m) => m \notin unused /\ ~IsInWord(m) /\ ~IsDelayed(m))'
    BY <1>a, <1>2, <1>9 DEF PlaceInv, Placed
  <2>5. ASSUME NEW u \in Threads, NEW v \in Threads, NEW m \in Nodes
        PROVE  (IsWith(u, m) /\ IsWith(v, m) => u = v)'
    BY <1>a, <1>2, <1>9 DEF PlaceInv, Placed
  <2> QED
    BY <2>1, <2>2, <2>3, <2>4, <2>5 DEF Placed
<1> USE DEF q
<1>12. WordsDistinct' /\ QueueDistinct'
  BY <1>2, <1>5 DEF PlaceInv, WordsDistinct, QueueDistinct
<1> QED
  BY <1>11, <1>12 DEF PlaceInv

(* What a thread has when it has freed its item, or put it back. *)
LEMMA AfterWith ==
  ASSUME TypeInv, NEW t \in Threads, NEW freed \in BOOLEAN, pc[t] \in {"scan", "queue"}, After(t, freed)
  PROVE  /\ \A m \in Nodes : IsWith(t, m)' <=> IsWith(t, m) /\ m # item[t]
         /\ \A u \in Threads \ {t}, m \in Nodes : IsWith(u, m)' <=> IsWith(u, m)
<1>1. item'[t] = NULL /\ item[t] # NULL /\ \A u \in Threads \ {t} : item'[u] = item[u]
  BY DEF TypeInv, TypeOK, After
<1>2. CASE item[t] = p[t]
  <2>1. p'[t] = NULL /\ \A u \in Threads \ {t} : p'[u] = p[u] /\ pc'[u] = pc[u]
    BY <1>2 DEF TypeInv, TypeOK, After, Goto
  <2> QED
    BY <1>1, <1>2, <2>1, NullIsNoNode DEF IsWith
<1>3. CASE item[t] # p[t]
  <2>1. tries[t] > 0 /\ NextTry(t, freed) /\ p' = p
    BY <1>3 DEF TypeInv, Frames, FrameOK, After
  <2>2. /\ \A u \in Threads \ {t} : tries'[u] = tries[u] /\ pc'[u] = pc[u]
        /\ \/ pc'[t] = "try" /\ (tries'[t] = Unlimited <=> tries[t] = Unlimited)
           \/ pc'[t] = "idle" /\ tries[t] = Unlimited
    BY <2>1, NextTryType
  <2>3. pc'[t] = "try" \/ (pc'[t] = "idle" /\ p[t] = NULL)
    BY <2>2 DEF TypeInv, Frames, FrameOK, IsFreeing
  <2> QED
    BY <1>1, <1>3, <2>1, <2>2, <2>3, NullIsNoNode DEF IsWith
<1> QED
  BY <1>2, <1>3

LEMMA PlaceFree ==
  ASSUME TypeInv, PlaceInv, NEW t \in Threads, Free(t)
  PROVE  PlaceInv'
<1>1. pc[t] \in {"scan", "queue"} /\ item[t] \in Nodes
  BY DEF TypeInv, TypeOK, OrNull, Free, At
<1>2. /\ \A m \in Nodes : IsWith(t, m)' <=> IsWith(t, m) /\ m # item[t]
      /\ \A u \in Threads \ {t}, m \in Nodes : IsWith(u, m)' <=> IsWith(u, m)
  BY <1>1, AfterWith DEF Free
<1>3. PICK n : n = item[t]
  OBVIOUS
<1>4. unused' = unused \cup {n} /\ UNCHANGED <<word, delayed_free_queue>>
  BY <1>3 DEF Free
<1>5. \A m : (IsInWord(m)' <=> IsInWord(m)) /\ (IsDelayed(m)' <=> IsDelayed(m))
  BY <1>4 DEF IsInWord, IsDelayed
<1>6. IsWith(t, n) /\ n \in Nodes /\ unused \subseteq Nodes
  BY <1>1, <1>3 DEF IsWith, TypeInv, TypeOK
<1>7. Placed'
  BY <1>2, <1>3, <1>4, <1>5, <1>6 DEF PlaceInv, Placed
<1> QED
  BY <1>4, <1>7 DEF PlaceInv, WordsDistinct, QueueDistinct

LEMMA PlaceQueue ==
  ASSUME TypeInv, PlaceInv, NEW t \in Threads, Queue(t)
  PROVE  PlaceInv'
<1> DEFINE q == delayed_free_queue
<1>1. pc[t] \in {"scan", "queue"} /\ item[t] \in Nodes
  BY DEF TypeInv, TypeOK, OrNull, Queue, At
<1>2. /\ \A m \in Nodes : IsWith(t, m)' <=> IsWith(t, m) /\ m # item[t]
      /\ \A u \in Threads \ {t}, m \in Nodes : IsWith(u, m)' <=> IsWith(u, m)
  BY <1>1, AfterWith DEF Queue
<1>3. PICK n : n = item[t]
  OBVIOUS
<1>4. UNCHANGED <<word, unused>>
  BY DEF Queue
<1>5. IsWith(t, n) /\ n \in Nodes /\ ~IsDelayed(n)
  BY <1>1, <1>3 DEF IsWith, PlaceInv, Placed
<1>6. q \in Seq(Nodes) /\ Len(q) \in Nat /\ \A i \in DOMAIN q : q[i] # n
  BY <1>5 DEF TypeInv, TypeOK, IsDelayed
<1>7. \A i, j \in DOMAIN q : q[i] = q[j] => i = j
  BY DEF PlaceInv, QueueDistinct
<1>8. PICK k \in Pushable(t) : q' = InsertAt(q, k, n)
  BY <1>3 DEF Queue
<1>9. k \in 1 .. Len(q) + 1
  BY <1>6 DEF Pushable
<1>10. /\ \A i, j \in DOMAIN q' : q'[i] = q'[j] => i = j
       /\ \A x : Occurs(x, q') <=> x = n \/ Occurs(x, q)
  <2>1. PICK r : r = q' /\ r = InsertAt(q, k, n)
    BY <1>8
  <2> HIDE DEF q
  <2>2. \A i, j \in DOMAIN r : r[i] = r[j] => i = j
    BY <1>5, <1>6, <1>7, <1>9, <2>1, InsertAtRange
  <2>3. \A x : Occurs(x, r) <=> x = n \/ Occurs(x, q)
    BY <1>5, <1>6, <1>7, <1>9, <2>1, InsertAtRange
  <2> QED
    BY <2>1, <2>2, <2>3
<1>11. \A m : IsDelayed(m)' <=> IsDelayed(m) \/ m = n
  BY <1>10 DEF IsDelayed, Occurs
<1>12. \A m : IsInWord(m)' <=> IsInWord(m)
  BY <1>4 DEF IsInWord
<1> HIDE DEF q
<1>13. Placed'
  <2>1. ASSUME NEW m \in Nodes
        PROVE  (m \in unused \/ IsInWord(m) \/ IsDelayed(m) \/ \E u \in Threads : IsWith(u, m))'
    BY <1>2, <1>3, <1>4, <1>5, <1>11, <1>12 DEF PlaceInv, Placed
  <2>2. ASSUME NEW m \in unused' PROVE m \in Nodes /\ (~IsInWord(m) /\ ~IsDelayed(m))'
    BY <1>2, <1>3, <1>4, <1>5, <1>11, <1>12 DEF PlaceInv, Placed, TypeInv, TypeOK
  <2>3. ASSUME NEW m \in Nodes PROVE (IsInWord(m) => ~IsDelayed(m))'
    BY <1>2, <1>3, <1>4, <1>5, <1>11, <1>12 DEF PlaceInv, Placed
  <2>4. ASSUME NEW u \in Threads, NEW m \in Nodes
        PROVE  (IsWith(u, m) => m \notin unused /\ ~IsInWord(m) /\ ~IsDelayed(m))'
    BY <1>2, <1>3, <1>4, <1>5, <1>11, <1>12 DEF PlaceInv, Placed
  <2>5. ASSUME NEW u \in Threads, NEW v \in Threads, NEW m \in Nodes
        PROVE  (IsWith(u, m) /\ IsWith(v, m) => u = v)'
    BY <1>2, <1>3, <1>4, <1>5, <1>11, <1>12 DEF PlaceInv, Placed
  <2> QED
    BY <2>1, <2>2, <2>3, <2>4, <2>5 DEF Placed
<1> USE DEF q
<1> QED
  BY <1>4, <1>10, <1>13 DEF PlaceInv, WordsDistinct, QueueDistinct

LEMMA PlaceStep == TypeInv /\ PlaceInv /\ [Next]_vars => PlaceInv'
<1> SUFFICES ASSUME TypeInv, PlaceInv, [Next]_vars PROVE PlaceInv'
  OBVIOUS
<1>1. CASE UNCHANGED vars
  BY <1>1, PlaceSame DEF vars, shared, scan, IsWith
<1>2. CASE Next
  BY <1>2, PlaceReading, PlaceTrying, PlacePublish, PlaceUnlink, PlacePop, PlaceFree, PlaceQueue
  DEF Next, Reading, Using, Freeing
<1> QED
  BY <1>1, <1>2

LEMMA PlaceInit == Init => PlaceInv
BY NullIsNoNode DEF Init, PlaceInv, Placed, WordsDistinct, QueueDistinct, IsInWord, IsDelayed, IsWith

(* Every node is in one place, with every barrier and without. *)
THEOREM OnePlaceAlways == Spec => []OnePlace
<1>1. Init => TypeInv /\ PlaceInv
  BY TypeInit, PlaceInit
<1>2. TypeInv /\ PlaceInv /\ [Next]_vars => (TypeInv /\ PlaceInv)'
  BY TypeStep, PlaceStep
<1>3. TypeInv /\ PlaceInv => OnePlace
  BY OnePlaceIs DEF TypeInv
<1> QED
  BY <1>1, <1>2, <1>3, PTL DEF Spec

-----------------------------------------------------------------------------
(* Guards *)

GuardInv == TypeInv /\ Guards
HasFullBarrier == "StoreLoad" \in mono_memory_barrier(OnPlatform)

LEMMA DrainFacts ==
  ASSUME TypeInv, NEW t \in Threads, Drain(t)
  PROVE  /\ Len(buffer[t]) \in Nat \ {0} /\ DOMAIN buffer[t] = 1 .. Len(buffer[t])
         /\ DOMAIN buffer'[t] = 1 .. Len(buffer[t]) - 1
         /\ Len(buffer'[t]) = Len(buffer[t]) - 1
         /\ \A i \in 1 .. Len(buffer[t]) - 1 : buffer'[t][i] = buffer[t][i + 1]
         /\ buffer[t][1][1] \in 0 .. 1
         /\ hazard_table'[t][buffer[t][1][1]] = buffer[t][1][2]
         /\ \A j \in 0 .. 1 : j # buffer[t][1][1] => hazard_table'[t][j] = hazard_table[t][j]
         /\ \A u \in Threads \ {t} : buffer'[u] = buffer[u] /\ hazard_table'[u] = hazard_table[u]
<1>1. PICK b : b = buffer[t]
  OBVIOUS
<1>2. b \in Seq(StoreType) /\ b # <<>> /\ buffer \in [Threads -> Seq(StoreType)]
  BY <1>1 DEF TypeInv, TypeOK, StoreType, HAZARD_POINTER_COUNT, Drain
<1>3. /\ Len(b) \in Nat \ {0} /\ Head(b) = b[1] /\ b[1] \in StoreType /\ DOMAIN b = 1 .. Len(b)
      /\ Tail(b) \in Seq(StoreType) /\ Len(Tail(b)) = Len(b) - 1
      /\ \A i \in 1 .. Len(b) - 1 : Tail(b)[i] = b[i + 1]
  BY <1>2
<1>4. buffer' = [buffer EXCEPT ![t] = Tail(b)]
  BY <1>1 DEF Drain
<1>5. buffer'[t] = Tail(b) /\ \A u \in Threads \ {t} : buffer'[u] = buffer[u]
  BY <1>2, <1>4
<1>6. hazard_table' = [hazard_table EXCEPT ![t][b[1][1]] = b[1][2]]
  BY <1>1, <1>3 DEF Drain
<1>7. hazard_table \in [Threads -> [0 .. 1 -> OrNull(Nodes)]] /\ b[1][1] \in 0 .. 1
  BY <1>3 DEF TypeInv, TypeOK, HAZARD_POINTER_COUNT, StoreType
<1>8. /\ hazard_table'[t][b[1][1]] = b[1][2]
      /\ \A j \in 0 .. 1 : j # b[1][1] => hazard_table'[t][j] = hazard_table[t][j]
      /\ \A u \in Threads \ {t} : hazard_table'[u] = hazard_table[u]
  BY <1>6, <1>7
<1>9. DOMAIN Tail(b) = 1 .. Len(b) - 1
  BY <1>3
<1> QED
  BY <1>1, <1>3, <1>5, <1>7, <1>8, <1>9

LEMMA SettledDrain ==
  ASSUME TypeInv, NEW t \in Threads, Drain(t), NEW j \in 0 .. 1, NEW n, Settled(t, j, n)
  PROVE  Settled(t, j, n)'
<1>1. buffer[t][1][1] # j
  BY DrainFacts DEF Settled
<1>2. hazard_table'[t][j] = n
  BY <1>1, DrainFacts DEF Settled
<1>3. ASSUME NEW i \in DOMAIN buffer'[t] PROVE buffer'[t][i][1] # j
  <2>1. i \in 1 .. Len(buffer[t]) - 1 /\ Len(buffer[t]) \in Nat /\ DOMAIN buffer[t] = 1 .. Len(buffer[t])
    BY DrainFacts
  <2>2. i + 1 \in DOMAIN buffer[t]
    BY <2>1
  <2>3. buffer'[t][i] = buffer[t][i + 1]
    BY <2>1, DrainFacts
  <2> QED
    BY <2>2, <2>3 DEF Settled
<1> QED
  BY <1>2, <1>3 DEF Settled

LEMMA SettledSets ==
  ASSUME TypeInv, NEW t \in Threads, NEW use, NEW m \in OrNull(Nodes), Sets(t, <<Store(t, use, m)>>),
         UNCHANGED hazard_table,
         NEW j \in 0 .. 1, j # HazardIndex(use), NEW n, Settled(t, j, n)
  PROVE  Settled(t, j, n)'
<1>1. /\ Len(buffer'[t]) = Len(buffer[t]) + 1
      /\ \A i \in 1 .. Len(buffer[t]) : buffer'[t][i] = buffer[t][i]
      /\ buffer'[t][Len(buffer[t]) + 1] = <<HazardIndex(use), m>>
      /\ buffer' \in [Threads -> Seq(StoreType)]
  BY SetsOne DEF TypeInv
<1>2. /\ DOMAIN buffer'[t] = 1 .. Len(buffer[t]) + 1 /\ DOMAIN buffer[t] = 1 .. Len(buffer[t])
      /\ Len(buffer[t]) \in Nat
  BY <1>1 DEF TypeInv, TypeOK
<1>3. ASSUME NEW i \in DOMAIN buffer'[t] PROVE buffer'[t][i][1] # j
  BY <1>1, <1>2 DEF Settled
<1> QED
  BY <1>3 DEF Settled

LEMMA OnItsWayDrain ==
  ASSUME TypeInv, NEW t \in Threads, Drain(t), NEW n, OnItsWay(t, n)
  PROVE  (Settled(t, 1, n) \/ OnItsWay(t, n))'
<1>1. PICK i \in DOMAIN buffer[t] :
        /\ buffer[t][i] = <<1, n>>
        /\ \A j \in DOMAIN buffer[t] : (j > i => buffer[t][j][1] # 1) /\ (j < i => buffer[t][j][1] # 0)
  BY DEF OnItsWay
<1>2. CASE i = 1
  <2>1. hazard_table'[t][1] = n
    BY <1>1, <1>2, DrainFacts
  <2>2. ASSUME NEW j \in DOMAIN buffer'[t] PROVE buffer'[t][j][1] # 1
    <3>1. j + 1 \in DOMAIN buffer[t] /\ buffer'[t][j] = buffer[t][j + 1] /\ j + 1 > i
      BY <1>2, DrainFacts
    <3> QED
      BY <1>1, <3>1
  <2> QED
    BY <2>1, <2>2 DEF Settled
<1>3. CASE i # 1
  <2>1. /\ i - 1 \in DOMAIN buffer'[t] /\ 1 < i /\ 1 \in DOMAIN buffer[t]
        /\ buffer'[t][i - 1] = buffer[t][i]
    <3>1. PICK k \in Nat \ {0} : k = Len(buffer[t])
      BY DrainFacts
    <3>2. i \in 1 .. k /\ DOMAIN buffer[t] = 1 .. k /\ DOMAIN buffer'[t] = 1 .. k - 1
      BY <3>1, DrainFacts
    <3>3. i - 1 \in 1 .. k - 1 /\ 1 < i /\ 1 \in 1 .. k /\ (i - 1) + 1 = i
      BY <1>3, <3>1, <3>2
    <3>4. \A j \in 1 .. k - 1 : buffer'[t][j] = buffer[t][j + 1]
      BY <3>1, DrainFacts
    <3> QED
      BY <3>2, <3>3, <3>4
  <2>2. hazard_table'[t][0] = n
    BY <1>1, <2>1, DrainFacts DEF OnItsWay
  <2>3. ASSUME NEW j \in DOMAIN buffer'[t]
        PROVE  (j > i - 1 => buffer'[t][j][1] # 1) /\ (j < i - 1 => buffer'[t][j][1] # 0)
    <3>1. /\ j + 1 \in DOMAIN buffer[t] /\ buffer'[t][j] = buffer[t][j + 1]
          /\ (j > i - 1 => j + 1 > i) /\ (j < i - 1 => j + 1 < i)
      BY <1>1, DrainFacts
    <3> QED
      BY <1>1, <3>1
  <2> QED
    BY <1>1, <2>1, <2>2, <2>3 DEF OnItsWay
<1> QED
  BY <1>2, <1>3

LEMMA OnItsWaySets ==
  ASSUME TypeInv, NEW t \in Threads, NEW use, NEW m \in OrNull(Nodes), Sets(t, <<Store(t, use, m)>>),
         UNCHANGED hazard_table, HazardIndex(use) # 1, NEW n, OnItsWay(t, n)
  PROVE  OnItsWay(t, n)'
<1>1. PICK i \in DOMAIN buffer[t] :
        /\ buffer[t][i] = <<1, n>>
        /\ \A j \in DOMAIN buffer[t] : (j > i => buffer[t][j][1] # 1) /\ (j < i => buffer[t][j][1] # 0)
  BY DEF OnItsWay
<1>2. /\ Len(buffer'[t]) = Len(buffer[t]) + 1
      /\ \A j \in 1 .. Len(buffer[t]) : buffer'[t][j] = buffer[t][j]
      /\ buffer'[t][Len(buffer[t]) + 1] = <<HazardIndex(use), m>>
      /\ buffer' \in [Threads -> Seq(StoreType)]
  BY SetsOne DEF TypeInv
<1>3. /\ DOMAIN buffer'[t] = 1 .. Len(buffer[t]) + 1 /\ DOMAIN buffer[t] = 1 .. Len(buffer[t])
      /\ Len(buffer[t]) \in Nat
  BY <1>2 DEF TypeInv, TypeOK
<1>4. i \in DOMAIN buffer'[t] /\ buffer'[t][i] = <<1, n>>
  BY <1>1, <1>2, <1>3
<1>5. ASSUME NEW j \in DOMAIN buffer'[t]
      PROVE  (j > i => buffer'[t][j][1] # 1) /\ (j < i => buffer'[t][j][1] # 0)
  <2>1. CASE j = Len(buffer[t]) + 1
    BY <1>1, <1>2, <1>3, <2>1
  <2>2. CASE j # Len(buffer[t]) + 1
    BY <1>1, <1>2, <1>3, <2>2
  <2> QED
    BY <2>1, <2>2
<1> QED
  BY <1>4, <1>5 DEF OnItsWay

(* A new node is kept. *)
LEMMA KeepIsOnItsWay ==
  ASSUME TypeInv, NEW t \in Threads, NEW n \in OrNull(Nodes), Sets(t, <<Store(t, "keep", n)>>),
         UNCHANGED hazard_table, Settled(t, 0, n)
  PROVE  OnItsWay(t, n)'
<1>1. /\ Len(buffer'[t]) = Len(buffer[t]) + 1
      /\ \A j \in 1 .. Len(buffer[t]) : buffer'[t][j] = buffer[t][j]
      /\ buffer'[t][Len(buffer[t]) + 1] = <<1, n>>
      /\ buffer' \in [Threads -> Seq(StoreType)]
  BY SetsOne DEF TypeInv, HazardIndex
<1>2. /\ DOMAIN buffer'[t] = 1 .. Len(buffer[t]) + 1 /\ DOMAIN buffer[t] = 1 .. Len(buffer[t])
      /\ Len(buffer[t]) \in Nat
  BY <1>1 DEF TypeInv, TypeOK
<1>3. ASSUME NEW j \in DOMAIN buffer'[t]
      PROVE  /\ j > Len(buffer[t]) + 1 => buffer'[t][j][1] # 1
             /\ j < Len(buffer[t]) + 1 => buffer'[t][j][1] # 0
  BY <1>1, <1>2 DEF Settled
<1>4. Len(buffer[t]) + 1 \in DOMAIN buffer'[t]
  BY <1>2
<1> QED
  BY <1>1, <1>3, <1>4 DEF OnItsWay, Settled

LEMMA WillBeDrain ==
  ASSUME TypeInv, NEW t \in Threads, Drain(t), NEW n, WillBe(t, n)
  PROVE  WillBe(t, n)'
<1>1. buffer[t] # <<>> /\ buffer[t][Len(buffer[t])] = <<0, n>>
  BY DEF WillBe, Drain
<1>2. CASE Len(buffer[t]) = 1
  <2>1. hazard_table'[t][0] = n
    BY <1>1, <1>2, DrainFacts
  <2>2. buffer'[t] = <<>>
    <3>1. Len(buffer'[t]) = 0
      <4>1. Len(buffer'[t]) = Len(buffer[t]) - 1
        BY DrainFacts
      <4> QED
        BY <1>2, <4>1
    <3>2. buffer'[t] \in Seq((0 .. HAZARD_POINTER_COUNT - 1) \X OrNull(Nodes))
      BY TypeDrain DEF TypeInv, TypeOK
    <3> QED
      BY <3>1, <3>2
  <2> QED
    BY <2>1, <2>2 DEF WillBe
<1>3. CASE Len(buffer[t]) # 1
  <2>1. Len(buffer'[t]) = Len(buffer[t]) - 1 /\ Len(buffer[t]) \in Nat \ {0}
    BY DrainFacts
  <2>2. Len(buffer[t]) - 1 \in 1 .. Len(buffer[t]) - 1
    <3>1. PICK k \in Nat \ {0} : k = Len(buffer[t])
      BY <2>1
    <3>2. k # 1
      BY <1>3, <3>1
    <3>3. k - 1 \in 1 .. k - 1
      BY <3>2
    <3> QED
      BY <3>1, <3>3
  <2>3. buffer'[t][Len(buffer[t]) - 1] = buffer[t][Len(buffer[t]) - 1 + 1]
    BY <2>2, DrainFacts
  <2>4. buffer'[t][Len(buffer'[t])] = buffer[t][Len(buffer[t])]
    BY <2>1, <2>3
  <2>5. buffer'[t] # <<>>
    BY <2>1, <2>2
  <2> QED
    BY <1>1, <2>4, <2>5 DEF WillBe
<1> QED
  BY <1>2, <1>3

(* The step of one thread. *)
Steps(t) ==
  \/ Drain(t) \/ Attach(t) \/ Exit(t) \/ Publish(t) \/ TryFreeAll(t)
  \/ Reading(t) \/ Using(t) \/ Freeing(t)

LEMMA BufferOthers ==
  ASSUME TypeInv, NEW t \in Threads, NEW u \in Threads \ {t}, Steps(t)
  PROVE  buffer'[u] = buffer[u] /\ hazard_table'[u] = hazard_table[u]
<1>1. CASE Drain(t)
  BY <1>1, DrainFacts
<1>2. CASE GetRead(t)
  <2>1. word[from[t]] \in OrNull(Nodes)
    BY <1>2, NullIsNoNode DEF TypeInv, TypeOK, Frames, FrameOK, OrNull, GetRead, At
  <2> QED
    BY <1>2, <2>1, SetsOne DEF TypeInv, GetRead, shared
<1>3. CASE GetCheck(t)
  BY <1>3, SetsOne, OrNullFacts DEF TypeInv, GetCheck, shared
<1>4. CASE Keep(t)
  <2>1. got[t] \in OrNull(Nodes)
    BY DEF TypeInv, TypeOK
  <2> QED
    BY <1>4, <2>1, SetsOne DEF TypeInv, Keep, shared
<1>5. CASE Done(t)
  BY <1>5, ClearBothType DEF TypeInv, Done, shared
<1>6. CASE Unlink(t)
  BY <1>6, ClearBothType DEF TypeInv, Unlink, shared
<1>7. CASE Attach(t) \/ Exit(t) \/ Publish(t) \/ TryFreeAll(t) \/ GetBegin(t) \/ Freeing(t)
  BY <1>7 DEF Attach, Exit, Publish, TryFreeAll, GetBegin, Freeing, Pop, PopNone, ScanOwn, ScanStep, Free,
     Queue, shared
<1> QED
  BY <1>1, <1>2, <1>3, <1>4, <1>5, <1>6, <1>7 DEF Steps, Reading, Using

LEMMA LocalsOthers ==
  ASSUME TypeInv, NEW t \in Threads, NEW u \in Threads \ {t}, Steps(t)
  PROVE  /\ pc'[u] = pc[u] /\ p'[u] = p[u] /\ got'[u] = got[u] /\ kept'[u] = kept[u]
         /\ item'[u] = item[u] /\ highest'[u] = highest[u] /\ pos'[u] = pos[u]
<1>1. CASE Drain(t) \/ Attach(t) \/ Exit(t) \/ Publish(t) \/ TryFreeAll(t) \/ Reading(t) \/ Using(t)
  BY <1>1 DEF TypeInv, TypeOK, Drain, Attach, Exit, Publish, TryFreeAll, Reading, GetRead, GetCheck, Using,
     GetBegin, Keep, Done, Unlink, Goto, shared, scan
<1>2. CASE Pop(t)
  BY <1>2 DEF TypeInv, TypeOK, Pop, BeginScan, Goto
<1>3. CASE PopNone(t)
  BY <1>3 DEF TypeInv, TypeOK, PopNone, NextTry, Goto, shared, scan
<1>4. CASE ScanOwn(t) \/ ScanStep(t)
  BY <1>4 DEF TypeInv, TypeOK, ScanOwn, ScanStep, BeginScan, Goto, shared
<1>5. CASE Free(t) \/ Queue(t)
  BY <1>5 DEF TypeInv, TypeOK, Free, Queue, After, NextTry, Goto
<1> QED
  BY <1>1, <1>2, <1>3, <1>4, <1>5 DEF Steps, Freeing

LEMMA GuardSame ==
  ASSUME NEW t \in Threads, GuardOK(t), pc'[t] = "check" => pc[t] = "check",
         p'[t] = p[t], got'[t] = got[t], kept'[t] = kept[t],
         buffer'[t] = buffer[t], hazard_table'[t] = hazard_table[t]
  PROVE  GuardOK(t)'
BY DEF GuardOK, WillBe, Settled, OnItsWay

LEMMA GuardDrain ==
  ASSUME GuardInv, NEW t \in Threads, Drain(t)
  PROVE  GuardOK(t)'
<1>1. pc' = pc /\ p' = p /\ got' = got /\ kept' = kept
  BY DEF Drain
<1>2. TypeInv /\ GuardOK(t)
  BY DEF GuardInv, Guards
<1>3. pc'[t] = "check" => WillBe(t, p[t])'
  BY <1>1, <1>2, WillBeDrain DEF GuardOK, WillBe
<1>4. ASSUME got[t] # NULL PROVE Settled(t, 0, got[t])'
  <2>1. PICK n : n = got[t]
    OBVIOUS
  <2>2. Settled(t, 0, n)
    BY <1>2, <1>4, <2>1 DEF GuardOK
  <2>3. Settled(t, 0, n)'
    BY <1>2, <2>2, SettledDrain
  <2> QED
    BY <1>1, <2>1, <2>3
<1>5. ASSUME kept[t] # NULL PROVE (Settled(t, 1, kept[t]) \/ OnItsWay(t, kept[t]))'
  <2>1. PICK n : n = kept[t]
    OBVIOUS
  <2>2. Settled(t, 1, n) \/ OnItsWay(t, n)
    BY <1>2, <1>5, <2>1 DEF GuardOK
  <2>3. (Settled(t, 1, n) \/ OnItsWay(t, n))'
    BY <1>2, <2>2, SettledDrain, OnItsWayDrain
  <2> QED
    BY <1>1, <2>1, <2>3
<1> QED
  BY <1>1, <1>3, <1>4, <1>5 DEF GuardOK

LEMMA KeptSets ==
  ASSUME GuardInv, NEW t \in Threads, NEW m \in OrNull(Nodes), Sets(t, <<Store(t, "get", m)>>),
         UNCHANGED hazard_table, UNCHANGED kept, kept[t] # NULL
  PROVE  (Settled(t, 1, kept[t]) \/ OnItsWay(t, kept[t]))'
<1>1. PICK n : n = kept[t]
  OBVIOUS
<1>2. TypeInv /\ (Settled(t, 1, n) \/ OnItsWay(t, n))
  BY <1>1 DEF GuardInv, Guards, GuardOK
<1>3. HazardIndex("get") = 0
  BY DEF HazardIndex
<1>4. CASE Settled(t, 1, n)
  <2>1. Settled(t, 1, n)'
    BY <1>2, <1>3, <1>4, SettledSets
  <2> QED
    BY <1>1, <2>1
<1>5. CASE OnItsWay(t, n)
  <2>1. OnItsWay(t, n)'
    BY <1>2, <1>3, <1>5, OnItsWaySets
  <2> QED
    BY <1>1, <2>1
<1> QED
  BY <1>2, <1>4, <1>5

LEMMA GuardGetRead ==
  ASSUME GuardInv, NEW t \in Threads, GetRead(t)
  PROVE  GuardOK(t)'
<1>1. PICK n \in OrNull(Nodes) : n = word[from[t]]
  BY NullIsNoNode DEF GuardInv, TypeInv, TypeOK, Frames, FrameOK, OrNull, GetRead, At
<1>2. Sets(t, <<Store(t, "get", n)>>) /\ UNCHANGED <<hazard_table, kept, got>>
  BY <1>1 DEF GetRead, shared
<1>3. TypeOK /\ p'[t] = n /\ got[t] = NULL
  BY <1>1 DEF GuardInv, TypeInv, TypeOK, Frames, FrameOK, GetRead, At
<1>4. WillBe(t, p[t])'
  <2>1. buffer'[t][Len(buffer[t]) + 1] = <<0, n>> /\ Len(buffer'[t]) = Len(buffer[t]) + 1
    BY <1>2, <1>3, SetsOne DEF HazardIndex
  <2>2. Len(buffer[t]) \in Nat
    BY <1>3 DEF TypeOK
  <2>3. buffer'[t] # <<>>
    <3>1. Len(buffer'[t]) # 0
      BY <2>1, <2>2
    <3> QED
      BY <3>1
  <2> QED
    BY <1>3, <2>1, <2>3 DEF WillBe
<1>5. kept'[t] # NULL => (Settled(t, 1, kept[t]) \/ OnItsWay(t, kept[t]))'
  BY <1>2, KeptSets
<1> QED
  BY <1>2, <1>3, <1>4, <1>5 DEF GuardOK

(* The barrier between the store of the hazard pointer and the second read is
   what makes a node that is returned a guarded one. *)
LEMMA GuardGetCheck ==
  ASSUME HasFullBarrier, GuardInv, NEW t \in Threads, GetCheck(t)
  PROVE  GuardOK(t)'
<1>1. /\ UNCHANGED <<hazard_table, kept>> /\ pc'[t] # "check" /\ pc[t] = "check" /\ got[t] = NULL
      /\ got \in [Threads -> OrNull(Nodes)]
  BY DEF GuardInv, TypeInv, TypeOK, Frames, FrameOK, GetCheck, At, Goto, shared
<1>2. buffer[t] = <<>>
  BY DEF GetCheck, Fenced, HasFullBarrier, Drained
<1>3. Settled(t, 0, p[t])
  <2>1. hazard_table[t][0] = p[t]
    BY <1>1, <1>2 DEF GuardInv, Guards, GuardOK, WillBe
  <2> QED
    BY <1>2, <2>1 DEF Settled
<1>4. CASE Same(t)
  <2>1. got'[t] = p[t] /\ buffer' = buffer
    BY <1>1, <1>4 DEF GetCheck
  <2>2. Settled(t, 0, got[t])'
    BY <1>1, <1>3, <2>1 DEF Settled
  <2>3. kept'[t] # NULL => (Settled(t, 1, kept[t]) \/ OnItsWay(t, kept[t]))'
    BY <1>1, <2>1 DEF GuardInv, Guards, GuardOK, Settled, OnItsWay
  <2> QED
    BY <1>1, <2>2, <2>3 DEF GuardOK
<1>5. CASE ~Same(t)
  <2>1. Sets(t, <<Store(t, "get", NULL)>>) /\ got' = got
    BY <1>5 DEF GetCheck
  <2>2. kept'[t] # NULL => (Settled(t, 1, kept[t]) \/ OnItsWay(t, kept[t]))'
    BY <1>1, <2>1, KeptSets, OrNullFacts
  <2> QED
    BY <1>1, <2>1, <2>2 DEF GuardOK
<1> QED
  BY <1>4, <1>5

LEMMA GuardKeep ==
  ASSUME GuardInv, NEW t \in Threads, Keep(t)
  PROVE  GuardOK(t)'
<1>1. PICK n \in OrNull(Nodes) : n = got[t]
  BY DEF GuardInv, TypeInv, TypeOK
<1>2. Sets(t, <<Store(t, "keep", n)>>) /\ UNCHANGED <<hazard_table, got, pc>>
  BY <1>1 DEF Keep, shared
<1>3. TypeInv /\ pc[t] = "have" /\ n # NULL /\ kept'[t] = n
  BY <1>1 DEF GuardInv, TypeInv, TypeOK, Keep, At
<1>4. Settled(t, 0, n)
  BY <1>1, <1>3 DEF GuardInv, Guards, GuardOK
<1>5. OnItsWay(t, n)'
  BY <1>2, <1>3, <1>4, KeepIsOnItsWay
<1>6. HazardIndex("keep") = 1
  BY DEF HazardIndex
<1>7. Settled(t, 0, n)'
  BY <1>2, <1>3, <1>4, <1>6, SettledSets
<1>8. got'[t] = n /\ pc'[t] # "check"
  BY <1>1, <1>2, <1>3
<1> QED
  BY <1>3, <1>5, <1>7, <1>8 DEF GuardOK

LEMMA GuardGetBegin ==
  ASSUME GuardInv, NEW t \in Threads, GetBegin(t)
  PROVE  GuardOK(t)'
<1>1. /\ UNCHANGED <<hazard_table, buffer, kept>> /\ got'[t] = NULL /\ pc'[t] # "check"
      /\ kept \in [Threads -> OrNull(Nodes)]
  BY DEF GuardInv, TypeInv, TypeOK, GetBegin, Goto, shared
<1> QED
  BY <1>1 DEF GuardInv, Guards, GuardOK, Settled, OnItsWay

LEMMA GuardFree ==
  ASSUME GuardInv, NEW t \in Threads,
         Attach(t) \/ Exit(t) \/ Publish(t) \/ TryFreeAll(t) \/ Done(t) \/ Unlink(t) \/ Freeing(t)
  PROVE  GuardOK(t)'
<1>1. CASE Attach(t) \/ Exit(t) \/ TryFreeAll(t) \/ Publish(t)
  BY <1>1, GuardSame DEF GuardInv, Guards, TypeInv, TypeOK, Attach, Exit, TryFreeAll, Publish, Goto, shared
<1>2. CASE Done(t) \/ Unlink(t)
  <2>1. got'[t] = NULL /\ kept'[t] = NULL /\ pc'[t] # "check"
    BY <1>2 DEF GuardInv, TypeInv, TypeOK, Done, Unlink, Goto
  <2> QED
    BY <2>1 DEF GuardOK
<1>3. CASE Freeing(t)
  <2>1. pc[t] \in {"try", "scan", "queue"} /\ UNCHANGED <<got, kept>>
    BY <1>3 DEF Freeing, Pop, PopNone, ScanOwn, ScanStep, Free, Queue, At
  <2>2. got[t] = NULL /\ kept[t] = NULL
    BY <2>1 DEF GuardInv, TypeInv, Frames, FrameOK
  <2>3. pc'[t] # "check"
    BY <1>3, <2>1 DEF GuardInv, TypeInv, TypeOK, Freeing, Pop, PopNone, ScanOwn, ScanStep, Free, Queue, BeginScan,
       After, NextTry, Goto
  <2> QED
    BY <2>1, <2>2, <2>3 DEF GuardOK
<1> QED
  BY <1>1, <1>2, <1>3

LEMMA GuardStep ==
  ASSUME HasFullBarrier, GuardInv, NEW t \in Threads, Steps(t)
  PROVE  Guards'
<1>1. GuardOK(t)'
  BY GuardDrain, GuardGetRead, GuardGetCheck, GuardKeep, GuardGetBegin, GuardFree DEF Steps, Reading, Using
<1>2. ASSUME NEW u \in Threads \ {t} PROVE GuardOK(u)'
  BY BufferOthers, LocalsOthers, GuardSame DEF GuardInv, Guards
<1> QED
  BY <1>1, <1>2 DEF Guards

-----------------------------------------------------------------------------
(* Scans *)

LEMMA AttachedGrows ==
  ASSUME TypeOK, NEW s \in Threads, Steps(s)
  PROVE  /\ Len(attached) \in Nat /\ DOMAIN attached = 1 .. Len(attached)
         /\ \A i \in 1 .. Len(attached) : attached'[i] = attached[i]
<1>1. PICK a \in Seq(Threads) : a = attached
  BY DEF TypeOK
<1>2. CASE Attach(s)
  <2>1. attached' = Append(a, s)
    BY <1>1, <1>2 DEF Attach
  <2>2. \A i \in 1 .. Len(a) : Append(a, s)[i] = a[i]
    OBVIOUS
  <2> QED
    BY <1>1, <2>1, <2>2
<1>3. CASE ~Attach(s)
  <2>1. UNCHANGED attached
    BY <1>3 DEF Steps, Drain, Exit, Publish, TryFreeAll, Reading, GetRead, GetCheck, Using, GetBegin, Keep, Done,
       Unlink, Freeing, Pop, PopNone, ScanOwn, ScanStep, Free, Queue, shared
  <2> QED
    BY <1>1, <2>1
<1> QED
  BY <1>2, <1>3

(* A scan that has still to come to a slot, when nothing of it changes. *)
LEMMA AheadStays ==
  ASSUME TypeInv, NEW s \in Threads, Steps(s), NEW t \in Threads, NEW u \in Threads,
         highest'[t] = highest[t], pos'[t] = pos[t]
  PROVE  /\ GotAhead(t, u) => GotAhead(t, u)'
         /\ KeptAhead(t, u) /\ (Settled(u, 1, kept[u]) => Settled(u, 1, kept[u])') => KeptAhead(t, u)'
         /\ GotAhead(t, u) => KeptAhead(t, u)'
<1>1. PICK h \in Nat : h = highest[t] /\ h <= Len(attached)
  BY DEF TypeInv, TypeOK
<1>2. \A i \in 1 .. h : attached'[i] = attached[i]
  <2>1. Len(attached) \in Nat /\ \A i \in 1 .. Len(attached) : attached'[i] = attached[i]
    BY AttachedGrows DEF TypeInv
  <2> QED
    BY <1>1, <2>1
<1>3. h = highest'[t]
  BY <1>1
<1>4. GotAhead(t, u) => GotAhead(t, u)'
  BY <1>1, <1>2, <1>3 DEF GotAhead
<1>5. GotAhead(t, u) => KeptAhead(t, u)'
  BY <1>1, <1>2, <1>3 DEF GotAhead, KeptAhead
<1>6. KeptAhead(t, u) /\ (Settled(u, 1, kept[u]) => Settled(u, 1, kept[u])') => KeptAhead(t, u)'
  BY <1>1, <1>2, <1>3 DEF KeptAhead
<1> QED
  BY <1>4, <1>5, <1>6

(* A step of a third thread, or of the one that relies on the node. *)
LEMMA ScansOther ==
  ASSUME TypeInv, PlaceInv, Guards, Scans, NEW t \in Threads, NEW s \in Threads \ {t}, Steps(s),
         NEW u \in Threads
  PROVE  Ahead(t, u)'
<1>1. /\ pc'[t] = pc[t] /\ item'[t] = item[t] /\ highest'[t] = highest[t] /\ pos'[t] = pos[t]
  BY LocalsOthers
<1> SUFFICES ASSUME pc[t] = "scan"
             PROVE  /\ got'[u] = item[t] => GotAhead(t, u)'
                    /\ kept'[u] = item[t] => KeptAhead(t, u)'
  BY <1>1 DEF Ahead
<1>2. PICK n \in Nodes : n = item[t]
  BY DEF TypeInv, TypeOK, OrNull
<1>3. /\ got[u] = n => GotAhead(t, u)
      /\ kept[u] = n => KeptAhead(t, u)
  BY <1>2 DEF Scans, Ahead
<1>4. n # NULL /\ IsWith(t, n) /\ ~IsInWord(n)
  BY <1>2, NullIsNoNode DEF IsWith, PlaceInv, Placed
<1>5. ASSUME got'[u] = got[u] PROVE got'[u] = n => GotAhead(t, u)'
  BY <1>1, <1>3, <1>5, AheadStays
<1>6. ASSUME kept'[u] = kept[u], Settled(u, 1, n) => Settled(u, 1, n)'
      PROVE  kept'[u] = n => KeptAhead(t, u)'
  <2> SUFFICES ASSUME kept'[u] = n PROVE KeptAhead(t, u)'
    OBVIOUS
  <2>1. KeptAhead(t, u)
    BY <1>3, <1>6
  <2>2. Settled(u, 1, kept[u]) => Settled(u, 1, kept[u])'
    BY <1>6
  <2> QED
    BY <1>1, <2>1, <2>2, AheadStays
<1>7. CASE u # s
  <2>1. /\ got'[u] = got[u] /\ kept'[u] = kept[u]
        /\ buffer'[u] = buffer[u] /\ hazard_table'[u] = hazard_table[u]
    BY <1>7, LocalsOthers, BufferOthers
  <2>2. Settled(u, 1, n) => Settled(u, 1, n)'
    BY <2>1 DEF Settled
  <2> QED
    BY <1>2, <1>5, <1>6, <2>1, <2>2
<1>8. CASE u = s
  <2>1. CASE Drain(s)
    <3>1. got' = got /\ kept' = kept
      BY <2>1 DEF Drain
    <3>2. Settled(u, 1, n) => Settled(u, 1, n)'
      BY <1>8, <2>1, SettledDrain
    <3> QED
      BY <1>2, <1>5, <1>6, <3>1, <3>2
  <2>2. CASE GetRead(s)
    <3>1. got' = got /\ kept' = kept /\ hazard_table' = hazard_table
      BY <2>2 DEF GetRead, shared
    <3>2. PICK m \in OrNull(Nodes) : m = word[from[s]] /\ Sets(s, <<Store(s, "get", m)>>)
      BY <2>2, NullIsNoNode DEF TypeInv, TypeOK, Frames, FrameOK, OrNull, GetRead, At
    <3>3. Settled(u, 1, n) => Settled(u, 1, n)'
      BY <1>8, <3>1, <3>2, SettledSets DEF HazardIndex
    <3> QED
      BY <1>2, <1>5, <1>6, <3>1, <3>3
  <2>3. CASE GetCheck(s)
    <3>1. kept' = kept /\ hazard_table' = hazard_table
      BY <2>3 DEF GetCheck, shared
    <3>2. CASE Same(s)
      <4>1. got'[u] = word[from[s]] /\ from[s] \in Words /\ buffer' = buffer
        BY <1>8, <2>3, <3>2 DEF TypeInv, TypeOK, Frames, FrameOK, GetCheck, Same, At
      <4>2. got'[u] # n
        BY <1>4, <4>1 DEF IsInWord
      <4>3. Settled(u, 1, n) => Settled(u, 1, n)'
        BY <3>1, <4>1 DEF Settled
      <4> QED
        BY <1>2, <1>6, <3>1, <4>2, <4>3
    <3>3. CASE ~Same(s)
      <4>1. got' = got /\ Sets(s, <<Store(s, "get", NULL)>>)
        BY <2>3, <3>3 DEF GetCheck
      <4>2. Settled(u, 1, n) => Settled(u, 1, n)'
        BY <1>8, <3>1, <4>1, SettledSets, OrNullFacts DEF HazardIndex
      <4> QED
        BY <1>2, <1>5, <1>6, <3>1, <4>1, <4>2
    <3> QED
      BY <3>2, <3>3
  <2>4. CASE Keep(s)
    <3>1. got' = got /\ kept'[u] = got[u]
      BY <1>8, <2>4 DEF TypeInv, TypeOK, Keep
    <3>2. kept'[u] = n => KeptAhead(t, u)'
      BY <1>1, <1>3, <3>1, AheadStays
    <3> QED
      BY <1>2, <1>5, <3>1, <3>2
  <2>5. CASE GetBegin(s)
    <3>1. got'[u] = NULL /\ UNCHANGED <<kept, buffer, hazard_table>>
      BY <1>8, <2>5 DEF TypeInv, TypeOK, GetBegin, shared
    <3>2. Settled(u, 1, n) => Settled(u, 1, n)'
      BY <3>1 DEF Settled
    <3> QED
      BY <1>2, <1>4, <1>6, <3>1, <3>2
  <2>6. CASE Done(s) \/ Unlink(s)
    <3>1. got'[u] = NULL /\ kept'[u] = NULL
      BY <1>8, <2>6 DEF TypeInv, TypeOK, Done, Unlink
    <3> QED
      BY <1>2, <1>4, <3>1
  <2>7. CASE Attach(s) \/ Exit(s) \/ Publish(s) \/ TryFreeAll(s) \/ Freeing(s)
    <3>1. UNCHANGED <<got, kept, buffer, hazard_table>>
      BY <2>7 DEF Attach, Exit, Publish, TryFreeAll, Freeing, Pop, PopNone, ScanOwn, ScanStep, Free, Queue, shared
    <3>2. Settled(u, 1, n) => Settled(u, 1, n)'
      BY <3>1 DEF Settled
    <3> QED
      BY <1>2, <1>5, <1>6, <3>1, <3>2
  <2> QED
    BY <2>1, <2>2, <2>3, <2>4, <2>5, <2>6, <2>7 DEF Steps, Reading, Using
<1> QED
  BY <1>7, <1>8

(* A step of the thread that scans: it starts. *)
LEMMA ScansBegin ==
  ASSUME TypeInv, NEW t \in Threads, NEW n, BeginScan(t, n), attached' = attached, n # NULL,
         NEW u \in Threads, got'[u] = got[u], kept'[u] = kept[u]
  PROVE  Ahead(t, u)'
<1>1. item'[t] = n /\ highest'[t] = Len(attached) /\ pos'[t] = 0
  BY DEF BeginScan, TypeInv, TypeOK
<1>2. ASSUME got[u] = n \/ kept[u] = n
      PROVE  \E i \in 1 .. Len(attached) : attached[i] = u
  <2>1. pc[u] # "detached"
    BY <1>2 DEF TypeInv, Frames, FrameOK
  <2>2. \E i \in DOMAIN attached : attached[i] = u
    BY <2>1 DEF TypeInv, Frames, FrameOK
  <2>3. DOMAIN attached = 1 .. Len(attached)
    BY DEF TypeInv, TypeOK
  <2> QED
    BY <2>2, <2>3
<1>3. ASSUME got[u] = n \/ kept[u] = n
      PROVE  \E i \in 1 .. highest'[t] : attached'[i] = u /\ pos'[t] <= 2 * (i - 1)
  <2>1. PICK i \in 1 .. Len(attached) : attached[i] = u
    BY <1>2, <1>3
  <2>2. Len(attached) \in Nat
    BY DEF TypeInv, TypeOK
  <2>3. pos'[t] <= 2 * (i - 1)
    BY <1>1, <2>1, <2>2
  <2> QED
    BY <1>1, <2>1, <2>3
<1> QED
  BY <1>1, <1>3 DEF Ahead, GotAhead, KeptAhead

(* What it sees of another thread is in memory. *)
LEMMA SeenOther ==
  ASSUME NEW t, NEW u, t # u, NEW j
  PROVE  Seen(t, u, j) = hazard_table[u][j]
<1>1. {i \in DOMAIN buffer[t] : t = u /\ buffer[t][i][1] = j} = {}
  OBVIOUS
<1> QED
  BY <1>1 DEF Seen

LEMMA SlotOf ==
  ASSUME NEW i \in Nat \ {0}
  PROVE  /\ (2 * (i - 1)) \div 2 + 1 = i /\ (2 * (i - 1)) % 2 = 0
         /\ (2 * (i - 1) + 1) \div 2 + 1 = i /\ (2 * (i - 1) + 1) % 2 = 1
OBVIOUS

(* It goes on: the slot it has just passed does not guard the item. *)
LEMMA ScansGoOn ==
  ASSUME TypeInv, Guards, Scans, NEW t \in Threads, ScanStep(t), NEW u \in Threads \ {t}
  PROVE  Ahead(t, u)'
<1>1. /\ pc[t] = "scan"
      /\ UNCHANGED <<got, kept, buffer, hazard_table, attached, item, highest>>
  BY DEF ScanStep, At, shared
<1> SUFFICES ASSUME pc'[t] = "scan"
             PROVE  /\ got[u] = item[t] => GotAhead(t, u)'
                    /\ kept[u] = item[t] => KeptAhead(t, u)'
  BY <1>1 DEF Ahead
<1>2. Scanned(t) # item[t] /\ pos'[t] = pos[t] + 1
  BY DEF TypeInv, TypeOK, ScanStep, Goto
<1>3. /\ got[u] = item[t] => GotAhead(t, u)
      /\ kept[u] = item[t] => KeptAhead(t, u)
  BY <1>1 DEF Scans, Ahead
<1>4. item[t] # NULL /\ pos[t] \in Nat /\ highest[t] \in Nat
  BY <1>1 DEF TypeInv, TypeOK
<1>5. ASSUME NEW i \in 1 .. highest[t], attached[i] = u, pos[t] = 2 * (i - 1)
      PROVE  hazard_table[u][0] # item[t]
  <2>1. Scanned(t) = Seen(t, u, 0)
    BY <1>5, SlotOf DEF Scanned, HAZARD_POINTER_COUNT
  <2> QED
    BY <1>2, <2>1, SeenOther
<1>6. ASSUME NEW i \in 1 .. highest[t], attached[i] = u, pos[t] = 2 * (i - 1) + 1
      PROVE  hazard_table[u][1] # item[t]
  <2>1. Scanned(t) = Seen(t, u, 1)
    BY <1>6, SlotOf DEF Scanned, HAZARD_POINTER_COUNT
  <2> QED
    BY <1>2, <2>1, SeenOther
<1>7. ASSUME got[u] = item[t] PROVE GotAhead(t, u)'
  <2>1. PICK i \in 1 .. highest[t] : attached[i] = u /\ pos[t] <= 2 * (i - 1)
    BY <1>3, <1>7 DEF GotAhead
  <2>2. hazard_table[u][0] = item[t]
    BY <1>4, <1>7 DEF Guards, GuardOK, Settled
  <2>3. pos[t] # 2 * (i - 1)
    BY <1>5, <2>1, <2>2
  <2>4. pos[t] + 1 <= 2 * (i - 1)
    BY <1>4, <2>1, <2>3
  <2> QED
    BY <1>1, <1>2, <2>1, <2>4 DEF GotAhead
<1>8. ASSUME kept[u] = item[t] PROVE KeptAhead(t, u)'
  <2>1. PICK i \in 1 .. highest[t] :
          /\ attached[i] = u
          /\ pos[t] <= 2 * (i - 1) \/ (pos[t] <= 2 * (i - 1) + 1 /\ Settled(u, 1, kept[u]))
    BY <1>3, <1>8 DEF KeptAhead
  <2>2. Settled(u, 1, kept[u]) \/ OnItsWay(u, kept[u])
    BY <1>4, <1>8 DEF Guards, GuardOK
  <2>3. CASE Settled(u, 1, kept[u])
    <3>1. pos[t] # 2 * (i - 1) + 1
      BY <1>6, <1>8, <2>1, <2>3 DEF Settled
    <3>2. pos[t] + 1 <= 2 * (i - 1) + 1
      BY <1>4, <2>1, <3>1
    <3>3. Settled(u, 1, kept[u])'
      BY <1>1, <2>3 DEF Settled
    <3> QED
      BY <1>1, <1>2, <2>1, <3>2, <3>3 DEF KeptAhead
  <2>4. CASE ~Settled(u, 1, kept[u])
    <3>1. hazard_table[u][0] = item[t]
      BY <1>8, <2>2, <2>4 DEF OnItsWay
    <3>2. pos[t] # 2 * (i - 1) /\ pos[t] <= 2 * (i - 1)
      BY <1>5, <2>1, <2>4, <3>1
    <3>3. pos[t] + 1 <= 2 * (i - 1)
      BY <1>4, <3>2
    <3> QED
      BY <1>1, <1>2, <2>1, <3>3 DEF KeptAhead
  <2> QED
    BY <2>3, <2>4
<1> QED
  BY <1>7, <1>8

LEMMA ScansStep ==
  ASSUME TypeInv, TypeInv', PlaceInv, Guards, Scans, NEW s \in Threads, Steps(s)
  PROVE  Scans'
<1>1. ASSUME NEW t \in Threads, NEW u \in Threads PROVE Ahead(t, u)'
  <2>1. CASE t # s
    BY <2>1, ScansOther
  <2>2. CASE t = u
    <3>1. Ahead(t, t)'
      BY NullIsNoNode DEF TypeInv, TypeOK, Frames, FrameOK, Ahead
    <3> QED
      BY <2>2, <3>1
  <2>3. CASE t = s /\ t # u
    <3>1. got'[u] = got[u] /\ kept'[u] = kept[u]
      BY <2>3, LocalsOthers
    <3>2. CASE Pop(t)
      <4>1. PICK n \in DOMAIN delayed_free_queue :
              /\ delayed_free_queue[n] \in Nodes
              /\ \/ BeginScan(t, delayed_free_queue[n])
                 \/ Goto(t, "queue")
        BY <3>2, PopQueue DEF TypeInv
      <4>2. CASE BeginScan(t, delayed_free_queue[n])
        <5>1. attached' = attached /\ delayed_free_queue[n] # NULL
          BY <3>2, <4>1, NullIsNoNode DEF Pop
        <5> QED
          BY <3>1, <4>2, <5>1, ScansBegin
      <4>3. CASE Goto(t, "queue")
        BY <4>3 DEF Goto, TypeInv, TypeOK, Ahead
      <4> QED
        BY <4>1, <4>2, <4>3
    <3>3. CASE ScanOwn(t)
      <4>1. p[t] # NULL /\ BeginScan(t, p[t]) /\ attached' = attached
        BY <3>3, FreeAttemptsIsNat DEF TypeInv, TypeOK, Frames, FrameOK, IsFreeing, ScanOwn, At, Unlimited, shared
      <4> QED
        BY <3>1, <4>1, ScansBegin
    <3>4. CASE ScanStep(t)
      BY <2>3, <3>4, ScansGoOn
    <3>5. CASE Drain(t)
      <4>1. /\ UNCHANGED <<pc, item, highest, pos, attached, got, kept>>
            /\ buffer'[u] = buffer[u] /\ hazard_table'[u] = hazard_table[u]
        BY <2>3, <3>5, BufferOthers DEF Drain, scan
      <4> QED
        BY <4>1 DEF Scans, Ahead, GotAhead, KeptAhead, Settled
    <3>6. CASE ~(Pop(t) \/ ScanOwn(t) \/ ScanStep(t) \/ Drain(t))
      <4>1. pc'[t] # "scan"
        BY <2>3, <3>6 DEF TypeInv, TypeOK, Steps, Attach, Exit, Publish, TryFreeAll, Reading, GetRead, GetCheck, Using,
           GetBegin, Keep, Done, Unlink, Freeing, PopNone, Free, Queue, After, NextTry, At, Goto
      <4> QED
        BY <4>1 DEF Ahead
    <3> QED
      BY <3>2, <3>3, <3>4, <3>5, <3>6
  <2> QED
    BY <2>1, <2>2, <2>3
<1> QED
  BY <1>1 DEF Scans

-----------------------------------------------------------------------------
(* No use after free *)

LEMMA GuardedIsNotFreed ==
  ASSUME TypeInv, Scans, NoUseAfterFree, NEW t \in Threads, Free(t), NEW u \in Threads
  PROVE  got[u] \notin unused' /\ kept[u] \notin unused'
<1>1. /\ pc[t] = "scan" /\ pos[t] = highest[t] * 2 /\ unused' = unused \cup {item[t]}
      /\ highest[t] \in Nat
  BY DEF TypeInv, TypeOK, Free, At, HAZARD_POINTER_COUNT
<1>2. got[u] # item[t]
  BY <1>1 DEF Scans, Ahead, GotAhead
<1>3. kept[u] # item[t]
  BY <1>1 DEF Scans, Ahead, KeptAhead
<1> QED
  BY <1>1, <1>2, <1>3 DEF NoUseAfterFree

LEMMA UseStep ==
  ASSUME TypeInv, PlaceInv, Scans, NoUseAfterFree, NEW t \in Threads, Steps(t)
  PROVE  NoUseAfterFree'
<1>1. unused \subseteq Nodes /\ NULL \notin unused
  BY NullIsNoNode DEF TypeInv, TypeOK
<1>2. CASE Free(t)
  <2>1. UNCHANGED <<got, kept>>
    BY <1>2 DEF Free
  <2> QED
    BY <1>2, <2>1, GuardedIsNotFreed DEF NoUseAfterFree
<1>3. CASE GetCheck(t)
  <2>1. UNCHANGED <<unused, kept>>
    BY <1>3 DEF GetCheck, shared
  <2>2. CASE Same(t)
    <3>1. /\ got'[t] = word[from[t]] /\ from[t] \in Words
          /\ \A u \in Threads \ {t} : got'[u] = got[u]
      BY <1>3, <2>2 DEF TypeInv, TypeOK, Frames, FrameOK, GetCheck, Same, At
    <3>2. got'[t] \notin unused
      BY <3>1 DEF PlaceInv, Placed, IsInWord
    <3> QED
      BY <2>1, <3>1, <3>2 DEF NoUseAfterFree
  <2>3. CASE ~Same(t)
    BY <1>3, <2>1, <2>3 DEF GetCheck, NoUseAfterFree
  <2> QED
    BY <2>2, <2>3
<1>4. CASE Keep(t)
  BY <1>4 DEF TypeInv, TypeOK, Keep, NoUseAfterFree, shared
<1>5. CASE GetBegin(t) \/ Done(t) \/ Unlink(t)
  <2>1. /\ unused' = unused
        /\ \A u \in Threads : got'[u] \in {got[u], NULL} /\ kept'[u] \in {kept[u], NULL}
    BY <1>5 DEF TypeInv, TypeOK, GetBegin, Done, Unlink, shared
  <2> QED
    BY <1>1, <2>1 DEF NoUseAfterFree
<1>6. CASE Publish(t)
  <2>1. unused' \subseteq unused /\ UNCHANGED <<got, kept>>
    BY <1>6 DEF Publish
  <2> QED
    BY <2>1 DEF NoUseAfterFree
<1>7. CASE \/ Drain(t) \/ Attach(t) \/ Exit(t) \/ TryFreeAll(t) \/ GetRead(t)
           \/ Pop(t) \/ PopNone(t) \/ ScanOwn(t) \/ ScanStep(t) \/ Queue(t)
  <2>1. UNCHANGED <<unused, got, kept>>
    BY <1>7 DEF Drain, Attach, Exit, TryFreeAll, GetRead, Pop, PopNone, ScanOwn, ScanStep, Queue, shared
  <2> QED
    BY <2>1 DEF NoUseAfterFree
<1> QED
  BY <1>2, <1>3, <1>4, <1>5, <1>6, <1>7 DEF Steps, Reading, Using, Freeing

(* The inductive invariant. *)
Inv == TypeInv /\ PlaceInv /\ Guards /\ Scans /\ NoUseAfterFree

LEMMA InvInit == Init => Inv
<1> SUFFICES ASSUME Init PROVE Inv
  OBVIOUS
<1>1. TypeInv /\ PlaceInv
  BY TypeInit, PlaceInit
<1>2. \A t \in Threads : pc[t] = "detached" /\ got[t] = NULL /\ kept[t] = NULL
  BY DEF Init
<1>3. unused = Nodes
  BY DEF Init
<1> QED
  BY <1>1, <1>2, <1>3, NullIsNoNode DEF Inv, Guards, GuardOK, Scans, Ahead, NoUseAfterFree

LEMMA InvStep == HasFullBarrier /\ Inv /\ [Next]_vars => Inv'
<1> SUFFICES ASSUME HasFullBarrier, TypeInv, PlaceInv, Guards, Scans, NoUseAfterFree, [Next]_vars
             PROVE  Inv'
  BY DEF Inv
<1>1. TypeInv' /\ PlaceInv'
  BY TypeStep, PlaceStep
<1>2. CASE UNCHANGED vars
  <2>1. Guards'
    <3>1. UNCHANGED <<pc, p, got, kept, buffer, hazard_table>>
      BY <1>2 DEF vars, shared
    <3>2. ASSUME NEW t \in Threads PROVE GuardOK(t)'
      BY <3>1, GuardSame DEF Guards
    <3> QED
      BY <3>2 DEF Guards
  <2>2. Scans'
    BY <1>2 DEF Scans, Ahead, GotAhead, KeptAhead, Settled, vars, shared, scan
  <2>3. NoUseAfterFree'
    BY <1>2 DEF NoUseAfterFree, vars, shared
  <2> QED
    BY <1>1, <2>1, <2>2, <2>3 DEF Inv
<1>3. CASE Next
  <2>1. PICK t \in Threads : Steps(t)
    BY <1>3 DEF Next, Steps
  <2>2. Guards'
    BY <2>1, GuardStep DEF GuardInv
  <2>3. Scans'
    BY <1>1, <2>1, ScansStep
  <2>4. NoUseAfterFree'
    BY <2>1, UseStep
  <2> QED
    BY <1>1, <2>2, <2>3, <2>4 DEF Inv
<1> QED
  BY <1>2, <1>3

(* On processors with total store order (the x86 ones), a node that
   get_hazardous_pointer has returned is not freed before its reader lets go of it,
   when the barrier after the store of the hazard pointer has an instruction.  The
   order of memory is needed as much as the barrier: the loads of a scan follow the
   CAS that unlinked the node, and one another. *)
THEOREM NoUseAfterFreeAlways ==
  ASSUME OnPlatform \in TotalStoreOrder \ CompilerOnly
  PROVE  Spec => []NoUseAfterFree
<1>0. HasFullBarrier
  BY DEF HasFullBarrier, mono_memory_barrier, All
<1>1. Init => Inv
  BY InvInit
<1>2. Inv /\ [Next]_vars => Inv'
  BY <1>0, InvStep
<1>3. Inv => NoUseAfterFree
  BY DEF Inv
<1> QED
  BY <1>1, <1>2, <1>3, PTL DEF Spec

-----------------------------------------------------------------------------
(* Contexts *)

(* A thread in a lock-free context does not look for an item that might lock. *)
Contexts == \A t \in Threads : pc[t] = "scan" /\ lock_free_context(t) => item[t] \notin MightLock

LEMMA ContextStep ==
  ASSUME TypeInv, Contexts, NEW t \in Threads, Steps(t)
  PROVE  Contexts'
<1>1. ASSUME NEW u \in Threads \ {t}
      PROVE  (pc[u] = "scan" /\ lock_free_context(u) => item[u] \notin MightLock)'
  BY LocalsOthers DEF Contexts, lock_free_context
<1>2. (pc[t] = "scan" /\ lock_free_context(t) => item[t] \notin MightLock)'
  <2>1. CASE Pop(t)
    <3>1. p' = p
      BY <2>1 DEF Pop
    <3>2. PICK n \in Poppable(t) :
            \/ ~MustWait(t, delayed_free_queue[n]) /\ BeginScan(t, delayed_free_queue[n])
            \/ Goto(t, "queue")
      BY <2>1 DEF Pop
    <3>3. CASE ~MustWait(t, delayed_free_queue[n]) /\ BeginScan(t, delayed_free_queue[n])
      BY <3>1, <3>3 DEF TypeInv, TypeOK, BeginScan, MustWait, lock_free_context
    <3>4. CASE Goto(t, "queue")
      BY <3>4 DEF TypeInv, TypeOK, Goto
    <3> QED
      BY <3>2, <3>3, <3>4
  <2>2. CASE ScanOwn(t)
    BY <2>2 DEF TypeInv, TypeOK, ScanOwn, BeginScan, lock_free_context
  <2>3. CASE ScanStep(t)
    BY <2>3 DEF Contexts, ScanStep, At, lock_free_context
  <2>4. CASE Drain(t)
    BY <2>4 DEF Contexts, Drain, scan, lock_free_context
  <2>5. CASE ~(Pop(t) \/ ScanOwn(t) \/ ScanStep(t) \/ Drain(t))
    BY <2>5 DEF TypeInv, TypeOK, Steps, Attach, Exit, Publish, TryFreeAll, Reading, GetRead, GetCheck, Using,
       GetBegin, Keep, Done, Unlink, Freeing, PopNone, Free, Queue, After, NextTry, At, Goto
  <2> QED
    BY <2>1, <2>2, <2>3, <2>4, <2>5
<1> QED
  BY <1>1, <1>2 DEF Contexts

(* A free in a lock-free context does not call the free function of an item
   that might lock. *)
THEOREM MightLockAlwaysWaits == Spec => MightLockWaits
<1>1. Init => TypeInv /\ Contexts
  BY TypeInit DEF Init, Contexts
<1>2. TypeInv /\ Contexts /\ [Next]_vars => (TypeInv /\ Contexts)'
  <2> SUFFICES ASSUME TypeInv, Contexts, [Next]_vars PROVE TypeInv' /\ Contexts'
    OBVIOUS
  <2>1. TypeInv'
    BY TypeStep
  <2>2. CASE UNCHANGED vars
    BY <2>1, <2>2 DEF Contexts, lock_free_context, vars, shared, scan
  <2>3. CASE Next
    BY <2>1, <2>3, ContextStep DEF Next, Steps
  <2> QED
    BY <2>2, <2>3
<1>3. TypeInv /\ Contexts /\ [Next]_vars =>
        [\A t \in Threads : lock_free_context(t) => unused' \cap MightLock \subseteq unused \/ ~Free(t)]_vars
  <2> SUFFICES ASSUME TypeInv, Contexts, NEW t \in Threads, lock_free_context(t), Free(t)
               PROVE  unused' \cap MightLock \subseteq unused
    OBVIOUS
  <2>1. pc[t] = "scan" /\ unused' = unused \cup {item[t]}
    BY DEF Free, At
  <2> QED
    BY <2>1 DEF Contexts
<1> QED
  BY <1>1, <1>2, <1>3, PTL DEF Spec, MightLockWaits

=============================================================================
