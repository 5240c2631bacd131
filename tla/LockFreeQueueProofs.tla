-------------------------- MODULE LockFreeQueueProofs --------------------------
(***************************************************************************)
(* What is proved of LockFreeQueue for every number of threads, nodes and  *)
(* dummies.                                                                *)
(***************************************************************************)
EXTENDS LockFreeQueue, FiniteSetTheorems, SequenceTheorems, WellFoundedInduction, TLAPS

USE DEF At, Goto, Set, is_dummy, Again, Return, Behind

-----------------------------------------------------------------------------
(* The inductive invariant.                                                *)

(* The queue from its first node a on: l.                                  *)
Members(l) == {l[i] : i \in 1 .. Len(l)}
IsChain(l, a, link) ==
  /\ l \in Seq(All) /\ Len(l) # 0
  /\ \A i, j \in 1 .. Len(l) : l[i] = l[j] => i = j
  /\ l[1] = a
  /\ \A i \in 1 .. Len(l) : link[l[i]] = IF i = Len(l) THEN END_MARKER ELSE l[i + 1]

(* Where an enqueue has a node and has not linked it, and where a dequeue  *)
(* has one that is not in the list.                                        *)
PreLabels == {"enq_get", "enq_check", "enq_next", "enq_consistent", "enq_cas", "enq_help"}
OutLabels == {"deq_taken", "dummy_gone", "dummy_free"}

(* Where the hazard pointer guards the node it points to.                  *)
EnqGuard == {"enq_next", "enq_consistent", "enq_cas", "enq_help", "enq_swing"}
DeqGuard == {"deq_tail", "deq_next", "deq_consistent", "deq_help", "deq_cas"}

(* Which locals are set at which label.                                    *)
Frame(t) ==
  /\ IF pc[t] \in PreLabels \cup {"enq_swing"} THEN node[t] \in All ELSE node[t] = NULL
  /\ pc[t] = "deq_taken" => dummy[t] \in All
  /\ pc[t] \in {"dummy_gone", "dummy_free", "dummy_cas"} => dummy[t] \in Dummies
  /\ pc[t] = "get_dummy" => dummy[t] \in 0 .. NUM_DUMMIES
  /\ pc[t] \notin OutLabels \cup {"get_dummy", "dummy_cas"} => dummy[t] = NULL
  /\ IF pc[t] \in EnqGuard \cup DeqGuard \cup {"enq_check", "deq_check"}
       THEN hp[t] \in All ELSE hp[t] = NULL
Frames == \A t \in Threads : Frame(t)

(* The node in the hands of thread t.                                      *)
Hand(t) ==
  IF pc[t] \in PreLabels THEN node[t]
  ELSE IF pc[t] \in OutLabels \cup {"dummy_cas"} THEN dummy[t] ELSE NULL
FreeDummies == {d \in Dummies : ~in_use[d]}
Away == unused \cup retired \cup FreeDummies

(* A node is in one place, S being the list.                               *)
OnePlace(S) ==
  /\ S \cap Away = {} /\ unused \cap retired = {} /\ retired \cap FreeDummies = {}
  /\ \A t \in Threads : Hand(t) # NULL => Hand(t) \notin S \cup Away
  /\ \A t, u \in Threads : Hand(t) # NULL /\ Hand(t) = Hand(u) => t = u
  /\ \A n \in All : n \in S \cup Away \/ \E t \in Threads : Hand(t) = n

(* The links of the nodes that are not in the list.                        *)
AwayLinks ==
  /\ \A n \in unused \cup retired : next[n] = INVALID_NEXT
  /\ \A n \in FreeDummies : next[n] = FREE_NEXT
HandLink(t) ==
  /\ pc[t] \in PreLabels => next[node[t]] = END_MARKER
  /\ pc[t] = "deq_taken" => next[dummy[t]] \in All
  /\ pc[t] \in {"dummy_gone", "dummy_free"} => next[dummy[t]] = INVALID_NEXT
  /\ pc[t] = "dummy_cas" => next[dummy[t]] = FREE_NEXT

(* Node n has come out of the list, and has not been freed yet.            *)
Out(n) == n \in retired \/ \E t \in Threads : pc[t] \in OutLabels /\ dummy[t] = n

(* What a hazard pointer guards is in the list or has come out: it does    *)
(* not come back while it is guarded.                                      *)
GuardKept(t, S) ==
  /\ pc[t] \in EnqGuard => hp[t] \in S \/ Out(hp[t])
  /\ pc[t] \in DeqGuard => hp[t] = head \/ Out(hp[t])

(* What a thread has read of the link of its node and of tail, as long as  *)
(* it matters.                                                             *)
NextLabels == {"enq_consistent", "enq_help", "deq_consistent", "deq_help", "deq_cas"}
NextRead(t, S) ==
  /\ pc[t] \in NextLabels /\ hp[t] \in S => nx[t] \in {END_MARKER, next[hp[t]]}
  /\ pc[t] \in {"enq_help", "deq_help", "deq_cas"} /\ hp[t] \in S => nx[t] # END_MARKER
  /\ pc[t] = "deq_help" => tl[t] = hp[t]
  /\ pc[t] = "enq_swing" /\ hp[t] \in S => next[hp[t]] = node[t]
TailRead(t, S) ==
  /\ pc[t] \in EnqGuard /\ hp[t] \in S /\ next[hp[t]] = END_MARKER => tail = hp[t]
  /\ pc[t] \in {"deq_next", "deq_consistent"} /\ hp[t] = head /\ tl[t] # hp[t] => tail # head
  /\ pc[t] = "deq_cas" /\ hp[t] = head => tail # head
  /\ pc[t] = "deq_consistent" /\ hp[t] = head /\ tl[t] # hp[t] => nx[t] # END_MARKER
Local(t, S) == HandLink(t) /\ GuardKept(t, S) /\ NextRead(t, S) /\ TailRead(t, S)

TailKept(S) == tail \in S /\ (next[tail] = END_MARKER \/ next[next[tail]] = END_MARKER)

(* The dummy that has_dummy is about, and that there is one at most.       *)
Carries(t, d) ==
  \/ pc[t] \in PreLabels /\ node[t] = d
  \/ pc[t] \in {"deq_taken", "dummy_gone"} /\ dummy[t] = d
Token(d, S) == d \in S \/ \E t \in Threads : Carries(t, d)
DummyKept(S) ==
  /\ \A d \in Dummies : Token(d, S) => has_dummy
  /\ \A d, e \in Dummies : Token(d, S) /\ Token(e, S) => d = e

Accounted(S) ==
  /\ OnePlace(S) /\ AwayLinks /\ TailKept(S) /\ DummyKept(S)
  /\ \A t \in Threads : Local(t, S)

ListIs(l) == IsChain(l, head, next) /\ Accounted(Members(l))

QueueInv ==
  /\ TypeOK /\ Frames
  /\ \E l \in Seq(All) : ListIs(l)

-----------------------------------------------------------------------------

(* The constants: markers, nodes, dummies and NULL are different things.   *)
LEMMA Constants ==
  /\ INVALID_NEXT # END_MARKER /\ INVALID_NEXT # FREE_NEXT /\ END_MARKER # FREE_NEXT
  /\ Markers \cap All = {} /\ NULL \notin All /\ Nodes \cap Dummies = {}
  /\ 0 \in Dummies /\ NUM_DUMMIES \in Nat
  /\ \A d \in 0 .. NUM_DUMMIES : d # NUM_DUMMIES => d \in Dummies /\ d + 1 \in 0 .. NUM_DUMMIES
<1>1. INVALID_NEXT # END_MARKER /\ INVALID_NEXT # FREE_NEXT /\ END_MARKER # FREE_NEXT
  <2>1. ASSUME NEW x, NEW y, Markers = {x, y} PROVE FALSE
    <3>1. IsFiniteSet({x}) /\ Cardinality({x}) = 1
      BY FS_Singleton
    <3>2. Cardinality({x} \cup {y}) = IF y \in {x} THEN Cardinality({x}) ELSE Cardinality({x}) + 1
      BY <3>1, FS_AddElement
    <3>3. Markers = {x} \cup {y}
      BY <2>1
    <3> QED BY <3>1, <3>2, <3>3, MarkersAreMarkers
  <2>2. INVALID_NEXT = END_MARKER => Markers = {INVALID_NEXT, FREE_NEXT}
    BY DEF Markers
  <2>3. INVALID_NEXT = FREE_NEXT => Markers = {INVALID_NEXT, END_MARKER}
    BY DEF Markers
  <2>4. END_MARKER = FREE_NEXT => Markers = {INVALID_NEXT, END_MARKER}
    BY DEF Markers
  <2> QED BY <2>1, <2>2, <2>3, <2>4
<1>2. Markers \cap All = {} /\ NULL \notin All /\ Nodes \cap Dummies = {}
  BY MarkersAreMarkers DEF All
<1>3. /\ 0 \in Dummies /\ NUM_DUMMIES \in Nat
      /\ \A d \in 0 .. NUM_DUMMIES : d # NUM_DUMMIES => d \in Dummies /\ d + 1 \in 0 .. NUM_DUMMIES
  BY NumDummiesIsPositive DEF Dummies
<1> QED BY <1>1, <1>2, <1>3

-----------------------------------------------------------------------------
(* The list.                                                               *)

(* What its links say of its members.                                      *)
LEMMA ChainFacts ==
  ASSUME NEW l, NEW a, NEW link, IsChain(l, a, link)
  PROVE  /\ Members(l) \subseteq All /\ a \in Members(l)
         /\ \A x \in Members(l) : link[x] = END_MARKER \/ link[x] \in Members(l)
         /\ \A x \in Members(l) : link[x] # x /\ link[x] # a
         /\ \A x, y \in Members(l) : link[x] = END_MARKER /\ link[y] = END_MARKER => x = y
         /\ link[a] = END_MARKER => Members(l) = {a}
<1> DEFINE n == Len(l)
<1>1. /\ n \in Nat /\ n # 0 /\ \A i \in 1 .. n : l[i] \in All
      /\ \A i, j \in 1 .. n : l[i] = l[j] => i = j
      /\ l[1] = a /\ 1 \in 1 .. n
      /\ \A i \in 1 .. n : link[l[i]] = IF i = n THEN END_MARKER ELSE l[i + 1]
  BY DEF IsChain
<1>2. Members(l) = {l[i] : i \in 1 .. n}
  BY DEF Members
<1>3. END_MARKER \notin All
  BY Constants DEF Markers
<1>4. ASSUME NEW i \in 1 .. n
      PROVE  /\ link[l[i]] = END_MARKER \/ link[l[i]] \in Members(l)
             /\ link[l[i]] # l[i] /\ link[l[i]] # a
             /\ link[l[i]] = END_MARKER <=> i = n
  <2>1. CASE i = n
    BY <1>1, <1>3, <2>1
  <2>2. CASE i # n
    <3>1. i + 1 \in 1 .. n /\ i + 1 # i /\ i + 1 # 1
      BY <1>1, <2>2
    <3>2. link[l[i]] = l[i + 1]
      BY <1>1, <2>2
    <3> HIDE DEF n
    <3> QED BY <1>1, <1>2, <1>3, <2>2, <3>1, <3>2
  <2> QED BY <2>1, <2>2
<1>5. link[a] = END_MARKER => Members(l) = {a}
  <2> SUFFICES ASSUME link[a] = END_MARKER PROVE Members(l) = {a}
    OBVIOUS
  <2>1. n = 1
    BY <1>1, <1>4
  <2>2. \A i \in 1 .. n : i = 1
    BY <2>1
  <2> HIDE DEF n
  <2> QED BY <1>1, <1>2, <2>2
<1> HIDE DEF n
<1> QED BY <1>1, <1>2, <1>4, <1>5

(* It does not depend on the links of other nodes.                         *)
LEMMA ChainSame ==
  ASSUME NEW l, NEW a, NEW link, NEW new, IsChain(l, a, link),
         \A x \in Members(l) : new[x] = link[x]
  PROVE  IsChain(l, a, new)
BY DEF IsChain, Members

(* Without its first node.                                                 *)
LEMMA ChainTail ==
  ASSUME NEW l, NEW a, NEW link, IsChain(l, a, link), link[a] # END_MARKER
  PROVE  IsChain(Tail(l), link[a], link) /\ Members(Tail(l)) = Members(l) \ {a}
<1> DEFINE n == Len(l)
           m == Len(Tail(l))
<1>1. /\ l \in Seq(All) /\ n \in Nat /\ n # 0
      /\ \A i, j \in 1 .. n : l[i] = l[j] => i = j
      /\ l[1] = a /\ 1 \in 1 .. n
      /\ \A i \in 1 .. n : link[l[i]] = IF i = n THEN END_MARKER ELSE l[i + 1]
  BY DEF IsChain
<1>2. n # 1 /\ 1 + 1 = 2
  BY <1>1
<1>3. /\ Tail(l) \in Seq(All) /\ m \in Nat /\ m = n - 1
      /\ \A i \in 1 .. m : Tail(l)[i] = l[i + 1]
  <2>1. l # << >>
    BY <1>1
  <2> QED BY <1>1, <2>1, HeadTailProperties
<1> HIDE DEF n, m
<1>4. \A i \in 1 .. m : /\ i + 1 \in 1 .. n /\ i + 1 # 1 /\ (i + 1 = n <=> i = m)
                        /\ i # m => i + 1 \in 1 .. m
  BY <1>1, <1>3
<1>5. \A i \in 1 .. n : i # 1 => i - 1 \in 1 .. m /\ (i - 1) + 1 = i
  BY <1>1, <1>3
<1>6. Tail(l)[1] = link[a]
  <2>1. 1 \in 1 .. m /\ link[l[1]] = l[2]
    BY <1>1, <1>2, <1>3
  <2> QED BY <1>1, <1>2, <1>3, <2>1
<1>7. \A i, j \in 1 .. m : Tail(l)[i] = Tail(l)[j] => i = j
  <2> SUFFICES ASSUME NEW i \in 1 .. m, NEW j \in 1 .. m, Tail(l)[i] = Tail(l)[j] PROVE i = j
    OBVIOUS
  <2>1. l[i + 1] = l[j + 1] /\ i + 1 \in 1 .. n /\ j + 1 \in 1 .. n
    BY <1>3, <1>4
  <2>2. i + 1 = j + 1
    BY <1>1, <2>1
  <2> QED BY <1>3, <2>2
<1>8. \A i \in 1 .. m : link[Tail(l)[i]] = IF i = m THEN END_MARKER ELSE Tail(l)[i + 1]
  <2> SUFFICES ASSUME NEW i \in 1 .. m
               PROVE link[Tail(l)[i]] = IF i = m THEN END_MARKER ELSE Tail(l)[i + 1]
    OBVIOUS
  <2>1. link[Tail(l)[i]] = IF i + 1 = n THEN END_MARKER ELSE l[(i + 1) + 1]
    BY <1>1, <1>3, <1>4
  <2>2. i # m => Tail(l)[i + 1] = l[(i + 1) + 1]
    BY <1>3, <1>4
  <2> QED BY <1>4, <2>1, <2>2
<1>9. m # 0
  BY <1>1, <1>2, <1>3
<1>10. IsChain(Tail(l), link[a], link)
  BY <1>3, <1>6, <1>7, <1>8, <1>9 DEF IsChain, m
<1>11. Members(l) = {l[i] : i \in 1 .. n} /\ Members(Tail(l)) = {Tail(l)[i] : i \in 1 .. m}
  BY DEF Members, n, m
<1>12. ASSUME NEW x \in Members(Tail(l)) PROVE x \in Members(l) \ {a}
  <2>1. PICK i \in 1 .. m : x = l[i + 1]
    BY <1>3, <1>11
  <2> QED BY <1>1, <1>4, <1>11, <2>1
<1>13. ASSUME NEW x \in Members(l) \ {a} PROVE x \in Members(Tail(l))
  <2>1. PICK i \in 1 .. n : x = l[i] /\ i # 1
    BY <1>1, <1>11
  <2> QED BY <1>3, <1>5, <1>11, <2>1
<1> QED BY <1>10, <1>12, <1>13

(* With a new node linked to its last one.                                 *)
LEMMA ChainAppend ==
  ASSUME NEW l, NEW a, NEW link, NEW new, IsChain(l, a, link),
         NEW x \in Members(l), link[x] = END_MARKER,
         NEW y \in All, y \notin Members(l), link[y] = END_MARKER,
         new[x] = y, \A z \in All : z # x => new[z] = link[z]
  PROVE  IsChain(Append(l, y), a, new) /\ Members(Append(l, y)) = Members(l) \cup {y}
<1> DEFINE n == Len(l)
           e == Append(l, y)
           m == Len(e)
<1>1. /\ l \in Seq(All) /\ n \in Nat /\ n # 0 /\ \A i \in 1 .. n : l[i] \in All
      /\ \A i, j \in 1 .. n : l[i] = l[j] => i = j
      /\ l[1] = a /\ 1 \in 1 .. n
      /\ \A i \in 1 .. n : link[l[i]] = IF i = n THEN END_MARKER ELSE l[i + 1]
  BY DEF IsChain
<1>2. /\ e \in Seq(All) /\ m = n + 1 /\ m \in Nat /\ m # 0 /\ e[m] = y
      /\ \A i \in 1 .. n : e[i] = l[i]
  BY <1>1
<1>3. /\ \A i \in 1 .. m : i # m => i \in 1 .. n /\ i + 1 \in 1 .. m /\ (i + 1 = m <=> i = n)
      /\ \A i \in 1 .. n : i \in 1 .. m /\ i # m
      /\ m \in 1 .. m
  BY <1>1, <1>2
<1>4. Members(l) = {l[i] : i \in 1 .. n} /\ Members(e) = {e[i] : i \in 1 .. m}
  BY DEF Members
<1>5. END_MARKER \notin All
  BY Constants DEF Markers
<1> HIDE DEF n, m, e
<1>6. \A i \in 1 .. n : (i # n => i + 1 \in 1 .. n) /\ n \in 1 .. n
  BY <1>1
<1>7. x = l[n]
  <2>1. PICK i \in 1 .. n : x = l[i]
    BY <1>4
  <2> QED BY <1>1, <1>5, <1>6, <2>1
<1>8. ASSUME NEW i \in 1 .. m PROVE new[e[i]] = IF i = m THEN END_MARKER ELSE e[i + 1]
  <2>1. CASE i = m
    BY <1>2, <2>1
  <2>2. CASE i = n
    <3>1. e[i] = x /\ i # m /\ i + 1 = m
      BY <1>2, <1>3, <1>6, <1>7, <2>2
    <3> QED BY <1>2, <3>1
  <2>3. CASE i # m /\ i # n
    <3>1. i \in 1 .. n /\ i + 1 \in 1 .. n /\ e[i] = l[i] /\ e[i + 1] = l[i + 1] /\ l[i] # x
      BY <1>1, <1>2, <1>3, <1>6, <1>7, <2>3
    <3> QED BY <1>1, <2>3, <3>1
  <2> QED BY <2>1, <2>2, <2>3
<1>9. \A i, j \in 1 .. m : e[i] = e[j] => i = j
  BY <1>1, <1>2, <1>3, <1>4
<1>10. e[1] = a
  BY <1>1, <1>2
<1>11. IsChain(e, a, new)
  BY <1>2, <1>8, <1>9, <1>10 DEF IsChain, m
<1>12. Members(e) = Members(l) \cup {y}
  <2>1. ASSUME NEW z \in Members(e) PROVE z \in Members(l) \cup {y}
    BY <1>2, <1>3, <1>4
  <2>2. ASSUME NEW z \in Members(l) PROVE z \in Members(e)
    BY <1>2, <1>3, <1>4
  <2>3. y \in Members(e)
    BY <1>2, <1>3, <1>4
  <2> QED BY <2>1, <2>2, <2>3
<1> QED BY <1>11, <1>12 DEF e

-----------------------------------------------------------------------------
(* What a step has to keep.                                                *)

OthersStay(t) == \A u \in Threads \ {t} :
  /\ pc'[u] = pc[u] /\ node'[u] = node[u] /\ hp'[u] = hp[u]
  /\ tl'[u] = tl[u] /\ nx'[u] = nx[u] /\ dummy'[u] = dummy[u]
Guards(u, n) == pc[u] \in EnqGuard \cup DeqGuard /\ hp[u] = n

(* What has come out of the list is not in it.                             *)
LEMMA OutOfList ==
  ASSUME TypeOK, Frames, NEW S, OnePlace(S), NEW n \in All, Out(n)
  PROVE  n \notin S
<1>1. CASE n \in retired
  BY <1>1 DEF OnePlace, Away
<1>2. CASE \E u \in Threads : pc[u] \in OutLabels /\ dummy[u] = n
  <2>1. PICK u \in Threads : pc[u] \in OutLabels /\ dummy[u] = n
    BY <1>2
  <2>2. Hand(u) = n /\ n # NULL
    BY <2>1, Constants DEF Hand, OutLabels, PreLabels
  <2> QED BY <2>2 DEF OnePlace
<1> QED BY <1>1, <1>2 DEF Out

(* What the links and the tail are, S being the list.                      *)
LEMMA ListFacts ==
  ASSUME TypeOK, Frames, NEW l \in Seq(All), ListIs(l)
  PROVE  /\ Members(l) \subseteq All /\ head \in Members(l) /\ tail \in Members(l)
         /\ \A x \in Members(l) : next[x] = END_MARKER \/ next[x] \in Members(l)
         /\ \A x \in Members(l) : next[x] # x /\ next[x] # head
         /\ \A x, y \in Members(l) : next[x] = END_MARKER /\ next[y] = END_MARKER => x = y
         /\ next[head] = END_MARKER => Members(l) = {head}
         /\ next[tail] # END_MARKER => next[tail] \in Members(l) /\ next[next[tail]] = END_MARKER
         /\ \A n \in Members(l) : ~Out(n)
         /\ END_MARKER \notin All
         /\ \A n \in All : n # NULL
<1> DEFINE M == Members(l)
<1>1. IsChain(l, head, next) /\ OnePlace(M) /\ TailKept(M)
  BY DEF ListIs, Accounted
<1>2. /\ M \subseteq All /\ head \in M
      /\ \A x \in M : next[x] = END_MARKER \/ next[x] \in M
      /\ \A x \in M : next[x] # x /\ next[x] # head
      /\ \A x, y \in M : next[x] = END_MARKER /\ next[y] = END_MARKER => x = y
      /\ next[head] = END_MARKER => M = {head}
  BY <1>1, ChainFacts
<1>3. tail \in M /\ (next[tail] = END_MARKER \/ next[next[tail]] = END_MARKER)
  BY <1>1 DEF TailKept
<1>4. \A n \in M : ~Out(n)
  BY <1>1, <1>2, OutOfList
<1>5. END_MARKER \notin All /\ \A n \in All : n # NULL
  BY Constants DEF Markers
<1> HIDE DEF M
<1> QED BY <1>2, <1>3, <1>4, <1>5 DEF M

(* What the other threads know stays true.                                 *)
LEMMA OthersKeep ==
  ASSUME TypeOK, Frames, NEW l \in Seq(All), ListIs(l), NEW S2, NEW u \in Threads, NEW h, h = head,
         pc'[u] = pc[u], node'[u] = node[u], hp'[u] = hp[u],
         tl'[u] = tl[u], nx'[u] = nx[u], dummy'[u] = dummy[u],
         \A n \in S2 : n \in Members(l) \/ ~Out(n),
         \A n \in All : Guards(u, n) /\ Out(n) => Out(n)',
         \A n \in Members(l) : n \in S2 \/ Out(n)',
         head' = h \/ (head' \in Members(l) /\ head' # h /\ Out(h)'),
         \A n \in Members(l) : next'[n] = next[n]
             \/ (next[n] = END_MARKER /\ next'[n] # END_MARKER),
         tail' = tail \/ (next[tail] # END_MARKER /\ tail' = next[tail]),
         Hand(u) # NULL => next'[Hand(u)] = next[Hand(u)]
  PROVE  Local(u, S2)'
<1> DEFINE M == Members(l)
<1>1. /\ HandLink(u) /\ GuardKept(u, M) /\ NextRead(u, M) /\ TailRead(u, M) /\ Frame(u)
  BY DEF ListIs, Accounted, Local, Frames
<1>2. /\ M \subseteq All /\ head \in M /\ tail \in M
      /\ \A x \in M : next[x] # x /\ next[x] # head
      /\ \A n \in M : ~Out(n)
      /\ END_MARKER \notin All /\ \A n \in All : n # NULL
  BY ListFacts
<1> HIDE DEF M
<1>3. HandLink(u)'
  <2>1. pc[u] \in PreLabels => next'[node[u]] = next[node[u]]
    BY <1>1, <1>2 DEF Frame, Hand
  <2>2. pc[u] \in OutLabels \cup {"dummy_cas"} => next'[dummy[u]] = next[dummy[u]]
    BY <1>1, <1>2 DEF Frame, Hand, PreLabels, OutLabels, All
  <2> QED BY <1>1, <2>1, <2>2 DEF HandLink, OutLabels
<1>4. PICK p : p = hp[u]
  OBVIOUS
<1>5. pc[u] \in EnqGuard \cup DeqGuard =>
        /\ p \in All /\ (p \in M \/ Out(p)) /\ (Out(p) => Out(p)') /\ (p \in S2 => p \in M)
        /\ p \in M => p \in S2 \/ Out(p)'
  BY <1>1, <1>2, <1>4 DEF Frame, GuardKept, Guards, M
<1>6. pc[u] \in DeqGuard => p = h \/ Out(p)
  BY <1>1, <1>4 DEF GuardKept
<1>7. pc[u] \in DeqGuard /\ p = head' => head' = head
  BY <1>2, <1>6 DEF M
<1>8. GuardKept(u, S2)'
  <2>1. pc[u] \in EnqGuard => p \in S2 \/ Out(p)'
    BY <1>5
  <2>2. pc[u] \in DeqGuard => p = head' \/ Out(p)'
    BY <1>5, <1>6
  <2> QED BY <1>4, <2>1, <2>2 DEF GuardKept, Out
<1>9. pc[u] \in EnqGuard \cup DeqGuard /\ p \in S2 =>
        p \in M /\ (next[p] = END_MARKER \/ next'[p] = next[p])
          /\ (next'[p] = END_MARKER => next[p] = END_MARKER)
  BY <1>5 DEF M
<1>10. NextRead(u, S2)'
  <2>1. pc[u] \in NextLabels => pc[u] \in EnqGuard \cup DeqGuard
    BY DEF NextLabels, EnqGuard, DeqGuard
  <2>2. pc[u] \in NextLabels /\ p \in S2 => nx[u] \in {END_MARKER, next'[p]}
    BY <1>1, <1>4, <1>9, <2>1 DEF NextRead
  <2>3. pc[u] \in {"enq_help", "deq_help", "deq_cas"} /\ p \in S2 => nx[u] # END_MARKER
    BY <1>1, <1>4, <1>9, <2>1 DEF NextRead, NextLabels
  <2>4. pc[u] = "enq_swing" /\ p \in S2 => next'[p] = node[u]
    <3>1. pc[u] = "enq_swing" => node[u] \in All /\ pc[u] \in EnqGuard
      BY <1>1 DEF Frame, EnqGuard
    <3> QED BY <1>1, <1>2, <1>4, <1>9, <3>1 DEF NextRead
  <2> QED BY <1>1, <1>4, <2>2, <2>3, <2>4 DEF NextRead
<1>11. TailRead(u, S2)'
  <2>1. pc[u] \in EnqGuard /\ p \in S2 /\ next'[p] = END_MARKER => tail' = p
    BY <1>1, <1>4, <1>9 DEF TailRead
  <2>2. tail # head => tail' # head
    BY <1>2
  <2>3. pc[u] \in {"deq_next", "deq_consistent", "deq_cas"} => pc[u] \in DeqGuard
    BY DEF DeqGuard
  <2>4. pc[u] \in {"deq_next", "deq_consistent"} /\ p = head' /\ tl[u] # p => tail' # head'
    BY <1>1, <1>4, <1>7, <2>2, <2>3 DEF TailRead
  <2>5. pc[u] = "deq_cas" /\ p = head' => tail' # head'
    BY <1>1, <1>4, <1>7, <2>2, <2>3 DEF TailRead
  <2>6. pc[u] = "deq_consistent" /\ p = head' /\ tl[u] # p => nx[u] # END_MARKER
    BY <1>1, <1>4, <1>7, <2>3 DEF TailRead
  <2> QED BY <1>4, <2>1, <2>4, <2>5, <2>6 DEF TailRead
<1> QED BY <1>3, <1>8, <1>10, <1>11 DEF Local

(* A node moves to the hands of thread t, or out of them, or stays.        *)
LEMMA PlaceMove ==
  ASSUME TypeOK, NEW S, NEW S2, OnePlace(S), NEW t \in Threads,
         S2 \cap Away' = {}, unused' \cap retired' = {}, retired' \cap FreeDummies' = {},
         \A u \in Threads \ {t} : Hand(u)' = Hand(u),
         \A n \in S2 \cup Away' : n \in S \cup Away \/ (n = Hand(t) /\ n # NULL),
         Hand(t)' # NULL =>
           Hand(t)' \notin S2 \cup Away' /\ (Hand(t)' = Hand(t) \/ Hand(t)' \in S \cup Away),
         \A n \in S \cup Away : n \in S2 \cup Away' \/ Hand(t)' = n,
         Hand(t) \in S2 \cup Away' \/ Hand(t)' = Hand(t) \/ Hand(t) = NULL
  PROVE  OnePlace(S2)'
<1>1. /\ \A u \in Threads : Hand(u) # NULL => Hand(u) \notin S \cup Away
      /\ \A u, v \in Threads : Hand(u) # NULL /\ Hand(u) = Hand(v) => u = v
      /\ \A n \in All : n \in S \cup Away \/ \E u \in Threads : Hand(u) = n
  BY DEF OnePlace
<1>2. ASSUME NEW u \in Threads, Hand(u)' # NULL PROVE Hand(u)' \notin S2 \cup Away'
  <2>1. CASE u = t
    BY <1>2, <2>1
  <2>2. CASE u # t
    <3>1. Hand(u)' = Hand(u)
      BY <2>2
    <3> QED BY <1>1, <1>2, <2>2, <3>1
  <2> QED BY <2>1, <2>2
<1>3. ASSUME NEW u \in Threads, u # t, Hand(u)' # NULL PROVE Hand(u)' # Hand(t)'
  <2>1. Hand(u)' = Hand(u)
    BY <1>3
  <2> QED BY <1>1, <1>3, <2>1
<1>4. ASSUME NEW u \in Threads, NEW v \in Threads, Hand(u)' # NULL, Hand(u)' = Hand(v)' PROVE u = v
  <2>1. CASE u = t \/ v = t
    BY <1>3, <1>4, <2>1
  <2>2. CASE u # t /\ v # t
    <3>1. Hand(u)' = Hand(u) /\ Hand(v)' = Hand(v)
      BY <2>2
    <3> QED BY <1>1, <1>4, <3>1
  <2> QED BY <2>1, <2>2
<1>5. ASSUME NEW n \in All, n \notin S2 \cup Away' PROVE \E u \in Threads : Hand(u)' = n
  <2>1. CASE n \in S \cup Away
    BY <1>5, <2>1
  <2>2. CASE n \notin S \cup Away
    <3>1. PICK u \in Threads : Hand(u) = n
      BY <1>1, <2>2
    <3>2. n # NULL
      BY Constants
    <3>3. CASE u = t
      BY <1>5, <3>1, <3>2, <3>3
    <3>4. CASE u # t
      <4>1. Hand(u)' = Hand(u)
        BY <3>4
      <4> QED BY <3>1, <4>1
    <3> QED BY <3>3, <3>4
  <2> QED BY <2>1, <2>2
<1> QED BY <1>2, <1>4, <1>5 DEF OnePlace

-----------------------------------------------------------------------------
(* The types, and the locals of a thread.                                  *)

ThreadStep(t) == EnqueueBegin(t) \/ DequeueBegin(t) \/ Step(t)

(* A step of one thread changes the locals of no other.                    *)
LEMMA StepOfOne ==
  ASSUME TypeOK, NEW t \in Threads, ThreadStep(t)
  PROVE  OthersStay(t)
<1> USE DEF TypeOK, OthersStay, shared, locals
<1>1. CASE EnqueueBegin(t)
  BY <1>1 DEF EnqueueBegin
<1>2. CASE TailGet(t)
  BY <1>2 DEF TailGet
<1>3. CASE TailCheck(t)
  BY <1>3 DEF TailCheck
<1>4. CASE TailNext(t)
  BY <1>4 DEF TailNext
<1>5. CASE TailConsistent(t)
  BY <1>5 DEF TailConsistent
<1>6. CASE Link(t)
  BY <1>6 DEF Link
<1>7. CASE TailHelp(t)
  BY <1>7 DEF TailHelp
<1>8. CASE Swing(t)
  BY <1>8 DEF Swing
<1>9. CASE DequeueBegin(t)
  BY <1>9 DEF DequeueBegin
<1>10. CASE HeadGet(t)
  BY <1>10 DEF HeadGet
<1>11. CASE HeadCheck(t)
  BY <1>11 DEF HeadCheck
<1>12. CASE HeadTail(t)
  BY <1>12 DEF HeadTail
<1>13. CASE HeadNext(t)
  BY <1>13 DEF HeadNext
<1>14. CASE HeadConsistent(t)
  BY <1>14 DEF HeadConsistent
<1>15. CASE HeadHelp(t)
  BY <1>15 DEF HeadHelp
<1>16. CASE Unlink(t)
  BY <1>16 DEF Unlink
<1>17. CASE Taken(t)
  BY <1>17 DEF Taken
<1>18. CASE DummyGone(t)
  BY <1>18 DEF DummyGone
<1>19. CASE DummyFree(t)
  BY <1>19 DEF DummyFree
<1>20. CASE HasDummy(t)
  BY <1>20 DEF HasDummy
<1>21. CASE GetDummy(t)
  BY <1>21 DEF GetDummy
<1>22. CASE DummyCas(t)
  BY <1>22 DEF DummyCas
<1> QED
  BY <1>1, <1>2, <1>3, <1>4, <1>5, <1>6, <1>7, <1>8, <1>9, <1>10, <1>11, <1>12, <1>13, <1>14,
     <1>15, <1>16, <1>17, <1>18, <1>19, <1>20, <1>21, <1>22
  DEF ThreadStep, Step, Enqueue, Dequeue

(* The types.                                                              *)
LEMMA TypesKept ==
  ASSUME TypeOK, Frames, NEW t \in Threads, ThreadStep(t), head' \in All, tail' \in All
  PROVE  TypeOK'
<1> USE DEF TypeOK, shared, locals
<1>0. Frame(t) /\ \A S : S \cap Nodes \subseteq Nodes
  BY DEF Frames
<1>1. CASE EnqueueBegin(t)
  <2>1. PICK n \in unused : unused' = unused \ {n} /\ node' = Set(node, t, n)
                              /\ next' = [next EXCEPT ![n] = END_MARKER]
    BY <1>1 DEF EnqueueBegin
  <2>2. n \in All /\ may_fail' \subseteq Threads
    BY <1>1 DEF EnqueueBegin, Dequeuing, All
  <2>3. /\ next' \in [All -> All \cup Markers]
        /\ node' \in [Threads -> All \cup {NULL}] /\ unused' \subseteq Nodes
    BY <2>1, <2>2 DEF Markers
  <2>4. pc' \in [Threads -> Label]
    BY <1>1 DEF EnqueueBegin, Label
  <2> QED BY <1>1, <2>2, <2>3, <2>4 DEF EnqueueBegin
<1>2. CASE TailGet(t)
  BY <1>0, <1>2 DEF TailGet, Frame, Label, PreLabels, OutLabels, EnqGuard, DeqGuard
<1>3. CASE TailCheck(t)
  BY <1>0, <1>3 DEF TailCheck, Frame, Label, PreLabels, OutLabels, EnqGuard, DeqGuard
<1>4. CASE TailNext(t)
  <2>1. hp[t] \in All
    BY <1>0, <1>4 DEF TailNext, Frame, EnqGuard, DeqGuard
  <2>2. nx' \in [Threads -> All \cup Markers \cup {NULL}]
    BY <1>4, <2>1 DEF TailNext
  <2> QED BY <1>4, <2>2 DEF TailNext, Label
<1>5. CASE TailConsistent(t)
  BY <1>0, <1>5 DEF TailConsistent, Frame, Label, PreLabels, OutLabels, EnqGuard, DeqGuard
<1>6. CASE Link(t)
  <2>1. node[t] \in All
    BY <1>0, <1>6 DEF Link, Frame, PreLabels
  <2>2. next' \in [All -> All \cup Markers]
    BY <1>6, <2>1 DEF Link
  <2> QED BY <1>6, <2>2 DEF Link, Label
<1>7. CASE TailHelp(t)
  BY <1>0, <1>7 DEF TailHelp, Frame, Label, PreLabels, OutLabels, EnqGuard, DeqGuard
<1>8. CASE Swing(t)
  BY <1>0, <1>8 DEF Swing, Frame, Label, PreLabels, OutLabels, EnqGuard, DeqGuard
<1>9. CASE DequeueBegin(t)
  BY <1>0, <1>9 DEF DequeueBegin, Dequeuing, Label
<1>10. CASE HeadGet(t)
  BY <1>0, <1>10 DEF HeadGet, Frame, Label, PreLabels, OutLabels, EnqGuard, DeqGuard
<1>11. CASE HeadCheck(t)
  BY <1>0, <1>11 DEF HeadCheck, Frame, Label, PreLabels, OutLabels, EnqGuard, DeqGuard
<1>12. CASE HeadTail(t)
  BY <1>0, <1>12 DEF HeadTail, Frame, Label, PreLabels, OutLabels, EnqGuard, DeqGuard
<1>13. CASE HeadNext(t)
  <2>1. hp[t] \in All
    BY <1>0, <1>13 DEF HeadNext, Frame, EnqGuard, DeqGuard
  <2>2. nx' \in [Threads -> All \cup Markers \cup {NULL}]
    BY <1>13, <2>1 DEF HeadNext
  <2> QED BY <1>13, <2>2 DEF HeadNext, Label
<1>14. CASE HeadConsistent(t)
  BY <1>0, <1>14 DEF HeadConsistent, Frame, Label, PreLabels, OutLabels, EnqGuard, DeqGuard
<1>15. CASE HeadHelp(t)
  BY <1>0, <1>15 DEF HeadHelp, Frame, Label, PreLabels, OutLabels, EnqGuard, DeqGuard
<1>16. CASE Unlink(t)
  BY <1>0, <1>16 DEF Unlink, Frame, Label, PreLabels, OutLabels, EnqGuard, DeqGuard
<1>17. CASE Taken(t)
  <2>1. dummy[t] \in All
    BY <1>0, <1>17 DEF Taken, Frame
  <2>2. next' \in [All -> All \cup Markers] /\ retired' \subseteq All
    BY <1>17, <2>1 DEF Taken, Markers
  <2>3. dummy' \in [Threads -> All \cup {NUM_DUMMIES, NULL}] /\ pc' \in [Threads -> Label]
    BY <1>17 DEF Taken, Label
  <2> QED BY <1>17, <2>2, <2>3 DEF Taken
<1>18. CASE DummyGone(t)
  BY <1>0, <1>18 DEF DummyGone, Frame, Label, PreLabels, OutLabels, EnqGuard, DeqGuard
<1>19. CASE DummyFree(t)
  <2>1. dummy[t] \in Dummies
    BY <1>0, <1>19 DEF DummyFree, Frame
  <2>2. PICK S \in SUBSET (retired \cup {dummy[t]}) :
          FreeAll(S) /\ retired' = (retired \cup {dummy[t]}) \ S
    BY <1>19 DEF DummyFree
  <2>3. next' \in [All -> All \cup Markers]
    BY <2>2 DEF FreeAll, Markers
  <2>4. in_use' \in [Dummies -> BOOLEAN]
    BY <2>2 DEF FreeAll
  <2>5. unused' \subseteq Nodes /\ retired' \subseteq All
    BY <2>1, <2>2 DEF FreeAll, All
  <2>6. dummy' \in [Threads -> All \cup {NUM_DUMMIES, NULL}] /\ pc' \in [Threads -> Label]
    BY <1>19 DEF DummyFree, Label
  <2> QED BY <1>19, <2>3, <2>4, <2>5, <2>6 DEF DummyFree
<1>20. CASE HasDummy(t)
  <2>1. dummy' \in [Threads -> All \cup {NUM_DUMMIES, NULL}]
    BY <1>20, Constants DEF HasDummy, All
  <2>2. pc' \in [Threads -> Label] /\ may_fail' \subseteq Threads
    BY <1>20 DEF HasDummy, Label
  <2> QED BY <1>20, <2>1, <2>2 DEF HasDummy
<1>21. CASE GetDummy(t)
  <2>1. dummy[t] \in 0 .. NUM_DUMMIES
    BY <1>0, <1>21 DEF GetDummy, Frame
  <2>2. dummy[t] \in Dummies => dummy[t] + 1 \in Dummies \cup {NUM_DUMMIES}
    BY Constants DEF Dummies
  <2>3. dummy' \in [Threads -> All \cup {NUM_DUMMIES, NULL}]
    BY <1>21, <2>2 DEF GetDummy, All
  <2>4. in_use' \in [Dummies -> BOOLEAN]
    BY <1>21 DEF GetDummy
  <2>5. pc' \in [Threads -> Label] /\ may_fail' \subseteq Threads
    BY <1>21 DEF GetDummy, Label
  <2> QED BY <1>21, <2>3, <2>4, <2>5 DEF GetDummy
<1>22. CASE DummyCas(t)
  <2>1. dummy[t] \in Dummies /\ dummy[t] \in All
    BY <1>0, <1>22 DEF DummyCas, Frame, All
  <2>2. next' \in [All -> All \cup Markers] /\ node' \in [Threads -> All \cup {NULL}]
    BY <1>22, <2>1 DEF DummyCas, Markers
  <2>3. in_use' \in [Dummies -> BOOLEAN] /\ has_dummy' \in BOOLEAN
    BY <1>22 DEF DummyCas
  <2>4. /\ pc' \in [Threads -> Label] /\ may_fail' \subseteq Threads
        /\ dummy' \in [Threads -> All \cup {NUM_DUMMIES, NULL}]
    BY <1>22 DEF DummyCas, Label
  <2> QED BY <1>22, <2>2, <2>3, <2>4 DEF DummyCas
<1> QED
  BY <1>1, <1>2, <1>3, <1>4, <1>5, <1>6, <1>7, <1>8, <1>9, <1>10, <1>11, <1>12, <1>13, <1>14,
     <1>15, <1>16, <1>17, <1>18, <1>19, <1>20, <1>21, <1>22
  DEF ThreadStep, Step, Enqueue, Dequeue

(* Which locals are set.                                                   *)
LEMMA FramesKept ==
  ASSUME TypeOK, Frames, NEW t \in Threads, ThreadStep(t)
  PROVE  Frames'
<1>0. Frame(t) /\ OthersStay(t)
  BY StepOfOne DEF Frames
<1>90. Frame(t)'
  <2> USE DEF TypeOK, shared, locals
  <2>1. CASE EnqueueBegin(t)
    <3>1. node'[t] \in All
      BY <2>1 DEF EnqueueBegin, All
    <3> QED BY <1>0, <2>1, <3>1 DEF EnqueueBegin, Frame, PreLabels, OutLabels, EnqGuard, DeqGuard
  <2>2. CASE TailGet(t)
    BY <1>0, <2>2 DEF TailGet, Frame, PreLabels, OutLabels, EnqGuard, DeqGuard
  <2>3. CASE TailCheck(t)
    BY <1>0, <2>3 DEF TailCheck, Frame, PreLabels, OutLabels, EnqGuard, DeqGuard
  <2>4. CASE TailNext(t)
    BY <1>0, <2>4 DEF TailNext, Frame, PreLabels, OutLabels, EnqGuard, DeqGuard
  <2>5. CASE TailConsistent(t)
    BY <1>0, <2>5 DEF TailConsistent, Frame, PreLabels, OutLabels, EnqGuard, DeqGuard
  <2>6. CASE Link(t)
    BY <1>0, <2>6 DEF Link, Frame, PreLabels, OutLabels, EnqGuard, DeqGuard
  <2>7. CASE TailHelp(t)
    BY <1>0, <2>7 DEF TailHelp, Frame, PreLabels, OutLabels, EnqGuard, DeqGuard
  <2>8. CASE Swing(t)
    BY <1>0, <2>8 DEF Swing, Frame, PreLabels, OutLabels, EnqGuard, DeqGuard
  <2>9. CASE DequeueBegin(t)
    BY <1>0, <2>9 DEF DequeueBegin, Frame, PreLabels, OutLabels, EnqGuard, DeqGuard
  <2>10. CASE HeadGet(t)
    BY <1>0, <2>10 DEF HeadGet, Frame, PreLabels, OutLabels, EnqGuard, DeqGuard
  <2>11. CASE HeadCheck(t)
    BY <1>0, <2>11 DEF HeadCheck, Frame, PreLabels, OutLabels, EnqGuard, DeqGuard
  <2>12. CASE HeadTail(t)
    BY <1>0, <2>12 DEF HeadTail, Frame, PreLabels, OutLabels, EnqGuard, DeqGuard
  <2>13. CASE HeadNext(t)
    BY <1>0, <2>13 DEF HeadNext, Frame, PreLabels, OutLabels, EnqGuard, DeqGuard
  <2>14. CASE HeadConsistent(t)
    BY <1>0, <2>14 DEF HeadConsistent, Frame, PreLabels, OutLabels, EnqGuard, DeqGuard
  <2>15. CASE HeadHelp(t)
    BY <1>0, <2>15 DEF HeadHelp, Frame, PreLabels, OutLabels, EnqGuard, DeqGuard
  <2>16. CASE Unlink(t)
    BY <1>0, <2>16 DEF Unlink, Frame, PreLabels, OutLabels, EnqGuard, DeqGuard
  <2>17. CASE Taken(t)
    BY <1>0, <2>17 DEF Taken, Frame, PreLabels, OutLabels, EnqGuard, DeqGuard
  <2>18. CASE DummyGone(t)
    BY <1>0, <2>18 DEF DummyGone, Frame, PreLabels, OutLabels, EnqGuard, DeqGuard
  <2>19. CASE DummyFree(t)
    BY <1>0, <2>19 DEF DummyFree, Frame, PreLabels, OutLabels, EnqGuard, DeqGuard
  <2>20. CASE HasDummy(t)
    <3>1. 0 \in 0 .. NUM_DUMMIES
      BY Constants
    <3> QED BY <1>0, <2>20, <3>1 DEF HasDummy, Frame, PreLabels, OutLabels, EnqGuard, DeqGuard
  <2>21. CASE GetDummy(t)
    <3>1. dummy[t] \in Dummies => dummy[t] + 1 \in 0 .. NUM_DUMMIES
      BY Constants DEF Dummies
    <3> QED BY <1>0, <2>21, <3>1 DEF GetDummy, Frame, PreLabels, OutLabels, EnqGuard, DeqGuard
  <2>22. CASE DummyCas(t)
    <3>1. dummy[t] \in All
      BY <1>0, <2>22 DEF DummyCas, Frame, All
    <3> QED BY <1>0, <2>22, <3>1 DEF DummyCas, Frame, PreLabels, OutLabels, EnqGuard, DeqGuard
  <2> QED
    BY <2>1, <2>2, <2>3, <2>4, <2>5, <2>6, <2>7, <2>8, <2>9, <2>10, <2>11, <2>12, <2>13, <2>14,
       <2>15, <2>16, <2>17, <2>18, <2>19, <2>20, <2>21, <2>22
    DEF ThreadStep, Step, Enqueue, Dequeue
<1>91. ASSUME NEW u \in Threads, u # t PROVE Frame(u)'
  <2>1. Frame(u)
    BY DEF Frames
  <2> QED BY <1>0, <1>91, <2>1 DEF OthersStay, Frame
<1> QED BY <1>90, <1>91 DEF Frames

-----------------------------------------------------------------------------
(* One step, the list being l before it and l2 after it.                   *)
LEMMA StepKeeps ==
  ASSUME TypeOK, Frames, NEW l \in Seq(All), ListIs(l), NEW t \in Threads, ThreadStep(t),
         NEW l2 \in Seq(All), NEW S2, S2 = Members(l2), NEW h, h = head,
         IsChain(l2, head', next'),
         OnePlace(S2)', AwayLinks', TailKept(S2)', DummyKept(S2)', Local(t, S2)',
         \A n \in S2 : n \in Members(l) \/ ~Out(n),
         \A u \in Threads \ {t} : \A n \in All : Guards(u, n) /\ Out(n) => Out(n)',
         \A n \in Members(l) : n \in S2 \/ Out(n)',
         head' = h \/ (head' \in Members(l) /\ head' # h /\ Out(h)'),
         \A n \in Members(l) : next'[n] = next[n]
             \/ (next[n] = END_MARKER /\ next'[n] # END_MARKER),
         tail' = tail \/ (next[tail] # END_MARKER /\ tail' = next[tail]),
         \A u \in Threads \ {t} : Hand(u) # NULL => next'[Hand(u)] = next[Hand(u)]
  PROVE  TypeOK' /\ Frames' /\ ListIs(l2)'
<1>1. OthersStay(t)
  BY StepOfOne
<1>2. head' \in All /\ tail' \in All
  <2>1. S2 \subseteq All /\ head' \in S2
    BY ChainFacts
  <2>2. tail' \in S2
    BY DEF TailKept
  <2> QED BY <2>1, <2>2
<1>3. TypeOK' /\ Frames'
  BY <1>2, TypesKept, FramesKept
<1>4. ASSUME NEW u \in Threads, u # t PROVE Local(u, S2)'
  <2>1. /\ pc'[u] = pc[u] /\ node'[u] = node[u] /\ hp'[u] = hp[u]
        /\ tl'[u] = tl[u] /\ nx'[u] = nx[u] /\ dummy'[u] = dummy[u]
    BY <1>1, <1>4 DEF OthersStay
  <2>2. /\ \A n \in All : Guards(u, n) /\ Out(n) => Out(n)'
        /\ Hand(u) # NULL => next'[Hand(u)] = next[Hand(u)]
    BY <1>4
  <2> QED BY <2>1, <2>2, OthersKeep
<1>5. \A u \in Threads : Local(u, S2)'
  BY <1>4
<1>6. Accounted(S2)'
  BY <1>5 DEF Accounted
<1>7. ListIs(l2)'
  BY <1>6 DEF ListIs
<1> QED BY <1>3, <1>7

(* A step that moves no node.                                              *)
LEMMA StayingKeeps ==
  ASSUME TypeOK, Frames, NEW l \in Seq(All), ListIs(l), NEW t \in Threads, ThreadStep(t),
         UNCHANGED <<head, next, in_use, has_dummy, unused, retired>>,
         tail' = tail \/ (next[tail] # END_MARKER /\ tail' = next[tail]),
         pc[t] \notin OutLabels \cup {"dummy_cas"}, pc'[t] \notin OutLabels \cup {"dummy_cas"},
         pc[t] \in PreLabels <=> pc'[t] \in PreLabels,
         pc[t] \in PreLabels => node'[t] = node[t],
         pc'[t] \in EnqGuard => hp'[t] \in Members(l) \/ Out(hp'[t]),
         pc'[t] \in DeqGuard => hp'[t] = head \/ Out(hp'[t]),
         NEW S, S = Members(l), NextRead(t, S)', TailRead(t, S)'
  PROVE  TypeOK' /\ Frames' /\ ListIs(l)'
<1>1. /\ OthersStay(t) /\ IsChain(l, head, next) /\ OnePlace(S) /\ AwayLinks /\ TailKept(S)
      /\ DummyKept(S) /\ HandLink(t)
  BY StepOfOne DEF ListIs, Accounted, Local
<1>2. \A u \in Threads \ {t} : Hand(u)' = Hand(u)
  BY <1>1 DEF OthersStay, Hand
<1>3. Hand(t)' = Hand(t)
  BY DEF Hand
<1>4. Away' = Away /\ FreeDummies' = FreeDummies
  BY DEF Away, FreeDummies
<1>5. OnePlace(S)'
  <2>1. /\ S \cap Away' = {} /\ unused' \cap retired' = {} /\ retired' \cap FreeDummies' = {}
        /\ Hand(t)' # NULL => Hand(t)' \notin S \cup Away'
    BY <1>1, <1>3, <1>4 DEF OnePlace
  <2> QED BY <1>1, <1>2, <1>3, <1>4, <2>1, PlaceMove
<1>6. AwayLinks'
  BY <1>1, <1>4 DEF AwayLinks
<1>7. /\ tail \in S /\ \A n \in S : ~Out(n)
      /\ next[tail] # END_MARKER => next[tail] \in S /\ next[next[tail]] = END_MARKER
  BY ListFacts
<1>8. TailKept(S)'
  BY <1>1, <1>7 DEF TailKept
<1>9. ASSUME NEW d PROVE Token(d, S)' => Token(d, S)
  <2>1. \A u \in Threads \ {t} : Carries(u, d)' => Carries(u, d)
    BY <1>1 DEF OthersStay, Carries
  <2>2. Carries(t, d)' => Carries(t, d)
    BY DEF Carries, OutLabels
  <2> QED BY <2>1, <2>2 DEF Token
<1>10. DummyKept(S)'
  BY <1>1, <1>9 DEF DummyKept
<1>11. HandLink(t)'
  BY <1>1 DEF HandLink, OutLabels
<1>12. ASSUME NEW n, Out(n) PROVE Out(n)'
  <2>1. \A u \in Threads : pc[u] \in OutLabels /\ dummy[u] = n => u # t
    OBVIOUS
  <2> QED BY <1>1, <1>12, <2>1 DEF Out, OthersStay
<1>13. GuardKept(t, S)'
  <2>1. PICK p : p = hp'[t]
    OBVIOUS
  <2>2. /\ pc'[t] \in EnqGuard => p \in S \/ Out(p)'
        /\ pc'[t] \in DeqGuard => p = head \/ Out(p)'
    BY <1>12, <2>1
  <2> QED BY <2>1, <2>2 DEF GuardKept, Out
<1>14. Local(t, S)'
  BY <1>11, <1>13 DEF Local
<1> QED BY <1>1, <1>5, <1>6, <1>7, <1>8, <1>10, <1>12, <1>14, StepKeeps

-----------------------------------------------------------------------------
(* The steps that move no node.                                            *)

(* What thread t knows.                                                    *)
LEMMA Knows ==
  ASSUME TypeOK, Frames, NEW l \in Seq(All), ListIs(l), NEW t \in Threads, NEW S, S = Members(l)
  PROVE  /\ Frame(t) /\ HandLink(t) /\ GuardKept(t, S) /\ NextRead(t, S) /\ TailRead(t, S)
         /\ S \subseteq All /\ head \in S /\ tail \in S
         /\ \A x \in S : next[x] = END_MARKER \/ next[x] \in S
         /\ next[head] = END_MARKER => S = {head}
         /\ END_MARKER \notin All
BY ListFacts DEF ListIs, Accounted, Local, Frames

(* A step to a label where nothing is guarded.                             *)
LEMMA UnguardedKeeps ==
  ASSUME TypeOK, Frames, NEW l \in Seq(All), ListIs(l), NEW t \in Threads, ThreadStep(t),
         UNCHANGED <<head, next, in_use, has_dummy, unused, retired>>,
         tail' = tail \/ (next[tail] # END_MARKER /\ tail' = next[tail]),
         pc[t] \notin OutLabels \cup {"dummy_cas"},
         pc'[t] \notin OutLabels \cup {"dummy_cas"} \cup EnqGuard \cup DeqGuard,
         pc[t] \in PreLabels <=> pc'[t] \in PreLabels,
         pc[t] \in PreLabels => node'[t] = node[t]
  PROVE  TypeOK' /\ Frames' /\ ListIs(l)'
<1> DEFINE S == Members(l)
<1>1. NextRead(t, S)' /\ TailRead(t, S)'
  BY DEF NextRead, TailRead, EnqGuard, DeqGuard, NextLabels
<1> HIDE DEF S
<1> QED BY <1>1, StayingKeeps DEF S

(* Reading tail moves nothing but the hazard pointer, not checked yet.     *)
LEMMA TailGetKeeps ==
  ASSUME TypeOK, Frames, NEW l \in Seq(All), ListIs(l), NEW t \in Threads, TailGet(t)
  PROVE  TypeOK' /\ Frames' /\ ListIs(l)'
<1>1. ThreadStep(t)
  BY DEF ThreadStep, Step, Enqueue, Dequeue
<1>2. /\ UNCHANGED <<head, tail, next, in_use, has_dummy, unused, retired>>
      /\ pc[t] \notin OutLabels \cup {"dummy_cas"}
      /\ pc'[t] \notin OutLabels \cup {"dummy_cas"} \cup EnqGuard \cup DeqGuard
      /\ pc[t] \in PreLabels <=> pc'[t] \in PreLabels
      /\ pc[t] \in PreLabels => node'[t] = node[t]
  BY DEF TailGet, shared, locals, TypeOK, PreLabels, OutLabels, EnqGuard, DeqGuard
<1> QED BY <1>1, <1>2, UnguardedKeeps

(* tail has not changed: what it was is in the list, and guarded now.      *)
LEMMA TailCheckKeeps ==
  ASSUME TypeOK, Frames, NEW l \in Seq(All), ListIs(l), NEW t \in Threads, TailCheck(t)
  PROVE  TypeOK' /\ Frames' /\ ListIs(l)'
<1>1. ThreadStep(t)
  BY DEF ThreadStep, Step, Enqueue, Dequeue
<1>2. /\ UNCHANGED <<head, tail, next, in_use, has_dummy, unused, retired, node>>
      /\ pc[t] \notin OutLabels \cup {"dummy_cas"} /\ pc'[t] \notin OutLabels \cup {"dummy_cas"}
      /\ pc[t] \in PreLabels <=> pc'[t] \in PreLabels
  BY DEF TailCheck, shared, locals, TypeOK, PreLabels, OutLabels
<1> DEFINE S == Members(l)
<1>3. /\ Frame(t) /\ GuardKept(t, S) /\ NextRead(t, S) /\ TailRead(t, S)
      /\ S \subseteq All /\ head \in S /\ tail \in S
      /\ next[head] = END_MARKER => S = {head}
      /\ END_MARKER \notin All
  BY Knows
<1> HIDE DEF S
<1>4. /\ pc'[t] \in EnqGuard => hp'[t] \in S \/ Out(hp'[t])
      /\ pc'[t] \in DeqGuard => hp'[t] = head \/ Out(hp'[t])
  BY <1>2, <1>3 DEF TailCheck, TypeOK, GuardKept, EnqGuard, DeqGuard
<1>5. NextRead(t, S)'
  BY <1>2, <1>3 DEF TailCheck, TypeOK, NextRead, NextLabels
<1>6. TailRead(t, S)'
  BY <1>2, <1>3 DEF TailCheck, TypeOK, TailRead, EnqGuard, DeqGuard
<1> QED BY <1>1, <1>2, <1>4, <1>5, <1>6, StayingKeeps DEF S

(* What an enqueue reads of its tail's link is the link, as long as the    *)
(* node is in the list.                                                    *)
LEMMA TailNextKeeps ==
  ASSUME TypeOK, Frames, NEW l \in Seq(All), ListIs(l), NEW t \in Threads, TailNext(t)
  PROVE  TypeOK' /\ Frames' /\ ListIs(l)'
<1>1. ThreadStep(t)
  BY DEF ThreadStep, Step, Enqueue, Dequeue
<1>2. /\ UNCHANGED <<head, tail, next, in_use, has_dummy, unused, retired, node>>
      /\ pc[t] \notin OutLabels \cup {"dummy_cas"} /\ pc'[t] \notin OutLabels \cup {"dummy_cas"}
      /\ pc[t] \in PreLabels <=> pc'[t] \in PreLabels
  BY DEF TailNext, shared, locals, TypeOK, PreLabels, OutLabels
<1> DEFINE S == Members(l)
<1>3. /\ Frame(t) /\ GuardKept(t, S) /\ NextRead(t, S) /\ TailRead(t, S)
      /\ S \subseteq All /\ head \in S /\ tail \in S
      /\ next[head] = END_MARKER => S = {head}
      /\ END_MARKER \notin All
  BY Knows
<1> HIDE DEF S
<1>4. /\ pc'[t] \in EnqGuard => hp'[t] \in S \/ Out(hp'[t])
      /\ pc'[t] \in DeqGuard => hp'[t] = head \/ Out(hp'[t])
  BY <1>2, <1>3 DEF TailNext, TypeOK, GuardKept, EnqGuard, DeqGuard
<1>5. NextRead(t, S)'
  BY <1>2, <1>3 DEF TailNext, TypeOK, NextRead, NextLabels
<1>6. TailRead(t, S)'
  BY <1>2, <1>3 DEF TailNext, TypeOK, TailRead, EnqGuard, DeqGuard
<1> QED BY <1>1, <1>2, <1>4, <1>5, <1>6, StayingKeeps DEF S

(* The second look at tail: the enqueue believes its link, or starts       *)
(* again.                                                                  *)
LEMMA TailConsistentKeeps ==
  ASSUME TypeOK, Frames, NEW l \in Seq(All), ListIs(l), NEW t \in Threads, TailConsistent(t)
  PROVE  TypeOK' /\ Frames' /\ ListIs(l)'
<1>1. ThreadStep(t)
  BY DEF ThreadStep, Step, Enqueue, Dequeue
<1>2. /\ UNCHANGED <<head, tail, next, in_use, has_dummy, unused, retired, node>>
      /\ pc[t] \notin OutLabels \cup {"dummy_cas"} /\ pc'[t] \notin OutLabels \cup {"dummy_cas"}
      /\ pc[t] \in PreLabels <=> pc'[t] \in PreLabels
  BY DEF TailConsistent, shared, locals, TypeOK, PreLabels, OutLabels
<1> DEFINE S == Members(l)
<1>3. /\ Frame(t) /\ GuardKept(t, S) /\ NextRead(t, S) /\ TailRead(t, S)
      /\ S \subseteq All /\ head \in S /\ tail \in S
      /\ next[head] = END_MARKER => S = {head}
      /\ END_MARKER \notin All
  BY Knows
<1> HIDE DEF S
<1>4. /\ pc'[t] \in EnqGuard => hp'[t] \in S \/ Out(hp'[t])
      /\ pc'[t] \in DeqGuard => hp'[t] = head \/ Out(hp'[t])
  BY <1>2, <1>3 DEF TailConsistent, TypeOK, GuardKept, EnqGuard, DeqGuard
<1>5. NextRead(t, S)'
  BY <1>2, <1>3 DEF TailConsistent, TypeOK, NextRead, NextLabels
<1>6. TailRead(t, S)'
  BY <1>2, <1>3 DEF TailConsistent, TypeOK, TailRead, EnqGuard, DeqGuard
<1> QED BY <1>1, <1>2, <1>4, <1>5, <1>6, StayingKeeps DEF S

(* tail is moved on by another's enqueue only from the node whose link was *)
(* read.                                                                   *)
LEMMA TailHelpKeeps ==
  ASSUME TypeOK, Frames, NEW l \in Seq(All), ListIs(l), NEW t \in Threads, TailHelp(t)
  PROVE  TypeOK' /\ Frames' /\ ListIs(l)'
<1>1. ThreadStep(t)
  BY DEF ThreadStep, Step, Enqueue, Dequeue
<1>2. /\ UNCHANGED <<head, next, in_use, has_dummy, unused, retired>>
      /\ pc[t] \notin OutLabels \cup {"dummy_cas"}
      /\ pc'[t] \notin OutLabels \cup {"dummy_cas"} \cup EnqGuard \cup DeqGuard
      /\ pc[t] \in PreLabels <=> pc'[t] \in PreLabels
      /\ pc[t] \in PreLabels => node'[t] = node[t]
  BY Constants DEF TailHelp, TypeOK, PreLabels, OutLabels, EnqGuard, DeqGuard
<1>3. tail' = tail \/ (next[tail] # END_MARKER /\ tail' = next[tail])
  BY Knows DEF TailHelp, SwingTail, NextRead, Frame, NextLabels
<1> QED BY <1>1, <1>2, <1>3, UnguardedKeeps

(* The enqueue moves tail to the node that it has linked, if no other has. *)
LEMMA SwingKeeps ==
  ASSUME TypeOK, Frames, NEW l \in Seq(All), ListIs(l), NEW t \in Threads, Swing(t)
  PROVE  TypeOK' /\ Frames' /\ ListIs(l)'
<1>1. ThreadStep(t)
  BY DEF ThreadStep, Step, Enqueue, Dequeue
<1>2. /\ UNCHANGED <<head, next, in_use, has_dummy, unused, retired>>
      /\ pc[t] \notin OutLabels \cup {"dummy_cas"}
      /\ pc'[t] \notin OutLabels \cup {"dummy_cas"} \cup EnqGuard \cup DeqGuard
      /\ pc[t] \in PreLabels <=> pc'[t] \in PreLabels
      /\ pc[t] \in PreLabels => node'[t] = node[t]
  BY Constants DEF Swing, TypeOK, PreLabels, OutLabels, EnqGuard, DeqGuard
<1>3. tail' = tail \/ (next[tail] # END_MARKER /\ tail' = next[tail])
  BY Knows DEF Swing, SwingTail, NextRead, Frame, NextLabels
<1> QED BY <1>1, <1>2, <1>3, UnguardedKeeps

(* A dequeue that begins holds nothing.                                    *)
LEMMA DequeueBeginKeeps ==
  ASSUME TypeOK, Frames, NEW l \in Seq(All), ListIs(l), NEW t \in Threads, DequeueBegin(t)
  PROVE  TypeOK' /\ Frames' /\ ListIs(l)'
<1>1. ThreadStep(t)
  BY DEF ThreadStep, Step, Enqueue, Dequeue
<1>2. /\ UNCHANGED <<head, tail, next, in_use, has_dummy, unused, retired>>
      /\ pc[t] \notin OutLabels \cup {"dummy_cas"}
      /\ pc'[t] \notin OutLabels \cup {"dummy_cas"} \cup EnqGuard \cup DeqGuard
      /\ pc[t] \in PreLabels <=> pc'[t] \in PreLabels
      /\ pc[t] \in PreLabels => node'[t] = node[t]
  BY DEF DequeueBegin, shared, locals, TypeOK, PreLabels, OutLabels, EnqGuard, DeqGuard
<1> QED BY <1>1, <1>2, UnguardedKeeps

(* Reading head moves nothing but the hazard pointer, not checked yet.     *)
LEMMA HeadGetKeeps ==
  ASSUME TypeOK, Frames, NEW l \in Seq(All), ListIs(l), NEW t \in Threads, HeadGet(t)
  PROVE  TypeOK' /\ Frames' /\ ListIs(l)'
<1>1. ThreadStep(t)
  BY DEF ThreadStep, Step, Enqueue, Dequeue
<1>2. /\ UNCHANGED <<head, tail, next, in_use, has_dummy, unused, retired>>
      /\ pc[t] \notin OutLabels \cup {"dummy_cas"}
      /\ pc'[t] \notin OutLabels \cup {"dummy_cas"} \cup EnqGuard \cup DeqGuard
      /\ pc[t] \in PreLabels <=> pc'[t] \in PreLabels
      /\ pc[t] \in PreLabels => node'[t] = node[t]
  BY DEF HeadGet, shared, locals, TypeOK, PreLabels, OutLabels, EnqGuard, DeqGuard
<1> QED BY <1>1, <1>2, UnguardedKeeps

(* head has not changed: what it was is the first node, and guarded now.   *)
LEMMA HeadCheckKeeps ==
  ASSUME TypeOK, Frames, NEW l \in Seq(All), ListIs(l), NEW t \in Threads, HeadCheck(t)
  PROVE  TypeOK' /\ Frames' /\ ListIs(l)'
<1>1. ThreadStep(t)
  BY DEF ThreadStep, Step, Enqueue, Dequeue
<1>2. /\ UNCHANGED <<head, tail, next, in_use, has_dummy, unused, retired, node>>
      /\ pc[t] \notin OutLabels \cup {"dummy_cas"} /\ pc'[t] \notin OutLabels \cup {"dummy_cas"}
      /\ pc[t] \in PreLabels <=> pc'[t] \in PreLabels
  BY DEF HeadCheck, shared, locals, TypeOK, PreLabels, OutLabels
<1> DEFINE S == Members(l)
<1>3. /\ Frame(t) /\ GuardKept(t, S) /\ NextRead(t, S) /\ TailRead(t, S)
      /\ S \subseteq All /\ head \in S /\ tail \in S
      /\ next[head] = END_MARKER => S = {head}
      /\ END_MARKER \notin All
  BY Knows
<1> HIDE DEF S
<1>4. /\ pc'[t] \in EnqGuard => hp'[t] \in S \/ Out(hp'[t])
      /\ pc'[t] \in DeqGuard => hp'[t] = head \/ Out(hp'[t])
  BY <1>2, <1>3 DEF HeadCheck, TypeOK, GuardKept, EnqGuard, DeqGuard
<1>5. NextRead(t, S)'
  BY <1>2, <1>3 DEF HeadCheck, TypeOK, NextRead, NextLabels
<1>6. TailRead(t, S)'
  BY <1>2, <1>3 DEF HeadCheck, TypeOK, TailRead, EnqGuard, DeqGuard
<1> QED BY <1>1, <1>2, <1>4, <1>5, <1>6, StayingKeeps DEF S

(* When tail is not the guarded head, it cannot become it again.           *)
LEMMA HeadTailKeeps ==
  ASSUME TypeOK, Frames, NEW l \in Seq(All), ListIs(l), NEW t \in Threads, HeadTail(t)
  PROVE  TypeOK' /\ Frames' /\ ListIs(l)'
<1>1. ThreadStep(t)
  BY DEF ThreadStep, Step, Enqueue, Dequeue
<1>2. /\ UNCHANGED <<head, tail, next, in_use, has_dummy, unused, retired, node>>
      /\ pc[t] \notin OutLabels \cup {"dummy_cas"} /\ pc'[t] \notin OutLabels \cup {"dummy_cas"}
      /\ pc[t] \in PreLabels <=> pc'[t] \in PreLabels
  BY DEF HeadTail, shared, locals, TypeOK, PreLabels, OutLabels
<1> DEFINE S == Members(l)
<1>3. /\ Frame(t) /\ GuardKept(t, S) /\ NextRead(t, S) /\ TailRead(t, S)
      /\ S \subseteq All /\ head \in S /\ tail \in S
      /\ next[head] = END_MARKER => S = {head}
      /\ END_MARKER \notin All
  BY Knows
<1> HIDE DEF S
<1>4. /\ pc'[t] \in EnqGuard => hp'[t] \in S \/ Out(hp'[t])
      /\ pc'[t] \in DeqGuard => hp'[t] = head \/ Out(hp'[t])
  BY <1>2, <1>3 DEF HeadTail, TypeOK, GuardKept, EnqGuard, DeqGuard
<1>5. NextRead(t, S)'
  BY <1>2, <1>3 DEF HeadTail, TypeOK, NextRead, NextLabels
<1>6. TailRead(t, S)'
  BY <1>2, <1>3 DEF HeadTail, TypeOK, TailRead, EnqGuard, DeqGuard
<1> QED BY <1>1, <1>2, <1>4, <1>5, <1>6, StayingKeeps DEF S

(* What a dequeue reads of its head's link is the link, as long as the     *)
(* node is in the list.                                                    *)
LEMMA HeadNextKeeps ==
  ASSUME TypeOK, Frames, NEW l \in Seq(All), ListIs(l), NEW t \in Threads, HeadNext(t)
  PROVE  TypeOK' /\ Frames' /\ ListIs(l)'
<1>1. ThreadStep(t)
  BY DEF ThreadStep, Step, Enqueue, Dequeue
<1>2. /\ UNCHANGED <<head, tail, next, in_use, has_dummy, unused, retired, node>>
      /\ pc[t] \notin OutLabels \cup {"dummy_cas"} /\ pc'[t] \notin OutLabels \cup {"dummy_cas"}
      /\ pc[t] \in PreLabels <=> pc'[t] \in PreLabels
  BY DEF HeadNext, shared, locals, TypeOK, PreLabels, OutLabels
<1> DEFINE S == Members(l)
<1>3. /\ Frame(t) /\ GuardKept(t, S) /\ NextRead(t, S) /\ TailRead(t, S)
      /\ S \subseteq All /\ head \in S /\ tail \in S
      /\ next[head] = END_MARKER => S = {head}
      /\ END_MARKER \notin All
  BY Knows
<1> HIDE DEF S
<1>4. /\ pc'[t] \in EnqGuard => hp'[t] \in S \/ Out(hp'[t])
      /\ pc'[t] \in DeqGuard => hp'[t] = head \/ Out(hp'[t])
  BY <1>2, <1>3 DEF HeadNext, TypeOK, GuardKept, EnqGuard, DeqGuard
<1>5. NextRead(t, S)'
  BY <1>2, <1>3 DEF HeadNext, TypeOK, NextRead, NextLabels
<1>6. TailRead(t, S)'
  BY <1>2, <1>3 DEF HeadNext, TypeOK, TailRead, EnqGuard, DeqGuard
<1> QED BY <1>1, <1>2, <1>4, <1>5, <1>6, StayingKeeps DEF S

(* The second look at head: the dequeue believes what it read, or starts   *)
(* again.                                                                  *)
LEMMA HeadConsistentKeeps ==
  ASSUME TypeOK, Frames, NEW l \in Seq(All), ListIs(l), NEW t \in Threads, HeadConsistent(t)
  PROVE  TypeOK' /\ Frames' /\ ListIs(l)'
<1>1. ThreadStep(t)
  BY DEF ThreadStep, Step, Enqueue, Dequeue
<1>2. /\ UNCHANGED <<head, tail, next, in_use, has_dummy, unused, retired, node>>
      /\ pc[t] \notin OutLabels \cup {"dummy_cas"} /\ pc'[t] \notin OutLabels \cup {"dummy_cas"}
      /\ pc[t] \in PreLabels <=> pc'[t] \in PreLabels
  BY DEF HeadConsistent, shared, locals, TypeOK, PreLabels, OutLabels
<1> DEFINE S == Members(l)
<1>3. /\ Frame(t) /\ GuardKept(t, S) /\ NextRead(t, S) /\ TailRead(t, S)
      /\ S \subseteq All /\ head \in S /\ tail \in S
      /\ next[head] = END_MARKER => S = {head}
      /\ END_MARKER \notin All
  BY Knows
<1> HIDE DEF S
<1>4. /\ pc'[t] \in EnqGuard => hp'[t] \in S \/ Out(hp'[t])
      /\ pc'[t] \in DeqGuard => hp'[t] = head \/ Out(hp'[t])
  BY <1>2, <1>3 DEF HeadConsistent, TypeOK, GuardKept, EnqGuard, DeqGuard
<1>5. NextRead(t, S)'
  BY <1>2, <1>3 DEF HeadConsistent, TypeOK, NextRead, TailRead, NextLabels
<1>6. TailRead(t, S)'
  BY <1>2, <1>3 DEF HeadConsistent, TypeOK, TailRead, EnqGuard, DeqGuard
<1> QED BY <1>1, <1>2, <1>4, <1>5, <1>6, StayingKeeps DEF S

(* A dequeue moves tail on only from the node whose link it has read.      *)
LEMMA HeadHelpKeeps ==
  ASSUME TypeOK, Frames, NEW l \in Seq(All), ListIs(l), NEW t \in Threads, HeadHelp(t)
  PROVE  TypeOK' /\ Frames' /\ ListIs(l)'
<1>1. ThreadStep(t)
  BY DEF ThreadStep, Step, Enqueue, Dequeue
<1>2. /\ UNCHANGED <<head, next, in_use, has_dummy, unused, retired>>
      /\ pc[t] \notin OutLabels \cup {"dummy_cas"}
      /\ pc'[t] \notin OutLabels \cup {"dummy_cas"} \cup EnqGuard \cup DeqGuard
      /\ pc[t] \in PreLabels <=> pc'[t] \in PreLabels
      /\ pc[t] \in PreLabels => node'[t] = node[t]
  BY Constants DEF HeadHelp, TypeOK, PreLabels, OutLabels, EnqGuard, DeqGuard
<1>3. tail' = tail \/ (next[tail] # END_MARKER /\ tail' = next[tail])
  BY Knows DEF HeadHelp, SwingTail, NextRead, Frame, NextLabels
<1> QED BY <1>1, <1>2, <1>3, UnguardedKeeps

(* The only node is a dummy or no dummy is in the list: the dequeue ends   *)
(* or looks for one.                                                       *)
LEMMA HasDummyKeeps ==
  ASSUME TypeOK, Frames, NEW l \in Seq(All), ListIs(l), NEW t \in Threads, HasDummy(t)
  PROVE  TypeOK' /\ Frames' /\ ListIs(l)'
<1>1. ThreadStep(t)
  BY DEF ThreadStep, Step, Enqueue, Dequeue
<1>2. /\ UNCHANGED <<head, tail, next, in_use, has_dummy, unused, retired>>
      /\ pc[t] \notin OutLabels \cup {"dummy_cas"}
      /\ pc'[t] \notin OutLabels \cup {"dummy_cas"} \cup EnqGuard \cup DeqGuard
      /\ pc[t] \in PreLabels <=> pc'[t] \in PreLabels
      /\ pc[t] \in PreLabels => node'[t] = node[t]
  BY DEF HasDummy, shared, locals, TypeOK, PreLabels, OutLabels, EnqGuard, DeqGuard
<1> QED BY <1>1, <1>2, UnguardedKeeps

-----------------------------------------------------------------------------
(* enqueue takes a node and links it.                                      *)

(* What a thread has in its hands is a node.                               *)
LEMMA HandsHold ==
  ASSUME Frames, NEW u \in Threads, Hand(u) # NULL
  PROVE  Hand(u) \in All
BY DEF Hand, Frames, Frame, PreLabels, OutLabels, All

(* The node of a new enqueue leaves those that are unused.                 *)
LEMMA EnqueueBeginKeeps ==
  ASSUME TypeOK, Frames, NEW l \in Seq(All), ListIs(l), NEW t \in Threads, EnqueueBegin(t)
  PROVE  TypeOK' /\ Frames' /\ ListIs(l)'
<1> DEFINE S == Members(l)
<1>1. ThreadStep(t) /\ OthersStay(t)
  BY StepOfOne DEF ThreadStep
<1>2. /\ IsChain(l, head, next) /\ OnePlace(S) /\ AwayLinks /\ TailKept(S) /\ DummyKept(S)
      /\ Frame(t) /\ S \subseteq All /\ tail \in S
      /\ \A n \in S : ~Out(n)
      /\ next[tail] # END_MARKER => next[tail] \in S
      /\ END_MARKER \notin All /\ \A n \in All : n # NULL
  BY ListFacts DEF ListIs, Accounted, Frames
<1>3. PICK x \in unused : /\ unused' = unused \ {x} /\ node' = [node EXCEPT ![t] = x]
                          /\ next' = [next EXCEPT ![x] = END_MARKER]
  BY DEF EnqueueBegin
<1>4. /\ pc[t] = "idle" /\ pc'[t] = "enq_get" /\ node'[t] = x /\ x \in Nodes /\ x \in All
      /\ UNCHANGED <<head, tail, in_use, has_dummy, retired>> /\ dummy' = dummy
      /\ next'[x] = END_MARKER /\ \A n \in All : n # x => next'[n] = next[n]
  BY <1>3 DEF EnqueueBegin, TypeOK, All
<1> HIDE DEF S
<1>5. /\ x \notin S /\ x \notin retired /\ x \notin Dummies
      /\ \A u \in Threads : Hand(u) # x
      /\ \A n : Out(n) => Out(n)'
  <2>1. ASSUME NEW n, Out(n) PROVE Out(n)'
    BY <1>1, <1>4, <2>1 DEF Out, OthersStay, OutLabels
  <2> QED BY <1>2, <1>4, <2>1, Constants DEF OnePlace, Away
<1>6. /\ Hand(t) = NULL /\ Hand(t)' = x
      /\ \A u \in Threads \ {t} : Hand(u)' = Hand(u)
  BY <1>1, <1>4 DEF Hand, OthersStay, PreLabels, OutLabels
<1>7. FreeDummies' = FreeDummies /\ Away' = Away \ {x}
  BY <1>3, <1>4, <1>5 DEF Away, FreeDummies
<1>8. OnePlace(S)'
  <2>1. S \cap Away' = {} /\ unused' \cap retired' = {} /\ retired' \cap FreeDummies' = {}
    BY <1>2, <1>3, <1>4, <1>7 DEF OnePlace
  <2> QED BY <1>2, <1>3, <1>5, <1>6, <1>7, <2>1, PlaceMove DEF Away
<1>9. AwayLinks'
  <2>1. \A n \in unused' \cup retired' : n \in All /\ n # x /\ n \in unused \cup retired
    BY <1>3, <1>4, <1>5 DEF TypeOK, All
  <2>2. \A n \in FreeDummies : n \in All /\ n # x
    BY <1>5 DEF FreeDummies, All
  <2> QED BY <1>2, <1>4, <1>7, <2>1, <2>2 DEF AwayLinks
<1>10. \A n \in S : next'[n] = next[n]
  BY <1>2, <1>4, <1>5
<1>11. IsChain(l, head', next')
  BY <1>2, <1>4, <1>10, ChainSame DEF S
<1>12. TailKept(S)'
  BY <1>2, <1>4, <1>10 DEF TailKept
<1>13. DummyKept(S)'
  <2>1. ASSUME NEW d \in Dummies PROVE Token(d, S)' => Token(d, S)
    BY <1>1, <1>4, <1>5 DEF Token, Carries, OthersStay, PreLabels
  <2> QED BY <1>2, <1>4, <2>1 DEF DummyKept
<1>14. Local(t, S)'
  BY <1>4 DEF Local, HandLink, GuardKept, NextRead, TailRead, EnqGuard, DeqGuard, NextLabels,
     PreLabels, OutLabels
<1>15. \A u \in Threads : Hand(u) # NULL => next'[Hand(u)] = next[Hand(u)]
  BY <1>4, <1>5, HandsHold
<1> QED
  BY <1>1, <1>2, <1>4, <1>5, <1>8, <1>9, <1>10, <1>11, <1>12, <1>13, <1>14, <1>15, StepKeeps DEF S

(* The CAS of the last link puts the node at the end of the list, or       *)
(* changes nothing.                                                        *)
LEMMA LinkKeeps ==
  ASSUME TypeOK, Frames, NEW l \in Seq(All), ListIs(l), NEW t \in Threads, Link(t),
         NEW y, y = node[t]
  PROVE  /\ TypeOK' /\ Frames'
         /\ IF next[hp[t]] = END_MARKER
              THEN y \in All /\ Append(l, y) \in Seq(All) /\ ListIs(Append(l, y))'
              ELSE ListIs(l)'
<1>1. ThreadStep(t) /\ OthersStay(t)
  BY StepOfOne DEF ThreadStep, Step, Enqueue
<1>2. CASE next[hp[t]] # END_MARKER
  <2>1. /\ UNCHANGED <<head, tail, next, in_use, has_dummy, unused, retired>>
        /\ pc[t] \notin OutLabels \cup {"dummy_cas"}
        /\ pc'[t] \notin OutLabels \cup {"dummy_cas"} \cup EnqGuard \cup DeqGuard
        /\ pc[t] \in PreLabels <=> pc'[t] \in PreLabels
        /\ pc[t] \in PreLabels => node'[t] = node[t]
    BY <1>2 DEF Link, TypeOK, PreLabels, OutLabels, EnqGuard, DeqGuard
  <2> QED BY <1>1, <1>2, <2>1, UnguardedKeeps
<1>3. CASE next[hp[t]] = END_MARKER
  <2> DEFINE S == Members(l)
             S2 == S \cup {y}
  <2>1. /\ IsChain(l, head, next) /\ OnePlace(S) /\ AwayLinks /\ TailKept(S) /\ DummyKept(S)
        /\ Frame(t) /\ HandLink(t) /\ GuardKept(t, S) /\ TailRead(t, S)
        /\ S \subseteq All /\ tail \in S
        /\ \A n \in S : ~Out(n)
        /\ END_MARKER \notin All /\ \A n \in All : n # NULL
    BY ListFacts DEF ListIs, Accounted, Frames, Local
  <2>2. PICK x : x = hp[t]
    OBVIOUS
  <2>3. /\ pc[t] = "enq_cas" /\ pc'[t] = "enq_swing" /\ node' = node /\ hp' = hp /\ dummy' = dummy
        /\ UNCHANGED <<head, tail, in_use, has_dummy, retired, unused>>
        /\ x \in All /\ y \in All /\ next[x] = END_MARKER /\ next[y] = END_MARKER
        /\ next'[x] = y /\ \A n \in All : n # x => next'[n] = next[n]
    BY <1>3, <2>1, <2>2 DEF Link, TypeOK, Frame, HandLink, PreLabels, EnqGuard
  <2> HIDE DEF S
  <2>4. Hand(t) = y /\ Hand(t)' = NULL /\ \A u \in Threads \ {t} : Hand(u)' = Hand(u)
    BY <1>1, <2>3 DEF Hand, OthersStay, PreLabels, OutLabels
  <2>5. y \notin S /\ y \notin Away
    BY <2>1, <2>3, <2>4 DEF OnePlace
  <2>6. x \in S
    <3>1. ASSUME Out(x) PROVE FALSE
      <4>1. CASE x \in retired
        BY <2>1, <2>3, <4>1, Constants DEF AwayLinks
      <4>2. CASE \E u \in Threads : pc[u] \in OutLabels /\ dummy[u] = x
        <5>1. PICK u \in Threads : pc[u] \in OutLabels /\ dummy[u] = x
          BY <4>2
        <5>2. HandLink(u)
          BY DEF ListIs, Accounted, Local
        <5> QED BY <2>1, <2>3, <5>1, <5>2, Constants DEF HandLink, OutLabels
      <4> QED BY <3>1, <4>1, <4>2 DEF Out
    <3> QED BY <2>1, <2>2, <2>3, <3>1 DEF GuardKept, EnqGuard
  <2>7. tail = x
    BY <2>1, <2>2, <2>3, <2>6 DEF TailRead, EnqGuard
  <2>8. IsChain(Append(l, y), head', next') /\ Members(Append(l, y)) = S2
    BY <2>1, <2>3, <2>5, <2>6, ChainAppend DEF S
  <2>9. Append(l, y) \in Seq(All)
    BY <2>3
  <2>10. FreeDummies' = FreeDummies /\ Away' = Away
    BY <2>3 DEF Away, FreeDummies
  <2>11. OnePlace(S2)'
    <3>1. S2 \cap Away' = {} /\ unused' \cap retired' = {} /\ retired' \cap FreeDummies' = {}
      BY <2>1, <2>3, <2>5, <2>10 DEF OnePlace
    <3> QED BY <2>1, <2>3, <2>4, <2>10, <3>1, PlaceMove
  <2>12. AwayLinks'
    <3>1. \A n \in unused \cup retired \cup FreeDummies : n \in All /\ n # x
      BY <2>1, <2>6 DEF OnePlace, Away, TypeOK, All, FreeDummies
    <3> QED BY <2>1, <2>3, <2>10, <3>1 DEF AwayLinks
  <2>13. TailKept(S2)'
    BY <2>3, <2>5, <2>6, <2>7 DEF TailKept
  <2>14. DummyKept(S2)'
    <3>1. ASSUME NEW d \in Dummies PROVE Token(d, S2)' => Token(d, S)
      BY <1>1, <2>3 DEF Token, Carries, OthersStay, PreLabels
    <3> QED BY <2>1, <2>3, <3>1 DEF DummyKept
  <2>15. Local(t, S2)'
    BY <2>1, <2>2, <2>3, <2>6 DEF Local, HandLink, GuardKept, NextRead, TailRead, EnqGuard,
        DeqGuard,
       NextLabels, PreLabels, OutLabels
  <2>16. ~Out(y) /\ \A n : Out(n) => Out(n)'
    <3>1. ASSUME Out(y) PROVE FALSE
      <4>1. PICK u \in Threads : pc[u] \in OutLabels /\ dummy[u] = y
        BY <2>5, <3>1 DEF Out, Away
      <4>2. Hand(u) = y /\ u # t
        BY <2>3, <4>1 DEF Hand, PreLabels, OutLabels
      <4> QED BY <2>1, <2>3, <2>4, <4>2 DEF OnePlace
    <3>2. ASSUME NEW n, Out(n) PROVE Out(n)'
      BY <1>1, <2>3, <3>2 DEF Out, OthersStay, OutLabels
    <3> QED BY <3>1, <3>2
  <2>17. \A u \in Threads : Hand(u) # NULL => next'[Hand(u)] = next[Hand(u)]
    <3>1. \A u \in Threads : Hand(u) # NULL => Hand(u) # x
      BY <2>1, <2>6 DEF OnePlace
    <3> QED BY <2>3, <3>1, HandsHold
  <2>18. /\ \A n \in S2 : n \in S \/ ~Out(n)
         /\ \A n \in S : n \in S2 \/ Out(n)'
         /\ \A n \in S : next'[n] = next[n] \/ (next[n] = END_MARKER /\ next'[n] # END_MARKER)
    BY <2>1, <2>3, <2>16
  <2> HIDE DEF S2
  <2>19. PICK l2 \in Seq(All) : l2 = Append(l, y)
    BY <2>9
  <2>20. TypeOK' /\ Frames' /\ ListIs(l2)'
    BY <1>1, <2>3, <2>8, <2>11, <2>12, <2>13, <2>14, <2>15, <2>16, <2>17, <2>18, <2>19,
       StepKeeps DEF S
  <2> QED BY <1>3, <2>3, <2>9, <2>19, <2>20
<1> QED BY <1>2, <1>3

-----------------------------------------------------------------------------
(* dequeue takes the first node.                                           *)

(* The CAS of head takes the first node out of the list, or changes        *)
(* nothing.                                                                *)
LEMMA UnlinkKeeps ==
  ASSUME TypeOK, Frames, NEW l \in Seq(All), ListIs(l), NEW t \in Threads, Unlink(t)
  PROVE  /\ TypeOK' /\ Frames'
         /\ IF head = hp[t] THEN Tail(l) \in Seq(All) /\ ListIs(Tail(l))' ELSE ListIs(l)'
<1>1. ThreadStep(t) /\ OthersStay(t)
  BY StepOfOne DEF ThreadStep, Step, Dequeue
<1>2. CASE head # hp[t]
  <2>1. /\ UNCHANGED <<head, tail, next, in_use, has_dummy, unused, retired>>
        /\ pc[t] \notin OutLabels \cup {"dummy_cas"}
        /\ pc'[t] \notin OutLabels \cup {"dummy_cas"} \cup EnqGuard \cup DeqGuard
        /\ pc[t] \in PreLabels <=> pc'[t] \in PreLabels
        /\ pc[t] \in PreLabels => node'[t] = node[t]
    BY <1>2 DEF Unlink, TypeOK, PreLabels, OutLabels, EnqGuard, DeqGuard
  <2> QED BY <1>1, <1>2, <2>1, UnguardedKeeps
<1>3. CASE head = hp[t]
  <2> DEFINE S == Members(l)
  <2>1. PICK h : h = head
    OBVIOUS
  <2> DEFINE S2 == S \ {h}
  <2>2. /\ IsChain(l, head, next) /\ OnePlace(S) /\ AwayLinks /\ TailKept(S) /\ DummyKept(S)
        /\ Frame(t) /\ HandLink(t) /\ NextRead(t, S) /\ TailRead(t, S)
        /\ S \subseteq All /\ head \in S /\ tail \in S
        /\ \A x \in S : next[x] = END_MARKER \/ next[x] \in S
        /\ \A x \in S : next[x] # x /\ next[x] # head
        /\ \A n \in S : ~Out(n)
        /\ END_MARKER \notin All /\ \A n \in All : n # NULL
    BY ListFacts DEF ListIs, Accounted, Frames, Local
  <2>3. /\ pc[t] = "deq_cas" /\ pc'[t] = "deq_taken" /\ node' = node
        /\ head' = nx[t] /\ dummy'[t] = h
        /\ UNCHANGED <<tail, next, in_use, has_dummy, retired, unused>>
    BY <1>3, <2>1 DEF Unlink, TypeOK
  <2> HIDE DEF S
  <2>4. /\ h \in S /\ nx[t] = next[h] /\ next[h] \in S /\ next[h] # END_MARKER /\ next[h] # h
        /\ tail # h
    BY <1>3, <2>1, <2>2, <2>3 DEF NextRead, TailRead, NextLabels
  <2>5. /\ Hand(t) = NULL /\ Hand(t)' = h /\ \A u \in Threads \ {t} : Hand(u)' = Hand(u)
    BY <1>1, <2>3 DEF Hand, OthersStay, PreLabels, OutLabels
  <2>6. IsChain(Tail(l), head', next') /\ Members(Tail(l)) = S2
    <3>1. IsChain(l, h, next)
      BY <2>1, <2>2
    <3>2. IsChain(Tail(l), next[h], next) /\ Members(Tail(l)) = S2
      BY <2>4, <3>1, ChainTail DEF S
    <3> QED BY <2>3, <2>4, <3>2
  <2>7. Tail(l) \in Seq(All)
    BY <2>6 DEF IsChain
  <2>8. FreeDummies' = FreeDummies /\ Away' = Away
    BY <2>3 DEF Away, FreeDummies
  <2>9. OnePlace(S2)'
    <3>1. S2 \cap Away' = {} /\ unused' \cap retired' = {} /\ retired' \cap FreeDummies' = {}
      BY <2>2, <2>3, <2>8 DEF OnePlace
    <3>2. h \notin S2 \cup Away
      BY <2>2, <2>4 DEF OnePlace
    <3> QED BY <2>2, <2>3, <2>4, <2>5, <2>8, <3>1, <3>2, PlaceMove
  <2>10. AwayLinks'
    BY <2>2, <2>3, <2>8 DEF AwayLinks
  <2>11. TailKept(S2)'
    BY <2>2, <2>3, <2>4 DEF TailKept
  <2>12. DummyKept(S2)'
    <3>1. ASSUME NEW d \in Dummies PROVE Token(d, S2)' => Token(d, S)
      BY <1>1, <2>3, <2>4 DEF Token, Carries, OthersStay, PreLabels
    <3> QED BY <2>2, <2>3, <3>1 DEF DummyKept
  <2>13. Local(t, S2)'
    BY <2>2, <2>3, <2>4 DEF Local, HandLink, GuardKept, NextRead, TailRead, EnqGuard, DeqGuard,
       NextLabels, PreLabels, OutLabels
  <2>14. Out(h)' /\ \A n : Out(n) => Out(n)'
    <3>1. Out(h)'
      BY <2>3 DEF Out, OutLabels
    <3>2. ASSUME NEW n, Out(n) PROVE Out(n)'
      BY <1>1, <2>3, <3>2 DEF Out, OthersStay, OutLabels
    <3> QED BY <3>1, <3>2
  <2>15. /\ \A n \in S : n \in S2 \/ Out(n)'
         /\ \A u \in Threads : Hand(u) # NULL => next'[Hand(u)] = next[Hand(u)]
    BY <2>3, <2>14
  <2> HIDE DEF S2
  <2>16. \A n \in S2 : n \in S
    BY DEF S2
  <2>17. PICK l2 \in Seq(All) : l2 = Tail(l)
    BY <2>7
  <2>18. TypeOK' /\ Frames' /\ ListIs(l2)'
    BY <1>1, <2>1, <2>3, <2>4, <2>6, <2>9, <2>10, <2>11, <2>12, <2>13, <2>14, <2>15, <2>16, <2>17,
       StepKeeps DEF S
  <2> QED BY <1>3, <2>7, <2>17, <2>18
<1> QED BY <1>2, <1>3

(* A node that was dequeued is retired; a dummy has to be freed and        *)
(* enqueued again.                                                         *)
LEMMA TakenKeeps ==
  ASSUME TypeOK, Frames, NEW l \in Seq(All), ListIs(l), NEW t \in Threads, Taken(t)
  PROVE  TypeOK' /\ Frames' /\ ListIs(l)'
<1> DEFINE S == Members(l)
<1>1. ThreadStep(t) /\ OthersStay(t)
  BY StepOfOne DEF ThreadStep, Step, Dequeue
<1>2. /\ IsChain(l, head, next) /\ OnePlace(S) /\ AwayLinks /\ TailKept(S) /\ DummyKept(S)
      /\ Frame(t) /\ S \subseteq All /\ tail \in S
      /\ \A n \in S : ~Out(n)
      /\ next[tail] # END_MARKER => next[tail] \in S
      /\ END_MARKER \notin All /\ \A n \in All : n # NULL
  BY ListFacts DEF ListIs, Accounted, Frames
<1>3. PICK x : x = dummy[t]
  OBVIOUS
<1>4. /\ pc[t] = "deq_taken" /\ node' = node /\ x \in All
      /\ UNCHANGED <<head, tail, in_use, has_dummy, unused>>
      /\ next'[x] = INVALID_NEXT /\ \A n \in All : n # x => next'[n] = next[n]
      /\ IF x \in Dummies
           THEN pc'[t] = "dummy_gone" /\ dummy' = dummy /\ retired' = retired
           ELSE pc'[t] = "idle" /\ retired' = retired \cup {x}
  BY <1>2, <1>3 DEF Taken, TypeOK, Frame
<1> HIDE DEF S
<1>5. /\ Hand(t) = x /\ x # NULL /\ Hand(t)' = IF x \in Dummies THEN x ELSE NULL
      /\ \A u \in Threads \ {t} : Hand(u)' = Hand(u)
  BY <1>1, <1>2, <1>3, <1>4 DEF Hand, OthersStay, PreLabels, OutLabels
<1>6. x \notin S /\ x \notin Away /\ \A u \in Threads \ {t} : Hand(u) # x
  BY <1>2, <1>5 DEF OnePlace
<1>7. /\ FreeDummies' = FreeDummies /\ FreeDummies \subseteq Dummies
      /\ Away' = IF x \in Dummies THEN Away ELSE Away \cup {x}
  BY <1>4 DEF Away, FreeDummies
<1>8. OnePlace(S)'
  <2>1. S \cap Away' = {} /\ unused' \cap retired' = {} /\ retired' \cap FreeDummies' = {}
    BY <1>2, <1>4, <1>6, <1>7 DEF OnePlace, Away
  <2> QED BY <1>2, <1>5, <1>6, <1>7, <2>1, PlaceMove
<1>9. AwayLinks'
  <2>1. \A n \in unused \cup retired \cup FreeDummies : n \in All /\ n # x
    BY <1>6 DEF Away, TypeOK, All, FreeDummies
  <2>2. \A n \in unused' \cup retired' : n = x \/ n \in unused \cup retired
    BY <1>4
  <2> QED BY <1>2, <1>4, <1>7, <2>1, <2>2 DEF AwayLinks
<1>10. \A n \in S : next'[n] = next[n]
  BY <1>2, <1>4, <1>6
<1>11. IsChain(l, head', next')
  BY <1>2, <1>4, <1>10, ChainSame DEF S
<1>12. TailKept(S)'
  BY <1>2, <1>4, <1>10 DEF TailKept
<1>13. DummyKept(S)'
  <2>1. ASSUME NEW d \in Dummies PROVE Token(d, S)' => Token(d, S)
    BY <1>1, <1>3, <1>4 DEF Token, Carries, OthersStay, PreLabels
  <2> QED BY <1>2, <1>4, <2>1 DEF DummyKept
<1>14. Local(t, S)'
  BY <1>3, <1>4 DEF Local, HandLink, GuardKept, NextRead, TailRead, EnqGuard, DeqGuard, NextLabels,
     PreLabels, OutLabels
<1>15. \A u \in Threads \ {t} : Hand(u) # NULL => next'[Hand(u)] = next[Hand(u)]
  BY <1>4, <1>6, HandsHold
<1>16. ASSUME NEW n, Out(n) PROVE Out(n)'
  <2>1. PICK u \in Threads : n \in retired \/ (pc[u] \in OutLabels /\ dummy[u] = n)
    BY <1>16 DEF Out
  <2>2. CASE u = t /\ n = x
    BY <1>3, <1>4, <2>2 DEF Out, OutLabels
  <2>3. CASE u # t
    BY <1>1, <1>4, <2>1, <2>3 DEF Out, OthersStay
  <2>4. CASE n \in retired
    BY <1>4, <2>4 DEF Out
  <2> QED BY <1>3, <2>1, <2>2, <2>3, <2>4
<1> QED
  BY <1>1, <1>2, <1>4, <1>8, <1>9, <1>10, <1>11, <1>12, <1>13, <1>14, <1>15, <1>16, StepKeeps DEF S

(* has_dummy is reset by the dequeue that has the dummy, and by it only.   *)
LEMMA DummyGoneKeeps ==
  ASSUME TypeOK, Frames, NEW l \in Seq(All), ListIs(l), NEW t \in Threads, DummyGone(t)
  PROVE  TypeOK' /\ Frames' /\ ListIs(l)'
<1> DEFINE S == Members(l)
<1>1. ThreadStep(t) /\ OthersStay(t)
  BY StepOfOne DEF ThreadStep, Step, Dequeue
<1>2. /\ IsChain(l, head, next) /\ OnePlace(S) /\ AwayLinks /\ TailKept(S) /\ DummyKept(S)
      /\ Frame(t) /\ HandLink(t) /\ \A n \in All : n # NULL
  BY ListFacts DEF ListIs, Accounted, Frames, Local
<1>3. PICK x : x = dummy[t]
  OBVIOUS
<1>4. /\ pc[t] = "dummy_gone" /\ pc'[t] = "dummy_free" /\ x \in Dummies
      /\ UNCHANGED <<head, tail, next, in_use, unused, retired, node, dummy>> /\ has_dummy' = FALSE
  BY <1>2, <1>3 DEF DummyGone, TypeOK, Frame, locals
<1> HIDE DEF S
<1>5. Hand(t) = x /\ x # NULL /\ \A u \in Threads : Hand(u)' = Hand(u)
  <2>1. Hand(t) = x /\ Hand(t)' = Hand(t) /\ x # NULL
    <3>1. x \in All
      BY <1>4 DEF All
    <3> QED BY <1>2, <1>3, <1>4, <3>1 DEF Hand, PreLabels, OutLabels
  <2>2. \A u \in Threads \ {t} : Hand(u)' = Hand(u)
    BY <1>1 DEF Hand, OthersStay
  <2> QED BY <2>1, <2>2
<1>6. Away' = Away /\ FreeDummies' = FreeDummies
  BY <1>4 DEF Away, FreeDummies
<1>7. OnePlace(S)'
  <2>1. /\ S \cap Away' = {} /\ unused' \cap retired' = {} /\ retired' \cap FreeDummies' = {}
        /\ Hand(t)' # NULL => Hand(t)' \notin S \cup Away'
    BY <1>2, <1>4, <1>5, <1>6 DEF OnePlace
  <2> QED BY <1>2, <1>5, <1>6, <2>1, PlaceMove
<1>8. AwayLinks' /\ TailKept(S)' /\ IsChain(l, head', next')
  BY <1>2, <1>4, <1>6 DEF AwayLinks, TailKept
<1>9. ASSUME NEW d \in Dummies, Token(d, S)' PROVE FALSE
  <2>1. Carries(t, x) /\ ~Carries(t, d)' /\ Token(x, S)
    BY <1>3, <1>4 DEF Carries, Token, PreLabels
  <2>2. CASE d \in S
    <3>1. d = x
      BY <1>2, <1>4, <2>1, <2>2 DEF DummyKept, Token
    <3> QED BY <1>2, <1>5, <2>2, <3>1 DEF OnePlace
  <2>3. CASE d \notin S
    <3>1. PICK u \in Threads : u # t /\ Carries(u, d)'
      BY <1>9, <2>1, <2>3 DEF Token
    <3>2. Carries(u, d)
      BY <1>1, <3>1 DEF OthersStay, Carries
    <3>3. d = x
      BY <1>2, <1>4, <2>1, <3>2 DEF DummyKept, Token
    <3>4. Hand(u) = x
      BY <3>2, <3>3 DEF Carries, Hand, PreLabels, OutLabels
    <3> QED BY <1>2, <1>5, <3>1, <3>4 DEF OnePlace
  <2> QED BY <2>2, <2>3
<1>10. DummyKept(S)'
  BY <1>9 DEF DummyKept
<1>11. Local(t, S)'
  BY <1>2, <1>4 DEF Local, HandLink, GuardKept, NextRead, TailRead, EnqGuard, DeqGuard, NextLabels,
     PreLabels, OutLabels
<1>12. ASSUME NEW n, Out(n) PROVE Out(n)'
  <2>1. ASSUME NEW u \in Threads, pc[u] \in OutLabels PROVE pc'[u] \in OutLabels
    BY <1>1, <1>4, <2>1 DEF OthersStay, OutLabels
  <2> QED BY <1>4, <1>12, <2>1 DEF Out
<1> QED
  BY <1>1, <1>2, <1>4, <1>7, <1>8, <1>10, <1>11, <1>12, StepKeeps DEF S

-----------------------------------------------------------------------------
(* Nodes are freed.                                                        *)

(* What the freeing of retired nodes changes.                              *)
LEMMA FreeAllFacts ==
  ASSUME TypeOK, NEW F, F \subseteq All, FreeAll(F)
  PROVE  /\ unused' = unused \cup (F \cap Nodes)
         /\ FreeDummies' = FreeDummies \cup (F \cap Dummies)
         /\ \A n \in All : next'[n] = IF n \in F /\ n \in Dummies THEN FREE_NEXT ELSE next[n]
  BY DEF FreeAll, FreeDummies, TypeOK

(* A node that is freed is out of the list, and nobody guards it.          *)
LEMMA DummyFreeKeeps ==
  ASSUME TypeOK, Frames, NEW l \in Seq(All), ListIs(l), NEW t \in Threads, DummyFree(t)
  PROVE  TypeOK' /\ Frames' /\ ListIs(l)'
<1> DEFINE S == Members(l)
<1>1. ThreadStep(t) /\ OthersStay(t)
  BY StepOfOne DEF ThreadStep, Step, Dequeue
<1>2. /\ IsChain(l, head, next) /\ OnePlace(S) /\ AwayLinks /\ TailKept(S) /\ DummyKept(S)
      /\ Frame(t) /\ HandLink(t) /\ S \subseteq All /\ tail \in S
      /\ next[tail] # END_MARKER => next[tail] \in S
      /\ END_MARKER \notin All /\ \A n \in All : n # NULL
  BY ListFacts DEF ListIs, Accounted, Frames, Local
<1>3. PICK x : x = dummy[t]
  OBVIOUS
<1>4. PICK F \in SUBSET {n \in retired \cup {x} : Freeable(n)} :
        FreeAll(F) /\ retired' = (retired \cup {x}) \ F
  BY <1>3 DEF DummyFree
<1>5. /\ pc[t] = "dummy_free" /\ pc'[t] = "has_dummy" /\ x \in Dummies /\ x \in All
      /\ next[x] = INVALID_NEXT
      /\ UNCHANGED <<head, tail, has_dummy, node>>
  BY <1>2, <1>3 DEF DummyFree, TypeOK, Frame, HandLink, All
<1> HIDE DEF S
<1>6. F \subseteq All /\ F \subseteq retired \cup {x} /\ retired \subseteq All
  BY <1>5 DEF TypeOK
<1>7. /\ unused' = unused \cup (F \cap Nodes)
      /\ FreeDummies' = FreeDummies \cup (F \cap Dummies)
      /\ \A n \in All : next'[n] = IF n \in F /\ n \in Dummies THEN FREE_NEXT ELSE next[n]
  BY <1>4, <1>6, FreeAllFacts
<1>8. /\ Hand(t) = x /\ x # NULL /\ Hand(t)' = NULL
      /\ \A u \in Threads \ {t} : Hand(u)' = Hand(u)
  BY <1>1, <1>2, <1>3, <1>5 DEF Hand, OthersStay, PreLabels, OutLabels
<1>9. /\ x \notin S /\ x \notin Away /\ \A u \in Threads \ {t} : Hand(u) # x
      /\ S \cap Away = {} /\ unused \cap retired = {} /\ retired \cap FreeDummies = {}
      /\ \A u \in Threads : Hand(u) # NULL => Hand(u) \notin Away
  BY <1>2, <1>8 DEF OnePlace
<1>10. Away' = Away \cup {x}
  <2>1. \A n \in F : n \in Nodes \/ n \in Dummies
    BY <1>6 DEF All
  <2> QED BY <1>4, <1>6, <1>7, <2>1 DEF Away
<1>11. OnePlace(S)'
  <2>1. S \cap Away' = {}
    BY <1>9, <1>10
  <2>2. unused' \cap retired' = {}
    <3>1. x \notin unused
      BY <1>9 DEF Away
    <3> QED BY <1>4, <1>7, <1>9, <3>1
  <2>3. retired' \cap FreeDummies' = {}
    <3>1. x \notin FreeDummies
      BY <1>9 DEF Away
    <3> QED BY <1>4, <1>7, <1>9, <3>1
  <2> QED BY <1>2, <1>8, <1>9, <1>10, <2>1, <2>2, <2>3, PlaceMove
<1>12. AwayLinks'
  <2>1. ASSUME NEW n \in unused' \cup retired' PROVE next'[n] = INVALID_NEXT
    <3>1. n \in unused \cup retired \cup {x} /\ n \in All
      BY <1>4, <1>5, <1>6, <1>7 DEF TypeOK, All
    <3>2. ~(n \in F /\ n \in Dummies)
      <4>1. CASE n \in retired'
        BY <1>4, <4>1
      <4>2. CASE n \in unused'
        BY <4>2, <1>7, <1>9, <1>6, Constants DEF TypeOK, Away
      <4> QED BY <2>1, <4>1, <4>2
    <3>3. next[n] = INVALID_NEXT
      BY <1>2, <1>5, <3>1 DEF AwayLinks
    <3> QED BY <1>7, <3>1, <3>2, <3>3
  <2>2. ASSUME NEW n \in FreeDummies' PROVE next'[n] = FREE_NEXT
    <3>1. n \in Dummies /\ n \in All
      BY <1>7, <2>2 DEF FreeDummies, All
    <3>2. n \notin F => next[n] = FREE_NEXT
      BY <1>2, <1>7, <2>2 DEF AwayLinks
    <3> QED BY <1>7, <3>1, <3>2
  <2> QED BY <2>1, <2>2 DEF AwayLinks
<1>13. \A n \in S : n \in All /\ n \notin F
  BY <1>2, <1>6, <1>9 DEF Away
<1>14. \A n \in S : next'[n] = next[n]
  BY <1>7, <1>13
<1>15. IsChain(l, head', next')
  BY <1>2, <1>5, <1>14, ChainSame DEF S
<1>16. TailKept(S)'
  BY <1>2, <1>5, <1>14 DEF TailKept
<1>17. DummyKept(S)'
  <2>1. ASSUME NEW d \in Dummies PROVE Token(d, S)' => Token(d, S)
    BY <1>1, <1>5 DEF Token, Carries, OthersStay, PreLabels
  <2> QED BY <1>2, <1>5, <2>1 DEF DummyKept
<1>18. Local(t, S)'
  BY <1>5 DEF Local, HandLink, GuardKept, NextRead, TailRead, EnqGuard, DeqGuard, NextLabels,
     PreLabels, OutLabels
<1>19. \A u \in Threads \ {t} : Hand(u) # NULL => next'[Hand(u)] = next[Hand(u)]
  <2>1. \A u \in Threads \ {t} : Hand(u) # NULL => Hand(u) \notin F
    BY <1>6, <1>9 DEF Away
  <2> QED BY <1>7, <2>1, HandsHold
<1>20. ASSUME NEW u \in Threads, u # t, NEW n \in All, Guards(u, n), Out(n) PROVE Out(n)'
  <2>1. ~Freeable(n)
    BY <1>20 DEF Guards, Freeable, EnqGuard, DeqGuard
  <2>2. n \notin F
    BY <1>4, <2>1
  <2>3. CASE n \in retired \cup {x}
    BY <1>4, <2>2, <2>3 DEF Out
  <2>4. CASE n \notin retired \cup {x}
    <3>1. PICK v \in Threads : v # t /\ pc[v] \in OutLabels /\ dummy[v] = n
      BY <1>3, <1>20, <2>4 DEF Out
    <3> QED BY <1>1, <3>1 DEF Out, OthersStay
  <2> QED BY <2>3, <2>4
<1>21. \A u \in Threads \ {t} : \A n \in All : Guards(u, n) /\ Out(n) => Out(n)'
  BY <1>20
<1> QED
  BY <1>1, <1>2, <1>5, <1>11, <1>12, <1>14, <1>15, <1>16, <1>17, <1>18, <1>19, <1>21, StepKeeps
  DEF S

(* A retired node that nobody guards is freed.                             *)
LEMMA TryFreeKeeps ==
  ASSUME TypeOK, Frames, NEW l \in Seq(All), ListIs(l), TryFree
  PROVE  TypeOK' /\ Frames' /\ ListIs(l)'
<1> DEFINE S == Members(l)
<1>1. /\ IsChain(l, head, next) /\ OnePlace(S) /\ AwayLinks /\ TailKept(S) /\ DummyKept(S)
      /\ S \subseteq All /\ tail \in S /\ \A m \in S : ~Out(m)
      /\ next[tail] # END_MARKER => next[tail] \in S
  BY ListFacts DEF ListIs, Accounted
<1>2. PICK x \in retired : Freeable(x) /\ FreeAll({x}) /\ retired' = retired \ {x}
  BY DEF TryFree
<1>3. UNCHANGED <<head, tail, has_dummy, pc, node, hp, tl, nx, dummy, may_fail>>
  BY DEF TryFree, locals
<1> HIDE DEF S
<1>4. x \in All /\ retired \subseteq All
  BY <1>2 DEF TypeOK
<1>5. /\ unused' = unused \cup ({x} \cap Nodes)
      /\ FreeDummies' = FreeDummies \cup ({x} \cap Dummies)
      /\ \A n \in All : next'[n] = IF n = x /\ n \in Dummies THEN FREE_NEXT ELSE next[n]
  BY <1>2, <1>4, FreeAllFacts
<1>6. /\ S \cap Away = {} /\ unused \cap retired = {} /\ retired \cap FreeDummies = {}
      /\ \A u \in Threads : Hand(u) # NULL => Hand(u) \notin Away
      /\ \A u \in Threads : Hand(u)' = Hand(u)
  BY <1>1, <1>3 DEF OnePlace, Hand
<1>7. Away' = Away
  <2>1. x \in Nodes \/ x \in Dummies
    BY <1>4 DEF All
  <2> QED BY <1>2, <1>5, <2>1 DEF Away
<1>8. OnePlace(S)'
  <2>1. S \cap Away' = {} /\ unused' \cap retired' = {} /\ retired' \cap FreeDummies' = {}
    BY <1>2, <1>5, <1>6, <1>7
  <2> QED BY <1>1, <1>6, <1>7, <2>1 DEF OnePlace
<1>9. AwayLinks'
  <2>1. ASSUME NEW n \in unused' \cup retired' PROVE next'[n] = INVALID_NEXT
    <3>1. n \in unused \cup retired /\ n \in All /\ ~(n = x /\ n \in Dummies)
      BY <1>2, <1>4, <1>5, <1>6, Constants DEF TypeOK, All
    <3> QED BY <1>1, <1>5, <3>1 DEF AwayLinks
  <2>2. ASSUME NEW n \in FreeDummies' PROVE next'[n] = FREE_NEXT
    <3>1. n \in Dummies /\ n \in All
      BY <1>5, <2>2 DEF FreeDummies, All
    <3>2. n # x => next[n] = FREE_NEXT
      BY <1>1, <1>5, <2>2 DEF AwayLinks
    <3> QED BY <1>5, <3>1, <3>2
  <2> QED BY <2>1, <2>2 DEF AwayLinks
<1>10. \A n \in S : n \in All /\ n # x /\ next'[n] = next[n]
  BY <1>1, <1>2, <1>5, <1>6 DEF Away
<1>11. IsChain(l, head', next')
  BY <1>1, <1>3, <1>10, ChainSame DEF S
<1>12. TailKept(S)'
  BY <1>1, <1>3, <1>10 DEF TailKept
<1>13. DummyKept(S)'
  BY <1>1, <1>3 DEF DummyKept, Token, Carries
<1>14. ASSUME NEW u \in Threads PROVE Local(u, S)'
  <2>1. \A n \in All : Guards(u, n) /\ Out(n) => Out(n)'
    <3>1. ASSUME NEW n \in All, Guards(u, n), Out(n) PROVE Out(n)'
      <4>1. n # x
        BY <1>2, <3>1 DEF Guards, Freeable, EnqGuard, DeqGuard
      <4> QED BY <1>2, <1>3, <3>1, <4>1 DEF Out
    <3> QED BY <3>1
  <2>2. Hand(u) # NULL => next'[Hand(u)] = next[Hand(u)]
    <3>1. Hand(u) # NULL => Hand(u) # x
      BY <1>2, <1>6 DEF Away
    <3> QED BY <1>5, <3>1, HandsHold
  <2>3. PICK h : h = head
    OBVIOUS
  <2> QED BY <1>1, <1>3, <1>10, <2>1, <2>2, <2>3, OthersKeep DEF S
<1>15. ListIs(l)'
  <2>1. \A u \in Threads : Local(u, S)'
    BY <1>14
  <2>2. Accounted(S)'
    BY <1>8, <1>9, <1>12, <1>13, <2>1 DEF Accounted
  <2> QED BY <1>11, <2>2 DEF ListIs, S
<1>16. TypeOK'
  <2>1. next' \in [All -> All \cup Markers] /\ in_use' \in [Dummies -> BOOLEAN]
    BY <1>2, <1>4 DEF TypeOK, FreeAll, Markers
  <2>2. unused' \subseteq Nodes /\ retired' \subseteq All
    BY <1>2, <1>5 DEF TypeOK
  <2> QED BY <1>3, <2>1, <2>2 DEF TypeOK
<1>17. Frames'
  BY <1>3 DEF Frames, Frame
<1> QED BY <1>15, <1>16, <1>17

-----------------------------------------------------------------------------
(* A dummy goes back into the queue.                                       *)

(* The search for a free dummy takes one that is not in use.               *)
LEMMA GetDummyKeeps ==
  ASSUME TypeOK, Frames, NEW l \in Seq(All), ListIs(l), NEW t \in Threads, GetDummy(t)
  PROVE  TypeOK' /\ Frames' /\ ListIs(l)'
<1>1. ThreadStep(t) /\ OthersStay(t)
  BY StepOfOne DEF ThreadStep, Step, Dequeue
<1>2. CASE in_use' = in_use /\ pc'[t] \in {"idle", "get_dummy"}
  <2>1. /\ UNCHANGED <<head, tail, next, in_use, has_dummy, unused, retired>>
        /\ pc[t] \notin OutLabels \cup {"dummy_cas"}
        /\ pc'[t] \notin OutLabels \cup {"dummy_cas"} \cup EnqGuard \cup DeqGuard
        /\ pc[t] \in PreLabels <=> pc'[t] \in PreLabels
        /\ pc[t] \in PreLabels => node'[t] = node[t]
    BY <1>2 DEF GetDummy, PreLabels, OutLabels, EnqGuard, DeqGuard
  <2> QED BY <1>1, <2>1, UnguardedKeeps
<1>3. CASE pc'[t] = "dummy_cas"
  <2> DEFINE S == Members(l)
  <2>1. /\ IsChain(l, head, next) /\ OnePlace(S) /\ AwayLinks /\ TailKept(S) /\ DummyKept(S)
        /\ Frame(t) /\ \A n \in S : ~Out(n) /\ \A m \in All : m # NULL
    BY ListFacts DEF ListIs, Accounted, Frames
  <2>2. PICK x : x = dummy[t]
    OBVIOUS
  <2>3. /\ pc[t] = "get_dummy" /\ x \in Dummies /\ x \in All /\ ~in_use[x]
        /\ in_use' = [in_use EXCEPT ![x] = TRUE]
        /\ UNCHANGED <<head, tail, next, has_dummy, unused, retired, node, dummy>>
    BY <1>3, <2>2 DEF GetDummy, TypeOK, All
  <2> HIDE DEF S
  <2>4. FreeDummies' = FreeDummies \ {x} /\ x \in FreeDummies
    BY <2>3 DEF FreeDummies, TypeOK
  <2>5. x \notin S /\ x \notin unused /\ x \notin retired /\ \A u \in Threads : Hand(u) # x
    BY <2>1, <2>3, <2>4, Constants DEF OnePlace, Away, TypeOK
  <2>6. /\ Hand(t) = NULL /\ Hand(t)' = x
        /\ \A u \in Threads \ {t} : Hand(u)' = Hand(u)
    BY <1>1, <1>3, <2>2, <2>3 DEF Hand, OthersStay, PreLabels, OutLabels
  <2>7. Away' = Away \ {x} /\ x \in Away
    BY <2>3, <2>4, <2>5 DEF Away
  <2>8. OnePlace(S)'
    <3>1. S \cap Away' = {} /\ unused' \cap retired' = {} /\ retired' \cap FreeDummies' = {}
      BY <2>1, <2>3, <2>4, <2>7 DEF OnePlace
    <3> QED BY <2>1, <2>5, <2>6, <2>7, <3>1, PlaceMove
  <2>9. AwayLinks' /\ TailKept(S)' /\ IsChain(l, head', next')
    BY <2>1, <2>3, <2>4 DEF AwayLinks, TailKept
  <2>10. DummyKept(S)'
    <3>1. ASSUME NEW d \in Dummies PROVE Token(d, S)' => Token(d, S)
      BY <1>1, <1>3, <2>3 DEF Token, Carries, OthersStay, PreLabels
    <3> QED BY <2>1, <2>3, <3>1 DEF DummyKept
  <2>11. Local(t, S)'
    <3>1. next[x] = FREE_NEXT
      BY <2>1, <2>4 DEF AwayLinks
    <3> QED BY <1>3, <2>2, <2>3, <3>1 DEF Local, HandLink, GuardKept, NextRead, TailRead, EnqGuard,
        DeqGuard, NextLabels, PreLabels, OutLabels
  <2>12. ASSUME NEW n, Out(n) PROVE Out(n)'
    BY <1>1, <2>3, <2>12 DEF Out, OthersStay, OutLabels
  <2> QED
    BY <1>1, <2>1, <2>3, <2>8, <2>9, <2>10, <2>11, <2>12, StepKeeps DEF S
<1>4. (in_use' = in_use /\ pc'[t] \in {"idle", "get_dummy"}) \/ pc'[t] = "dummy_cas"
  BY DEF GetDummy, TypeOK
<1> QED BY <1>2, <1>3, <1>4

(* The dummy is enqueued by the thread whose CAS has set has_dummy, and    *)
(* put back by the others.                                                 *)
LEMMA DummyCasKeeps ==
  ASSUME TypeOK, Frames, NEW l \in Seq(All), ListIs(l), NEW t \in Threads, DummyCas(t)
  PROVE  TypeOK' /\ Frames' /\ ListIs(l)'
<1> DEFINE S == Members(l)
<1>1. ThreadStep(t) /\ OthersStay(t)
  BY StepOfOne DEF ThreadStep, Step, Dequeue
<1>2. /\ IsChain(l, head, next) /\ OnePlace(S) /\ AwayLinks /\ TailKept(S) /\ DummyKept(S)
      /\ Frame(t) /\ HandLink(t) /\ S \subseteq All /\ tail \in S
      /\ \A n \in S : ~Out(n) /\ \A m \in All : m # NULL
      /\ next[tail] # END_MARKER => next[tail] \in S
  BY ListFacts DEF ListIs, Accounted, Frames, Local
<1>3. PICK x : x = dummy[t]
  OBVIOUS
<1>4. /\ pc[t] = "dummy_cas" /\ x \in Dummies /\ x \in All /\ next[x] = FREE_NEXT
      /\ UNCHANGED <<head, tail, unused, retired>>
  BY <1>2, <1>3 DEF DummyCas, Frame, HandLink, All
<1> HIDE DEF S
<1>5. /\ Hand(t) = x /\ x # NULL /\ \A u \in Threads \ {t} : Hand(u)' = Hand(u)
  <2>1. x # NULL
    BY <1>4, Constants
  <2> QED BY <1>1, <1>3, <1>4, <2>1 DEF Hand, OthersStay, PreLabels, OutLabels
<1>6. /\ x \notin S /\ x \notin Away /\ \A u \in Threads \ {t} : Hand(u) # x
      /\ S \cap Away = {} /\ unused \cap retired = {} /\ retired \cap FreeDummies = {}
  BY <1>2, <1>5 DEF OnePlace
<1>7. ASSUME NEW n, Out(n) PROVE Out(n)'
  BY <1>1, <1>4, <1>7 DEF Out, OthersStay, OutLabels
<1>8. CASE has_dummy
  <2>1. /\ in_use' = [in_use EXCEPT ![x] = FALSE] /\ pc'[t] = "idle"
        /\ UNCHANGED <<next, has_dummy, node>>
    BY <1>3, <1>8 DEF DummyCas, TypeOK
  <2>2. FreeDummies' = FreeDummies \cup {x}
    BY <1>4, <2>1 DEF FreeDummies, TypeOK
  <2>3. Away' = Away \cup {x}
    BY <1>4, <2>2 DEF Away
  <2>4. Hand(t)' = NULL
    BY <2>1 DEF Hand, PreLabels, OutLabels
  <2>5. OnePlace(S)'
    <3>1. S \cap Away' = {} /\ unused' \cap retired' = {} /\ retired' \cap FreeDummies' = {}
      BY <1>4, <1>6, <2>2, <2>3 DEF Away
    <3> QED BY <1>2, <1>5, <2>3, <2>4, <3>1, PlaceMove
  <2>6. AwayLinks' /\ TailKept(S)' /\ IsChain(l, head', next')
    BY <1>2, <1>4, <2>1, <2>2 DEF AwayLinks, TailKept
  <2>7. DummyKept(S)'
    <3>1. ASSUME NEW d \in Dummies PROVE Token(d, S)' => Token(d, S)
      BY <1>1, <2>1 DEF Token, Carries, OthersStay, PreLabels
    <3> QED BY <1>2, <2>1, <3>1 DEF DummyKept
  <2>8. Local(t, S)'
    BY <2>1 DEF Local, HandLink, GuardKept, NextRead, TailRead, EnqGuard, DeqGuard, NextLabels,
       PreLabels, OutLabels
  <2> QED BY <1>1, <1>2, <1>4, <1>7, <2>1, <2>5, <2>6, <2>7, <2>8, StepKeeps DEF S
<1>9. CASE ~has_dummy
  <2>1. /\ has_dummy' = TRUE /\ node'[t] = x /\ in_use' = in_use /\ pc'[t] = "enq_get"
        /\ next'[x] = END_MARKER /\ \A n \in All : n # x => next'[n] = next[n]
    BY <1>3, <1>4, <1>9 DEF DummyCas, TypeOK
  <2>2. Away' = Away /\ FreeDummies' = FreeDummies
    BY <1>4, <2>1 DEF Away, FreeDummies
  <2>3. Hand(t)' = x
    BY <2>1 DEF Hand, PreLabels
  <2>4. OnePlace(S)'
    <3>1. S \cap Away' = {} /\ unused' \cap retired' = {} /\ retired' \cap FreeDummies' = {}
      BY <1>4, <1>6, <2>2
    <3> QED BY <1>2, <1>5, <1>6, <2>2, <2>3, <3>1, PlaceMove
  <2>5. AwayLinks'
    <3>1. \A n \in unused \cup retired \cup FreeDummies : n \in All /\ n # x
      BY <1>6 DEF Away, TypeOK, All, FreeDummies
    <3> QED BY <1>2, <1>4, <2>1, <2>2, <3>1 DEF AwayLinks
  <2>6. \A n \in S : next'[n] = next[n]
    BY <1>2, <1>6, <2>1
  <2>7. IsChain(l, head', next')
    BY <1>2, <1>4, <2>6, ChainSame DEF S
  <2>8. TailKept(S)'
    BY <1>2, <1>4, <2>6 DEF TailKept
  <2>9. DummyKept(S)'
    <3>1. ASSUME NEW d \in Dummies, Token(d, S)' PROVE d = x
      <4>1. ~Token(d, S)
        BY <1>2, <1>9 DEF DummyKept
      <4> QED BY <1>1, <2>1, <3>1, <4>1 DEF Token, Carries, OthersStay
    <3> QED BY <2>1, <3>1 DEF DummyKept
  <2>10. Local(t, S)'
    BY <2>1 DEF Local, HandLink, GuardKept, NextRead, TailRead, EnqGuard, DeqGuard, NextLabels,
       PreLabels, OutLabels
  <2>11. \A u \in Threads \ {t} : Hand(u) # NULL => next'[Hand(u)] = next[Hand(u)]
    BY <1>6, <2>1, HandsHold
  <2> QED
    BY <1>1, <1>2, <1>4, <1>7, <2>1, <2>4, <2>5, <2>6, <2>7, <2>8, <2>9, <2>10, <2>11, StepKeeps
    DEF S
<1> QED BY <1>8, <1>9

-----------------------------------------------------------------------------
(* The invariant holds.                                                    *)

(* The list begins as the first dummy.                                     *)
LEMMA QueueInit == Init => QueueInv
<1> SUFFICES ASSUME Init PROVE QueueInv
  OBVIOUS
<1> DEFINE l == <<0>>
<1>1. 0 \in Dummies /\ 0 \in All /\ NUM_DUMMIES \in Nat /\ Nodes \cap Dummies = {}
     /\ NULL \notin All
  BY Constants DEF All
<1>2. /\ head = 0 /\ tail = 0 /\ next[0] = END_MARKER
      /\ \A d \in Dummies : d # 0 => next[d] = FREE_NEXT
      /\ \A n \in Nodes : next[n] = INVALID_NEXT
  BY <1>1 DEF Init, All
<1>3. TypeOK
  BY <1>1 DEF Init, TypeOK, Label, Markers, All
<1>4. Frames
  BY <1>1 DEF Init, Frames, Frame, PreLabels, OutLabels, EnqGuard, DeqGuard
<1>5. l \in Seq(All) /\ Len(l) = 1 /\ l[1] = 0 /\ 1 .. 1 = {1}
  BY <1>1
<1>6. IsChain(l, head, next)
  BY <1>2, <1>5 DEF IsChain
<1>7. Members(l) = {0}
  BY <1>5 DEF Members
<1>8. FreeDummies = Dummies \ {0} /\ unused = Nodes /\ retired = {} /\ has_dummy
  BY <1>1 DEF Init, FreeDummies
<1>9. \A t \in Threads : pc[t] = "idle" /\ Hand(t) = NULL
  BY DEF Init, Hand, PreLabels, OutLabels
<1>10. OnePlace({0})
  BY <1>1, <1>8, <1>9 DEF OnePlace, Away, All
<1>11. AwayLinks
  BY <1>2, <1>8 DEF AwayLinks
<1>12. TailKept({0})
  BY <1>2 DEF TailKept
<1>13. DummyKept({0})
  BY <1>8, <1>9 DEF DummyKept, Token, Carries, PreLabels
<1>14. \A t \in Threads : Local(t, {0})
  BY <1>9 DEF Local, HandLink, GuardKept, NextRead, TailRead, EnqGuard, DeqGuard, NextLabels,
     PreLabels, OutLabels
<1>15. Accounted(Members(l))
  BY <1>7, <1>10, <1>11, <1>12, <1>13, <1>14 DEF Accounted
<1> QED BY <1>3, <1>4, <1>5, <1>6, <1>15 DEF QueueInv, ListIs

(* Only Link and Unlink change the list.                                   *)
LEMMA ListStays ==
  ASSUME TypeOK, Frames, NEW l \in Seq(All), ListIs(l), NEW t \in Threads, ThreadStep(t),
         ~Link(t), ~Unlink(t)
  PROVE  TypeOK' /\ Frames' /\ ListIs(l)'
<1>1. CASE EnqueueBegin(t) \/ DequeueBegin(t)
  BY <1>1, EnqueueBeginKeeps, DequeueBeginKeeps
<1>2. CASE Enqueue(t)
  BY <1>2, TailGetKeeps, TailCheckKeeps, TailNextKeeps, TailConsistentKeeps, TailHelpKeeps,
      SwingKeeps
  DEF Enqueue
<1>3. CASE Dequeue(t)
  BY <1>3, HeadGetKeeps, HeadCheckKeeps, HeadTailKeeps, HeadNextKeeps, HeadConsistentKeeps,
     HeadHelpKeeps, TakenKeeps, DummyGoneKeeps, DummyFreeKeeps, HasDummyKeeps, GetDummyKeeps,
     DummyCasKeeps DEF Dequeue
<1> QED BY <1>1, <1>2, <1>3 DEF ThreadStep, Step

(* Each step keeps the invariant.                                          *)
LEMMA QueueStep ==
  ASSUME QueueInv, [Next]_vars
  PROVE  QueueInv'
<1>1. PICK l \in Seq(All) : ListIs(l)
  BY DEF QueueInv
<1>2. TypeOK /\ Frames
  BY DEF QueueInv
<1>3. SUFFICES TypeOK' /\ Frames' /\ \E k \in Seq(All) : ListIs(k)'
  BY DEF QueueInv
<1>4. CASE TryFree
  BY <1>1, <1>2, <1>4, TryFreeKeeps
<1>5. ASSUME NEW t \in Threads, ThreadStep(t)
      PROVE  TypeOK' /\ Frames' /\ \E k \in Seq(All) : ListIs(k)'
  <2>1. CASE Link(t)
    <3>1. PICK y : y = node[t]
      OBVIOUS
    <3>2. /\ TypeOK' /\ Frames'
          /\ IF next[hp[t]] = END_MARKER
               THEN Append(l, y) \in Seq(All) /\ ListIs(Append(l, y))' ELSE ListIs(l)'
      BY <1>1, <1>2, <2>1, <3>1, LinkKeeps
    <3>3. PICK k : k = IF next[hp[t]] = END_MARKER THEN Append(l, y) ELSE l
      OBVIOUS
    <3> QED BY <1>1, <3>2, <3>3
  <2>2. CASE Unlink(t)
    <3>1. /\ TypeOK' /\ Frames'
          /\ IF head = hp[t] THEN Tail(l) \in Seq(All) /\ ListIs(Tail(l))' ELSE ListIs(l)'
      BY <1>1, <1>2, <2>2, UnlinkKeeps
    <3>2. PICK k : k = IF head = hp[t] THEN Tail(l) ELSE l
      OBVIOUS
    <3> QED BY <1>1, <3>1, <3>2
  <2> QED BY <1>1, <1>2, <1>5, <2>1, <2>2, ListStays
<1>6. CASE UNCHANGED vars
  <2>1. UNCHANGED <<head, tail, next, in_use, has_dummy, unused, retired, pc, node, hp, tl, nx,
      dummy,
                    may_fail>>
    BY <1>6 DEF vars, shared, locals
  <2>2. TypeOK' /\ Frames'
    BY <1>2, <2>1 DEF TypeOK, Frames, Frame
  <2>3. ListIs(l)'
    BY <1>1, <2>1 DEF ListIs, Accounted, OnePlace, Away, FreeDummies, Hand, AwayLinks, TailKept,
       DummyKept, Token, Carries, Local, HandLink, GuardKept, Out, NextRead, TailRead
  <2> QED BY <2>2, <2>3
<1> QED BY <1>4, <1>5, <1>6 DEF Next, ThreadStep

(* The inductive invariant.                                                *)
THEOREM QueueAlways == Spec => []QueueInv
BY QueueInit, QueueStep, PTL DEF Spec

-----------------------------------------------------------------------------
(* Listed.  Its definition is recursive; the prefixes of the list satisfy  *)
(* the equation of the definition, and nothing else does.                  *)

(* The least element of a set of natural numbers, from the order of the    *)
(* finite sets by inclusion.                                               *)
LEMMA Least ==
  ASSUME NEW T, T \subseteq Nat, T # {}
  PROVE  \E x \in T : \A y \in T : ~(y < x)
<1> DEFINE F == {1 .. n : n \in T}
<1>1. F \subseteq FiniteSubsetsOf(Nat)
  BY FS_Interval DEF FiniteSubsetsOf
<1>2. F # {}
  OBVIOUS
<1>3. PICK X \in F : \A Y \in F : <<Y, X>> \notin StrictSubsetOrdering(Nat)
  <2> HIDE DEF F
  <2> QED BY <1>1, <1>2, FS_StrictSubsetOrderingWellFounded, WFMin
<1>4. PICK x \in T : X = 1 .. x
  OBVIOUS
<1>5. ASSUME NEW y \in T, y < x PROVE FALSE
  <2>1. 1 .. y \subseteq 1 .. x /\ 1 .. y # 1 .. x
    <3>1. y \in Nat /\ x \in Nat /\ x \in 1 .. x /\ x \notin 1 .. y
      BY <1>5
    <3> QED BY <3>1, <1>5
  <2>2. <<1 .. y, X>> \in StrictSubsetOrdering(Nat)
    BY <1>4, <2>1 DEF StrictSubsetOrdering
  <2> QED BY <1>3, <2>2
<1> QED BY <1>5

(* A set of numbers that has the first one and each next one has them all. *)
LEMMA AllNumbers ==
  ASSUME NEW N \in Nat, NEW T, 0 \in T, \A k \in 1 .. N : k - 1 \in T => k \in T
  PROVE  \A k \in 0 .. N : k \in T
<1> DEFINE B == {k \in 0 .. N : k \notin T}
<1>1. ASSUME B # {} PROVE FALSE
  <2>1. PICK x \in B : \A y \in B : ~(y < x)
    <3>1. B \subseteq Nat
      OBVIOUS
    <3> HIDE DEF B
    <3> QED BY <1>1, <3>1, Least
  <2>2. x \in 1 .. N /\ x - 1 \in 0 .. N /\ x - 1 < x
    BY <2>1
  <2> QED BY <2>1, <2>2
<1> QED BY <1>1

(* Two sequences of values that go on alike are alike.                     *)
LEMMA Alike ==
  ASSUME NEW N \in Nat, NEW f, NEW g, f[0] = g[0],
         \A k \in 1 .. N : f[k - 1] = g[k - 1] => f[k] = g[k]
  PROVE  \A k \in 0 .. N : f[k] = g[k]
<1> DEFINE T == {k \in 0 .. N : f[k] = g[k]}
<1>1. 0 \in T
  OBVIOUS
<1>2. \A k \in 1 .. N : k - 1 \in T => k \in T
  OBVIOUS
<1> HIDE DEF T
<1>3. \A k \in 0 .. N : k \in T
  BY <1>1, <1>2, AllNumbers
<1> QED BY <1>3 DEF T

(* There are finitely many nodes.                                          *)
LEMMA AllIsFinite == IsFiniteSet(All) /\ Cardinality(All) \in Nat
<1>1. IsFiniteSet(Dummies)
  BY NumDummiesIsPositive, FS_Interval DEF Dummies
<1>2. IsFiniteSet(All)
  BY <1>1, NodesAreFinite, FS_Union DEF All
<1> QED BY <1>2, FS_CardinalityType

(* A list is not longer than there are nodes.                              *)
LEMMA ListIsShort ==
  ASSUME NEW l, NEW a, NEW link, IsChain(l, a, link)
  PROVE  Len(l) \in Nat /\ Len(l) <= Cardinality(All)
<1>1. /\ Len(l) \in Nat /\ l \in [1 .. Len(l) -> All]
      /\ \A i, j \in 1 .. Len(l) : l[i] = l[j] => i = j
  BY DEF IsChain
<1>2. IsFiniteSet(1 .. Len(l)) /\ Cardinality(1 .. Len(l)) = Len(l)
  BY <1>1, FS_Interval
<1>3. l \in Injection(1 .. Len(l), All)
  BY <1>1 DEF Injection, IsInjective
<1> QED BY <1>1, <1>2, <1>3, AllIsFinite, FS_Injection

(* What the model walks from head on is the chain.                         *)
LEMMA ListedIs ==
  ASSUME NEW l \in Seq(All), IsChain(l, head, next)
  PROVE  Listed = l
<1> DEFINE N == Cardinality(All)
           n == Len(l)
           Body(f, k) == IF k = 0 THEN <<head>>
                         ELSE LET p == f[k - 1] IN
                              IF Len(p) = k /\ next[p[k]] \in All THEN Append(p, next[p[k]]) ELSE p
           Eq(f) == f = [k \in 0 .. N |-> Body(f, k)]
           M(k) == IF k < n THEN k + 1 ELSE n
           Pre(k) == [i \in 1 .. M(k) |-> l[i]]
           P == [k \in 0 .. N |-> Pre(k)]
<1>1. /\ N \in Nat /\ n \in Nat /\ n <= N /\ n # 0 /\ 1 \in 1 .. n
      /\ \A i \in 1 .. n : l[i] \in All
      /\ l[1] = head
      /\ \A i \in 1 .. n : next[l[i]] = IF i = n THEN END_MARKER ELSE l[i + 1]
      /\ END_MARKER \notin All
  BY AllIsFinite, ListIsShort, Constants DEF IsChain, Markers
<1>2. \A k \in 0 .. N : P[k] = Pre(k) /\ Pre(k) \in Seq(All) /\ Len(Pre(k)) = M(k)
                        /\ \A i \in 1 .. M(k) : Pre(k)[i] = l[i]
  BY <1>1
<1>3. ASSUME NEW k \in 0 .. N PROVE Pre(k) = Body(P, k)
  <2>1. CASE k = 0
    <3>1. M(k) = 1
      BY <1>1, <2>1
    <3>2. Pre(k) = [i \in 1 .. 1 |-> l[i]]
      BY <3>1
    <3>3. [i \in 1 .. 1 |-> l[i]] = <<head>>
      BY <1>1
    <3> QED BY <2>1, <3>2, <3>3
  <2>2. CASE k # 0
    <3>1. /\ k - 1 \in 0 .. N /\ k \in Nat
          /\ M(k - 1) = IF k < n THEN k ELSE n
          /\ M(k) = IF k < n THEN k + 1 ELSE n
          /\ (k - 1 < n <=> k <= n)
      BY <1>1, <2>2
    <3>2. /\ P[k - 1] = Pre(k - 1) /\ Pre(k - 1) \in Seq(All) /\ Len(Pre(k - 1)) = M(k - 1)
          /\ \A i \in 1 .. M(k - 1) : Pre(k - 1)[i] = l[i]
          /\ Pre(k) \in Seq(All) /\ Len(Pre(k)) = M(k)
          /\ \A i \in 1 .. M(k) : Pre(k)[i] = l[i]
      BY <1>2, <3>1
    <3> HIDE DEF P, Pre, M
    <3>3. CASE k < n
      <4>1. k \in 1 .. n /\ k + 1 \in 1 .. n /\ k # n
        BY <1>1, <2>2, <3>3
      <4>2. next[l[k]] = l[k + 1] /\ l[k + 1] \in All
        BY <1>1, <4>1
      <4>3. Len(P[k - 1]) = k /\ P[k - 1][k] = l[k] /\ M(k) = k + 1
        BY <3>1, <3>2, <3>3, <4>1
      <4>4. Body(P, k) = Append(Pre(k - 1), l[k + 1])
        BY <2>2, <3>2, <4>2, <4>3
      <4>5. Pre(k) = Append(Pre(k - 1), l[k + 1])
        <5>1. /\ Append(Pre(k - 1), l[k + 1]) \in Seq(All)
              /\ Len(Append(Pre(k - 1), l[k + 1])) = k + 1
              /\ \A i \in 1 .. k : Append(Pre(k - 1), l[k + 1])[i] = l[i]
              /\ Append(Pre(k - 1), l[k + 1])[k + 1] = l[k + 1]
          BY <3>2, <4>2, <4>3
        <5>2. PICK e \in Seq(All) : e = Append(Pre(k - 1), l[k + 1])
          BY <5>1
        <5>3. PICK q \in Seq(All) : q = Pre(k)
          BY <3>2
        <5>4. /\ Len(e) = k + 1 /\ Len(q) = k + 1
              /\ \A i \in 1 .. k + 1 : e[i] = q[i]
          BY <3>2, <4>1, <4>3, <5>1, <5>2, <5>3
        <5>5. e = q
          BY <5>4, SeqEqual
        <5> QED BY <5>2, <5>3, <5>5
      <4> QED BY <4>4, <4>5
    <3>4. CASE ~(k < n)
      <4>1. M(k - 1) = n /\ M(k) = n
        BY <3>1, <3>4
      <4>2. Pre(k) = Pre(k - 1)
        BY <4>1 DEF Pre
      <4>3. ~(Len(P[k - 1]) = k /\ next[P[k - 1][k]] \in All)
        <5> SUFFICES ASSUME Len(P[k - 1]) = k PROVE next[P[k - 1][k]] \notin All
          OBVIOUS
        <5>1. k = n /\ n \in 1 .. n /\ P[k - 1][k] = l[n]
          BY <1>1, <3>2, <4>1
        <5> QED BY <1>1, <5>1
      <4> QED BY <2>2, <3>2, <4>2, <4>3
    <3> QED BY <3>3, <3>4
  <2> QED BY <2>1, <2>2
<1>4. Eq(P)
  <2> HIDE DEF Pre, Body
  <2> QED BY <1>3
<1>5. PICK g : Eq(g) /\ Listed = g[N]
  <2>1. Listed = (CHOOSE f : Eq(f))[N]
    BY DEF Listed
  <2> HIDE DEF Eq
  <2> QED BY <1>4, <2>1
<1>6. \A k \in 0 .. N : g[k] = Body(g, k) /\ P[k] = Body(P, k)
  <2>1. g = [k \in 0 .. N |-> Body(g, k)]
    BY <1>5
  <2> HIDE DEF Body
  <2> QED BY <1>2, <1>3, <2>1
<1>7. \A k \in 0 .. N : g[k] = P[k]
  <2>1. g[0] = P[0]
    <3>1. 0 \in 0 .. N /\ Body(g, 0) = <<head>> /\ Body(P, 0) = <<head>>
      BY <1>1
    <3> HIDE DEF P, Body
    <3> QED BY <1>6, <3>1
  <2>2. ASSUME NEW k \in 1 .. N, g[k - 1] = P[k - 1] PROVE g[k] = P[k]
    <3>1. k \in 0 .. N /\ k # 0
      BY <1>1
    <3> HIDE DEF P
    <3>2. Body(g, k) = Body(P, k)
      BY <2>2, <3>1
    <3> QED BY <1>6, <3>1, <3>2
  <2>3. \A k \in 1 .. N : g[k - 1] = P[k - 1] => g[k] = P[k]
    BY <2>2
  <2>4. N \in Nat
    BY <1>1
  <2> HIDE DEF P, N
  <2> QED BY <2>1, <2>3, <2>4, Alike
<1>8. P[N] = l
  <2>1. N \in 0 .. N /\ M(N) = n
    BY <1>1
  <2>2. P[N] = [i \in 1 .. n |-> l[i]]
    BY <1>2, <2>1
  <2>3. l = [i \in 1 .. n |-> l[i]]
    OBVIOUS
  <2> QED BY <2>2, <2>3
<1>9. N \in 0 .. N
  BY <1>1
<1> QED BY <1>5, <1>7, <1>8, <1>9

-----------------------------------------------------------------------------
(* The invariants of the runs.                                             *)

(* tail is the last node or the one before.                                *)
LEMMA TailFollows == QueueInv => TailLagsByOne
<1> SUFFICES ASSUME QueueInv PROVE TailLagsByOne
  OBVIOUS
<1>1. PICK l \in Seq(All) : ListIs(l)
  BY DEF QueueInv
<1>2. IsChain(l, head, next) /\ TailKept(Members(l)) /\ Listed = l
  BY <1>1, ListedIs DEF ListIs, Accounted
<1>3. PICK i \in 1 .. Len(l) : tail = l[i]
  BY <1>2 DEF TailKept, Members
<1>4. PICK n \in Nat : n = Len(l) /\ DOMAIN l = 1 .. n
  OBVIOUS
<1>5. \A j \in 1 .. n : next[l[j]] = IF j = n THEN END_MARKER ELSE l[j + 1]
  BY <1>2, <1>4 DEF IsChain
<1>6. END_MARKER \notin All /\ \A j \in 1 .. n : l[j] \in All
  BY <1>4, Constants DEF Markers
<1>7. i \in 1 .. n
  BY <1>4
<1>8. i = n \/ i + 1 = n
  <2> SUFFICES ASSUME i # n, i + 1 # n PROVE FALSE
    OBVIOUS
  <2>1. i + 1 \in 1 .. n /\ (i + 1) + 1 \in 1 .. n
    BY <1>7
  <2>2. next[tail] = l[i + 1] /\ next[next[tail]] = l[(i + 1) + 1]
    BY <1>3, <1>5, <1>7, <2>1
  <2> QED BY <1>2, <1>6, <2>1, <2>2 DEF TailKept
<1>9. i \in (n - 1 .. n) \cap DOMAIN l
  BY <1>4, <1>7, <1>8
<1> QED BY <1>2, <1>3, <1>4, <1>9 DEF TailLagsByOne

(* Each assertion of the queue holds where its step is next.               *)
LEMMA AssertsFollow == QueueInv => GAsserts
<1> SUFFICES ASSUME QueueInv PROVE GAsserts
  OBVIOUS
<1>1. PICK l \in Seq(All) : ListIs(l)
  BY DEF QueueInv
<1>2. TypeOK /\ Frames
  BY DEF QueueInv
<1> DEFINE S == Members(l)
<1>3. /\ AwayLinks /\ OnePlace(S) /\ DummyKept(S)
      /\ S \subseteq All /\ head \in S /\ tail \in S
      /\ \A x \in S : next[x] = END_MARKER \/ next[x] \in S
      /\ \A x \in S : next[x] # x
  BY <1>1, <1>2, ListFacts DEF ListIs, Accounted
<1> HIDE DEF S
<1>4. \A n \in unused : next[n] = INVALID_NEXT
  BY <1>3 DEF AwayLinks
<1>5. \A n \in retired : next[n] = INVALID_NEXT /\ (n \in Dummies => in_use[n])
  BY <1>3 DEF AwayLinks, OnePlace, FreeDummies
<1>6. ASSUME NEW t \in Threads
      PROVE  /\ Consistent(t) => nx[t] \notin {INVALID_NEXT, FREE_NEXT, hp[t]}
             /\ At(t, "deq_consistent") /\ head = hp[t] /\ ~Behind(t) => nx[t] # END_MARKER
             /\ At(t, "dummy_cas") => next[dummy[t]] = FREE_NEXT
             /\ At(t, "dummy_gone") => has_dummy
  <2>1. Frame(t) /\ HandLink(t) /\ NextRead(t, S) /\ TailRead(t, S)
    BY <1>1, <1>2, Knows DEF S
  <2>2. Consistent(t) => nx[t] \notin {INVALID_NEXT, FREE_NEXT, hp[t]}
    <3> SUFFICES ASSUME Consistent(t) PROVE nx[t] \notin {INVALID_NEXT, FREE_NEXT, hp[t]}
      OBVIOUS
    <3>1. hp[t] \in S /\ nx[t] \in {END_MARKER, next[hp[t]]}
      BY <1>3, <2>1 DEF Consistent, NextRead, NextLabels
    <3>2. Markers \cap All = {} /\ INVALID_NEXT # END_MARKER /\ END_MARKER # FREE_NEXT
      BY Constants
    <3> QED BY <1>3, <3>1, <3>2 DEF Markers
  <2>3. At(t, "dummy_gone") => has_dummy
    BY <1>3, <2>1 DEF Frame, DummyKept, Token, Carries
  <2> QED BY <2>1, <2>2, <2>3 DEF TailRead, HandLink
<1> QED BY <1>4, <1>5, <1>6 DEF GAsserts

(* What a thread carries is in its hands.                                  *)
LEMMA CarriedIs ==
  ASSUME Frames, NEW t \in Threads, NEW d \in Dummies
  PROVE  d \in Carried(t) <=> Hand(t) = d
<1>1. d # NULL /\ Frame(t)
  BY Constants DEF Frames, All
<1> QED BY <1>1 DEF Carried, Frame, Hand, PreLabels, OutLabels

(* Each dummy is free, in the list, in a hand or retired, and one at most  *)
(* is about.                                                               *)
LEMMA DummiesFollow == QueueInv => DummiesAccounted
<1> SUFFICES ASSUME QueueInv PROVE DummiesAccounted
  OBVIOUS
<1>1. PICK l \in Seq(All) : ListIs(l)
  BY DEF QueueInv
<1>2. TypeOK /\ Frames /\ OnePlace(Members(l)) /\ DummyKept(Members(l)) /\ Listed = l
  BY <1>1, ListedIs DEF QueueInv, ListIs, Accounted
<1> DEFINE S == InList
<1>3. S = Members(l)
  BY <1>2 DEF InList, Members
<1>4. OnePlace(S) /\ DummyKept(S)
  BY <1>2, <1>3
<1> HIDE DEF S
<1>5. Cardinality({}) = 0
  BY FS_EmptySet
<1>6. \A d \in Dummies : d \in S => has_dummy
  BY <1>4 DEF DummyKept, Token
<1>7. Cardinality(S \cap Dummies) <= 1
  <2>1. CASE S \cap Dummies = {}
    BY <1>5, <2>1
  <2>2. CASE S \cap Dummies # {}
    <3>1. PICK d : d \in S \cap Dummies
      BY <2>2
    <3>2. S \cap Dummies = {d}
      BY <1>4, <3>1 DEF DummyKept, Token
    <3>3. Cardinality({d}) = 1
      BY FS_Singleton
    <3>4. Cardinality(S \cap Dummies) = Cardinality({d})
      BY <3>2, Zenon
    <3> QED BY <3>3, <3>4
  <2> QED BY <2>1, <2>2
<1>8. ASSUME NEW d \in Dummies
      PROVE  Cardinality({d} \ {e \in Dummies : in_use[e]}) + Cardinality({d} \cap S)
               + Cardinality({d} \cap retired)
               + Cardinality({t \in Threads : d \in Carried(t)}) = 1
  <2>0. Cardinality({d}) = 1
    BY FS_Singleton
  <2> DEFINE C == {t \in Threads : d \in Carried(t)}
             F == {d} \ {e \in Dummies : in_use[e]}
  <2>1. /\ F = IF d \in FreeDummies THEN {d} ELSE {}
        /\ {d} \cap S = IF d \in S THEN {d} ELSE {}
        /\ {d} \cap retired = IF d \in retired THEN {d} ELSE {}
    BY DEF FreeDummies
  <2>2. C = {t \in Threads : Hand(t) = d}
    BY <1>2, CarriedIs
  <2>3. d \in All /\ d # NULL /\ d \notin unused
    BY <1>2, Constants DEF All, TypeOK
  <2> HIDE DEF C, F
  <2>4. CASE \E t \in Threads : Hand(t) = d
    <3>1. PICK t \in Threads : Hand(t) = d
      BY <2>4
    <3>2. C = {t} /\ d \notin S \cup Away
      BY <1>4, <2>2, <2>3, <3>1 DEF OnePlace
    <3>3. /\ Cardinality(C) = 1 /\ Cardinality(F) = 0
          /\ Cardinality({d} \cap S) = 0 /\ Cardinality({d} \cap retired) = 0
      <4>1. Cardinality({t}) = 1
        BY FS_Singleton
      <4>2. F = {} /\ {d} \cap S = {} /\ {d} \cap retired = {}
        BY <2>1, <3>2 DEF Away
      <4> QED BY <1>5, <3>2, <4>1, <4>2
    <3> QED BY <3>3 DEF C, F
  <2>5. CASE ~\E t \in Threads : Hand(t) = d
    <3>1. C = {}
      BY <2>2, <2>5
    <3>2. d \in S \cup Away
      BY <1>4, <2>3, <2>5 DEF OnePlace
    <3>3. /\ d \in FreeDummies \/ d \in S \/ d \in retired
          /\ ~(d \in S /\ d \in Away) /\ ~(d \in retired /\ d \in FreeDummies)
          /\ d \in FreeDummies => d \in Away
          /\ d \in retired => d \in Away
      BY <1>4, <2>3, <3>2 DEF OnePlace, Away
    <3>4. /\ Cardinality(C) = 0
          /\ Cardinality(F) = IF d \in FreeDummies THEN 1 ELSE 0
          /\ Cardinality({d} \cap S) = IF d \in S THEN 1 ELSE 0
          /\ Cardinality({d} \cap retired) = IF d \in retired THEN 1 ELSE 0
      BY <1>5, <2>0, <2>1, <3>1
    <3>5. Cardinality(F) + Cardinality({d} \cap S) + Cardinality({d} \cap retired)
            + Cardinality(C) = 1
      BY <3>3, <3>4
    <3> QED BY <3>5 DEF C, F
  <2> QED BY <2>4, <2>5
<1>9. ~has_dummy => S \cap Dummies = {}
  BY <1>6
<1> QED BY <1>2, <1>7, <1>8, <1>9 DEF DummiesAccounted, S

(* The assertions of lock-free-queue.c hold.                               *)
THEOREM QueueAsserts == Spec => []GAsserts
BY QueueAlways, AssertsFollow, PTL

(* A dummy is in one place, and the list has one at most: what get_dummy   *)
(* and try_reenqueue_dummy rely on.                                        *)
THEOREM DummiesAlwaysAccounted == Spec => []DummiesAccounted
BY QueueAlways, DummiesFollow, PTL

(* The tail is the last node of the list or the one before it.             *)
THEOREM TailNeverFarBehind == Spec => []TailLagsByOne
BY QueueAlways, TailFollows, PTL

-----------------------------------------------------------------------------
(* Held: the nodes of the callers in the list, in its order.               *)

KeptBy(f, l) ==
  /\ f[0] = << >>
  /\ \A k \in 1 .. Len(l) : f[k] = IF l[k] \in Nodes THEN Append(f[k - 1], l[k]) ELSE f[k - 1]
IsKept(l, q) == \E f : KeptBy(f, l) /\ q = f[Len(l)]

(* The recursive function exists, and Held is what it comes to.            *)
LEMMA HeldIs ==
  ASSUME NEW l \in Seq(All), Listed = l
  PROVE  IsKept(l, Held)
<1> DEFINE N == Len(l)
           Body(f, k) == IF k = 0 THEN << >>
                         ELSE IF l[k] \in Nodes THEN Append(f[k - 1], l[k]) ELSE f[k - 1]
           Upto(m) == \E f : f = [k \in 0 .. m |-> Body(f, k)]
           T == {m \in 0 .. N : Upto(m)}
<1>1. N \in Nat
  OBVIOUS
<1>2. 0 \in T
  <2> DEFINE f == [k \in 0 .. 0 |-> << >>]
  <2>1. f = [k \in 0 .. 0 |-> Body(f, k)]
    OBVIOUS
  <2>2. Upto(0)
    <3> HIDE DEF f, Body
    <3> QED BY <2>1
  <2> HIDE DEF Upto
  <2> QED BY <1>1, <2>2
<1>3. ASSUME NEW m \in 1 .. N, m - 1 \in T PROVE m \in T
  <2>1. PICK f : f = [k \in 0 .. m - 1 |-> Body(f, k)]
    BY <1>3
  <2> DEFINE g == [k \in 0 .. m |-> IF k = m THEN Body(f, m) ELSE f[k]]
  <2>2. m \in Nat /\ m # 0 /\ m - 1 \in 0 .. m - 1 /\ m \in 0 .. N
    BY <1>1, <1>3
  <2>3. ASSUME NEW k \in 0 .. m PROVE g[k] = Body(g, k)
    <3>1. CASE k = m
      <4>1. m - 1 \in 0 .. m /\ m - 1 # m
        BY <2>2
      <4>2. g[m - 1] = f[m - 1]
        BY <4>1
      <4>3. g[m] = Body(f, m)
        BY <2>2
      <4> HIDE DEF g
      <4> QED BY <2>2, <3>1, <4>2, <4>3
    <3>2. CASE k # m
      <4>1. k \in 0 .. m - 1 /\ g[k] = f[k]
        BY <2>2, <3>2
      <4>2. f[k] = Body(f, k)
        <5> HIDE DEF Body
        <5> QED BY <2>1, <4>1
      <4>3. k # 0 => k - 1 \in 0 .. m /\ k - 1 # m
        BY <4>1, <2>2
      <4>4. k # 0 => g[k - 1] = f[k - 1]
        BY <4>3
      <4> HIDE DEF g
      <4> QED BY <4>1, <4>2, <4>4
    <3> QED BY <3>1, <3>2
  <2>4. g = [k \in 0 .. m |-> Body(g, k)]
    <3> HIDE DEF Body
    <3> QED BY <2>3
  <2>5. Upto(m)
    <3> HIDE DEF g, Body
    <3> QED BY <2>4
  <2> HIDE DEF Upto
  <2> QED BY <2>2, <2>5
<1>4. N \in T
  <2>1. \A k \in 1 .. N : k - 1 \in T => k \in T
    BY <1>3
  <2>2. N \in 0 .. N
    BY <1>1
  <2> HIDE DEF T, N
  <2> QED BY <1>1, <1>2, <2>1, <2>2, AllNumbers
<1> DEFINE Eq(f) == f = [k \in 0 .. N |-> Body(f, k)]
<1>5. PICK g : Eq(g) /\ Held = g[N]
  <2>1. Held = (CHOOSE f : Eq(f))[N]
    BY DEF Held
  <2>2. \E f : Eq(f)
    BY <1>4
  <2> HIDE DEF Eq
  <2> QED BY <2>1, <2>2
<1>6. \A k \in 0 .. N : g[k] = Body(g, k)
  <2>1. g = [k \in 0 .. N |-> Body(g, k)]
    BY <1>5
  <2> HIDE DEF Body
  <2> QED BY <2>1
<1>7. g[0] = << >>
  <2>1. 0 \in 0 .. N /\ Body(g, 0) = << >>
    BY <1>1
  <2> HIDE DEF Body
  <2> QED BY <1>6, <2>1
<1>8. ASSUME NEW k \in 1 .. N
      PROVE g[k] = IF l[k] \in Nodes THEN Append(g[k - 1], l[k]) ELSE g[k - 1]
  <2>1. k \in 0 .. N /\ k # 0
    BY <1>1
  <2>2. g[k] = Body(g, k)
    <3> HIDE DEF Body
    <3> QED BY <1>6, <2>1
  <2> QED BY <2>1, <2>2
<1>9. KeptBy(g, l)
  BY <1>7, <1>8 DEF KeptBy
<1> QED BY <1>5, <1>9 DEF IsKept

(* It is unique.                                                           *)
LEMMA KeptOnce ==
  ASSUME NEW l \in Seq(All), NEW q, NEW r, IsKept(l, q), IsKept(l, r)
  PROVE  q = r
<1>1. PICK f : KeptBy(f, l) /\ q = f[Len(l)]
  BY DEF IsKept
<1>2. PICK g : KeptBy(g, l) /\ r = g[Len(l)]
  BY DEF IsKept
<1>3. PICK N \in Nat : N = Len(l)
  OBVIOUS
<1>4. f[0] = g[0] /\ \A k \in 1 .. N : f[k - 1] = g[k - 1] => f[k] = g[k]
  BY <1>1, <1>2, <1>3 DEF KeptBy
<1>5. \A k \in 0 .. N : f[k] = g[k]
  BY <1>4, Alike
<1> QED BY <1>1, <1>2, <1>3, <1>5

(* Its nodes are in the list, and the first node of the list comes first.  *)
LEMMA KeptFacts ==
  ASSUME NEW l \in Seq(All), NEW f, KeptBy(f, l)
  PROVE  \A k \in 0 .. Len(l) :
           /\ f[k] \in Seq(Nodes) /\ Len(f[k]) <= k
           /\ \A i \in 1 .. Len(f[k]) : f[k][i] \in Members(l)
           /\ k # 0 /\ l[1] \in Nodes => f[k] # << >> /\ f[k][1] = l[1]
<1>1. PICK N \in Nat : N = Len(l)
  OBVIOUS
<1> DEFINE Good(k) == /\ f[k] \in Seq(Nodes) /\ Len(f[k]) <= k
                      /\ \A i \in 1 .. Len(f[k]) : f[k][i] \in Members(l)
                      /\ k # 0 /\ l[1] \in Nodes => f[k] # << >> /\ f[k][1] = l[1]
           T == {k \in 0 .. N : Good(k)}
<1>2. 0 \in T
  <2>1. f[0] = << >>
    BY DEF KeptBy
  <2>2. << >> \in Seq(Nodes) /\ Len(<< >>) = 0
    OBVIOUS
  <2>3. Good(0)
    BY <2>1, <2>2
  <2> HIDE DEF Good
  <2> QED BY <2>3
<1>3. ASSUME NEW k \in 1 .. N, k - 1 \in T PROVE k \in T
  <2>1. Good(k - 1)
    BY <1>3
  <2>2. f[k] = IF l[k] \in Nodes THEN Append(f[k - 1], l[k]) ELSE f[k - 1]
    BY <1>1 DEF KeptBy
  <2>3. l[k] \in Members(l)
    BY <1>1 DEF Members
  <2>4. PICK s \in Seq(Nodes) : s = f[k - 1]
    BY <2>1
  <2>5. CASE l[k] \notin Nodes
    <3>1. k = 1 => l[1] \notin Nodes
      BY <2>5
    <3>2. f[k] = f[k - 1]
      BY <2>2, <2>5
    <3>3. k - 1 # 0 \/ k = 1
      OBVIOUS
    <3> QED BY <2>1, <3>1, <3>2, <3>3
  <2>6. CASE l[k] \in Nodes
    <3>1. PICK m \in Nat : m = Len(s)
      OBVIOUS
    <3>2. PICK x \in Nodes : x = l[k]
      BY <2>6
    <3>3. PICK e \in Seq(Nodes) : e = Append(s, x)
      <4>1. Append(s, x) \in Seq(Nodes)
        OBVIOUS
      <4> QED BY <4>1
    <3>4. Len(e) = m + 1 /\ e[m + 1] = x /\ \A i \in 1 .. m : e[i] = s[i]
      BY <3>1, <3>3
    <3>5. f[k] = e /\ m <= k - 1
      BY <2>1, <2>2, <2>4, <2>6, <3>1, <3>2, <3>3
    <3>6. \A i \in 1 .. Len(e) : e[i] \in Members(l)
      BY <2>1, <2>3, <2>4, <3>1, <3>2, <3>4
    <3>7. e # << >>
      BY <3>4
    <3>8. l[1] \in Nodes => e[1] = l[1]
      <4>1. CASE k = 1
        <5>1. m = 0
          BY <3>5, <4>1
        <5> QED BY <3>2, <3>4, <4>1, <5>1
      <4>2. CASE k # 1
        <5>1. l[1] \in Nodes => s # << >> /\ s[1] = l[1]
          BY <2>1, <2>4, <4>2
        <5>2. s # << >> => 1 \in 1 .. m
          BY <3>1
        <5> QED BY <3>4, <5>1, <5>2
      <4> QED BY <4>1, <4>2
    <3>9. Len(e) <= k
      BY <3>4, <3>5
    <3> QED BY <3>5, <3>6, <3>7, <3>8, <3>9
  <2> QED BY <2>5, <2>6
<1>4. \A k \in 0 .. N : k \in T
  <2>1. \A k \in 1 .. N : k - 1 \in T => k \in T
    BY <1>3
  <2> HIDE DEF T
  <2> QED BY <1>2, <2>1, AllNumbers
<1>5. \A k \in 0 .. N : Good(k)
  <2> HIDE DEF Good
  <2> QED BY <1>4
<1> QED BY <1>1, <1>5

(* The nodes kept of a list are some of its members.                       *)
LEMMA KeptNodes ==
  ASSUME NEW l \in Seq(All), NEW q, IsKept(l, q)
  PROVE  /\ q \in Seq(Nodes) /\ Len(q) <= Len(l)
         /\ \A i \in 1 .. Len(q) : q[i] \in Members(l)
<1>1. PICK f : KeptBy(f, l) /\ q = f[Len(l)]
  BY DEF IsKept
<1>2. Len(l) \in 0 .. Len(l)
  OBVIOUS
<1> QED BY <1>1, <1>2, KeptFacts

(* A node is linked after the last one.                                    *)
LEMMA KeptAppend ==
  ASSUME NEW l \in Seq(All), NEW x \in All, NEW q, IsKept(l, q)
  PROVE  IsKept(Append(l, x), IF x \in Nodes THEN Append(q, x) ELSE q)
<1>1. PICK f : KeptBy(f, l) /\ q = f[Len(l)]
  BY DEF IsKept
<1>2. PICK n \in Nat : n = Len(l)
  OBVIOUS
<1>3. PICK e \in Seq(All) : e = Append(l, x)
  <2>1. Append(l, x) \in Seq(All)
    OBVIOUS
  <2> QED BY <2>1
<1>4. Len(e) = n + 1 /\ e[n + 1] = x /\ \A i \in 1 .. n : e[i] = l[i]
  BY <1>2, <1>3
<1> DEFINE r == IF x \in Nodes THEN Append(q, x) ELSE q
           g == [k \in 0 .. n + 1 |-> IF k = n + 1 THEN r ELSE f[k]]
<1>5. /\ g[n + 1] = r
      /\ \A k \in 0 .. n : g[k] = f[k]
  <2>1. n + 1 \in 0 .. n + 1 /\ \A k \in 0 .. n : k \in 0 .. n + 1 /\ k # n + 1
    OBVIOUS
  <2> HIDE DEF r
  <2> QED BY <2>1
<1> HIDE DEF g
<1>6. g[0] = << >>
  BY <1>1, <1>5 DEF KeptBy
<1>7. ASSUME NEW k \in 1 .. n + 1
      PROVE  g[k] = IF e[k] \in Nodes THEN Append(g[k - 1], e[k]) ELSE g[k - 1]
  <2>1. CASE k = n + 1
    <3>1. g[k - 1] = q /\ e[k] = x
      BY <1>1, <1>2, <1>4, <1>5, <2>1
    <3> QED BY <1>5, <2>1, <3>1
  <2>2. CASE k # n + 1
    <3>1. k \in 1 .. n /\ k \in 0 .. n /\ k - 1 \in 0 .. n
      BY <2>2
    <3>2. f[k] = IF l[k] \in Nodes THEN Append(f[k - 1], l[k]) ELSE f[k - 1]
      BY <1>1, <1>2, <3>1 DEF KeptBy
    <3> QED BY <1>4, <1>5, <3>1, <3>2
  <2> QED BY <2>1, <2>2
<1>8. KeptBy(g, e) /\ r = g[Len(e)]
  BY <1>4, <1>5, <1>6, <1>7 DEF KeptBy
<1> QED BY <1>3, <1>8 DEF IsKept

(* The first node is taken.                                                *)
LEMMA KeptTail ==
  ASSUME NEW l \in Seq(All), l # << >>, NEW q, IsKept(l, q)
  PROVE  /\ IsKept(Tail(l), IF l[1] \in Nodes THEN Tail(q) ELSE q)
         /\ l[1] \in Nodes => q # << >> /\ q[1] = l[1]
<1>1. PICK f : KeptBy(f, l) /\ q = f[Len(l)]
  BY DEF IsKept
<1>2. PICK n \in Nat : n = Len(l) /\ n # 0
  OBVIOUS
<1>3. PICK e \in Seq(All) : e = Tail(l) /\ Len(e) = n - 1 /\ \A i \in 1 .. n - 1 : e[i] = l[i + 1]
  <2>1. /\ Tail(l) \in Seq(All) /\ Len(Tail(l)) = Len(l) - 1
        /\ \A i \in 1 .. Len(Tail(l)) : Tail(l)[i] = l[i + 1]
    BY HeadTailProperties
  <2> QED BY <1>2, <2>1
<1>4. \A k \in 0 .. n : /\ f[k] \in Seq(Nodes)
                        /\ k # 0 /\ l[1] \in Nodes => f[k] # << >> /\ f[k][1] = l[1]
  BY <1>1, <1>2, KeptFacts
<1>5. f[0] = << >> /\ \A k \in 1 .. n : f[k] = IF l[k] \in Nodes
        THEN Append(f[k - 1], l[k]) ELSE f[k - 1]
  BY <1>1, <1>2 DEF KeptBy
<1>6. 1 \in 1 .. n /\ n \in 1 .. n /\ n \in 0 .. n
  BY <1>2
<1>7. q = f[n] /\ (l[1] \in Nodes => q # << >> /\ q[1] = l[1])
  BY <1>1, <1>2, <1>4, <1>6
<1> DEFINE g == [k \in 0 .. n - 1 |-> IF l[1] \in Nodes THEN Tail(f[k + 1]) ELSE f[k + 1]]
<1>8. \A k \in 0 .. n - 1 : g[k] = IF l[1] \in Nodes THEN Tail(f[k + 1]) ELSE f[k + 1]
  OBVIOUS
<1> HIDE DEF g
<1>9. g[0] = << >>
  <2>1. 0 \in 0 .. n - 1 /\ 0 + 1 = 1
    BY <1>2
  <2>2. f[1] = IF l[1] \in Nodes THEN Append(<< >>, l[1]) ELSE << >>
    <3>1. f[1 - 1] = << >>
      BY <1>5
    <3> QED BY <1>5, <1>6, <3>1
  <2>3. Tail(Append(<< >>, l[1])) = << >>
    OBVIOUS
  <2> QED BY <1>8, <2>1, <2>2, <2>3
<1>10. ASSUME NEW k \in 1 .. n - 1
       PROVE  g[k] = IF e[k] \in Nodes THEN Append(g[k - 1], e[k]) ELSE g[k - 1]
  <2>1. k \in 0 .. n - 1 /\ k - 1 \in 0 .. n - 1 /\ (k - 1) + 1 = k /\ k + 1 \in 1 .. n
        /\ (k + 1) - 1 = k /\ k \in 0 .. n /\ k # 0
    BY <1>2
  <2>2. f[k + 1] = IF e[k] \in Nodes THEN Append(f[k], e[k]) ELSE f[k]
    BY <1>3, <1>5, <2>1
  <2>3. g[k - 1] = IF l[1] \in Nodes THEN Tail(f[k]) ELSE f[k]
    BY <1>8, <2>1
  <2>4. g[k] = IF l[1] \in Nodes THEN Tail(f[k + 1]) ELSE f[k + 1]
    BY <1>8, <2>1
  <2>5. ASSUME l[1] \in Nodes, e[k] \in Nodes
        PROVE  Tail(Append(f[k], e[k])) = Append(Tail(f[k]), e[k])
    <3>1. PICK s \in Seq(Nodes) : s = f[k] /\ s # << >>
      BY <1>4, <2>1, <2>5
    <3>2. PICK x \in Nodes : x = e[k]
      BY <2>5
    <3>3. Tail(Append(s, x)) = Append(Tail(s), x)
      <4>1. PICK m \in Nat : m = Len(s) /\ m # 0
        BY <3>1
      <4>2. PICK a \in Seq(Nodes) : a = Append(s, x)
        <5>1. Append(s, x) \in Seq(Nodes)
          OBVIOUS
        <5> QED BY <5>1
      <4>3. Len(a) = m + 1 /\ a[m + 1] = x /\ (\A i \in 1 .. m : a[i] = s[i]) /\ a # << >>
        BY <4>1, <4>2
      <4>4. PICK b \in Seq(Nodes) : b = Tail(a) /\ Len(b) = m /\ \A i \in 1 .. m : b[i] = a[i + 1]
        <5>1. /\ Tail(a) \in Seq(Nodes) /\ Len(Tail(a)) = Len(a) - 1
              /\ \A i \in 1 .. Len(Tail(a)) : Tail(a)[i] = a[i + 1]
          BY <4>3, HeadTailProperties
        <5>2. Len(Tail(a)) = m
          BY <4>3, <5>1
        <5> QED BY <5>1, <5>2
      <4>5. PICK c \in Seq(Nodes) : /\ c = Tail(s) /\ Len(c) = m - 1
                                    /\ \A i \in 1 .. m - 1 : c[i] = s[i + 1]
        <5>1. /\ Tail(s) \in Seq(Nodes) /\ Len(Tail(s)) = Len(s) - 1
              /\ \A i \in 1 .. Len(Tail(s)) : Tail(s)[i] = s[i + 1]
          BY <3>1, HeadTailProperties
        <5> QED BY <4>1, <5>1
      <4>6. PICK d \in Seq(Nodes) : d = Append(c, x)
        <5>1. Append(c, x) \in Seq(Nodes)
          OBVIOUS
        <5> QED BY <5>1
      <4>7. Len(d) = m /\ d[m] = x /\ \A i \in 1 .. m - 1 : d[i] = c[i]
        BY <4>1, <4>5, <4>6
      <4>8. ASSUME NEW i \in 1 .. m PROVE b[i] = d[i]
        <5>1. CASE i = m
          BY <4>3, <4>4, <4>7, <5>1
        <5>2. CASE i # m
          <6>1. i \in 1 .. m - 1 /\ i + 1 \in 1 .. m
            BY <5>2
          <6> QED BY <4>3, <4>4, <4>5, <4>7, <6>1
        <5> QED BY <5>1, <5>2
      <4>9. b = d
        BY <4>4, <4>7, <4>8, SeqEqual
      <4> QED BY <4>2, <4>4, <4>5, <4>6, <4>9
    <3> QED BY <3>1, <3>2, <3>3
  <2> QED BY <2>2, <2>3, <2>4, <2>5
<1>11. KeptBy(g, e)
  BY <1>3, <1>9, <1>10 DEF KeptBy
<1>12. g[Len(e)] = IF l[1] \in Nodes THEN Tail(q) ELSE q
  <2>1. n - 1 \in 0 .. n - 1 /\ (n - 1) + 1 = n
    BY <1>2
  <2> QED BY <1>3, <1>7, <1>8, <2>1
<1>13. IsKept(e, IF l[1] \in Nodes THEN Tail(q) ELSE q)
  BY <1>11, <1>12 DEF IsKept
<1> QED BY <1>3, <1>7, <1>13

-----------------------------------------------------------------------------
(* The queue of the callers, before a step and after it.                   *)

HeldOfList == \A l \in Seq(All) : ListIs(l) => IsKept(l, Held)

(* Held is what is kept of the list.                                       *)
LEMMA HeldFollows == HeldOfList
BY ListedIs, HeldIs DEF ListIs, HeldOfList

(* The same of the next state.                                             *)
LEMMA HeldThen == HeldOfList'
BY HeldFollows, PTL

(* The queue holds the same when the list is the same.                     *)
LEMMA HeldStays ==
  ASSUME NEW l \in Seq(All), ListIs(l), ListIs(l)'
  PROVE  Held' = Held
<1>1. IsKept(l, Held)
  BY HeldFollows DEF HeldOfList
<1>2. \A k \in Seq(All) : ListIs(k)' => IsKept(k, Held')
  BY HeldThen DEF HeldOfList, IsKept
<1>3. PICK q : q = Held'
  OBVIOUS
<1>4. IsKept(l, q)
  BY <1>2, <1>3
<1> QED BY <1>1, <1>3, <1>4, KeptOnce

(* A step that neither links a node nor takes one.                         *)
LEMMA HeldSame ==
  ASSUME TypeOK, Frames, NEW l \in Seq(All), ListIs(l), NEW t \in Threads, ThreadStep(t),
         ~(pc[t] = "enq_cas" /\ next[hp[t]] = END_MARKER), ~(pc[t] = "deq_cas" /\ head = hp[t])
  PROVE  Held' = Held
<1>1. CASE Link(t)
  <2>1. next[hp[t]] # END_MARKER
    BY <1>1 DEF Link
  <2>2. PICK y : y = node[t]
    OBVIOUS
  <2>3. ListIs(l)'
    BY <1>1, <2>1, <2>2, LinkKeeps
  <2> QED BY <2>3, HeldStays
<1>2. CASE Unlink(t)
  <2>1. head # hp[t]
    BY <1>2 DEF Unlink
  <2>2. ListIs(l)'
    BY <1>2, <2>1, UnlinkKeeps
  <2> QED BY <2>2, HeldStays
<1>3. CASE ~Link(t) /\ ~Unlink(t)
  <2>1. ListIs(l)'
    BY <1>3, ListStays
  <2> QED BY <2>1, HeldStays
<1> QED BY <1>1, <1>2, <1>3

(* Linking a node adds it to what the queue holds.                         *)
LEMMA HeldLinked ==
  ASSUME TypeOK, Frames, NEW l \in Seq(All), ListIs(l), NEW t \in Threads, Link(t),
         next[hp[t]] = END_MARKER, NEW y, y = node[t]
  PROVE  y \in All /\ Held' = IF y \in Nodes THEN Append(Held, y) ELSE Held
<1>1. y \in All /\ Append(l, y) \in Seq(All) /\ ListIs(Append(l, y))'
  BY LinkKeeps
<1>2. IsKept(l, Held)
  BY HeldFollows DEF HeldOfList
<1>3. \A k \in Seq(All) : ListIs(k)' => IsKept(k, Held')
  BY HeldThen DEF HeldOfList, IsKept
<1>4. PICK k \in Seq(All) : k = Append(l, y)
  BY <1>1
<1>5. PICK r : r = Held'
  OBVIOUS
<1>6. IsKept(k, r)
  BY <1>1, <1>3, <1>4, <1>5
<1>7. IsKept(k, IF y \in Nodes THEN Append(Held, y) ELSE Held)
  BY <1>1, <1>2, <1>4, KeptAppend
<1> QED BY <1>1, <1>5, <1>6, <1>7, KeptOnce

(* Unlinking a node takes it off what the queue holds.                     *)
LEMMA HeldUnlinked ==
  ASSUME TypeOK, Frames, NEW l \in Seq(All), ListIs(l), NEW t \in Threads, Unlink(t),
         head = hp[t], NEW h, h = head
  PROVE  /\ Held' = IF h \in Nodes THEN Tail(Held) ELSE Held
         /\ h \in Nodes => Held # << >> /\ Held[1] = h
<1>1. Tail(l) \in Seq(All) /\ ListIs(Tail(l))'
  BY UnlinkKeeps
<1>2. IsKept(l, Held) /\ l # << >> /\ l[1] = h
  BY HeldFollows DEF HeldOfList, ListIs, IsChain
<1>3. \A k \in Seq(All) : ListIs(k)' => IsKept(k, Held')
  BY HeldThen DEF HeldOfList, IsKept
<1>4. PICK k \in Seq(All) : k = Tail(l)
  BY <1>1
<1>5. PICK r : r = Held'
  OBVIOUS
<1>6. IsKept(k, r)
  BY <1>1, <1>3, <1>4, <1>5
<1>7. /\ IsKept(k, IF h \in Nodes THEN Tail(Held) ELSE Held)
      /\ h \in Nodes => Held # << >> /\ Held[1] = h
  BY <1>2, <1>4, KeptTail
<1> QED BY <1>5, <1>6, <1>7, KeptOnce

(* A list with one node holds one node of the callers at most.             *)
LEMMA HeldShort ==
  ASSUME TypeOK, Frames, NEW l \in Seq(All), ListIs(l)
  PROVE  /\ Held \in Seq(Nodes) /\ \A i \in 1 .. Len(Held) : Held[i] \in Members(l)
         /\ next[head] = END_MARKER => Len(Held) <= 1
<1>1. IsKept(l, Held)
  BY HeldFollows DEF HeldOfList
<1>2. /\ Held \in Seq(Nodes) /\ Len(Held) <= Len(l)
      /\ \A i \in 1 .. Len(Held) : Held[i] \in Members(l)
  BY <1>1, KeptNodes
<1>3. ASSUME next[head] = END_MARKER PROVE Len(Held) <= 1
  <2>1. PICK n \in Nat : n = Len(l) /\ n # 0
    BY DEF ListIs, IsChain
  <2>2. /\ l[1] = head /\ 1 \in 1 .. n /\ n \in 1 .. n
        /\ next[l[1]] = IF 1 = n THEN END_MARKER ELSE l[1 + 1]
        /\ \A i \in 1 .. n : l[i] \in All
    BY <2>1 DEF ListIs, IsChain
  <2>3. n = 1
    <3>1. END_MARKER \notin All
      BY Constants DEF Markers
    <3>2. n # 1 => 1 + 1 \in 1 .. n
      BY <2>1
    <3> QED BY <1>3, <2>2, <3>1, <3>2
  <2>4. Len(Held) \in Nat
    BY <1>2
  <2> QED BY <1>2, <2>1, <2>3, <2>4
<1> QED BY <1>2, <1>3

-----------------------------------------------------------------------------
(* A dequeue that must find something.                                     *)

(* It has been alone, and two nodes are there, or it has one of them.      *)
Sure(t) == pc[t] # "idle" /\ node[t] \notin Nodes /\ t \notin may_fail
SureOf(t) ==
  /\ \A u \in Threads \ {t} : pc[u] = "idle"
  /\ (pc[t] = "deq_taken" /\ dummy[t] \in Nodes) \/ Len(Held) >= 2
  /\ pc[t] \in {"deq_check", "deq_tail", "deq_next", "deq_consistent"} => hp[t] = head
  /\ pc[t] = "deq_consistent" => nx[t] = next[hp[t]]
  /\ pc[t] \in {"dummy_free", "has_dummy", "get_dummy", "dummy_cas"} => ~has_dummy
  /\ pc[t] \in {"has_dummy", "get_dummy"} => FreeDummies = Dummies
  /\ pc[t] = "get_dummy" => dummy[t] \in Dummies
SureKept == \A t \in Threads : Sure(t) => SureOf(t)

(* The list of such a dequeue has two nodes, so it never finds one only.   *)
LEMMA SureFinds ==
  ASSUME TypeOK, Frames, NEW l \in Seq(All), ListIs(l), NEW t \in Threads, SureOf(t),
         pc[t] = "deq_consistent"
  PROVE  head = hp[t] /\ nx[t] # END_MARKER
<1>1. hp[t] = head /\ nx[t] = next[hp[t]] /\ Len(Held) >= 2
  BY DEF SureOf
<1>2. Len(Held) \in Nat
  <2>1. Held \in Seq(Nodes)
    BY HeldShort
  <2> QED BY <2>1
<1>3. next[head] = END_MARKER => Len(Held) <= 1
  BY HeldShort
<1> QED BY <1>1, <1>2, <1>3

(* When it has freed a dummy, no other is out of reach.                    *)
LEMMA SureFrees ==
  ASSUME TypeOK, Frames, NEW l \in Seq(All), ListIs(l), NEW t \in Threads, DummyFree(t), SureOf(t)
  PROVE  ~has_dummy' /\ FreeDummies' = Dummies
<1>1. ThreadStep(t) /\ OthersStay(t) /\ Frame(t)
  BY StepOfOne DEF ThreadStep, Step, Dequeue, Frames
<1>2. /\ ListIs(l)' /\ has_dummy' = has_dummy /\ pc[t] = "dummy_free" /\ pc'[t] = "has_dummy"
  BY DummyFreeKeeps DEF DummyFree, TypeOK
<1>3. ~has_dummy /\ \A u \in Threads \ {t} : pc[u] = "idle"
  BY <1>2 DEF SureOf
<1>4. \A u \in Threads : hp[u] = NULL
  <2>1. ASSUME NEW u \in Threads PROVE hp[u] = NULL
    <3>1. Frame(u) /\ pc[u] \in {"idle", "dummy_free"}
      BY <1>2, <1>3 DEF Frames
    <3> QED BY <3>1 DEF Frame, EnqGuard, DeqGuard
  <2> QED BY <2>1
<1>5. dummy[t] # NULL /\ dummy[t] \in Dummies
  BY <1>1, <1>2, Constants DEF Frame, All
<1>6. retired' = {}
  <2>1. PICK S : /\ (\A u \in Threads : hp[u] # dummy[t]) => dummy[t] \in S
                 /\ (\A u \in Threads : hp[u] = NULL) => retired \subseteq S
                 /\ retired' = (retired \cup {dummy[t]}) \ S
    BY DEF DummyFree
  <2> QED BY <1>4, <1>5, <2>1
<1> DEFINE S == Members(l)
<1>7. OnePlace(S)' /\ DummyKept(S)'
  BY <1>2 DEF ListIs, Accounted
<1>8. \A u \in Threads : Hand(u)' = NULL
  <2>1. \A u \in Threads : pc'[u] \in {"idle", "has_dummy"}
    BY <1>1, <1>2, <1>3 DEF OthersStay
  <2> QED BY <2>1 DEF Hand, PreLabels, OutLabels
<1> HIDE DEF S
<1>9. ASSUME NEW d \in Dummies PROVE d \in FreeDummies'
  <2>1. d \in All /\ d # NULL /\ d \notin Nodes
    BY Constants DEF All
  <2>2. d \in S \cup Away'
    BY <1>7, <1>8, <2>1 DEF OnePlace
  <2>3. d \notin S
    BY <1>2, <1>3, <1>7 DEF DummyKept, Token
  <2>4. unused' \subseteq Nodes
    BY DummyFreeKeeps DEF TypeOK
  <2> QED BY <1>6, <2>1, <2>2, <2>3, <2>4 DEF Away
<1>10. FreeDummies' \subseteq Dummies
  BY DEF FreeDummies
<1> QED BY <1>2, <1>3, <1>9, <1>10

(* A call of the thread ends: an enqueue, or a dequeue with a node or with *)
(* leave to find nothing.                                                  *)
LEMMA SureReturns ==
  ASSUME TypeOK, Frames, NEW l \in Seq(All), ListIs(l), NEW t \in Threads, Step(t),
         Sure(t) => SureOf(t), pc'[t] = "idle", pc[t] # "deq_taken"
  PROVE  pc[t] = "enq_swing" \/ t \in may_fail
<1> SUFFICES ASSUME pc[t] # "enq_swing", t \notin may_fail PROVE FALSE
  OBVIOUS
<1>1. pc[t] \in {"deq_consistent", "has_dummy", "get_dummy", "dummy_cas"}
  BY DEF Step, Enqueue, Dequeue, TailGet, TailCheck, TailNext, TailConsistent, Link, TailHelp,
      Swing,
     HeadGet, HeadCheck, HeadTail, HeadNext, HeadHelp, HeadConsistent, Unlink, Taken, DummyGone,
     DummyFree, HasDummy, GetDummy, DummyCas, TypeOK
<1>2. node[t] = NULL
  BY <1>1 DEF Frames, Frame, PreLabels
<1>3. SureOf(t)
  <2>1. NULL \notin Nodes
    BY Constants DEF All
  <2> QED BY <1>1, <1>2, <2>1 DEF Sure
<1>4. CASE pc[t] = "deq_consistent"
  <2>1. head = hp[t] /\ nx[t] # END_MARKER
    BY <1>3, <1>4, SureFinds
  <2>2. HeadConsistent(t)
    BY <1>4 DEF Step, Enqueue, Dequeue, TailGet, TailCheck, TailNext, TailConsistent, Link,
        TailHelp,
       Swing, HeadGet, HeadCheck, HeadTail, HeadNext, HeadHelp, Unlink, Taken, DummyGone,
       DummyFree, HasDummy, GetDummy, DummyCas
  <2> QED BY <2>1, <2>2 DEF HeadConsistent, TypeOK
<1>5. CASE pc[t] # "deq_consistent"
  <2>1. ~has_dummy
    BY <1>1, <1>3, <1>5 DEF SureOf
  <2>2. HasDummy(t) \/ GetDummy(t) \/ DummyCas(t)
    BY <1>1, <1>5 DEF Step, Enqueue, Dequeue, TailGet, TailCheck, TailNext, TailConsistent, Link,
       TailHelp, Swing, HeadGet, HeadCheck, HeadTail, HeadNext, HeadHelp, HeadConsistent, Unlink,
       Taken, DummyGone, DummyFree
  <2>3. CASE HasDummy(t)
    BY <2>1, <2>3 DEF HasDummy, TypeOK
  <2>4. CASE GetDummy(t)
    <3>1. dummy[t] \in Dummies /\ dummy[t] # NUM_DUMMIES
      BY <1>3, <2>4 DEF GetDummy, SureOf, Dummies
    <3> QED BY <2>4, <3>1 DEF GetDummy, TypeOK
  <2>5. CASE DummyCas(t)
    BY <2>1, <2>5 DEF DummyCas, TypeOK
  <2> QED BY <2>2, <2>3, <2>4, <2>5
<1> QED BY <1>4, <1>5

(* The thread goes on, and is as sure as before.                           *)
LEMMA SureGoesOn ==
  ASSUME TypeOK, Frames, NEW l \in Seq(All), ListIs(l), NEW t \in Threads, Step(t),
         Sure(t) => SureOf(t), Sure(t)'
  PROVE  SureOf(t)'
<1> USE DEF TypeOK, shared, locals
<1>1. ThreadStep(t) /\ OthersStay(t) /\ Frame(t) /\ pc'[t] # "idle"
  BY StepOfOne DEF ThreadStep, Frames, Sure
<1>2. NULL \notin Nodes
  BY Constants DEF All
<1>3. Sure(t) /\ SureOf(t)
  <2>1. pc[t] # "idle"
    BY DEF Step, Enqueue, Dequeue, TailGet, TailCheck, TailNext, TailConsistent, Link,
       TailHelp, Swing, HeadGet, HeadCheck, HeadTail, HeadNext, HeadHelp, HeadConsistent, Unlink,
           Taken,
       DummyGone, DummyFree, HasDummy, GetDummy, DummyCas
  <2>2. t \notin may_fail
    BY <1>1 DEF Sure, Step, Enqueue, Dequeue, TailGet, TailCheck, TailNext, TailConsistent, Link,
       TailHelp, Swing, HeadGet, HeadCheck, HeadTail, HeadNext, HeadHelp, HeadConsistent, Unlink,
           Taken,
       DummyGone, DummyFree, HasDummy, GetDummy, DummyCas
  <2>3. node[t] \notin Nodes
    <3>1. CASE node'[t] = node[t]
      BY <3>1 DEF Sure
    <3>2. CASE Swing(t)
      <4>1. node[t] \in Dummies
        BY <1>1, <3>2 DEF Swing
      <4> QED BY <4>1, Constants
    <3>3. CASE DummyCas(t)
      BY <1>1, <1>2, <3>3 DEF DummyCas, Frame, PreLabels
    <3>4. Swing(t) \/ DummyCas(t) \/ node'[t] = node[t]
      BY DEF Step, Enqueue, Dequeue, TailGet, TailCheck, TailNext, TailConsistent, Link,
         TailHelp, HeadGet, HeadCheck, HeadTail, HeadNext, HeadHelp, HeadConsistent, Unlink, Taken,
         DummyGone, DummyFree, HasDummy, GetDummy
    <3> QED BY <3>1, <3>2, <3>3, <3>4
  <2>4. Sure(t)
    BY <2>1, <2>2, <2>3 DEF Sure
  <2> QED BY <2>4
<1>4. \A u \in Threads \ {t} : pc'[u] = "idle"
  BY <1>1, <1>3 DEF OthersStay, SureOf
<1>5. pc[t] # "deq_taken" \/ dummy[t] \notin Nodes
  <2>1. CASE pc[t] = "deq_taken" /\ dummy[t] \in Nodes
    <3>1. Taken(t)
      BY <2>1 DEF Step, Enqueue, Dequeue, TailGet, TailCheck, TailNext, TailConsistent, Link,
          TailHelp,
         Swing, HeadGet, HeadCheck, HeadTail, HeadNext, HeadHelp, HeadConsistent, Unlink,
         DummyGone, DummyFree, HasDummy, GetDummy, DummyCas
    <3>2. dummy[t] \notin Dummies
      BY <2>1, Constants
    <3> QED BY <1>1, <3>1, <3>2 DEF Taken
  <2> QED BY <2>1
<1>6. Len(Held) >= 2
  BY <1>3, <1>5 DEF SureOf
<1>7. (pc'[t] = "deq_taken" /\ dummy'[t] \in Nodes) \/ Len(Held') >= 2
  <2>1. CASE pc[t] = "enq_cas" /\ next[hp[t]] = END_MARKER
    <3>1. Link(t)
      BY <2>1 DEF Step, Enqueue, Dequeue, TailGet, TailCheck, TailNext, TailConsistent, TailHelp,
         Swing, HeadGet, HeadCheck, HeadTail, HeadNext, HeadHelp, HeadConsistent, Unlink, Taken,
         DummyGone, DummyFree, HasDummy, GetDummy, DummyCas
    <3>2. PICK y : y = node[t]
      OBVIOUS
    <3>3. y \notin Nodes /\ Held' = IF y \in Nodes THEN Append(Held, y) ELSE Held
      BY <1>3, <2>1, <3>1, <3>2, HeldLinked DEF Sure
    <3> QED BY <1>6, <3>3
  <2>2. CASE pc[t] = "deq_cas" /\ head = hp[t]
    <3>1. Unlink(t)
      BY <2>2 DEF Step, Enqueue, Dequeue, TailGet, TailCheck, TailNext, TailConsistent, TailHelp,
         Swing, HeadGet, HeadCheck, HeadTail, HeadNext, HeadHelp, HeadConsistent, Link, Taken,
         DummyGone, DummyFree, HasDummy, GetDummy, DummyCas
    <3>2. PICK h : h = head
      OBVIOUS
    <3>3. Held' = IF h \in Nodes THEN Tail(Held) ELSE Held
      BY <2>2, <3>1, <3>2, HeldUnlinked
    <3>4. pc'[t] = "deq_taken" /\ dummy'[t] = h
      BY <2>2, <3>1, <3>2 DEF Unlink
    <3> QED BY <1>6, <3>3, <3>4
  <2>3. CASE ~(pc[t] = "enq_cas" /\ next[hp[t]] = END_MARKER) /\ ~(pc[t] = "deq_cas"
       /\ head = hp[t])
    <3>1. Held' = Held
      BY <1>1, <2>3, HeldSame
    <3> QED BY <1>6, <3>1
  <2> QED BY <2>1, <2>2, <2>3
<1>8. pc'[t] \in {"deq_check", "deq_tail", "deq_next", "deq_consistent"} => hp'[t] = head'
  BY <1>3 DEF SureOf, Step, Enqueue, Dequeue, TailGet, TailCheck, TailNext, TailConsistent,
     Link, TailHelp, Swing, HeadGet, HeadCheck, HeadTail, HeadNext, HeadHelp, HeadConsistent,
     Unlink, Taken, DummyGone, DummyFree, HasDummy, GetDummy, DummyCas
<1>9. pc'[t] = "deq_consistent" => nx'[t] = next'[hp'[t]]
  BY <1>3 DEF SureOf, Step, Enqueue, Dequeue, TailGet, TailCheck, TailNext, TailConsistent,
     Link, TailHelp, Swing, HeadGet, HeadCheck, HeadTail, HeadNext, HeadHelp, HeadConsistent,
     Unlink, Taken, DummyGone, DummyFree, HasDummy, GetDummy, DummyCas
<1>10. /\ pc'[t] \in {"dummy_free", "has_dummy", "get_dummy", "dummy_cas"} => ~has_dummy'
       /\ pc'[t] \in {"has_dummy", "get_dummy"} => FreeDummies' = Dummies
       /\ pc'[t] = "get_dummy" => dummy'[t] \in Dummies
  <2>1. CASE HeadConsistent(t)
    <3>1. head = hp[t] /\ nx[t] # END_MARKER
      BY <1>3, <2>1, SureFinds DEF HeadConsistent
    <3> QED BY <2>1, <3>1 DEF HeadConsistent
  <2>2. CASE DummyFree(t)
    <3>1. ~has_dummy' /\ FreeDummies' = Dummies
      BY <1>3, <2>2, SureFrees
    <3> QED BY <2>2, <3>1 DEF DummyFree
  <2>3. CASE HasDummy(t)
    <3>1. ~has_dummy /\ FreeDummies = Dummies
      BY <1>3, <2>3 DEF HasDummy, SureOf
    <3>2. FreeDummies' = FreeDummies
      BY <2>3 DEF HasDummy, FreeDummies
    <3> QED BY <2>3, <3>1, <3>2, Constants DEF HasDummy
  <2>4. CASE GetDummy(t)
    <3>1. ~has_dummy /\ FreeDummies = Dummies /\ dummy[t] \in Dummies
      BY <1>3, <2>4 DEF GetDummy, SureOf
    <3>2. ~in_use[dummy[t]]
      BY <3>1 DEF FreeDummies
    <3>3. dummy[t] # NUM_DUMMIES
      BY <3>1, Constants DEF Dummies
    <3> QED BY <2>4, <3>1, <3>2, <3>3 DEF GetDummy
  <2>5. CASE DummyGone(t)
    BY <2>5 DEF DummyGone
  <2>6. CASE ~(HeadConsistent(t) \/ DummyFree(t) \/ HasDummy(t) \/ GetDummy(t) \/ DummyGone(t))
    <3>1. pc'[t] \notin {"dummy_free", "has_dummy", "get_dummy", "dummy_cas"}
      BY <2>6 DEF Step, Enqueue, Dequeue, TailGet, TailCheck, TailNext, TailConsistent, Link,
          TailHelp,
         Swing, HeadGet, HeadCheck, HeadTail, HeadNext, HeadHelp, Unlink, Taken, DummyCas
    <3> QED BY <3>1
  <2> QED BY <2>1, <2>2, <2>3, <2>4, <2>5, <2>6
<1> QED BY <1>4, <1>7, <1>8, <1>9, <1>10 DEF SureOf

(* Each step keeps what a dequeue is sure to find.                         *)
LEMMA SureStep ==
  ASSUME QueueInv, SureKept, [Next]_vars
  PROVE  SureKept'
<1>1. PICK l \in Seq(All) : ListIs(l)
  BY DEF QueueInv
<1>2. TypeOK /\ Frames
  BY DEF QueueInv
<1>3. ASSUME NEW t \in Threads, Step(t) PROVE SureKept'
  <2>1. ThreadStep(t) /\ OthersStay(t) /\ pc[t] # "idle"
    BY <1>2, <1>3, StepOfOne DEF ThreadStep, Step, Enqueue, Dequeue, TailGet, TailCheck, TailNext,
       TailConsistent, Link, TailHelp, Swing, HeadGet, HeadCheck, HeadTail, HeadNext, HeadHelp,
       HeadConsistent, Unlink, Taken, DummyGone, DummyFree, HasDummy, GetDummy, DummyCas
  <2>2. Sure(t)' => SureOf(t)'
    BY <1>1, <1>2, <1>3, SureGoesOn DEF SureKept
  <2>3. ASSUME NEW u \in Threads, u # t, Sure(u)' PROVE FALSE
    <3>1. pc[u] # "idle" /\ node[u] \notin Nodes
      BY <2>1, <2>3 DEF Sure, OthersStay
    <3>2. u \notin may_fail
      BY <1>3, <2>3 DEF Sure, Step, Enqueue, Dequeue, TailGet, TailCheck, TailNext, TailConsistent,
         Link, TailHelp, Swing, HeadGet, HeadCheck, HeadTail, HeadNext, HeadHelp, HeadConsistent,
         Unlink, Taken, DummyGone, DummyFree, HasDummy, GetDummy, DummyCas
    <3> QED BY <2>1, <2>3, <3>1, <3>2 DEF SureKept, SureOf, Sure
  <2> QED BY <2>2, <2>3 DEF SureKept
<1>4. ASSUME NEW t \in Threads, EnqueueBegin(t) \/ DequeueBegin(t) PROVE SureKept'
  <2>1. ThreadStep(t) /\ OthersStay(t)
    BY <1>2, <1>4, StepOfOne DEF ThreadStep
  <2>2. ASSUME NEW u \in Threads, u # t, Sure(u)' PROVE FALSE
    <3>1. u \in Dequeuing
      BY <2>1, <2>2 DEF Sure, OthersStay, Dequeuing, Enqueuing
    <3> QED BY <1>4, <2>2, <3>1 DEF Sure, EnqueueBegin, DequeueBegin
  <2>3. CASE EnqueueBegin(t)
    <3>1. ~Sure(t)'
      BY <1>2, <2>3 DEF Sure, EnqueueBegin, TypeOK
    <3> QED BY <2>2, <3>1 DEF SureKept
  <2>4. CASE DequeueBegin(t)
    <3>1. ASSUME Sure(t)' PROVE SureOf(t)'
      <4>1. Others(t) = {} /\ ~(Len(Held) <= 1) /\ pc'[t] = "deq_get" /\ pc[t] = "idle"
        BY <1>2, <2>4, <3>1 DEF Sure, DequeueBegin, TypeOK
      <4>2. \A u \in Threads \ {t} : pc'[u] = "idle"
        BY <2>1, <4>1 DEF Others, OthersStay
      <4>3. Held' = Held
        BY <1>1, <1>2, <2>1, <4>1, HeldSame
      <4>4. Len(Held) >= 2
        <5>1. Held \in Seq(Nodes)
          BY <1>1, <1>2, HeldShort
        <5>2. Len(Held) \in Nat
          BY <5>1
        <5> QED BY <4>1, <5>2
      <4> QED BY <4>1, <4>2, <4>3, <4>4 DEF SureOf
    <3> QED BY <2>2, <3>1 DEF SureKept
  <2> QED BY <1>4, <2>3, <2>4
<1>5. CASE TryFree
  <2>1. UNCHANGED <<head, tail, has_dummy, pc, node, hp, tl, nx, dummy, may_fail>>
    BY <1>5 DEF TryFree, locals
  <2>2. ListIs(l)' /\ TypeOK'
    BY <1>1, <1>2, <1>5, TryFreeKeeps
  <2>3. Held' = Held
    BY <1>1, <2>2, HeldStays
  <2>4. FreeDummies = Dummies => FreeDummies' = Dummies
    <3>1. PICK x \in retired : FreeAll({x})
      BY <1>5 DEF TryFree
    <3>2. {x} \subseteq All
      BY <1>2, <3>1 DEF TypeOK
    <3>3. FreeDummies' = FreeDummies \cup ({x} \cap Dummies)
      BY <1>2, <3>1, <3>2, FreeAllFacts
    <3> QED BY <3>3
  <2>5. next'[head] = next[head]
    <3>1. PICK x \in retired : FreeAll({x})
      BY <1>5 DEF TryFree
    <3>2. head \in Members(l) /\ ~Out(head) /\ head \in All
      BY <1>1, <1>2, ListFacts
    <3>3. head # x /\ {x} \subseteq All
      BY <1>2, <3>1, <3>2 DEF Out, TypeOK
    <3> QED BY <1>2, <3>1, <3>2, <3>3, FreeAllFacts
  <2>6. ASSUME NEW t \in Threads, Sure(t)' PROVE SureOf(t)'
    <3>1. SureOf(t)
      BY <2>1, <2>6 DEF SureKept, Sure
    <3> QED BY <2>1, <2>3, <2>4, <2>5, <3>1 DEF SureOf
  <2> QED BY <2>6 DEF SureKept
<1>6. CASE UNCHANGED vars
  <2>1. UNCHANGED <<head, next, in_use, has_dummy, pc, node, hp, nx, dummy, may_fail>>
    BY <1>6 DEF vars, shared, locals
  <2>2. Held' = Held
    BY <2>1 DEF Held, Listed
  <2> QED BY <2>1, <2>2 DEF SureKept, Sure, SureOf, FreeDummies
<1> QED BY <1>3, <1>4, <1>5, <1>6 DEF Next

(* No dequeue has begun.                                                   *)
LEMMA SureInit == Init => SureKept
BY DEF Init, SureKept, Sure

(* A dequeue that alone found two nodes is not to fail: it holds in every  *)
(* behaviour.                                                              *)
THEOREM SureAlways == Spec => [](QueueInv /\ SureKept)
<1>1. QueueInv /\ SureKept /\ [Next]_vars => (QueueInv /\ SureKept)'
  BY QueueStep, SureStep
<1> QED BY QueueInit, SureInit, <1>1, PTL DEF Spec

-----------------------------------------------------------------------------
(* The refinement of ConcurrentQueue.                                      *)

CallOf(t) ==
  IF pc[t] = "idle" THEN "none" ELSE IF node[t] \in Nodes THEN "enqueue" ELSE "dequeue"
HandOf(t) ==
  IF node[t] \in Nodes /\ pc[t] # "enq_swing" THEN node[t]
  ELSE IF pc[t] = "deq_taken" /\ dummy[t] \in Nodes THEN dummy[t] ELSE NULL
Calls == [t \in Threads |-> CallOf(t)]
Handed == [t \in Threads |-> HandOf(t)]

(* What the actions of ConcurrentQueue are about.                          *)
LEMMA FifoTerms ==
  ASSUME NEW t \in Threads
  PROVE  /\ Calls[t] = CallOf(t) /\ Handed[t] = HandOf(t)
         /\ Fifo!Dequeuing = Dequeuing /\ Fifo!Others(t) = Others(t)
<1>1. Calls[t] = CallOf(t) /\ Handed[t] = HandOf(t)
  BY DEF Calls, Handed
<1>2. Fifo!Dequeuing = Dequeuing
  BY DEF Fifo!Dequeuing, Dequeuing, Enqueuing
<1>3. Fifo!Others(t) = Others(t)
  BY DEF Fifo!Others, Others
<1> QED BY <1>1, <1>2, <1>3

(* The abstract state is what is held, called and handed.                  *)
LEMMA FifoVars ==
  ASSUME Held' = Held, Calls' = Calls, Handed' = Handed, may_fail' = may_fail
  PROVE  UNCHANGED Fifo!vars
BY DEF Fifo!vars, Calls, Handed, CallOf, HandOf, Enqueuing

(* A step of thread t changes the call and the hand of no other.           *)
LEMMA FifoMoves ==
  ASSUME TypeOK, NEW t \in Threads, OthersStay(t), NEW c, c = CallOf(t)', NEW h, h = HandOf(t)'
  PROVE  Calls' = [Calls EXCEPT ![t] = c] /\ Handed' = [Handed EXCEPT ![t] = h]
<1>1. \A u \in Threads \ {t} : CallOf(u)' = CallOf(u) /\ HandOf(u)' = HandOf(u)
  BY DEF OthersStay, CallOf, HandOf
<1>2. Calls' = [u \in Threads |-> CallOf(u)'] /\ Handed' = [u \in Threads |-> HandOf(u)']
  BY DEF Calls, Handed
<1>3. \A u \in Threads : CallOf(u)' = IF u = t THEN c ELSE CallOf(u)
  BY <1>1
<1>4. \A u \in Threads : HandOf(u)' = IF u = t THEN h ELSE HandOf(u)
  BY <1>1
<1>5. Calls' = [Calls EXCEPT ![t] = c]
  BY <1>2, <1>3 DEF Calls
<1>6. Handed' = [Handed EXCEPT ![t] = h]
  BY <1>2, <1>4 DEF Handed
<1> QED BY <1>5, <1>6

(* The hands of ConcurrentQueue are hands.                                 *)
LEMMA FifoHands ==
  ASSUME Frames, NEW t \in Threads, HandOf(t) # NULL
  PROVE  HandOf(t) = Hand(t)
<1>1. Frame(t) /\ NULL \notin Nodes
  BY Constants DEF Frames, All
<1> QED BY <1>1 DEF HandOf, Hand, Frame, PreLabels, OutLabels

(* An enqueue that begins is one that begins in the abstract queue.        *)
LEMMA FifoEnqueueBegin ==
  ASSUME TypeOK, Frames, NEW l \in Seq(All), ListIs(l), NEW t \in Threads, EnqueueBegin(t)
  PROVE  Fifo!EnqueueBegin(t)
<1>1. ThreadStep(t) /\ OthersStay(t)
  BY StepOfOne DEF ThreadStep
<1>2. PICK n \in unused : node' = [node EXCEPT ![t] = n]
  BY DEF EnqueueBegin
<1>3. /\ n \in Nodes /\ node'[t] = n /\ pc[t] = "idle" /\ pc'[t] = "enq_get"
      /\ may_fail' = Dequeuing
  BY <1>2 DEF EnqueueBegin, TypeOK
<1>4. OnePlace(Members(l)) /\ NULL \notin Nodes
  BY Constants DEF ListIs, Accounted, All
<1>5. n \notin Members(l) /\ \A u \in Threads : Hand(u) = NULL \/ Hand(u) # n
  BY <1>4 DEF OnePlace, Away
<1>6. \A u \in Threads : HandOf(u) # n
  BY <1>3, <1>4, <1>5, FifoHands
<1>7. \A i \in DOMAIN Held : Held[i] # n
  <2>1. Held \in Seq(Nodes) /\ \A i \in 1 .. Len(Held) : Held[i] \in Members(l)
    BY HeldShort
  <2>2. DOMAIN Held = 1 .. Len(Held)
    BY <2>1
  <2> QED BY <1>5, <2>1, <2>2
<1>8. CallOf(t)' = "enqueue" /\ HandOf(t)' = n
  BY <1>3 DEF CallOf, HandOf
<1>9. Calls' = [Calls EXCEPT ![t] = "enqueue"] /\ Handed' = [Handed EXCEPT ![t] = n]
  BY <1>1, <1>8, FifoMoves
<1>10. Held' = Held
  BY <1>1, <1>3, HeldSame
<1>11. Calls[t] = "none" /\ \A u \in Threads : Handed[u] # n
  BY <1>3, <1>6 DEF Calls, Handed, CallOf
<1>12. may_fail' = Fifo!Dequeuing
  BY <1>3, FifoTerms
<1>13. n \in Nodes \ {Held[i] : i \in DOMAIN Held}
  BY <1>3, <1>7
<1> QED
  BY <1>9, <1>10, <1>11, <1>12, <1>13
  DEF Fifo!EnqueueBegin, Calls, Handed, CallOf, HandOf, Enqueuing

(* A dequeue that begins is one that begins in the abstract queue.         *)
LEMMA FifoDequeueBegin ==
  ASSUME TypeOK, Frames, NEW l \in Seq(All), ListIs(l), NEW t \in Threads, DequeueBegin(t)
  PROVE  Fifo!DequeueBegin(t)
<1>1. ThreadStep(t) /\ OthersStay(t)
  BY StepOfOne DEF ThreadStep
<1>2. /\ pc[t] = "idle" /\ pc'[t] = "deq_get" /\ node' = node /\ dummy' = dummy
      /\ may_fail' = Dequeuing \cup (IF Others(t) # {} \/ Len(Held) <= 1 THEN {t} ELSE {})
  BY DEF DequeueBegin, TypeOK, locals
<1>3. node[t] \notin Nodes
  BY <1>2, Constants DEF Frames, Frame, PreLabels, All
<1>4. CallOf(t) = "none" /\ CallOf(t)' = "dequeue" /\ HandOf(t)' = HandOf(t)
  BY <1>2, <1>3 DEF CallOf, HandOf
<1>5. PICK h : h = HandOf(t)
  OBVIOUS
<1>6. Calls' = [Calls EXCEPT ![t] = "dequeue"] /\ Handed' = [Handed EXCEPT ![t] = h]
  BY <1>1, <1>4, <1>5, FifoMoves
<1>7. Handed' = Handed /\ Calls[t] = "none"
  BY <1>4, <1>5, <1>6 DEF Handed, Calls
<1>8. Held' = Held
  BY <1>1, <1>2, HeldSame
<1>9. Fifo!Dequeuing = Dequeuing /\ Fifo!Others(t) = Others(t)
  BY FifoTerms
<1> QED
  BY <1>2, <1>6, <1>7, <1>8, <1>9
  DEF Fifo!DequeueBegin, Calls, Handed, CallOf, HandOf, Enqueuing

(* A step that ConcurrentQueue does not see.                               *)
LEMMA FifoUnseen ==
  ASSUME TypeOK, Frames, NEW l \in Seq(All), ListIs(l), NEW t \in Threads, Step(t), pc'[t] # "idle",
         ~(pc[t] = "enq_cas" /\ next[hp[t]] = END_MARKER /\ node[t] \in Nodes),
         ~(pc[t] = "deq_cas" /\ head = hp[t] /\ head \in Nodes)
  PROVE  UNCHANGED Fifo!vars
<1> USE DEF TypeOK, shared, locals
<1>1. ThreadStep(t) /\ OthersStay(t) /\ Frame(t)
  BY StepOfOne DEF ThreadStep, Frames
<1>2. NULL \notin Nodes /\ Nodes \cap Dummies = {}
  BY Constants DEF All
<1>3. pc[t] # "idle" /\ may_fail' = may_fail
  BY DEF Step, Enqueue, Dequeue, TailGet, TailCheck, TailNext, TailConsistent, Link,
     TailHelp, Swing, HeadGet, HeadCheck, HeadTail, HeadNext, HeadHelp, HeadConsistent, Unlink,
         Taken,
     DummyGone, DummyFree, HasDummy, GetDummy, DummyCas
<1>4. node'[t] = node[t] \/ (node'[t] \notin Nodes /\ node[t] \notin Nodes)
  <2>1. CASE Swing(t)
    BY <1>2, <2>1 DEF Swing
  <2>2. CASE DummyCas(t)
    BY <1>1, <1>2, <2>2 DEF DummyCas, Frame, PreLabels
  <2>3. CASE ~Swing(t) /\ ~DummyCas(t)
    BY <2>3 DEF Step, Enqueue, Dequeue, TailGet, TailCheck, TailNext, TailConsistent, Link,
       TailHelp, HeadGet, HeadCheck, HeadTail, HeadNext, HeadHelp, HeadConsistent, Unlink, Taken,
       DummyGone, DummyFree, HasDummy, GetDummy
  <2> QED BY <2>1, <2>2, <2>3
<1>5. CallOf(t)' = CallOf(t)
  BY <1>3, <1>4 DEF CallOf
<1>6. HandOf(t)' = HandOf(t)
  <2>1. CASE node[t] \in Nodes
    <3>1. pc[t] # "enq_swing" /\ pc'[t] # "enq_swing"
      BY <2>1, <1>2 DEF Step, Enqueue, Dequeue, TailGet, TailCheck, TailNext, TailConsistent, Link,
         TailHelp, Swing, HeadGet, HeadCheck, HeadTail, HeadNext, HeadHelp, HeadConsistent, Unlink,
         Taken, DummyGone, DummyFree, HasDummy, GetDummy, DummyCas
    <3> QED BY <1>4, <2>1, <3>1 DEF HandOf
  <2>2. CASE node[t] \notin Nodes
    <3>1. ~(pc[t] = "deq_taken" /\ dummy[t] \in Nodes)
      <4>1. CASE Taken(t)
        BY <1>2, <4>1 DEF Taken
      <4>2. CASE ~Taken(t)
        BY <4>2 DEF Step, Enqueue, Dequeue, TailGet, TailCheck, TailNext, TailConsistent, Link,
           TailHelp, Swing, HeadGet, HeadCheck, HeadTail, HeadNext, HeadHelp, HeadConsistent,
               Unlink,
           DummyGone, DummyFree, HasDummy, GetDummy, DummyCas
      <4> QED BY <4>1, <4>2
    <3>2. ~(pc'[t] = "deq_taken" /\ dummy'[t] \in Nodes)
      BY DEF Step, Enqueue, Dequeue, TailGet, TailCheck, TailNext, TailConsistent, Link,
         TailHelp, Swing, HeadGet, HeadCheck, HeadTail, HeadNext, HeadHelp, HeadConsistent, Unlink,
         Taken, DummyGone, DummyFree, HasDummy, GetDummy, DummyCas
    <3> QED BY <1>4, <2>2, <3>1, <3>2 DEF HandOf
  <2> QED BY <2>1, <2>2
<1>7. Held' = Held
  <2>1. CASE pc[t] = "enq_cas" /\ next[hp[t]] = END_MARKER
    <3>1. Link(t)
      BY <2>1 DEF Step, Enqueue, Dequeue, TailGet, TailCheck, TailNext, TailConsistent, TailHelp,
         Swing, HeadGet, HeadCheck, HeadTail, HeadNext, HeadHelp, HeadConsistent, Unlink, Taken,
         DummyGone, DummyFree, HasDummy, GetDummy, DummyCas
    <3>2. PICK y : y = node[t]
      OBVIOUS
    <3> QED BY <2>1, <3>1, <3>2, HeldLinked
  <2>2. CASE pc[t] = "deq_cas" /\ head = hp[t]
    <3>1. Unlink(t)
      BY <2>2 DEF Step, Enqueue, Dequeue, TailGet, TailCheck, TailNext, TailConsistent, TailHelp,
         Swing, HeadGet, HeadCheck, HeadTail, HeadNext, HeadHelp, HeadConsistent, Link, Taken,
         DummyGone, DummyFree, HasDummy, GetDummy, DummyCas
    <3>2. PICK h : h = head
      OBVIOUS
    <3> QED BY <2>2, <3>1, <3>2, HeldUnlinked
  <2>3. CASE ~(pc[t] = "enq_cas" /\ next[hp[t]] = END_MARKER) /\ ~(pc[t] = "deq_cas"
       /\ head = hp[t])
    BY <1>1, <2>3, HeldSame
  <2> QED BY <2>1, <2>2, <2>3
<1>8. PICK c : c = CallOf(t)
  OBVIOUS
<1>9. PICK h : h = HandOf(t)
  OBVIOUS
<1>10. Calls' = [Calls EXCEPT ![t] = c] /\ Handed' = [Handed EXCEPT ![t] = h]
  BY <1>1, <1>5, <1>6, <1>8, <1>9, FifoMoves
<1>11. Calls' = Calls /\ Handed' = Handed
  BY <1>8, <1>9, <1>10 DEF Calls, Handed
<1> QED BY <1>3, <1>7, <1>11, FifoVars

(* A node of the callers is linked, or taken.                              *)
LEMMA FifoLinked ==
  ASSUME TypeOK, Frames, NEW l \in Seq(All), ListIs(l), NEW t \in Threads, Link(t),
         next[hp[t]] = END_MARKER, node[t] \in Nodes
  PROVE  Fifo!Append1(t)
<1>1. ThreadStep(t) /\ OthersStay(t)
  BY StepOfOne DEF ThreadStep, Step, Enqueue
<1>2. PICK y : y = node[t]
  OBVIOUS
<1>3. /\ pc[t] = "enq_cas" /\ pc'[t] = "enq_swing" /\ node' = node /\ may_fail' = may_fail
      /\ y \in Nodes /\ y # NULL
  BY <1>2, Constants DEF Link, TypeOK, All
<1>4. Held' = Append(Held, y)
  BY <1>2, <1>3, HeldLinked
<1>5. /\ CallOf(t) = "enqueue" /\ CallOf(t)' = "enqueue" /\ HandOf(t) = y /\ HandOf(t)' = NULL
  BY <1>2, <1>3 DEF CallOf, HandOf
<1>6. Calls' = [Calls EXCEPT ![t] = "enqueue"] /\ Handed' = [Handed EXCEPT ![t] = NULL]
  BY <1>1, <1>5, FifoMoves
<1>7. Calls' = Calls /\ Calls[t] = "enqueue" /\ Handed[t] = y
  BY <1>5, <1>6 DEF Calls, Handed
<1> QED
  BY <1>3, <1>4, <1>6, <1>7 DEF Fifo!Append1, Calls, Handed, CallOf, HandOf, Enqueuing

(* Unlinking an entry takes it from the abstract queue.                    *)
LEMMA FifoTaken ==
  ASSUME TypeOK, Frames, NEW l \in Seq(All), ListIs(l), NEW t \in Threads, Unlink(t),
         head = hp[t], head \in Nodes
  PROVE  Fifo!Take(t)
<1>1. ThreadStep(t) /\ OthersStay(t) /\ Frame(t)
  BY StepOfOne DEF ThreadStep, Step, Dequeue, Frames
<1>2. PICK h : h = head
  OBVIOUS
<1>3. /\ pc[t] = "deq_cas" /\ pc'[t] = "deq_taken" /\ node' = node /\ may_fail' = may_fail
      /\ dummy'[t] = h /\ h \in Nodes
  BY <1>2 DEF Unlink, TypeOK
<1>4. node[t] \notin Nodes
  BY <1>1, <1>3, Constants DEF Frame, PreLabels, All
<1>5. Held' = Tail(Held) /\ Held # << >> /\ Held[1] = h
  BY <1>2, <1>3, HeldUnlinked
<1>6. /\ CallOf(t) = "dequeue" /\ CallOf(t)' = "dequeue" /\ HandOf(t) = NULL /\ HandOf(t)' = h
  BY <1>3, <1>4 DEF CallOf, HandOf
<1>7. Calls' = [Calls EXCEPT ![t] = "dequeue"] /\ Handed' = [Handed EXCEPT ![t] = h]
  BY <1>1, <1>6, FifoMoves
<1>8. Calls' = Calls /\ Calls[t] = "dequeue" /\ Handed[t] = NULL
  BY <1>6, <1>7 DEF Calls, Handed
<1>9. Head(Held) = h
  <2>1. Held \in Seq(Nodes)
    BY HeldShort
  <2> QED BY <1>5, <2>1
<1> QED
  BY <1>3, <1>5, <1>7, <1>8, <1>9 DEF Fifo!Take, Calls, Handed, CallOf, HandOf, Enqueuing

(* A call returns.                                                         *)
LEMMA FifoReturns ==
  ASSUME TypeOK, Frames, NEW l \in Seq(All), ListIs(l), NEW t \in Threads, Step(t),
         Sure(t) => SureOf(t), pc'[t] = "idle"
  PROVE  Fifo!EnqueueEnd(t) \/ Fifo!DequeueEnd(t) \/ Fifo!DequeueFails(t)
<1>1. ThreadStep(t) /\ OthersStay(t) /\ Frame(t) /\ NULL \notin Nodes
  BY StepOfOne, Constants DEF ThreadStep, Frames, All
<1>2. Held' = Held
  <2>1. pc[t] # "enq_cas" /\ ~(pc[t] = "deq_cas" /\ head = hp[t])
    BY DEF TypeOK, Step, Enqueue, Dequeue, TailGet, TailCheck, TailNext, TailConsistent, Link,
       TailHelp, Swing, HeadGet, HeadCheck, HeadTail, HeadNext, HeadHelp, HeadConsistent, Unlink,
       Taken, DummyGone, DummyFree, HasDummy, GetDummy, DummyCas
  <2> QED BY <1>1, <2>1, HeldSame
<1>3. node'[t] \notin Nodes
  <2>1. Frame(t)'
    BY <1>1, FramesKept DEF Frames
  <2> QED BY <1>1, <2>1 DEF Frame, PreLabels
<1>4. CallOf(t)' = "none" /\ HandOf(t)' = NULL
  BY <1>3 DEF CallOf, HandOf
<1>5. Calls' = [Calls EXCEPT ![t] = "none"] /\ Handed' = [Handed EXCEPT ![t] = NULL]
  BY <1>1, <1>4, FifoMoves
<1>6. HandOf(t) = NULL => Handed' = Handed
  BY <1>5 DEF Handed
<1>7. Calls[t] = CallOf(t) /\ Handed[t] = HandOf(t)
  BY FifoTerms
<1>8. CASE pc[t] = "enq_swing"
  <2>1. Swing(t)
    BY <1>8 DEF Step, Enqueue, Dequeue, TailGet, TailCheck, TailNext, TailConsistent, TailHelp,
       Link, HeadGet, HeadCheck, HeadTail, HeadNext, HeadHelp, HeadConsistent, Unlink, Taken,
       DummyGone, DummyFree, HasDummy, GetDummy, DummyCas
  <2>2. node[t] \in Nodes /\ may_fail' = may_fail
    <3>1. node[t] \in All /\ node[t] \notin Dummies
      BY <1>1, <1>8, <2>1 DEF Swing, Frame, TypeOK
    <3> QED BY <2>1, <3>1 DEF Swing, All
  <2>3. CallOf(t) = "enqueue" /\ HandOf(t) = NULL
    BY <1>8, <2>2 DEF CallOf, HandOf
  <2>4. Fifo!EnqueueEnd(t)
    BY <1>2, <1>5, <1>6, <1>7, <2>2, <2>3
    DEF Fifo!EnqueueEnd, Calls, Handed, CallOf, HandOf, Enqueuing
  <2> QED BY <2>4
<1>9. CASE pc[t] = "deq_taken"
  <2>1. Taken(t)
    BY <1>9 DEF Step, Enqueue, Dequeue, TailGet, TailCheck, TailNext, TailConsistent, TailHelp,
       Link, HeadGet, HeadCheck, HeadTail, HeadNext, HeadHelp, HeadConsistent, Unlink, Swing,
       DummyGone, DummyFree, HasDummy, GetDummy, DummyCas
  <2>2. dummy[t] \in Nodes /\ may_fail' = may_fail \ {t}
    <3>1. dummy[t] \in All /\ dummy[t] \notin Dummies
      BY <1>1, <1>9, <2>1 DEF Taken, Frame, TypeOK
    <3> QED BY <2>1, <3>1 DEF Taken, All
  <2>3. node[t] \notin Nodes
    BY <1>1, <1>9 DEF Frame, PreLabels
  <2>4. CallOf(t) = "dequeue" /\ HandOf(t) # NULL
    BY <1>1, <1>9, <2>2, <2>3 DEF CallOf, HandOf
  <2>5. Fifo!DequeueEnd(t)
    BY <1>2, <1>5, <1>7, <2>2, <2>4
    DEF Fifo!DequeueEnd, Calls, Handed, CallOf, HandOf, Enqueuing
  <2> QED BY <2>5
<1>10. CASE pc[t] \notin {"enq_swing", "deq_taken"}
  <2>1. t \in may_fail
    BY <1>10, SureReturns
  <2>2. /\ pc[t] \in {"deq_consistent", "has_dummy", "get_dummy", "dummy_cas"}
        /\ may_fail' = may_fail \ {t}
    BY <1>10 DEF TypeOK, Step, Enqueue, Dequeue, TailGet, TailCheck, TailNext, TailConsistent, Link,
       TailHelp, Swing, HeadGet, HeadCheck, HeadTail, HeadNext, HeadHelp, HeadConsistent, Unlink,
       Taken, DummyGone, DummyFree, HasDummy, GetDummy, DummyCas
  <2>3. node[t] \notin Nodes
    BY <1>1, <2>2 DEF Frame, PreLabels
  <2>4. HandOf(t) = NULL
    BY <2>2, <2>3 DEF HandOf
  <2>5. Fifo!DequeueFails(t)
    BY <1>2, <1>5, <1>6, <1>7, <2>1, <2>2, <2>4
    DEF Fifo!DequeueFails, Calls, Handed, CallOf, HandOf, Enqueuing
  <2> QED BY <2>5
<1> QED BY <1>8, <1>9, <1>10

(* Each step is a step of the abstract queue, or none.                     *)
LEMMA FifoStep ==
  ASSUME QueueInv, SureKept, [Next]_vars
  PROVE  Fifo!Next \/ UNCHANGED Fifo!vars
<1>1. PICK l \in Seq(All) : ListIs(l)
  BY DEF QueueInv
<1>2. TypeOK /\ Frames
  BY DEF QueueInv
<1>3. ASSUME NEW t \in Threads, EnqueueBegin(t) \/ DequeueBegin(t) PROVE Fifo!Next
  <2>1. Fifo!EnqueueBegin(t) \/ Fifo!DequeueBegin(t)
    BY <1>1, <1>2, <1>3, FifoEnqueueBegin, FifoDequeueBegin
  <2> QED BY <2>1 DEF Fifo!Next
<1>4. ASSUME NEW t \in Threads, Step(t) PROVE Fifo!Next \/ UNCHANGED Fifo!vars
  <2>1. CASE pc'[t] = "idle"
    <3>1. Fifo!EnqueueEnd(t) \/ Fifo!DequeueEnd(t) \/ Fifo!DequeueFails(t)
      BY <1>1, <1>2, <1>4, <2>1, FifoReturns DEF SureKept
    <3> QED BY <3>1 DEF Fifo!Next
  <2>2. CASE pc[t] = "enq_cas" /\ next[hp[t]] = END_MARKER /\ node[t] \in Nodes
    <3>1. Link(t)
      BY <1>4, <2>2 DEF Step, Enqueue, Dequeue, TailGet, TailCheck, TailNext, TailConsistent,
          TailHelp,
         Swing, HeadGet, HeadCheck, HeadTail, HeadNext, HeadHelp, HeadConsistent, Unlink, Taken,
         DummyGone, DummyFree, HasDummy, GetDummy, DummyCas
    <3>2. Fifo!Append1(t)
      BY <1>1, <1>2, <2>2, <3>1, FifoLinked
    <3> QED BY <3>2 DEF Fifo!Next
  <2>3. CASE pc[t] = "deq_cas" /\ head = hp[t] /\ head \in Nodes
    <3>1. Unlink(t)
      BY <1>4, <2>3 DEF Step, Enqueue, Dequeue, TailGet, TailCheck, TailNext, TailConsistent,
          TailHelp,
         Swing, HeadGet, HeadCheck, HeadTail, HeadNext, HeadHelp, HeadConsistent, Link, Taken,
         DummyGone, DummyFree, HasDummy, GetDummy, DummyCas
    <3>2. Fifo!Take(t)
      BY <1>1, <1>2, <2>3, <3>1, FifoTaken
    <3> QED BY <3>2 DEF Fifo!Next
  <2>4. CASE /\ pc'[t] # "idle"
             /\ ~(pc[t] = "enq_cas" /\ next[hp[t]] = END_MARKER /\ node[t] \in Nodes)
             /\ ~(pc[t] = "deq_cas" /\ head = hp[t] /\ head \in Nodes)
    BY <1>1, <1>2, <1>4, <2>4, FifoUnseen
  <2> QED BY <2>1, <2>2, <2>3, <2>4
<1>5. CASE TryFree
  <2>1. UNCHANGED <<pc, node, dummy, may_fail>>
    BY <1>5 DEF TryFree, locals
  <2>2. Held' = Held
    BY <1>1, <1>2, <1>5, TryFreeKeeps, HeldStays
  <2>3. Calls' = Calls /\ Handed' = Handed
    BY <2>1 DEF Calls, Handed, CallOf, HandOf
  <2> QED BY <2>1, <2>2, <2>3, FifoVars
<1>6. CASE UNCHANGED vars
  <2>1. UNCHANGED <<head, next, pc, node, dummy, may_fail>>
    BY <1>6 DEF vars, shared, locals
  <2>2. Held' = Held
    BY <2>1 DEF Held, Listed
  <2>3. Calls' = Calls /\ Handed' = Handed
    BY <2>1 DEF Calls, Handed, CallOf, HandOf
  <2> QED BY <2>1, <2>2, <2>3, FifoVars
<1> QED BY <1>3, <1>4, <1>5, <1>6 DEF Next

(* The abstract queue begins empty.                                        *)
LEMMA FifoInit == Init => Fifo!Init
<1> SUFFICES ASSUME Init PROVE Fifo!Init
  OBVIOUS
<1>1. QueueInv
  BY QueueInit
<1>2. PICK l \in Seq(All) : ListIs(l)
  BY <1>1 DEF QueueInv
<1>3. /\ head \in Dummies /\ next[head] = END_MARKER /\ may_fail = {}
      /\ \A t \in Threads : pc[t] = "idle" /\ node[t] = NULL
  BY Constants DEF Init, All
<1>4. Members(l) = {head}
  BY <1>1, <1>2, <1>3, ListFacts DEF QueueInv
<1>5. /\ Held \in Seq(Nodes) /\ \A i \in 1 .. Len(Held) : Held[i] \in Members(l)
  BY <1>1, <1>2, HeldShort DEF QueueInv
<1>6. Held = << >>
  <2>1. PICK n \in Nat : n = Len(Held)
    BY <1>5
  <2>2. n = 0
    <3>1. CASE n # 0
      <4>1. 1 \in 1 .. Len(Held)
        BY <2>1, <3>1
      <4>2. Held[1] \in Nodes /\ Held[1] = head
        BY <1>4, <1>5, <4>1
      <4> QED BY <1>3, <4>2, Constants
    <3> QED BY <3>1
  <2> QED BY <1>5, <2>1, <2>2, EmptySeq
<1>7. Calls = [t \in Threads |-> "none"]
  BY <1>3 DEF Calls, CallOf
<1>8. Handed = [t \in Threads |-> NULL]
  <2>1. NULL \notin Nodes
    BY Constants DEF All
  <2> QED BY <1>3, <2>1 DEF Handed, HandOf
<1> QED BY <1>3, <1>6, <1>7, <1>8 DEF Fifo!Init, Calls, Handed, CallOf, HandOf, Enqueuing

(* The queue of lock-free-queue.c is the queue that ConcurrentQueue is:    *)
(* nodes come out once, in the order in which they went in, and a dequeue  *)
(* finds nothing only when it may.                                         *)
THEOREM QueueIsFifo == Spec => IsFifo
<1>1. QueueInv /\ SureKept /\ [Next]_vars => [Fifo!Next]_(Fifo!vars)
  BY FifoStep
<1> QED BY SureAlways, FifoInit, <1>1, PTL DEF Spec, IsFifo, Fifo!Spec

=============================================================================
