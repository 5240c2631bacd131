-------------------------- MODULE LinkedListSetProofs --------------------------
(***************************************************************************)
(* What is proved of LinkedListSet for every number of threads, nodes and  *)
(* keys.                                                                   *)
(***************************************************************************)
EXTENDS LinkedListSet, FiniteSetTheorems, SequenceTheorems, WellFoundedInduction, TLAPS

USE DEF At, Goto, Set

-----------------------------------------------------------------------------
(* The inductive invariant.                                                *)

(* The list from HEAD on: l, with the nodes of S in the order of their     *)
(* keys k.                                                                 *)
IsList(l, S, link, k) ==
  /\ l \in Seq(Nodes \cup {HEAD}) /\ Len(l) # 0 /\ l[1] = HEAD
  /\ S = {l[i] : i \in 2 .. Len(l)}
  /\ \A i \in 2 .. Len(l) : l[i] \in Nodes /\ k[l[i]] \in Keys
  /\ \A i, j \in 2 .. Len(l) : i < j => k[l[i]] < k[l[j]]
  /\ \A i \in 1 .. Len(l) : link[l[i]].to = IF i = Len(l) THEN NULL ELSE l[i + 1]
List(S, link, k) == \E l \in Seq(Nodes \cup {HEAD}) : IsList(l, S, link, k)

FindLabels == {"head", "head_check", "next", "next_check", "prev_check", "unlink"}
CallLabels == FindLabels \cup {"link", "mark", "remove"}
WalkLabels == {"it_head", "it_head_check", "it_next", "it_next_check"}

(* Which locals are set at which label.                                    *)
Resting(t) ==
  op[t] = "none" /\ value[t] = NULL /\ arg[t] = NoKey /\ was[t] = {} /\ result[t] = {}
Frame(t) ==
  /\ pc[t] \in WalkLabels \cup {"idle"} => Resting(t)
  /\ pc[t] \in CallLabels => op[t] # "none" /\ result[t] = {}
  /\ pc[t] = "done" => Resting(t) \/ (op[t] # "none" /\ result[t] # {})
  /\ op[t] # "none" => arg[t] \in Keys
  /\ pc[t] = "link" => op[t] = "insert"
  /\ pc[t] \in {"mark", "remove"} => op[t] = "remove"
  /\ op[t] \in {"insert", "remove", "removed"} => value[t] \in Nodes
  /\ pc[t] \in {"it_next", "it_next_check"} => cur[t] \in Nodes
Frames == \A t \in Threads : Frame(t)

(* The node that thread t is to insert.                                    *)
Hand(t) == IF op[t] = "insert" /\ result[t] = {} THEN value[t] ELSE NULL

(* A node is in one place, S being the list.                               *)
OnePlace(S) ==
  /\ S \cap unused = {} /\ S \cap (retired \cup doomed) = {}
  /\ (retired \cup doomed) \cap unused = {} /\ retired \cap doomed = {}
  /\ \A t \in Threads : Hand(t) # NULL => Hand(t) \notin S \cup unused \cup retired \cup doomed
  /\ \A t, u \in Threads : Hand(t) # NULL /\ Hand(t) = Hand(u) => t = u
  /\ \A n \in Nodes :
       n \in S \cup unused \cup retired \cup doomed \/ \E t \in Threads : Hand(t) = n

(* What has come out of the list is marked, and keeps its key until it is  *)
(* freed; what has been inserted and not removed is in the list, unmarked. *)
MarksKept(S) ==
  /\ \A n \in retired \cup doomed : next[n].mark
  /\ \A n \in retired : key[n] \in Keys
  /\ \A t \in Threads : \A n \in owned[t] : n \in S /\ ~next[n].mark
  /\ \A t, u \in Threads : owned[t] \cap owned[u] # {} => t = u

(* Thread t will see to it that node n leaves the list: its search has not *)
(* passed n.                                                               *)
Clears(t, n) ==
  /\ value[t] = n /\ key[n] = arg[t]
  /\ \/ pc[t] = "remove"
     \/ /\ op[t] = "removed" /\ pc[t] \in FindLabels
        /\ pc[t] \in {"next_check", "prev_check", "unlink"} /\ cur[t] = n => nxt[t].mark
        /\ pc[t] = "prev_check" /\ ~nxt[t].mark /\ key[cur[t]] < arg[t] => nxt[t].to # NULL
AllCleared(S) == \A n \in S : next[n].mark => \E t \in Threads : Clears(t, n)

(* What a call guards is in the list or has come out, and is not freed.    *)
PrevLabels == {"next", "next_check", "prev_check", "unlink", "link", "mark", "remove"}
CurLabels == {"next", "next_check", "prev_check", "unlink", "mark", "remove"}
GuardKept(t, S) ==
  /\ pc[t] = "head_check" => prev[t] = HEAD
  /\ pc[t] \in PrevLabels =>
       prev[t] = HEAD \/ (prev[t] \in S \cup retired /\ key[prev[t]] < arg[t])
  /\ pc[t] \in CurLabels => cur[t] \in S \cup retired
  /\ pc[t] \in {"link", "done"} /\ op[t] # "none" => cur[t] \in S \cup retired \cup {NULL}
  /\ pc[t] = "prev_check" /\ ~nxt[t].mark => nxt[t].to \in S \cup retired \cup {NULL}

(* What a call has read of the link of cur, and what it knows of keys.     *)
ReadKept(t) ==
  /\ pc[t] \in {"prev_check", "unlink"} /\ nxt[t].mark => next[cur[t]] = nxt[t]
  /\ pc[t] = "unlink" => nxt[t].mark
  /\ pc[t] = "link" /\ cur[t] # NULL => key[cur[t]] > arg[t]
  /\ pc[t] \in {"mark", "remove"} => cur[t] = value[t]
  /\ pc[t] = "mark" => ~nxt[t].mark
  /\ pc[t] = "remove" => next[cur[t]] = Link(nxt[t].to, TRUE)

(* The node of a call.                                                     *)
ValueKept(t) ==
  /\ op[t] = "insert" /\ result[t] = {} => key[value[t]] = arg[t]
  /\ op[t] = "remove" /\ pc[t] \in FindLabels \cup {"mark"} =>
       value[t] \in owned[t] /\ key[value[t]] = arg[t]

(* A call has witnessed what it is going to answer.                        *)
PresentIn(S) == {key[n] : n \in {m \in S : ~next[m].mark}}
WitnessKept(t, S) ==
  /\ op[t] # "none" => (arg[t] \in PresentIn(S)) \in was[t]
  /\ pc[t] = "prev_check" /\ ~nxt[t].mark =>
       /\ key[cur[t]] = arg[t] => TRUE \in was[t]
       /\ key[cur[t]] < arg[t] /\ nxt[t].to = NULL => FALSE \in was[t]

Local(t, S) == GuardKept(t, S) /\ ReadKept(t) /\ ValueKept(t) /\ WitnessKept(t, S)

Accounted(S) ==
  /\ List(S, next, key) /\ OnePlace(S) /\ MarksKept(S) /\ AllCleared(S)
  /\ \A t \in Threads : Local(t, S)

SetInv == TypeOK /\ Frames /\ \E S \in SUBSET Nodes : Accounted(S)

-----------------------------------------------------------------------------
(* The list.                                                               *)

(* A link leads to the next node in the order of the keys.                 *)
LEMMA ListOrder ==
  ASSUME NEW S, NEW link, NEW k, List(S, link, k)
  PROVE  /\ S \subseteq Nodes
         /\ \A n \in S : k[n] \in Keys /\ k[n] \in Nat
         /\ \A m, n \in S : k[m] = k[n] => m = n
         /\ \A a \in S \cup {HEAD} : link[a].to \in S \cup {NULL}
         /\ \A a \in S : link[a].to \in S => k[a] < k[link[a].to]
         /\ \A n \in S : link[HEAD].to \in S /\ k[link[HEAD].to] <= k[n]
         /\ \A a, n \in S : k[a] < k[n] => link[a].to \in S /\ k[link[a].to] <= k[n]
<1>1. PICK l \in Seq(Nodes \cup {HEAD}) : IsList(l, S, link, k)
  BY DEF List
<1>2. PICK n \in Nat : n = Len(l)
  BY <1>1
<1>3. /\ n # 0 /\ l[1] = HEAD /\ S = {l[i] : i \in 2 .. n}
      /\ \A i \in 2 .. n : l[i] \in Nodes /\ k[l[i]] \in Keys
      /\ \A i, j \in 2 .. n : i < j => k[l[i]] < k[l[j]]
      /\ \A i \in 1 .. n : link[l[i]].to = IF i = n THEN NULL ELSE l[i + 1]
  BY <1>1, <1>2 DEF IsList
<1>4. \A i \in 2 .. n : k[l[i]] \in Nat
  BY <1>3, KeysAreNaturals
<1>5. \A i, j \in 2 .. n : k[l[i]] = k[l[j]] => i = j
  BY <1>3, <1>4
<1>6. \A i \in 1 .. n : i # n => i + 1 \in 2 .. n
  BY <1>2
<1>7. NULL \notin S
  BY <1>3, NoNodes
<1>8. ASSUME NEW a \in S \cup {HEAD} PROVE link[a].to \in S \cup {NULL}
  <2>1. PICK i \in 1 .. n : a = l[i]
    BY <1>2, <1>3
  <2> QED BY <1>3, <1>6, <2>1
<1>9. ASSUME NEW a \in S, link[a].to \in S PROVE k[a] < k[link[a].to]
  <2>1. PICK i \in 2 .. n : a = l[i]
    BY <1>3
  <2>2. i \in 1 .. n
    BY <1>2
  <2>3. i # n /\ link[a].to = l[i + 1]
    BY <1>3, <1>7, <1>9, <2>1, <2>2
  <2>4. i + 1 \in 2 .. n /\ i < i + 1
    BY <1>6, <2>2, <2>3
  <2> QED BY <1>3, <2>1, <2>3, <2>4
<1>10. ASSUME NEW m \in S PROVE link[HEAD].to \in S /\ k[link[HEAD].to] <= k[m]
  <2>1. PICK i \in 2 .. n : m = l[i]
    BY <1>3
  <2>2. 1 \in 1 .. n /\ 1 # n /\ 2 \in 2 .. n /\ 1 + 1 = 2
    BY <1>2, <2>1
  <2>3. link[HEAD].to = l[2]
    BY <1>3, <2>2
  <2>4. 2 = i \/ 2 < i
    BY <2>1
  <2> QED BY <1>3, <1>4, <2>1, <2>2, <2>3, <2>4
<1>11. ASSUME NEW a \in S, NEW m \in S, k[a] < k[m]
       PROVE  link[a].to \in S /\ k[link[a].to] <= k[m]
  <2>1. PICK i \in 2 .. n : a = l[i]
    BY <1>3
  <2>2. PICK j \in 2 .. n : m = l[j]
    BY <1>3
  <2>3. i < j
    <3>1. j < i => k[l[j]] < k[l[i]]
      BY <1>3
    <3>2. k[l[j]] \in Nat /\ k[l[i]] \in Nat
      BY <1>4
    <3> QED BY <1>11, <2>1, <2>2, <3>1, <3>2
  <2>4. i \in 1 .. n /\ i # n /\ i + 1 \in 2 .. n /\ (i + 1 = j \/ i + 1 < j)
    BY <1>2, <2>3
  <2>5. link[a].to = l[i + 1]
    BY <1>3, <2>1, <2>4
  <2> QED BY <1>3, <1>4, <2>2, <2>4, <2>5
<1>12. \A a, m \in S : k[a] = k[m] => a = m
  BY <1>3, <1>5
<1>13. S \subseteq Nodes /\ \A m \in S : k[m] \in Keys /\ k[m] \in Nat
  BY <1>3, <1>4
<1> QED BY <1>8, <1>9, <1>10, <1>11, <1>12, <1>13

(* It depends on the links from HEAD and from its nodes, and on their keys *)
(* only.                                                                   *)
LEMMA ListSame ==
  ASSUME NEW S, NEW link, NEW k, List(S, link, k), NEW new, NEW k2,
         \A a \in S \cup {HEAD} : new[a].to = link[a].to, \A n \in S : k2[n] = k[n]
  PROVE  List(S, new, k2)
<1>1. PICK l \in Seq(Nodes \cup {HEAD}) : IsList(l, S, link, k)
  BY DEF List
<1>2. PICK n \in Nat : n = Len(l)
  BY <1>1
<1>3. \A i \in 1 .. n : l[i] \in S \cup {HEAD}
  BY <1>1, <1>2 DEF IsList
<1>4. \A i \in 2 .. n : l[i] \in S
  BY <1>1, <1>2 DEF IsList
<1>5. IsList(l, S, new, k2)
  BY <1>1, <1>2, <1>3, <1>4 DEF IsList
<1> QED BY <1>5 DEF List

(* A node is linked between two that follow each other.                    *)
LEMMA ListInsert ==
  ASSUME NEW S, NEW link, NEW k, List(S, link, k), NEW new,
         NEW a \in S \cup {HEAD}, NEW v \in Nodes, v \notin S, k[v] \in Keys,
         a \in S => k[a] < k[v], link[a].to \in S => k[v] < k[link[a].to],
         new[a].to = v, new[v].to = link[a].to,
         \A x \in S \cup {HEAD} : x # a => new[x].to = link[x].to
  PROVE  List(S \cup {v}, new, k)
<1>1. PICK l \in Seq(Nodes \cup {HEAD}) : IsList(l, S, link, k)
  BY DEF List
<1>2. PICK n \in Nat : n = Len(l)
  BY <1>1
<1>3. /\ n # 0 /\ l[1] = HEAD /\ S = {l[i] : i \in 2 .. n}
      /\ \A i \in 2 .. n : l[i] \in Nodes /\ k[l[i]] \in Keys
      /\ \A i, j \in 2 .. n : i < j => k[l[i]] < k[l[j]]
      /\ \A i \in 1 .. n : link[l[i]].to = IF i = n THEN NULL ELSE l[i + 1]
  BY <1>1, <1>2 DEF IsList
<1>4. \A i \in 2 .. n : k[l[i]] \in Nat
  BY <1>3, KeysAreNaturals
<1>5. \A i, j \in 2 .. n : k[l[i]] = k[l[j]] => i = j
  BY <1>3, <1>4
<1>6. PICK j \in 1 .. n : a = l[j]
  BY <1>2, <1>3
<1>7. \A i \in 1 .. n : l[i] = a => i = j
  <2>1. \A i \in 2 .. n : l[i] # HEAD
    BY <1>3, NoNodes
  <2>2. \A i \in 1 .. n : i = 1 \/ i \in 2 .. n
    BY <1>2
  <2> QED BY <1>3, <1>5, <1>6, <2>1, <2>2
<1> DEFINE E == [i \in 1 .. n + 1 |-> IF i <= j THEN l[i] ELSE IF i = j + 1 THEN v ELSE l[i - 1]]
<1>8. /\ \A i \in 1 .. n + 1 : i <= j => i \in 1 .. n
      /\ \A i \in 1 .. n + 1 : ~(i <= j) /\ i # j + 1 => i - 1 \in 2 .. n /\ i - 1 \in 1 .. n
      /\ j + 1 \in 2 .. n + 1
  BY <1>2
<1>9. E \in Seq(Nodes \cup {HEAD}) /\ Len(E) = n + 1
  <2>1. \A i \in 1 .. n : l[i] \in Nodes \cup {HEAD}
    BY <1>1, <1>2
  <2>2. E \in [1 .. n + 1 -> Nodes \cup {HEAD}]
    BY <1>8, <2>1
  <2>3. n + 1 \in Nat
    BY <1>2
  <2> HIDE DEF E
  <2> QED BY <2>2, <2>3
<1>10. PICK e \in Seq(Nodes \cup {HEAD}) : e = E
  BY <1>9
<1>11. /\ \A i \in 1 .. n + 1 : i <= j => e[i] = l[i]
       /\ e[j + 1] = v
       /\ \A i \in 1 .. n + 1 : i > j + 1 => e[i] = l[i - 1]
       /\ Len(e) = n + 1
  <2>1. \A i \in 1 .. n + 1 : e[i] = IF i <= j THEN l[i] ELSE IF i = j + 1 THEN v ELSE l[i - 1]
    BY <1>10
  <2>2. \A i \in 1 .. n + 1 : i > j + 1 => ~(i <= j) /\ i # j + 1
    BY <1>2
  <2>3. j + 1 \in 1 .. n + 1 /\ ~(j + 1 <= j)
    BY <1>2
  <2> QED BY <1>9, <1>10, <2>1, <2>2, <2>3
<1> HIDE DEF E
<1>12. \A i \in 1 .. n + 1 : i <= j \/ i = j + 1 \/ i > j + 1
  BY <1>2
<1>13. \A i \in 1 .. n + 1 : i > j + 1 => i - 1 \in 2 .. n /\ i - 1 \in 1 .. n /\ i - 1 > j
  BY <1>2
<1>14. e[1] = HEAD
  <2>1. 1 \in 1 .. n + 1 /\ 1 <= j
    BY <1>2
  <2> QED BY <1>3, <1>11, <2>1
<1>15. \A i \in 2 .. n + 1 : /\ i \in 1 .. n + 1
                             /\ i <= j => i \in 2 .. n
  BY <1>2
<1>16. S \cup {v} = {e[i] : i \in 2 .. n + 1}
  <2>1. ASSUME NEW x \in S PROVE x \in {e[i] : i \in 2 .. n + 1}
    <3>1. PICK i \in 2 .. n : x = l[i]
      BY <1>3
    <3>2. CASE i <= j
      <4>1. i \in 2 .. n + 1 /\ i \in 1 .. n + 1
        BY <1>2
      <4>2. e[i] = l[i]
        BY <1>11, <3>2, <4>1
      <4> QED BY <3>1, <4>1, <4>2
    <3>3. CASE ~(i <= j)
      <4>1. i + 1 \in 2 .. n + 1 /\ i + 1 \in 1 .. n + 1 /\ i + 1 > j + 1 /\ (i + 1) - 1 = i
        BY <1>2, <3>3
      <4>2. e[i + 1] = l[i]
        BY <1>11, <4>1
      <4> QED BY <3>1, <4>1, <4>2
    <3> QED BY <3>2, <3>3
  <2>2. v \in {e[i] : i \in 2 .. n + 1}
    BY <1>8, <1>11
  <2>3. ASSUME NEW i \in 2 .. n + 1 PROVE e[i] \in S \cup {v}
    BY <1>3, <1>11, <1>12, <1>13, <1>15, <2>3
  <2> QED BY <2>1, <2>2, <2>3
<1>17. \A i \in 2 .. n + 1 : e[i] \in Nodes /\ k[e[i]] \in Keys
  BY <1>3, <1>11, <1>12, <1>13, <1>15
<1>18. k[v] \in Nat
  BY KeysAreNaturals
<1>19. \A i \in 2 .. n : /\ i <= j => k[l[i]] < k[v]
                         /\ i > j => k[v] < k[l[i]]
  <2> SUFFICES ASSUME NEW i \in 2 .. n
               PROVE  /\ i <= j => k[l[i]] < k[v]
                      /\ i > j => k[v] < k[l[i]]
    OBVIOUS
  <2>1. CASE i <= j
    <3>1. j \in 2 .. n
      BY <1>2, <2>1
    <3>2. a \in S /\ k[a] < k[v]
      BY <1>3, <1>6, <3>1
    <3>3. i = j \/ i < j
      BY <1>2, <2>1
    <3>4. k[l[i]] \in Nat /\ k[l[j]] \in Nat
      BY <1>4, <3>1
    <3>5. k[l[i]] < k[v]
      BY <1>3, <1>6, <1>18, <3>1, <3>2, <3>3, <3>4
    <3> QED BY <2>1, <3>5
  <2>2. CASE i > j
    <3>1. j # n /\ j + 1 \in 2 .. n /\ (j + 1 = i \/ j + 1 < i)
      BY <1>2, <2>2
    <3>2. link[a].to = l[j + 1] /\ l[j + 1] \in S
      BY <1>3, <1>6, <3>1
    <3>3. k[v] < k[l[j + 1]] /\ k[l[j + 1]] \in Nat /\ k[l[i]] \in Nat
      BY <1>4, <3>1, <3>2
    <3>4. k[v] < k[l[i]]
      BY <1>3, <1>18, <3>1, <3>3
    <3> QED BY <2>2, <3>4
  <2> QED BY <1>2, <2>1, <2>2
<1>20. \A h, i \in 2 .. n + 1 : h < i => k[e[h]] < k[e[i]]
  <2> SUFFICES ASSUME NEW h \in 2 .. n + 1, NEW i \in 2 .. n + 1, h < i PROVE k[e[h]] < k[e[i]]
    OBVIOUS
  <2>1. CASE i <= j
    <3>1. h <= j /\ h \in 2 .. n /\ i \in 2 .. n /\ h \in 1 .. n + 1 /\ i \in 1 .. n + 1
      BY <1>2, <2>1
    <3> QED BY <1>3, <1>11, <2>1, <3>1
  <2>2. CASE i = j + 1
    <3>1. h <= j /\ h \in 2 .. n /\ h \in 1 .. n + 1
      BY <1>2, <2>2
    <3> QED BY <1>11, <1>19, <2>2, <3>1
  <2>3. CASE i > j + 1
    <3>1. i \in 1 .. n + 1 /\ i - 1 \in 2 .. n /\ i - 1 > j /\ h \in 1 .. n + 1
      BY <1>2, <2>3
    <3>2. e[i] = l[i - 1]
      BY <1>11, <2>3, <3>1
    <3>3. CASE h <= j
      <4>1. h \in 2 .. n /\ h < i - 1 /\ e[h] = l[h]
        BY <1>2, <1>11, <3>1, <3>3
      <4> QED BY <1>3, <3>1, <3>2, <4>1
    <3>4. CASE h = j + 1
      BY <1>11, <1>19, <3>1, <3>2, <3>4
    <3>5. CASE h > j + 1
      <4>1. h - 1 \in 2 .. n /\ h - 1 < i - 1 /\ e[h] = l[h - 1]
        BY <1>2, <1>11, <3>1, <3>5
      <4> QED BY <1>3, <3>1, <3>2, <4>1
    <3> QED BY <1>12, <3>1, <3>3, <3>4, <3>5
  <2> QED BY <1>12, <1>15, <2>1, <2>2, <2>3
<1>21. \A i \in 1 .. n + 1 : new[e[i]].to = IF i = n + 1 THEN NULL ELSE e[i + 1]
  <2> SUFFICES ASSUME NEW i \in 1 .. n + 1
               PROVE  new[e[i]].to = IF i = n + 1 THEN NULL ELSE e[i + 1]
    OBVIOUS
  <2>1. CASE i < j
    <3>1. i \in 1 .. n /\ i # n /\ i # j /\ i <= j /\ i + 1 <= j /\ i + 1 \in 1 .. n + 1 /\ i # n + 1
      BY <1>2, <2>1
    <3>2. e[i] = l[i] /\ e[i + 1] = l[i + 1] /\ l[i] # a
      BY <1>7, <1>11, <3>1
    <3>3. l[i] \in S \cup {HEAD}
      BY <1>2, <1>3, <3>1
    <3> QED BY <1>3, <3>1, <3>2, <3>3
  <2>2. CASE i = j
    <3>1. e[i] = a /\ i + 1 = j + 1 /\ i # n + 1
      BY <1>2, <1>6, <1>11, <2>2
    <3> QED BY <1>11, <3>1
  <2>3. CASE i = j + 1
    <3>1. e[i] = v /\ new[v].to = IF j = n THEN NULL ELSE l[j + 1]
      BY <1>3, <1>6, <1>11, <2>3
    <3>2. j # n => i + 1 \in 1 .. n + 1 /\ i + 1 > j + 1 /\ (i + 1) - 1 = j + 1
      BY <1>2, <2>3
    <3>3. j # n => e[i + 1] = l[j + 1]
      BY <1>11, <3>2
    <3>4. j = n <=> i = n + 1
      BY <1>2, <2>3
    <3> QED BY <3>1, <3>3, <3>4
  <2>4. CASE i > j + 1
    <3>1. i - 1 \in 1 .. n /\ i - 1 \in 2 .. n /\ i - 1 # j /\ (i - 1 = n <=> i = n + 1) /\ (i - 1) + 1 = i
      BY <1>2, <2>4
    <3>2. e[i] = l[i - 1] /\ l[i - 1] # a /\ l[i - 1] \in S
      BY <1>3, <1>7, <1>11, <2>4, <3>1
    <3>3. i # n + 1 => i + 1 \in 1 .. n + 1 /\ i + 1 > j + 1 /\ (i + 1) - 1 = i
      BY <1>2, <2>4
    <3>4. i # n + 1 => e[i + 1] = l[i]
      BY <1>11, <3>3
    <3>5. new[l[i - 1]].to = IF i - 1 = n THEN NULL ELSE l[(i - 1) + 1]
      BY <1>3, <3>1, <3>2
    <3> QED BY <3>1, <3>2, <3>4, <3>5
  <2> QED BY <1>2, <2>1, <2>2, <2>3, <2>4
<1>22. n + 1 # 0
  BY <1>2
<1>23. IsList(e, S \cup {v}, new, k)
  BY <1>10, <1>11, <1>14, <1>16, <1>17, <1>20, <1>21, <1>22 DEF IsList
<1> QED BY <1>23 DEF List

(* A node is taken out, and the one before linked to the one behind.       *)
LEMMA ListRemove ==
  ASSUME NEW S, NEW link, NEW k, List(S, link, k), NEW new,
         NEW a \in S \cup {HEAD}, NEW b \in S, link[a].to = b,
         new[a].to = link[b].to,
         \A x \in S \cup {HEAD} : x # a /\ x # b => new[x].to = link[x].to
  PROVE  List(S \ {b}, new, k)
<1>1. PICK l \in Seq(Nodes \cup {HEAD}) : IsList(l, S, link, k)
  BY DEF List
<1>2. PICK n \in Nat : n = Len(l)
  BY <1>1
<1>3. /\ n # 0 /\ l[1] = HEAD /\ S = {l[i] : i \in 2 .. n}
      /\ \A i \in 2 .. n : l[i] \in Nodes /\ k[l[i]] \in Keys
      /\ \A i, j \in 2 .. n : i < j => k[l[i]] < k[l[j]]
      /\ \A i \in 1 .. n : link[l[i]].to = IF i = n THEN NULL ELSE l[i + 1]
  BY <1>1, <1>2 DEF IsList
<1>4. \A i \in 2 .. n : k[l[i]] \in Nat
  BY <1>3, KeysAreNaturals
<1>5. \A i, j \in 2 .. n : k[l[i]] = k[l[j]] => i = j
  BY <1>3, <1>4
<1>6. PICK j \in 1 .. n : a = l[j]
  BY <1>2, <1>3
<1>7. \A i, h \in 1 .. n : l[i] = l[h] => i = h
  <2>1. \A i \in 2 .. n : l[i] # HEAD
    BY <1>3, NoNodes
  <2>2. \A i \in 1 .. n : i = 1 \/ i \in 2 .. n
    BY <1>2
  <2> QED BY <1>3, <1>5, <2>1, <2>2
<1>8. j # n /\ b = l[j + 1] /\ j + 1 \in 1 .. n /\ j + 1 \in 2 .. n
  <2>1. b # NULL
    BY <1>3, NoNodes
  <2>2. j # n /\ b = l[j + 1]
    BY <1>3, <1>6, <2>1
  <2> QED BY <1>2, <2>2
<1> DEFINE E == [i \in 1 .. n - 1 |-> IF i <= j THEN l[i] ELSE l[i + 1]]
<1>9. E \in Seq(Nodes \cup {HEAD}) /\ Len(E) = n - 1
  <2>1. \A i \in 1 .. n : l[i] \in Nodes \cup {HEAD}
    BY <1>1, <1>2
  <2>2. \A i \in 1 .. n - 1 : i \in 1 .. n /\ i + 1 \in 1 .. n
    BY <1>2
  <2>3. E \in [1 .. n - 1 -> Nodes \cup {HEAD}]
    BY <2>1, <2>2
  <2>4. n - 1 \in Nat
    BY <1>2, <1>3
  <2> HIDE DEF E
  <2> QED BY <2>3, <2>4
<1>10. PICK e \in Seq(Nodes \cup {HEAD}) : e = E
  BY <1>9
<1>11. /\ \A i \in 1 .. n - 1 : e[i] = IF i <= j THEN l[i] ELSE l[i + 1]
       /\ Len(e) = n - 1
  BY <1>9, <1>10
<1> HIDE DEF E
<1>12. e[1] = HEAD /\ n - 1 # 0
  <2>1. 1 \in 1 .. n - 1 /\ 1 <= j /\ n - 1 # 0
    BY <1>2, <1>8
  <2> QED BY <1>3, <1>11, <2>1
<1>13. \A i \in 2 .. n - 1 : i \in 1 .. n - 1 /\ i \in 2 .. n /\ i + 1 \in 2 .. n
  BY <1>2
<1>14. S \ {b} = {e[i] : i \in 2 .. n - 1}
  <2>1. ASSUME NEW x \in S \ {b} PROVE x \in {e[i] : i \in 2 .. n - 1}
    <3>1. PICK i \in 2 .. n : x = l[i]
      BY <1>3
    <3>2. i # j + 1
      BY <1>8, <3>1
    <3>3. CASE i <= j
      <4>1. i \in 2 .. n - 1 /\ i \in 1 .. n - 1
        BY <1>2, <1>8, <3>3
      <4>2. e[i] = l[i]
        BY <1>11, <3>3, <4>1
      <4> QED BY <3>1, <4>1, <4>2
    <3>4. CASE ~(i <= j)
      <4>1. i - 1 \in 2 .. n - 1 /\ i - 1 \in 1 .. n - 1 /\ ~(i - 1 <= j) /\ (i - 1) + 1 = i
        BY <1>2, <3>2, <3>4
      <4>2. e[i - 1] = l[i]
        BY <1>11, <4>1
      <4> QED BY <3>1, <4>1, <4>2
    <3> QED BY <3>3, <3>4
  <2>2. ASSUME NEW i \in 2 .. n - 1 PROVE e[i] \in S \ {b}
    <3>1. i \in 1 .. n - 1 /\ i \in 2 .. n /\ i + 1 \in 2 .. n /\ i \in 1 .. n /\ i + 1 \in 1 .. n
      BY <1>2
    <3>2. i <= j => i # j + 1
      BY <1>2
    <3>3. ~(i <= j) => i + 1 # j + 1
      BY <1>2
    <3>4. i <= j => l[i] # b
      BY <1>7, <1>8, <3>1, <3>2
    <3>5. ~(i <= j) => l[i + 1] # b
      BY <1>7, <1>8, <3>1, <3>3
    <3> QED BY <1>3, <1>11, <3>1, <3>4, <3>5
  <2> QED BY <2>1, <2>2
<1>15. \A i \in 2 .. n - 1 : e[i] \in Nodes /\ k[e[i]] \in Keys
  BY <1>3, <1>11, <1>13
<1>16. \A h, i \in 2 .. n - 1 : h < i => k[e[h]] < k[e[i]]
  <2> SUFFICES ASSUME NEW h \in 2 .. n - 1, NEW i \in 2 .. n - 1, h < i PROVE k[e[h]] < k[e[i]]
    OBVIOUS
  <2>1. /\ h \in 1 .. n - 1 /\ i \in 1 .. n - 1 /\ h \in 2 .. n /\ i \in 2 .. n
        /\ h + 1 \in 2 .. n /\ i + 1 \in 2 .. n
        /\ h + 1 < i + 1 /\ h < i + 1 /\ (i <= j => h <= j)
    BY <1>2
  <2> QED BY <1>3, <1>11, <2>1
<1>17. \A i \in 1 .. n - 1 : new[e[i]].to = IF i = n - 1 THEN NULL ELSE e[i + 1]
  <2> SUFFICES ASSUME NEW i \in 1 .. n - 1
               PROVE  new[e[i]].to = IF i = n - 1 THEN NULL ELSE e[i + 1]
    OBVIOUS
  <2>1. CASE i < j
    <3>1. /\ i \in 1 .. n /\ i # n /\ i # j /\ i # j + 1 /\ i <= j /\ i + 1 <= j
          /\ i + 1 \in 1 .. n - 1 /\ i # n - 1
      BY <1>2, <1>8, <2>1
    <3>2. e[i] = l[i] /\ e[i + 1] = l[i + 1] /\ l[i] # a /\ l[i] # b
      BY <1>6, <1>7, <1>8, <1>11, <3>1
    <3>3. l[i] \in S \cup {HEAD}
      BY <1>2, <1>3, <3>1
    <3> QED BY <1>3, <3>1, <3>2, <3>3
  <2>2. CASE i = j
    <3>1. e[i] = a
      BY <1>6, <1>11, <2>2
    <3>2. new[a].to = IF j + 1 = n THEN NULL ELSE l[(j + 1) + 1]
      BY <1>3, <1>8
    <3>3. i = n - 1 <=> j + 1 = n
      BY <1>2, <2>2
    <3>4. i # n - 1 => i + 1 \in 1 .. n - 1 /\ ~(i + 1 <= j)
      BY <1>2, <2>2
    <3>5. i # n - 1 => e[i + 1] = l[(j + 1) + 1]
      BY <1>11, <2>2, <3>4
    <3> QED BY <3>1, <3>2, <3>3, <3>5
  <2>3. CASE i > j
    <3>1. /\ i + 1 \in 1 .. n /\ i + 1 \in 2 .. n /\ i + 1 # j /\ i + 1 # j + 1 /\ ~(i <= j)
          /\ (i + 1 = n <=> i = n - 1)
          /\ i # n - 1 => i + 1 \in 1 .. n - 1 /\ ~(i + 1 <= j)
      BY <1>2, <2>3
    <3>2. e[i] = l[i + 1] /\ l[i + 1] # a /\ l[i + 1] # b /\ l[i + 1] \in S
      BY <1>3, <1>6, <1>7, <1>8, <1>11, <3>1
    <3>3. new[l[i + 1]].to = IF i + 1 = n THEN NULL ELSE l[(i + 1) + 1]
      BY <1>3, <3>1, <3>2
    <3>4. i # n - 1 => e[i + 1] = l[(i + 1) + 1]
      BY <1>11, <3>1
    <3> QED BY <3>1, <3>2, <3>3, <3>4
  <2> QED BY <1>2, <2>1, <2>2, <2>3
<1>18. IsList(e, S \ {b}, new, k)
  BY <1>10, <1>11, <1>12, <1>14, <1>15, <1>16, <1>17 DEF IsList
<1> QED BY <1>18 DEF List

-----------------------------------------------------------------------------
(* Listed.  Its definition is recursive; the prefixes of the list satisfy  *)
(* the equation of the definition, and nothing else does.                  *)

(* The least element of a set of natural numbers, from the order of the    *)
(* finite sets by inclusion.                                               *)
LEMMA Least ==
  ASSUME NEW T, T \subseteq Nat, T # {}
  PROVE  \E x \in T : \A y \in T : ~(y < x)
<1> DEFINE F == {1 .. n : n \in T}
<1>1. F \subseteq FiniteSubsetsOf(Nat)
  BY FS_Interval DEF FiniteSubsetsOf
<1>2. F # {}
  OBVIOUS
<1>3. PICK X \in F : \A Y \in F : <<Y, X>> \notin StrictSubsetOrdering(Nat)
  <2> HIDE DEF F
  <2> QED BY <1>1, <1>2, FS_StrictSubsetOrderingWellFounded, WFMin
<1>4. PICK x \in T : X = 1 .. x
  OBVIOUS
<1>5. ASSUME NEW y \in T, y < x PROVE FALSE
  <2>1. 1 .. y \subseteq 1 .. x /\ 1 .. y # 1 .. x
    <3>1. y \in Nat /\ x \in Nat /\ x \in 1 .. x /\ x \notin 1 .. y
      BY <1>5
    <3> QED BY <3>1, <1>5
  <2>2. <<1 .. y, X>> \in StrictSubsetOrdering(Nat)
    BY <1>4, <2>1 DEF StrictSubsetOrdering
  <2> QED BY <1>3, <2>2
<1> QED BY <1>5

(* A set of numbers that has the first one and each next one has them all. *)
LEMMA AllNumbers ==
  ASSUME NEW N \in Nat, NEW T, 0 \in T, \A k \in 1 .. N : k - 1 \in T => k \in T
  PROVE  \A k \in 0 .. N : k \in T
<1> DEFINE B == {k \in 0 .. N : k \notin T}
<1>1. ASSUME B # {} PROVE FALSE
  <2>1. PICK x \in B : \A y \in B : ~(y < x)
    <3>1. B \subseteq Nat
      OBVIOUS
    <3> HIDE DEF B
    <3> QED BY <1>1, <3>1, Least
  <2>2. x \in 1 .. N /\ x - 1 \in 0 .. N /\ x - 1 < x
    BY <2>1
  <2> QED BY <2>1, <2>2
<1> QED BY <1>1

(* Two sequences of values that go on alike are alike.                     *)
LEMMA Alike ==
  ASSUME NEW N \in Nat, NEW f, NEW g, f[0] = g[0],
         \A k \in 1 .. N : f[k - 1] = g[k - 1] => f[k] = g[k]
  PROVE  \A k \in 0 .. N : f[k] = g[k]
<1> DEFINE T == {k \in 0 .. N : f[k] = g[k]}
<1>1. 0 \in T
  OBVIOUS
<1>2. \A k \in 1 .. N : k - 1 \in T => k \in T
  OBVIOUS
<1> HIDE DEF T
<1>3. \A k \in 0 .. N : k \in T
  BY <1>1, <1>2, AllNumbers
<1> QED BY <1>3 DEF T

(* There are finitely many nodes.                                          *)
LEMMA NodesCounted ==
  /\ Cardinality(Nodes) \in Nat
  /\ IsFiniteSet(Nodes \cup {HEAD}) /\ Cardinality(Nodes \cup {HEAD}) = Cardinality(Nodes) + 1
<1>1. HEAD \notin Nodes
  BY NoNodes
<1> QED BY <1>1, NodesAreFinite, FS_CardinalityType, FS_AddElement

(* A list is not longer than there are nodes.                              *)
LEMMA ListIsShort ==
  ASSUME NEW l, NEW S, NEW link, NEW k, IsList(l, S, link, k)
  PROVE  Len(l) \in Nat /\ Len(l) <= Cardinality(Nodes) + 1
<1>1. PICK n \in Nat : n = Len(l)
  BY DEF IsList
<1>0. l \in [1 .. n -> Nodes \cup {HEAD}]
  BY <1>1 DEF IsList
<1>2. /\ l[1] = HEAD
      /\ \A i \in 2 .. n : l[i] \in Nodes /\ k[l[i]] \in Nat
      /\ \A i, j \in 2 .. n : i < j => k[l[i]] < k[l[j]]
  BY <1>1, KeysAreNaturals DEF IsList
<1>3. \A i, j \in 1 .. n : l[i] = l[j] => i = j
  <2>1. \A i, j \in 2 .. n : l[i] = l[j] => i = j
    BY <1>2
  <2>2. \A i \in 2 .. n : l[i] # HEAD
    BY <1>2, NoNodes
  <2>3. \A i \in 1 .. n : i = 1 \/ i \in 2 .. n
    BY <1>1
  <2> QED BY <1>2, <2>1, <2>2, <2>3
<1>4. IsFiniteSet(1 .. n) /\ Cardinality(1 .. n) = n
  <2>1. n - 1 + 1 = n
    OBVIOUS
  <2> QED BY <2>1, FS_Interval
<1>5. l \in Injection(1 .. n, Nodes \cup {HEAD})
  BY <1>0, <1>3 DEF Injection, IsInjective
<1> QED BY <1>1, <1>4, <1>5, NodesCounted, FS_Injection

(* What the model walks from HEAD on is the list.                          *)
LEMMA ListedIs ==
  ASSUME NEW S, NEW l \in Seq(Nodes \cup {HEAD}), IsList(l, S, next, key)
  PROVE  Listed = Tail(l)
<1> DEFINE N == Cardinality(Nodes)
           n == Len(l)
           Body(f, k) == IF k = 0 THEN <<HEAD>>
                         ELSE LET p == f[k - 1] IN
                              IF Len(p) = k /\ next[p[k]].to \in Nodes THEN Append(p, next[p[k]].to) ELSE p
           Eq(f) == f = [k \in 0 .. N |-> Body(f, k)]
           M(k) == IF k < n THEN k + 1 ELSE n
           Pre(k) == [i \in 1 .. M(k) |-> l[i]]
           P == [k \in 0 .. N |-> Pre(k)]
<1>1. /\ N \in Nat /\ n \in Nat /\ n <= N + 1 /\ n # 0 /\ 1 \in 1 .. n
      /\ \A i \in 1 .. n : l[i] \in Nodes \cup {HEAD}
      /\ \A i \in 1 .. n : i # n => l[i + 1] \in Nodes
      /\ l[1] = HEAD
      /\ \A i \in 1 .. n : next[l[i]].to = IF i = n THEN NULL ELSE l[i + 1]
      /\ NULL \notin Nodes
  <2>1. N \in Nat /\ n \in Nat /\ n <= N + 1
    BY NodesCounted, ListIsShort
  <2>2. n # 0 /\ l[1] = HEAD /\ \A i \in 2 .. n : l[i] \in Nodes
    BY DEF IsList
  <2>3. \A i \in 1 .. n : next[l[i]].to = IF i = n THEN NULL ELSE l[i + 1]
    BY DEF IsList
  <2>4. \A i \in 1 .. n : i # n => i + 1 \in 2 .. n
    BY <2>1
  <2>5. \A i \in 1 .. n : l[i] \in Nodes \cup {HEAD}
    OBVIOUS
  <2>6. 1 \in 1 .. n
    BY <2>1, <2>2
  <2> HIDE DEF N, n
  <2> QED BY <2>1, <2>2, <2>3, <2>4, <2>5, <2>6, NoNodes
<1>2. \A k \in 0 .. N : P[k] = Pre(k) /\ Pre(k) \in Seq(Nodes \cup {HEAD}) /\ Len(Pre(k)) = M(k)
                        /\ \A i \in 1 .. M(k) : Pre(k)[i] = l[i]
  BY <1>1
<1>3. ASSUME NEW k \in 0 .. N PROVE Pre(k) = Body(P, k)
  <2>1. CASE k = 0
    <3>1. M(k) = 1
      BY <1>1, <2>1
    <3>2. Pre(k) = [i \in 1 .. 1 |-> l[i]]
      BY <3>1
    <3>3. [i \in 1 .. 1 |-> l[i]] = <<HEAD>>
      BY <1>1
    <3> QED BY <2>1, <3>2, <3>3
  <2>2. CASE k # 0
    <3>1. /\ k - 1 \in 0 .. N /\ k \in Nat
          /\ M(k - 1) = IF k < n THEN k ELSE n
          /\ M(k) = IF k < n THEN k + 1 ELSE n
          /\ (k - 1 < n <=> k <= n)
      BY <1>1, <2>2
    <3>2. /\ P[k - 1] = Pre(k - 1) /\ Pre(k - 1) \in Seq(Nodes \cup {HEAD}) /\ Len(Pre(k - 1)) = M(k - 1)
          /\ \A i \in 1 .. M(k - 1) : Pre(k - 1)[i] = l[i]
          /\ Pre(k) \in Seq(Nodes \cup {HEAD}) /\ Len(Pre(k)) = M(k)
          /\ \A i \in 1 .. M(k) : Pre(k)[i] = l[i]
      BY <1>2, <3>1
    <3> HIDE DEF P, Pre, M
    <3>3. CASE k < n
      <4>1. k \in 1 .. n /\ k + 1 \in 1 .. n /\ k # n
        BY <1>1, <2>2, <3>3
      <4>2. next[l[k]].to = l[k + 1] /\ l[k + 1] \in Nodes
        BY <1>1, <4>1
      <4>3. Len(P[k - 1]) = k /\ P[k - 1][k] = l[k] /\ M(k) = k + 1
        BY <3>1, <3>2, <3>3, <4>1
      <4>4. Body(P, k) = Append(Pre(k - 1), l[k + 1])
        BY <2>2, <3>2, <4>2, <4>3
      <4>5. Pre(k) = Append(Pre(k - 1), l[k + 1])
        <5>1. /\ Append(Pre(k - 1), l[k + 1]) \in Seq(Nodes \cup {HEAD})
              /\ Len(Append(Pre(k - 1), l[k + 1])) = k + 1
              /\ \A i \in 1 .. k : Append(Pre(k - 1), l[k + 1])[i] = l[i]
              /\ Append(Pre(k - 1), l[k + 1])[k + 1] = l[k + 1]
          BY <3>2, <4>2, <4>3
        <5>2. PICK e \in Seq(Nodes \cup {HEAD}) : e = Append(Pre(k - 1), l[k + 1])
          BY <5>1
        <5>3. PICK q \in Seq(Nodes \cup {HEAD}) : q = Pre(k)
          BY <3>2
        <5>4. /\ Len(e) = k + 1 /\ Len(q) = k + 1
              /\ \A i \in 1 .. k + 1 : e[i] = q[i]
          BY <3>2, <4>1, <4>3, <5>1, <5>2, <5>3
        <5>5. e = q
          BY <5>4, SeqEqual
        <5> QED BY <5>2, <5>3, <5>5
      <4> QED BY <4>4, <4>5
    <3>4. CASE ~(k < n)
      <4>1. M(k - 1) = n /\ M(k) = n
        BY <3>1, <3>4
      <4>2. Pre(k) = Pre(k - 1)
        BY <4>1 DEF Pre
      <4>3. ~(Len(P[k - 1]) = k /\ next[P[k - 1][k]].to \in Nodes)
        <5> SUFFICES ASSUME Len(P[k - 1]) = k PROVE next[P[k - 1][k]].to \notin Nodes
          OBVIOUS
        <5>1. k = n /\ n \in 1 .. n /\ P[k - 1][k] = l[n]
          BY <1>1, <3>2, <4>1
        <5> QED BY <1>1, <5>1
      <4> QED BY <2>2, <3>2, <4>2, <4>3
    <3> QED BY <3>3, <3>4
  <2> QED BY <2>1, <2>2
<1>4. Eq(P)
  <2> HIDE DEF Pre, Body
  <2> QED BY <1>3
<1>5. PICK g : Eq(g) /\ Listed = Tail(g[N])
  <2>1. Listed = Tail((CHOOSE f : Eq(f))[N])
    BY DEF Listed
  <2> HIDE DEF Eq
  <2> QED BY <1>4, <2>1
<1>6. \A k \in 0 .. N : g[k] = Body(g, k) /\ P[k] = Body(P, k)
  <2>1. g = [k \in 0 .. N |-> Body(g, k)]
    BY <1>5
  <2> HIDE DEF Body
  <2> QED BY <1>2, <1>3, <2>1
<1>7. \A k \in 0 .. N : g[k] = P[k]
  <2>1. g[0] = P[0]
    <3>1. 0 \in 0 .. N /\ Body(g, 0) = <<HEAD>> /\ Body(P, 0) = <<HEAD>>
      BY <1>1
    <3> HIDE DEF P, Body
    <3> QED BY <1>6, <3>1
  <2>2. ASSUME NEW k \in 1 .. N, g[k - 1] = P[k - 1] PROVE g[k] = P[k]
    <3>1. k \in 0 .. N /\ k # 0
      BY <1>1
    <3> HIDE DEF P
    <3>2. Body(g, k) = Body(P, k)
      BY <2>2, <3>1
    <3> QED BY <1>6, <3>1, <3>2
  <2>3. \A k \in 1 .. N : g[k - 1] = P[k - 1] => g[k] = P[k]
    BY <2>2
  <2>4. N \in Nat
    BY <1>1
  <2> HIDE DEF P, N
  <2> QED BY <2>1, <2>3, <2>4, Alike
<1>8. P[N] = l
  <2>1. N \in 0 .. N /\ M(N) = n
    BY <1>1
  <2>2. P[N] = [i \in 1 .. n |-> l[i]]
    BY <1>2, <2>1
  <2>3. l = [i \in 1 .. n |-> l[i]]
    OBVIOUS
  <2> QED BY <2>2, <2>3
<1>9. N \in 0 .. N
  BY <1>1
<1> QED BY <1>5, <1>7, <1>8, <1>9
(* The nodes that the model finds are those of the list, in their order.   *)
LEMMA LinkedIs ==
  ASSUME NEW S, List(S, next, key)
  PROVE  Linked = S /\ Present = PresentIn(S) /\ Sorted
<1>1. PICK l \in Seq(Nodes \cup {HEAD}) : IsList(l, S, next, key)
  BY DEF List
<1>2. PICK n \in Nat : n = Len(l)
  BY <1>1
<1>3. /\ n # 0 /\ S = {l[i] : i \in 2 .. n}
      /\ \A i, j \in 2 .. n : i < j => key[l[i]] < key[l[j]]
  BY <1>1, <1>2 DEF IsList
<1>4. PICK q : q = Tail(l)
  OBVIOUS
<1>5. Listed = q
  BY <1>1, <1>4, ListedIs
<1>6. /\ q \in Seq(Nodes \cup {HEAD}) /\ Len(q) = n - 1 /\ DOMAIN q = 1 .. n - 1
      /\ \A i \in 1 .. n - 1 : q[i] = l[i + 1]
  <2>1. l # << >>
    BY <1>2, <1>3
  <2>2. Tail(l) \in Seq(Nodes \cup {HEAD}) /\ Len(Tail(l)) = n - 1
    BY <1>2, <2>1, HeadTailProperties
  <2>3. \A i \in 1 .. n - 1 : Tail(l)[i] = l[i + 1]
    BY <1>2, <2>1, <2>2, HeadTailProperties
  <2>4. q \in Seq(Nodes \cup {HEAD}) /\ Len(q) = n - 1
    BY <1>4, <2>2
  <2>5. DOMAIN q = 1 .. n - 1
    BY <2>4
  <2> QED BY <1>4, <2>3, <2>4, <2>5
<1>7. \A i \in 1 .. n - 1 : i + 1 \in 2 .. n
  BY <1>2
<1>8. \A i \in 2 .. n : i - 1 \in 1 .. n - 1 /\ (i - 1) + 1 = i
  BY <1>2
<1>9. {q[i] : i \in 1 .. n - 1} = S
  <2>1. ASSUME NEW i \in 1 .. n - 1 PROVE q[i] \in S
    BY <1>3, <1>6, <1>7
  <2>2. ASSUME NEW x \in S PROVE \E i \in 1 .. n - 1 : x = q[i]
    <3>1. PICK i \in 2 .. n : x = l[i]
      BY <1>3
    <3>2. i - 1 \in 1 .. n - 1 /\ q[i - 1] = l[i]
      BY <1>6, <1>8
    <3> QED BY <3>1, <3>2
  <2> QED BY <2>1, <2>2
<1>10. Linked = S
  BY <1>5, <1>6, <1>9 DEF Linked
<1>11. \A i, j \in 1 .. n - 1 : i < j => key[q[i]] < key[q[j]]
  <2> SUFFICES ASSUME NEW i \in 1 .. n - 1, NEW j \in 1 .. n - 1, i < j
               PROVE  key[q[i]] < key[q[j]]
    OBVIOUS
  <2>1. i + 1 \in 2 .. n /\ j + 1 \in 2 .. n /\ i + 1 < j + 1
    BY <1>2
  <2>2. q[i] = l[i + 1] /\ q[j] = l[j + 1]
    BY <1>6
  <2> QED BY <1>3, <2>1, <2>2
<1>12. Sorted
  BY <1>5, <1>6, <1>11 DEF Sorted
<1>13. Present = PresentIn(S)
  BY <1>10 DEF Present, PresentIn
<1> QED BY <1>10, <1>12, <1>13

-----------------------------------------------------------------------------
(* What a step has to keep.                                                *)

(* Node n is in use: nobody changes its key.  Once a node that has been    *)
(* inserted is marked, nobody changes its link.                            *)
InUse(n) == n \in Nodes /\ n \notin unused \cup doomed
Guarded(u, n) == n \in {prev[u], cur[u], nxt[u].to}

Same(u) ==
  /\ pc'[u] = pc[u] /\ op'[u] = op[u] /\ value'[u] = value[u] /\ arg'[u] = arg[u]
  /\ prev'[u] = prev[u] /\ cur'[u] = cur[u] /\ nxt'[u] = nxt[u] /\ result'[u] = result[u]
  /\ owned'[u] = owned[u]
OthersStay(t) == \A u \in Threads \ {t} : Same(u)
NodesStay(S) ==
  /\ \A n \in Nodes : InUse(n) => key'[n] = key[n]
  /\ \A n \in S \cup retired : next[n].mark => next'[n] = next[n]

(* An idle thread has no key, and a call has one.                          *)
LEMMA Idle ==
  ASSUME TypeOK, Frames, NEW u \in Threads
  PROVE  /\ NoKey \notin Keys
         /\ op[u] = "none" => Resting(u)
         /\ op[u] # "none" => arg[u] \in Keys /\ arg[u] \in Nat
<1>1. NoKey \notin Keys
  BY KeysAreNaturals DEF NoKey
<1>2. Frame(u) /\ pc[u] \in Label
  BY DEF Frames, TypeOK
<1>3. op[u] = "none" => Resting(u)
  BY <1>2 DEF Frame, Label, CallLabels, FindLabels, WalkLabels
<1> QED BY <1>1, <1>2, <1>3, KeysAreNaturals DEF Frame

(* Where the nodes of the list and those that have come out of it are.     *)
LEMMA SetFacts ==
  ASSUME TypeOK, NEW S \in SUBSET Nodes, Accounted(S)
  PROVE  /\ \A n \in S \cup retired : InUse(n) /\ n \notin {NULL, HEAD}
         /\ \A n \in S \cup retired : ~next[n].mark => n \in S
         /\ \A n \in S \cup retired : key[n] \in Nat /\ key[n] \in Keys
         /\ S \cap retired = {}
         /\ \A u \in Threads : Hand(u) # NULL => InUse(Hand(u)) /\ Hand(u) \notin S \cup retired
<1>1. List(S, next, key) /\ OnePlace(S) /\ MarksKept(S)
  BY DEF Accounted
<1>2. \A n \in S : key[n] \in Keys
  BY <1>1, ListOrder
<1>3. \A n \in S \cup retired : InUse(n) /\ n \notin {NULL, HEAD}
  BY <1>1, NoNodes DEF OnePlace, InUse, TypeOK
<1>4. \A n \in S \cup retired : ~next[n].mark => n \in S
  BY <1>1 DEF MarksKept
<1>5. \A n \in S \cup retired : key[n] \in Keys /\ key[n] \in Nat
  BY <1>1, <1>2, KeysAreNaturals DEF MarksKept
<1>6. \A u \in Threads : Hand(u) # NULL => InUse(Hand(u)) /\ Hand(u) \notin S \cup retired
  BY <1>1 DEF OnePlace, InUse, Hand, TypeOK
<1>7. S \cap retired = {}
  BY <1>1 DEF OnePlace
<1> QED BY <1>3, <1>4, <1>5, <1>6, <1>7

(* What a thread that does not move knows stays true.                      *)
LEMMA OtherKeeps ==
  ASSUME TypeOK, Frames, NEW S \in SUBSET Nodes, Accounted(S), NEW S2 \in SUBSET Nodes,
         NEW u \in Threads, Same(u), NodesStay(S),
         \A n \in S \cup retired : Guarded(u, n) => n \in S2 \cup retired',
         was[u] \subseteq was'[u],
         op[u] # "none" => (arg[u] \in PresentIn(S2)') \in was'[u]
  PROVE  Local(u, S2)'
<1>1. GuardKept(u, S) /\ ReadKept(u) /\ ValueKept(u) /\ WitnessKept(u, S)
  BY DEF Accounted, Local
<1>2. /\ \A n \in S \cup retired : InUse(n) /\ n \notin {NULL, HEAD}
      /\ \A n \in S \cup retired : key'[n] = key[n]
      /\ \A n \in S \cup retired : next[n].mark => next'[n] = next[n]
  BY SetFacts DEF NodesStay, InUse
<1>3. GuardKept(u, S2)'
  BY <1>1, <1>2 DEF GuardKept, Same, Guarded, PrevLabels, CurLabels
<1>4. ReadKept(u)'
  <2>1. pc[u] \in {"prev_check", "unlink"} /\ nxt[u].mark => next'[cur[u]] = nxt[u]
    BY <1>1, <1>2 DEF GuardKept, ReadKept, CurLabels
  <2>2. pc[u] = "link" /\ cur[u] # NULL => key'[cur[u]] > arg[u]
    BY <1>1, <1>2, Idle DEF GuardKept, ReadKept, Frames, Frame
  <2>3. pc[u] = "remove" => next'[cur[u]] = Link(nxt[u].to, TRUE)
    <3>1. Link(nxt[u].to, TRUE).mark
      BY DEF Link
    <3> QED BY <1>1, <1>2, <3>1 DEF GuardKept, ReadKept, CurLabels
  <2> QED BY <1>1, <2>1, <2>2, <2>3 DEF ReadKept, Same, Link
<1>5. ValueKept(u)'
  <2>1. op[u] = "insert" /\ result[u] = {} => key'[value[u]] = key[value[u]]
    BY SetFacts, NoNodes DEF Hand, NodesStay, InUse, Frames, Frame
  <2>2. op[u] = "remove" /\ pc[u] \in FindLabels \cup {"mark"} => key'[value[u]] = key[value[u]]
    BY <1>1, <1>2 DEF ValueKept, Accounted, MarksKept
  <2> QED BY <1>1, <2>1, <2>2 DEF ValueKept, Same
<1>6. WitnessKept(u, S2)'
  <2>1. pc[u] = "prev_check" => key'[cur[u]] = key[cur[u]]
    BY <1>1, <1>2 DEF GuardKept, CurLabels
  <2>2. op'[u] = op[u] /\ arg'[u] = arg[u] /\ pc'[u] = pc[u] /\ nxt'[u] = nxt[u] /\ cur'[u] = cur[u]
    BY DEF Same
  <2> QED BY <1>1, <2>1, <2>2 DEF WitnessKept
<1> QED BY <1>3, <1>4, <1>5, <1>6 DEF Local

(* The search of a thread that does not move has still not passed n.       *)
LEMMA OtherClears ==
  ASSUME TypeOK, Frames, NEW S \in SUBSET Nodes, Accounted(S), NEW u \in Threads,
         Same(u), NodesStay(S), NEW n \in S, Clears(u, n)
  PROVE  Clears(u, n)'
<1>1. /\ key'[n] = key[n]
      /\ pc[u] = "prev_check" => key'[cur[u]] = key[cur[u]]
  BY SetFacts DEF Accounted, Local, GuardKept, CurLabels, NodesStay, InUse
<1> QED BY <1>1 DEF Clears, Same

(* What it knows of its locals.                                            *)
LEMMA OtherFrame ==
  ASSUME TypeOK, Frames, NEW u \in Threads, Same(u), op[u] = "none" => was'[u] = was[u]
  PROVE  Frame(u)'
<1>1. Frame(u)
  BY DEF Frames
<1>2. op[u] = "none" => Resting(u)
  BY Idle
<1>3. Resting(u) => Resting(u)'
  BY DEF Resting, Same
<1> QED BY <1>1, <1>2, <1>3 DEF Frame, Same

(* What a step of the threads that are not in U, or of none, has to show.  *)
LEMMA StepKeeps ==
  ASSUME TypeOK, Frames, NEW S \in SUBSET Nodes, Accounted(S), NEW S2 \in SUBSET Nodes,
         NEW U \in SUBSET Threads, TypeOK', NodesStay(S),
         \A u \in U :
           /\ Same(u) /\ was[u] \subseteq was'[u] /\ (op[u] = "none" => was'[u] = was[u])
           /\ op[u] # "none" => (arg[u] \in PresentIn(S2)') \in was'[u]
           /\ \A n \in S \cup retired : Guarded(u, n) => n \in S2 \cup retired',
         \A u \in Threads \ U : Frame(u)' /\ Local(u, S2)',
         List(S2, next, key)', OnePlace(S2)', MarksKept(S2)', AllCleared(S2)'
  PROVE  TypeOK' /\ Frames' /\ Accounted(S2)'
<1>1. \A u \in U : Frame(u)'
  BY OtherFrame
<1>2. \A u \in U : Local(u, S2)'
  BY OtherKeeps
<1> QED BY <1>1, <1>2 DEF Frames, Accounted

(* The set is as it was, for those who watch it.                           *)
LEMMA SameWitness ==
  ASSUME TypeOK, NEW S \in SUBSET Nodes, Accounted(S), NEW S2,
         PresentIn(S2)' = PresentIn(S), NEW u \in Threads, was'[u] = was[u]
  PROVE  /\ was[u] \subseteq was'[u] /\ (op[u] = "none" => was'[u] = was[u])
         /\ op[u] # "none" => (arg[u] \in PresentIn(S2)') \in was'[u]
<1>1. op[u] # "none" => (arg[u] \in PresentIn(S)) \in was[u]
  BY DEF Accounted, Local, WitnessKept
<1> QED BY <1>1

(* A step that leaves the nodes alone.                                     *)
LEMMA QuietKeeps ==
  ASSUME TypeOK, Frames, NEW S \in SUBSET Nodes, Accounted(S), NEW t \in Threads,
         UNCHANGED shared, OthersStay(t), \A u \in Threads \ {t} : was'[u] = was[u],
         TypeOK', Frame(t)', Local(t, S)', Hand(t)' = Hand(t),
         \A n \in S : next[n].mark /\ Clears(t, n) => Clears(t, n)'
  PROVE  TypeOK' /\ Frames' /\ Accounted(S)'
<1>1. NodesStay(S)
  BY DEF NodesStay, shared
<1>2. /\ next' = next /\ key' = key /\ unused' = unused /\ retired' = retired
      /\ doomed' = doomed /\ owned' = owned
  BY DEF shared
<1>3. PresentIn(S)' = PresentIn(S)
  BY <1>2 DEF PresentIn
<1>4. \A u \in Threads \ {t} : Local(u, S)'
  <2> SUFFICES ASSUME NEW u \in Threads \ {t} PROVE Local(u, S)'
    OBVIOUS
  <2>1. op[u] # "none" => (arg[u] \in PresentIn(S)) \in was[u]
    BY DEF Accounted, Local, WitnessKept
  <2>2. was'[u] = was[u] /\ Same(u)
    BY DEF OthersStay
  <2>3. op[u] # "none" => (arg[u] \in PresentIn(S)') \in was'[u]
    BY <1>3, <2>1, <2>2
  <2> QED BY <1>1, <1>2, <2>2, <2>3, OtherKeeps
<1>5. Frames'
  BY OtherFrame DEF Frames, OthersStay
<1>6. \A u \in Threads : Hand(u)' = Hand(u)
  BY DEF OthersStay, Same, Hand
<1>7. OnePlace(S)'
  BY <1>2, <1>6 DEF OnePlace, Accounted
<1>8. AllCleared(S)'
  <2> SUFFICES ASSUME NEW n \in S, next[n].mark PROVE \E u \in Threads : Clears(u, n)'
    BY <1>2 DEF AllCleared
  <2>1. PICK u \in Threads : Clears(u, n)
    BY DEF Accounted, AllCleared
  <2>2. CASE u = t
    BY <2>1, <2>2
  <2>3. CASE u # t
    BY <1>1, <2>1, <2>3, OtherClears DEF OthersStay
  <2> QED BY <2>2, <2>3
<1>9. List(S, next, key)' /\ MarksKept(S)'
  <2>1. List(S, next, key) /\ MarksKept(S)
    BY DEF Accounted
  <2>2. List(S, next, key)'
    BY <1>2, <2>1 DEF List, IsList
  <2>3. MarksKept(S)'
    BY <1>2, <2>1 DEF MarksKept
  <2> QED BY <2>2, <2>3
<1> QED BY <1>4, <1>5, <1>7, <1>8, <1>9 DEF Accounted

-----------------------------------------------------------------------------
(* The thread that moves.                                                  *)

(* What it knows before the step.                                          *)
LEMMA Mine ==
  ASSUME TypeOK, Frames, NEW S \in SUBSET Nodes, Accounted(S), NEW t \in Threads
  PROVE  Frame(t) /\ GuardKept(t, S) /\ ReadKept(t) /\ ValueKept(t) /\ WitnessKept(t, S)
BY DEF Frames, Accounted, Local

(* When the link to cur is still there, prev is in the list and cur is the *)
(* node behind it.                                                         *)
LEMMA PlaceFacts ==
  ASSUME TypeOK, Frames, NEW S \in SUBSET Nodes, Accounted(S), NEW t \in Threads,
         pc[t] \in PrevLabels, InPlace(t)
  PROVE  /\ prev[t] \in S \cup {HEAD} /\ next[prev[t]].to = cur[t] /\ ~next[prev[t]].mark
         /\ prev[t] \in S => key[prev[t]] < arg[t]
         /\ cur[t] \in S \cup {NULL} /\ (cur[t] \in S => cur[t] # prev[t])
         /\ prev[t] \in S /\ cur[t] \in S => key[prev[t]] < key[cur[t]]
         /\ \A n \in S : key[n] >= arg[t] => cur[t] \in S /\ key[cur[t]] <= key[n]
<1>1. next[prev[t]].to = cur[t] /\ ~next[prev[t]].mark
  BY DEF InPlace, Link
<1>2. prev[t] = HEAD \/ (prev[t] \in S \cup retired /\ key[prev[t]] < arg[t])
  BY Mine DEF GuardKept
<1>3. prev[t] \in S \cup {HEAD}
  BY <1>1, <1>2, SetFacts
<1>4. prev[t] \in S => key[prev[t]] < arg[t]
  BY <1>2, NoNodes
<1>5. op[t] # "none" /\ arg[t] \in Nat
  BY Mine, Idle DEF Frame, PrevLabels, CallLabels, FindLabels
<1>6. List(S, next, key)
  BY DEF Accounted
<1>7. /\ \A n \in S : key[n] \in Nat
      /\ cur[t] \in S \cup {NULL}
      /\ prev[t] \in S /\ cur[t] \in S => key[prev[t]] < key[cur[t]]
      /\ prev[t] = HEAD => \A n \in S : cur[t] \in S /\ key[cur[t]] <= key[n]
      /\ prev[t] \in S => \A n \in S : key[prev[t]] < key[n] => cur[t] \in S /\ key[cur[t]] <= key[n]
  BY <1>1, <1>3, <1>6, ListOrder
<1>8. ASSUME NEW n \in S, key[n] >= arg[t] PROVE cur[t] \in S /\ key[cur[t]] <= key[n]
  BY <1>3, <1>4, <1>5, <1>7, <1>8
<1>9. cur[t] \in S => cur[t] # prev[t]
  <2>1. cur[t] \in S => key[cur[t]] \in Nat
    BY <1>7
  <2>2. HEAD \notin S
    BY NoNodes
  <2> QED BY <1>3, <1>7, <2>1, <2>2
<1> QED BY <1>1, <1>3, <1>4, <1>7, <1>8, <1>9

(* A call that ends has an answer.                                         *)
LEMMA Finished ==
  ASSUME TypeOK, NEW t \in Threads, NEW b \in BOOLEAN, Finish(t, b)
  PROVE  /\ pc'[t] = "done" /\ result'[t] # {}
         /\ pc' \in [Threads -> Label] /\ result' \in [Threads -> SUBSET BOOLEAN]
         /\ \A u \in Threads \ {t} : pc'[u] = pc[u] /\ result'[u] = result[u]
<1>1. PICK r \in SUBSET BOOLEAN : r = {b} /\ r # {}
  OBVIOUS
<1>2. pc' = [pc EXCEPT ![t] = "done"] /\ result' = [result EXCEPT ![t] = r]
  BY <1>1 DEF Finish
<1> QED BY <1>1, <1>2 DEF TypeOK, Label

(* A call comes to its search's end.                                       *)
LEMMA FoundLocal ==
  ASSUME TypeOK, Frames, NEW S \in SUBSET Nodes, Accounted(S), NEW t \in Threads,
         pc[t] \in FindLabels, NEW b \in BOOLEAN, Found(t, b),
         UNCHANGED <<op, value, arg, nxt, owned, was, key>>, NEW S2 \in SUBSET Nodes,
         prev'[t] = HEAD \/ (prev'[t] \in S2 \cup retired' /\ key[prev'[t]] < arg[t]),
         b => cur'[t] \in S /\ cur'[t] \in S2 /\ key[cur'[t]] = arg[t] /\ ~nxt[t].mark,
         ~b => /\ cur'[t] \in S2 \cup retired' \cup {NULL}
               /\ cur'[t] # NULL => key[cur'[t]] > arg[t],
         PresentIn(S2)' = PresentIn(S)
  PROVE  /\ Frame(t)' /\ Local(t, S2)'
         /\ pc' \in [Threads -> Label] /\ result' \in [Threads -> SUBSET BOOLEAN]
         /\ pc'[t] = "mark" => cur'[t] = value'[t]
         /\ \A u \in Threads \ {t} : pc'[u] = pc[u] /\ result'[u] = result[u]
         /\ unused' = IF op[t] = "insert" /\ b THEN unused \cup {value[t]} ELSE unused
         /\ Hand(t)' = IF op[t] = "insert" /\ b THEN NULL ELSE Hand(t)
         /\ pc'[t] \in {"done", "link", "mark"} /\ (op[t] = "removed" => pc'[t] = "done")
<1>1. Frame(t) /\ GuardKept(t, S) /\ ReadKept(t) /\ ValueKept(t) /\ WitnessKept(t, S)
  BY Mine
<1>2. op[t] # "none" /\ result[t] = {} /\ arg[t] \in Keys
  BY <1>1 DEF Frame, CallLabels
<1>3. /\ pc'[t] \in {"done", "link", "mark"}
      /\ pc'[t] = "link" <=> (op[t] = "insert" /\ ~b)
      /\ pc'[t] = "mark" <=> (op[t] = "remove" /\ b)
      /\ IF pc'[t] = "done" THEN result'[t] # {} ELSE result'[t] = {}
      /\ pc' \in [Threads -> Label] /\ result' \in [Threads -> SUBSET BOOLEAN]
      /\ \A u \in Threads \ {t} : pc'[u] = pc[u] /\ result'[u] = result[u]
      /\ unused' = IF op[t] = "insert" /\ b THEN unused \cup {value[t]} ELSE unused
  <2>1. CASE op[t] = "find"
    BY <1>2, <2>1, Finished DEF Found
  <2>2. CASE op[t] = "insert" /\ b
    BY <1>2, <2>2, Finished DEF Found
  <2>3. CASE op[t] = "insert" /\ ~b
    BY <1>2, <2>3 DEF Found, TypeOK, Label
  <2>4. CASE op[t] = "remove" /\ b
    BY <1>2, <2>4 DEF Found, TypeOK, Label
  <2>5. CASE op[t] = "remove" /\ ~b
    BY <1>2, <2>5, Finished DEF Found
  <2>6. CASE op[t] = "removed"
    BY <1>2, <2>6, Finished DEF Found
  <2> QED BY <1>2, <2>1, <2>2, <2>3, <2>4, <2>5, <2>6 DEF TypeOK
<1>4. Frame(t)'
  BY <1>1, <1>2, <1>3 DEF Frame, CallLabels, FindLabels, WalkLabels
<1>5. GuardKept(t, S2)'
  BY <1>3 DEF GuardKept, CurLabels, PrevLabels
<1>6. pc'[t] = "mark" => cur'[t] = value[t]
  <2> SUFFICES ASSUME pc'[t] = "mark" PROVE cur'[t] = value[t]
    OBVIOUS
  <2>1. b /\ op[t] = "remove"
    BY <1>3
  <2>2. value[t] \in S /\ key[value[t]] = arg[t]
    BY <1>1, <2>1 DEF ValueKept, Accounted, MarksKept
  <2>3. cur'[t] \in S /\ key[cur'[t]] = arg[t] /\ List(S, next, key)
    BY <2>1 DEF Accounted
  <2> QED BY <2>2, <2>3, ListOrder
<1>7. ReadKept(t)'
  BY <1>3, <1>6 DEF ReadKept
<1>8. ValueKept(t)'
  BY <1>1, <1>2, <1>3 DEF ValueKept
<1>9. WitnessKept(t, S2)'
  BY <1>1, <1>3 DEF WitnessKept
<1>10. Hand(t)' = IF op[t] = "insert" /\ b THEN NULL ELSE Hand(t)
  BY <1>2, <1>3 DEF Hand
<1> QED BY <1>3, <1>4, <1>5, <1>6, <1>7, <1>8, <1>9, <1>10 DEF Local

(* A search goes on at node n, if there is one.                            *)
LEMMA LookLocal ==
  ASSUME TypeOK, Frames, NEW S \in SUBSET Nodes, Accounted(S), NEW t \in Threads,
         pc[t] \in FindLabels, NEW n, Look(t, n), cur'[t] = n,
         UNCHANGED <<op, value, arg, nxt, owned, was, key>>, NEW S2 \in SUBSET Nodes,
         prev'[t] = HEAD \/ (prev'[t] \in S2 \cup retired' /\ key[prev'[t]] < arg[t]),
         n \in S2 \cup retired' \cup {NULL},
         PresentIn(S2)' = PresentIn(S)
  PROVE  /\ Frame(t)' /\ Local(t, S2)'
         /\ pc' \in [Threads -> Label] /\ result' \in [Threads -> SUBSET BOOLEAN]
         /\ pc'[t] # "mark"
         /\ \A u \in Threads \ {t} : pc'[u] = pc[u] /\ result'[u] = result[u]
         /\ unused' = unused /\ Hand(t)' = Hand(t)
         /\ pc'[t] = "next" <=> n # NULL
<1>1. CASE n = NULL
  <2>1. Found(t, FALSE)
    BY <1>1 DEF Look
  <2>2. /\ Frame(t)' /\ Local(t, S2)'
        /\ pc' \in [Threads -> Label] /\ result' \in [Threads -> SUBSET BOOLEAN]
        /\ pc'[t] = "mark" => cur'[t] = value'[t]
        /\ \A u \in Threads \ {t} : pc'[u] = pc[u] /\ result'[u] = result[u]
        /\ unused' = unused /\ Hand(t)' = Hand(t) /\ pc'[t] \in {"done", "link", "mark"}
    BY <1>1, <2>1, FoundLocal
  <2>3. pc'[t] = "mark" => value'[t] \in Nodes
    BY <2>2 DEF Frame
  <2> QED BY <1>1, <2>2, <2>3, NoNodes
<1>2. CASE n # NULL
  <2>1. /\ pc' = [pc EXCEPT ![t] = "next"] /\ result' = result /\ unused' = unused
    BY <1>2 DEF Look
  <2>2. pc'[t] = "next" /\ pc' \in [Threads -> Label] /\ result' \in [Threads -> SUBSET BOOLEAN]
        /\ \A u \in Threads \ {t} : pc'[u] = pc[u] /\ result'[u] = result[u]
    BY <2>1 DEF TypeOK, Label
  <2>3. Frame(t) /\ ValueKept(t) /\ WitnessKept(t, S) /\ op[t] # "none" /\ result[t] = {}
    BY Mine DEF Frame, CallLabels
  <2>4. Frame(t)'
    BY <2>1, <2>2, <2>3 DEF Frame, CallLabels, FindLabels, WalkLabels
  <2>5. GuardKept(t, S2)'
    BY <1>2, <2>2 DEF GuardKept, CurLabels, PrevLabels
  <2>6. ReadKept(t)'
    BY <2>2 DEF ReadKept
  <2>7. ValueKept(t)'
    BY <2>1, <2>2, <2>3 DEF ValueKept, FindLabels
  <2>8. WitnessKept(t, S2)'
    BY <2>2, <2>3 DEF WitnessKept
  <2>9. Hand(t)' = Hand(t)
    BY <2>1 DEF Hand
  <2> QED BY <1>2, <2>1, <2>2, <2>4, <2>5, <2>6, <2>7, <2>8, <2>9 DEF Local
<1> QED BY <1>1, <1>2

-----------------------------------------------------------------------------
(* The steps that only read.                                               *)

(* A call that begins has witnessed whether its key is there.              *)
LEMMA BeginLocal ==
  ASSUME TypeOK, Frames, NEW S \in SUBSET Nodes, Accounted(S), NEW t \in Threads,
         NEW o \in {"find", "insert", "remove"}, NEW n \in Nodes \cup {NULL}, NEW k \in Keys,
         Begin(t, o, n, k), o # "find" => n \in Nodes,
         o = "insert" => key'[n] = k, o = "remove" => n \in owned[t] /\ key'[n] = k,
         PresentIn(S)' = PresentIn(S)
  PROVE  /\ Frame(t)' /\ Local(t, S)' /\ OthersStay(t) /\ pc[t] = "idle" /\ op[t] = "none"
         /\ \A u \in Threads \ {t} : was'[u] = was[u]
         /\ pc'[t] = "head" /\ op'[t] = o /\ value'[t] = n /\ result'[t] = {}
         /\ pc' \in [Threads -> Label] /\ op' \in [Threads -> {"none", "find", "insert", "remove", "removed"}]
         /\ value' \in [Threads -> Nodes \cup {NULL}] /\ arg' \in [Threads -> Keys \cup {NoKey}]
         /\ was' \in [Threads -> SUBSET BOOLEAN]
<1>1. Present = PresentIn(S)
  BY LinkedIs DEF Accounted
<1>2. PICK w \in SUBSET BOOLEAN : w = {(k \in PresentIn(S))}
  <2>1. (k \in PresentIn(S)) \in BOOLEAN
    OBVIOUS
  <2> QED BY <2>1
<1>3. /\ pc[t] = "idle" /\ pc' = [pc EXCEPT ![t] = "head"] /\ op' = [op EXCEPT ![t] = o]
      /\ value' = [value EXCEPT ![t] = n] /\ arg' = [arg EXCEPT ![t] = k]
      /\ was' = [was EXCEPT ![t] = w]
      /\ UNCHANGED <<next, retired, doomed, owned, prev, cur, nxt, result>>
  BY <1>1, <1>2 DEF Begin
<1>4. Frame(t)
  BY Mine
<1>5. op[t] = "none" /\ result[t] = {}
  BY <1>3, <1>4 DEF Frame, Resting
<1>6. /\ pc'[t] = "head" /\ op'[t] = o /\ value'[t] = n /\ arg'[t] = k /\ was'[t] = w
      /\ result'[t] = {} /\ owned' = owned
      /\ pc' \in [Threads -> Label] /\ op' \in [Threads -> {"none", "find", "insert", "remove", "removed"}]
      /\ value' \in [Threads -> Nodes \cup {NULL}] /\ arg' \in [Threads -> Keys \cup {NoKey}]
      /\ was' \in [Threads -> SUBSET BOOLEAN]
  BY <1>3, <1>5 DEF TypeOK, Label
<1>7. OthersStay(t) /\ \A u \in Threads \ {t} : was'[u] = was[u]
  BY <1>3 DEF OthersStay, Same, TypeOK
<1>8. Frame(t)'
  BY <1>6 DEF Frame, CallLabels, FindLabels, WalkLabels
<1>9. GuardKept(t, S)' /\ ReadKept(t)'
  BY <1>6 DEF GuardKept, ReadKept, PrevLabels, CurLabels
<1>10. ValueKept(t)'
  BY <1>6 DEF ValueKept
<1>11. WitnessKept(t, S)'
  <2>1. (k \in PresentIn(S)) \in w
    BY <1>2
  <2>2. (arg'[t] \in PresentIn(S)') \in was'[t]
    BY <1>6, <2>1
  <2> QED BY <1>6, <2>2 DEF WitnessKept
<1> QED BY <1>3, <1>5, <1>6, <1>7, <1>8, <1>9, <1>10, <1>11 DEF Local

(* A search begins.                                                        *)
LEMMA FindKeeps ==
  ASSUME TypeOK, Frames, NEW S \in SUBSET Nodes, Accounted(S), NEW t \in Threads, Find(t)
  PROVE  TypeOK' /\ Frames' /\ Accounted(S)'
<1>1. PICK k \in Keys : Begin(t, "find", NULL, k)
  BY DEF Find
<1>2. key' = key /\ unused' = unused /\ UNCHANGED <<next, retired, doomed, owned, prev, cur, nxt, result>>
  BY <1>1 DEF Find, Begin
<1>3. PresentIn(S)' = PresentIn(S)
  BY <1>2 DEF PresentIn
<1>4. /\ Frame(t)' /\ Local(t, S)' /\ OthersStay(t) /\ pc[t] = "idle" /\ op[t] = "none"
      /\ \A u \in Threads \ {t} : was'[u] = was[u]
      /\ pc'[t] = "head" /\ op'[t] = "find" /\ value'[t] = NULL /\ result'[t] = {}
      /\ pc' \in [Threads -> Label] /\ op' \in [Threads -> {"none", "find", "insert", "remove", "removed"}]
      /\ value' \in [Threads -> Nodes \cup {NULL}] /\ arg' \in [Threads -> Keys \cup {NoKey}]
      /\ was' \in [Threads -> SUBSET BOOLEAN]
  BY <1>1, <1>3, BeginLocal
<1>5. TypeOK'
  BY <1>2, <1>4 DEF TypeOK, OthersStay, Same
<1>6. \A n \in S : ~Clears(t, n)
  BY <1>4 DEF Clears, FindLabels
<1> QED BY <1>2, <1>4, <1>5, <1>6, QuietKeeps DEF shared, Hand

(* A removal begins, of a node that the thread has inserted.               *)
LEMMA RemoveKeeps ==
  ASSUME TypeOK, Frames, NEW S \in SUBSET Nodes, Accounted(S), NEW t \in Threads, Remove(t)
  PROVE  TypeOK' /\ Frames' /\ Accounted(S)'
<1>1. PICK n \in owned[t] : Begin(t, "remove", n, key[n])
  BY DEF Remove
<1>2. key' = key /\ unused' = unused /\ UNCHANGED <<next, retired, doomed, owned, prev, cur, nxt, result>>
  BY <1>1 DEF Remove, Begin
<1>3. PresentIn(S)' = PresentIn(S)
  BY <1>2 DEF PresentIn
<1>4. n \in S /\ n \in Nodes /\ key[n] \in Keys
  <2>1. n \in S
    BY DEF Accounted, MarksKept
  <2> QED BY <2>1, SetFacts
<1>5. /\ Frame(t)' /\ Local(t, S)' /\ OthersStay(t) /\ pc[t] = "idle" /\ op[t] = "none"
      /\ \A u \in Threads \ {t} : was'[u] = was[u]
      /\ pc'[t] = "head" /\ op'[t] = "remove" /\ value'[t] = n /\ result'[t] = {}
      /\ pc' \in [Threads -> Label] /\ op' \in [Threads -> {"none", "find", "insert", "remove", "removed"}]
      /\ value' \in [Threads -> Nodes \cup {NULL}] /\ arg' \in [Threads -> Keys \cup {NoKey}]
      /\ was' \in [Threads -> SUBSET BOOLEAN]
  BY <1>1, <1>2, <1>3, <1>4, BeginLocal
<1>6. TypeOK'
  BY <1>2, <1>5 DEF TypeOK, OthersStay, Same
<1>7. \A m \in S : ~Clears(t, m)
  BY <1>5 DEF Clears, FindLabels
<1> QED BY <1>2, <1>5, <1>6, <1>7, QuietKeeps DEF shared, Hand

(* A caller cleans its hazard pointers.                                    *)
LEMMA CleanKeeps ==
  ASSUME TypeOK, Frames, NEW S \in SUBSET Nodes, Accounted(S), NEW t \in Threads, Clean(t)
  PROVE  TypeOK' /\ Frames' /\ Accounted(S)'
<1>1. /\ pc[t] = "done" /\ pc'[t] = "idle" /\ op'[t] = "none" /\ value'[t] = NULL
      /\ arg'[t] = NoKey /\ result'[t] = {} /\ was'[t] = {} /\ UNCHANGED shared
  BY DEF Clean, TypeOK
<1>2. OthersStay(t) /\ \A u \in Threads \ {t} : was'[u] = was[u]
  BY DEF Clean, OthersStay, Same, TypeOK, shared
<1>3. TypeOK'
  <2>1. /\ pc' \in [Threads -> Label] /\ prev' \in [Threads -> Nodes \cup {HEAD, NULL}]
        /\ cur' \in [Threads -> Nodes \cup {NULL}] /\ value' \in [Threads -> Nodes \cup {NULL}]
        /\ op' \in [Threads -> {"none", "find", "insert", "remove", "removed"}]
        /\ arg' \in [Threads -> Keys \cup {NoKey}]
    BY DEF Clean, TypeOK, Label
  <2>2. nxt' \in [Threads -> Links]
    <3>1. Nil \in Links
      BY DEF Nil, Link, Links
    <3> QED BY <3>1 DEF Clean, TypeOK
  <2>3. result' \in [Threads -> SUBSET BOOLEAN] /\ was' \in [Threads -> SUBSET BOOLEAN]
    <3>1. {} \in SUBSET BOOLEAN
      OBVIOUS
    <3> QED BY <3>1 DEF Clean, TypeOK
  <2> QED BY <1>1, <1>2, <2>1, <2>2, <2>3 DEF TypeOK, shared, OthersStay, Same
<1>4. Frame(t)'
  BY <1>1 DEF Frame, Resting, CallLabels, FindLabels
<1>5. Local(t, S)'
  BY <1>1 DEF Local, GuardKept, ReadKept, ValueKept, WitnessKept, PrevLabels, CurLabels
<1>6. Hand(t)' = Hand(t)
  <2>1. Frame(t)
    BY Mine
  <2> QED BY <1>1, <2>1 DEF Frame, Resting, Hand
<1>7. \A n \in S : ~Clears(t, n)
  BY <1>1 DEF Clears, FindLabels
<1> QED BY <1>1, <1>2, <1>3, <1>4, <1>5, <1>6, <1>7, QuietKeeps

(* An iteration has no call.                                               *)
LEMMA WalkKeeps ==
  ASSUME TypeOK, Frames, NEW S \in SUBSET Nodes, Accounted(S), NEW t \in Threads,
         Iterate(t) \/ Walk(t)
  PROVE  TypeOK' /\ Frames' /\ Accounted(S)'
<1>1. Frame(t)
  BY Mine
<1>2. /\ pc[t] \in WalkLabels \cup {"idle"} /\ pc'[t] \in WalkLabels \cup {"done"}
      /\ UNCHANGED <<shared, call, prev, result, was>>
      /\ OthersStay(t)
  BY DEF Iterate, Walk, IterateHead, IterateHeadCheck, IterateNext, IterateNextCheck, Visit,
         WalkLabels, OthersStay, Same, TypeOK, shared, call
<1>3. pc[t] \in {"it_next", "it_next_check"} => cur[t] \in Nodes
  BY <1>1 DEF Frame
<1>4. cur' \in [Threads -> Nodes \cup {NULL}] /\ nxt' \in [Threads -> Links]
      /\ pc' \in [Threads -> Label]
  <2>1. \A n \in Nodes \cup {HEAD} : next[n] \in Links /\ next[n].to \in Nodes \cup {NULL}
    BY DEF TypeOK, Links
  <2>2. nxt[t] \in Links /\ nxt[t].to \in Nodes \cup {NULL}
    BY DEF TypeOK, Links
  <2> QED BY <1>3, <2>1, <2>2
      DEF Iterate, Walk, IterateHead, IterateHeadCheck, IterateNext, IterateNextCheck, Visit,
          TypeOK, Label
<1>5. TypeOK'
  BY <1>2, <1>4 DEF TypeOK, shared, call, WalkLabels, OthersStay, Same
<1>6. Resting(t) /\ Resting(t)'
  BY <1>1, <1>2 DEF Frame, Resting, call
<1>7. pc'[t] \in {"it_next", "it_next_check"} => cur'[t] \in Nodes
  <2>1. next[HEAD].to \in Nodes \cup {NULL} /\ nxt[t].to \in Nodes \cup {NULL}
    BY DEF TypeOK, Links
  <2> QED BY <1>3, <2>1
      DEF Iterate, Walk, IterateHead, IterateHeadCheck, IterateNext, IterateNextCheck, Visit,
          TypeOK
<1>8. Frame(t)'
  BY <1>2, <1>6, <1>7 DEF Frame, Resting, WalkLabels, CallLabels, FindLabels
<1>9. Local(t, S)'
  BY <1>2, <1>6 DEF Local, GuardKept, ReadKept, ValueKept, WitnessKept, PrevLabels, CurLabels,
                    WalkLabels, FindLabels, Resting
<1>10. Hand(t)' = Hand(t)
  BY <1>6 DEF Hand, Resting
<1>11. \A n \in S : ~Clears(t, n)
  BY <1>2, <1>6 DEF Clears, Resting, WalkLabels, FindLabels
<1> QED BY <1>2, <1>5, <1>8, <1>9, <1>10, <1>11, QuietKeeps

(* A search reads the head.                                                *)
LEMMA FindHeadKeeps ==
  ASSUME TypeOK, Frames, NEW S \in SUBSET Nodes, Accounted(S), NEW t \in Threads, FindHead(t)
  PROVE  TypeOK' /\ Frames' /\ Accounted(S)'
<1>1. /\ pc[t] = "head" /\ pc'[t] = "head_check" /\ prev'[t] = HEAD
      /\ UNCHANGED <<shared, call, nxt, result, was>>
  BY DEF FindHead, TypeOK
<1>2. OthersStay(t)
  BY DEF FindHead, OthersStay, Same, TypeOK, shared, call
<1>3. TypeOK'
  <2>1. next[HEAD].to \in Nodes \cup {NULL}
    BY DEF TypeOK, Links
  <2>2. /\ pc' \in [Threads -> Label] /\ prev' \in [Threads -> Nodes \cup {HEAD, NULL}]
        /\ cur' \in [Threads -> Nodes \cup {NULL}]
    BY <2>1 DEF FindHead, TypeOK, Label
  <2> QED BY <1>1, <1>2, <2>2 DEF TypeOK, shared, call, OthersStay, Same
<1>4. Frame(t) /\ ValueKept(t) /\ WitnessKept(t, S)
  BY Mine
<1>5. Frame(t)'
  BY <1>1, <1>4 DEF Frame, CallLabels, FindLabels, WalkLabels, call
<1>6. Local(t, S)'
  <2>1. PresentIn(S)' = PresentIn(S)
    BY <1>1 DEF PresentIn, shared
  <2>2. GuardKept(t, S)' /\ ReadKept(t)'
    BY <1>1 DEF GuardKept, ReadKept, PrevLabels, CurLabels
  <2>3. ValueKept(t)'
    BY <1>1, <1>4 DEF ValueKept, shared, call, FindLabels
  <2>4. WitnessKept(t, S)'
    BY <1>1, <1>4, <2>1 DEF WitnessKept, call
  <2> QED BY <2>2, <2>3, <2>4 DEF Local
<1>7. \A n \in S : Clears(t, n) => Clears(t, n)'
  BY <1>1 DEF Clears, shared, call, FindLabels
<1> QED BY <1>1, <1>2, <1>3, <1>5, <1>6, <1>7, QuietKeeps DEF Hand, call

(* A search reads the link of its node.                                    *)
LEMMA FindNextKeeps ==
  ASSUME TypeOK, Frames, NEW S \in SUBSET Nodes, Accounted(S), NEW t \in Threads, FindNext(t)
  PROVE  TypeOK' /\ Frames' /\ Accounted(S)'
<1>1. /\ pc[t] = "next" /\ pc'[t] = "next_check" /\ nxt'[t] = next[cur[t]]
      /\ UNCHANGED <<shared, call, prev, cur, result, was>>
  BY DEF FindNext, TypeOK
<1>2. OthersStay(t)
  BY DEF FindNext, OthersStay, Same, TypeOK, shared, call
<1>3. Frame(t) /\ GuardKept(t, S) /\ ValueKept(t) /\ WitnessKept(t, S)
  BY Mine
<1>4. cur[t] \in S \cup retired /\ cur[t] \in Nodes
  BY <1>1, <1>3 DEF GuardKept, CurLabels, TypeOK
<1>5. TypeOK'
  <2>1. pc' \in [Threads -> Label] /\ nxt' \in [Threads -> Links]
    BY <1>4 DEF FindNext, TypeOK, Label
  <2> QED BY <1>1, <1>2, <2>1 DEF TypeOK, shared, call, OthersStay, Same
<1>6. Frame(t)'
  BY <1>1, <1>3 DEF Frame, CallLabels, FindLabels, WalkLabels, call
<1>7. Local(t, S)'
  <2>1. PresentIn(S)' = PresentIn(S)
    BY <1>1 DEF PresentIn, shared
  <2>2. GuardKept(t, S)' /\ ReadKept(t)'
    BY <1>1, <1>3 DEF GuardKept, ReadKept, PrevLabels, CurLabels, shared, call
  <2>3. ValueKept(t)'
    BY <1>1, <1>3 DEF ValueKept, shared, call, FindLabels
  <2>4. WitnessKept(t, S)'
    BY <1>1, <1>3, <2>1 DEF WitnessKept, call
  <2> QED BY <2>2, <2>3, <2>4 DEF Local
<1>8. \A n \in S : next[n].mark /\ Clears(t, n) => Clears(t, n)'
  BY <1>1 DEF Clears, shared, call, FindLabels
<1> QED BY <1>1, <1>2, <1>5, <1>6, <1>7, <1>8, QuietKeeps DEF Hand, call


(* A search, or the rest of a call, goes back to the beginning.            *)
LEMMA BackKeeps ==
  ASSUME TypeOK, Frames, NEW S \in SUBSET Nodes, Accounted(S), NEW t \in Threads,
         pc[t] \in FindLabels \cup {"mark"}, Goto(t, "head"),
         UNCHANGED <<shared, call, prev, cur, nxt, result, was>>
  PROVE  TypeOK' /\ Frames' /\ Accounted(S)'
<1>1. pc'[t] = "head" /\ pc' \in [Threads -> Label] /\ OthersStay(t)
  BY DEF TypeOK, Label, OthersStay, Same, shared, call
<1>2. TypeOK'
  BY <1>1 DEF TypeOK, shared, call
<1>3. Frame(t) /\ ValueKept(t) /\ WitnessKept(t, S)
  BY Mine
<1>4. Frame(t)'
  BY <1>1, <1>3 DEF Frame, CallLabels, FindLabels, WalkLabels, call
<1>5. Local(t, S)'
  <2>1. PresentIn(S)' = PresentIn(S)
    BY DEF PresentIn, shared
  <2>2. GuardKept(t, S)' /\ ReadKept(t)'
    BY <1>1 DEF GuardKept, ReadKept, PrevLabels, CurLabels
  <2>3. ValueKept(t)'
    BY <1>1, <1>3 DEF ValueKept, shared, call, FindLabels
  <2>4. WitnessKept(t, S)'
    BY <1>1, <1>3, <2>1 DEF WitnessKept, call
  <2> QED BY <2>2, <2>3, <2>4 DEF Local
<1>6. \A n \in S : Clears(t, n) => Clears(t, n)'
  BY <1>1 DEF Clears, shared, call, FindLabels
<1> QED BY <1>1, <1>2, <1>4, <1>5, <1>6, QuietKeeps DEF Hand, call

(* A search has checked the head.                                          *)
LEMMA FindHeadCheckKeeps ==
  ASSUME TypeOK, Frames, NEW S \in SUBSET Nodes, Accounted(S), NEW t \in Threads, FindHeadCheck(t)
  PROVE  TypeOK' /\ Frames' /\ Accounted(S)'
<1>1. /\ pc[t] = "head_check"
      /\ UNCHANGED <<next, key, retired, doomed, owned, call, prev, cur, nxt, was>>
  BY DEF FindHeadCheck
<1>2. PresentIn(S)' = PresentIn(S)
  BY <1>1 DEF PresentIn
<1>3. /\ Frame(t) /\ GuardKept(t, S) /\ ValueKept(t) /\ WitnessKept(t, S)
      /\ prev[t] = HEAD /\ op[t] # "none" /\ result[t] = {}
  BY <1>1, Mine DEF GuardKept, Frame, CallLabels, FindLabels
<1>4. List(S, next, key)
  BY DEF Accounted
<1>5. CASE next[HEAD].to = cur[t]
  <2>1. Look(t, cur[t])
    BY <1>5 DEF FindHeadCheck
  <2>2. cur[t] \in S \cup {NULL} /\ (cur[t] = NULL => S = {})
    BY <1>4, <1>5, ListOrder, NoNodes
  <2>3. /\ Frame(t)' /\ Local(t, S)'
        /\ pc' \in [Threads -> Label] /\ result' \in [Threads -> SUBSET BOOLEAN]
        /\ pc'[t] # "mark"
        /\ \A u \in Threads \ {t} : pc'[u] = pc[u] /\ result'[u] = result[u]
        /\ unused' = unused /\ Hand(t)' = Hand(t)
        /\ pc'[t] = "next" <=> cur[t] # NULL
    <3>1. pc[t] \in FindLabels
      BY <1>1 DEF FindLabels
    <3>2. UNCHANGED <<op, value, arg, nxt, owned, was, key>> /\ cur'[t] = cur[t] /\ prev'[t] = HEAD
          /\ cur[t] \in S \cup retired' \cup {NULL}
      BY <1>1, <1>3, <2>2 DEF call
    <3> QED BY <1>2, <2>1, <3>1, <3>2, LookLocal
  <2>4. UNCHANGED shared /\ OthersStay(t) /\ \A u \in Threads \ {t} : was'[u] = was[u]
    BY <1>1, <2>3 DEF shared, OthersStay, Same, call
  <2>5. TypeOK'
    BY <1>1, <2>3, <2>4 DEF TypeOK, shared, call, OthersStay, Same
  <2>6. \A n \in S : next[n].mark /\ Clears(t, n) => Clears(t, n)'
    BY <1>1, <2>2, <2>3 DEF Clears, call, FindLabels
  <2> QED BY <2>3, <2>4, <2>5, <2>6, QuietKeeps
<1>6. CASE next[HEAD].to # cur[t]
  <2>1. Goto(t, "head") /\ result' = result /\ unused' = unused
    BY <1>6 DEF FindHeadCheck
  <2>2. UNCHANGED <<shared, call, prev, cur, nxt, result, was>>
    BY <1>1, <2>1 DEF shared
  <2> QED BY <1>1, <2>1, <2>2, BackKeeps DEF FindLabels
<1> QED BY <1>5, <1>6

(* A search has checked what it has read of a link.                        *)
LEMMA FindNextCheckKeeps ==
  ASSUME TypeOK, Frames, NEW S \in SUBSET Nodes, Accounted(S), NEW t \in Threads, FindNextCheck(t)
  PROVE  TypeOK' /\ Frames' /\ Accounted(S)'
<1>1. /\ pc[t] = "next_check" /\ pc'[t] = IF Stable(t) THEN "prev_check" ELSE "next"
      /\ UNCHANGED <<shared, call, prev, cur, nxt, result, was>>
      /\ pc' \in [Threads -> Label]
  BY DEF FindNextCheck, TypeOK, Label
<1>2. OthersStay(t)
  BY DEF FindNextCheck, OthersStay, Same, TypeOK, shared, call
<1>3. TypeOK'
  BY <1>1, <1>2 DEF TypeOK, shared, call, OthersStay, Same
<1>4. /\ Frame(t) /\ GuardKept(t, S) /\ ValueKept(t) /\ WitnessKept(t, S)
      /\ op[t] # "none"
  BY <1>1, Mine DEF Frame, CallLabels, FindLabels
<1>5. Frame(t)'
  BY <1>1, <1>4 DEF Frame, CallLabels, FindLabels, WalkLabels, call
<1>6. List(S, next, key)
  BY DEF Accounted
<1>7. arg[t] \in Nat
  BY <1>4, Idle
<1>8. /\ prev[t] = HEAD \/ (prev[t] \in S \cup retired /\ key[prev[t]] < arg[t])
      /\ cur[t] \in S \cup retired
  BY <1>1, <1>4 DEF GuardKept, PrevLabels, CurLabels
<1>9. key[cur[t]] \in Nat /\ (~next[cur[t]].mark => cur[t] \in S)
  BY <1>8, SetFacts
<1>10. CASE Stable(t)
  <2>1. pc'[t] = "prev_check" /\ next[cur[t]] = nxt[t]
    BY <1>1, <1>10 DEF Stable
  <2>2. ~nxt[t].mark => cur[t] \in S /\ nxt[t].to \in S \cup {NULL}
    BY <1>6, <1>9, <2>1, ListOrder
  <2>3. GuardKept(t, S)'
    BY <1>1, <1>8, <2>1, <2>2 DEF GuardKept, shared, call
  <2>4. ReadKept(t)'
    BY <1>1, <2>1 DEF ReadKept, shared, call
  <2>5. ValueKept(t)'
    BY <1>1, <1>4, <2>1 DEF ValueKept, shared, call, FindLabels
  <2>6. ~nxt[t].mark /\ key[cur[t]] = arg[t] => arg[t] \in PresentIn(S)
    BY <2>1, <2>2 DEF PresentIn
  <2>7. ~nxt[t].mark /\ key[cur[t]] < arg[t] /\ nxt[t].to = NULL => arg[t] \notin PresentIn(S)
    <3> SUFFICES ASSUME ~nxt[t].mark, key[cur[t]] < arg[t], nxt[t].to = NULL, NEW n \in S, key[n] = arg[t]
                 PROVE  FALSE
      BY DEF PresentIn
    <3>1. next[cur[t]].to \in S
      BY <1>6, <2>2, ListOrder
    <3> QED BY <2>1, <3>1, NoNodes
  <2>8. (arg[t] \in PresentIn(S)) \in was[t]
    BY <1>4 DEF WitnessKept
  <2>9. ~nxt[t].mark /\ key[cur[t]] = arg[t] => TRUE \in was[t]
    BY <2>6, <2>8
  <2>10. ~nxt[t].mark /\ key[cur[t]] < arg[t] /\ nxt[t].to = NULL => FALSE \in was[t]
    <3>1. arg[t] \notin PresentIn(S) => (arg[t] \in PresentIn(S)) = FALSE
      OBVIOUS
    <3> QED BY <2>7, <2>8, <3>1
  <2>11. PresentIn(S)' = PresentIn(S)
    BY <1>1 DEF PresentIn, shared
  <2>12. WitnessKept(t, S)'
    BY <1>1, <2>8, <2>9, <2>10, <2>11 DEF WitnessKept, shared, call
  <2>13. ASSUME NEW n \in S, next[n].mark, Clears(t, n) PROVE Clears(t, n)'
    <3>1. value[t] = n /\ key[n] = arg[t] /\ op[t] = "removed" /\ (cur[t] = n => nxt[t].mark)
      BY <1>1, <2>13 DEF Clears
    <3>2. ~nxt[t].mark /\ key[cur[t]] < arg[t] => nxt[t].to # NULL
      <4> SUFFICES ASSUME ~nxt[t].mark, key[cur[t]] < arg[t] PROVE nxt[t].to # NULL
        OBVIOUS
      <4>1. next[cur[t]].to \in S
        BY <1>6, <2>2, <3>1, ListOrder
      <4> QED BY <2>1, <4>1, NoNodes
    <3> QED BY <1>1, <2>1, <3>1, <3>2 DEF Clears, shared, call, FindLabels
  <2> QED BY <1>1, <1>2, <1>3, <1>5, <2>3, <2>4, <2>5, <2>12, <2>13, QuietKeeps DEF Local, Hand, call
<1>11. CASE ~Stable(t)
  <2>1. pc'[t] = "next"
    BY <1>1, <1>11
  <2>2. GuardKept(t, S)'
    BY <1>1, <1>8, <2>1 DEF GuardKept, shared, call
  <2>3. ReadKept(t)'
    BY <2>1 DEF ReadKept
  <2>4. ValueKept(t)'
    BY <1>1, <1>4, <2>1 DEF ValueKept, shared, call, FindLabels
  <2>5. PresentIn(S)' = PresentIn(S)
    BY <1>1 DEF PresentIn, shared
  <2>6. WitnessKept(t, S)'
    BY <1>1, <1>4, <2>1, <2>5 DEF WitnessKept, shared, call
  <2>7. \A n \in S : Clears(t, n) => Clears(t, n)'
    BY <1>1, <2>1 DEF Clears, shared, call, FindLabels
  <2> QED BY <1>1, <1>2, <1>3, <1>5, <2>2, <2>3, <2>4, <2>6, <2>7, QuietKeeps DEF Local, Hand, call
<1> QED BY <1>10, <1>11

(* A search checks that its node is still where it was found.              *)
LEMMA FindPrevCheckKeeps ==
  ASSUME TypeOK, Frames, NEW S \in SUBSET Nodes, Accounted(S), NEW t \in Threads, FindPrevCheck(t)
  PROVE  TypeOK' /\ Frames' /\ Accounted(S)'
<1>1. /\ pc[t] = "prev_check"
      /\ UNCHANGED <<next, key, retired, doomed, owned, call, nxt, was>>
  BY DEF FindPrevCheck
<1>2. PresentIn(S)' = PresentIn(S)
  BY <1>1 DEF PresentIn
<1>3. /\ Frame(t) /\ GuardKept(t, S) /\ ReadKept(t) /\ ValueKept(t) /\ WitnessKept(t, S)
      /\ op[t] # "none" /\ result[t] = {} /\ arg[t] \in Nat
  BY <1>1, Mine, Idle DEF Frame, CallLabels, FindLabels
<1>4. /\ prev[t] = HEAD \/ (prev[t] \in S \cup retired /\ key[prev[t]] < arg[t])
      /\ cur[t] \in S \cup retired /\ cur[t] # NULL
      /\ key[cur[t]] \in Nat
  BY <1>1, <1>3, SetFacts DEF GuardKept, PrevLabels, CurLabels
<1>5. List(S, next, key)
  BY DEF Accounted
<1>6. InPlace(t) => cur[t] \in S
  BY <1>1, <1>4, PlaceFacts DEF PrevLabels
<1>7. CASE ~InPlace(t)
  <2>1. Goto(t, "head") /\ UNCHANGED <<prev, cur, result, unused>>
    BY <1>7 DEF FindPrevCheck
  <2>2. UNCHANGED <<shared, call, prev, cur, nxt, result, was>>
    BY <1>1, <2>1 DEF shared
  <2> QED BY <1>1, <2>1, <2>2, BackKeeps DEF FindLabels
<1>8. CASE InPlace(t) /\ nxt[t].mark
  <2>1. Goto(t, "unlink") /\ UNCHANGED <<shared, call, prev, cur, nxt, result, was>>
    BY <1>1, <1>8 DEF FindPrevCheck, shared
  <2>2. pc'[t] = "unlink" /\ pc' \in [Threads -> Label] /\ OthersStay(t)
    BY <2>1 DEF TypeOK, Label, OthersStay, Same, shared, call
  <2>3. TypeOK'
    BY <2>1, <2>2 DEF TypeOK, shared, call
  <2>4. Frame(t)'
    BY <1>3, <2>1, <2>2 DEF Frame, CallLabels, FindLabels, WalkLabels, call
  <2>5. GuardKept(t, S)'
    BY <1>4, <2>1, <2>2 DEF GuardKept, shared, call
  <2>6. ReadKept(t)'
    BY <1>1, <1>3, <1>8, <2>1, <2>2 DEF ReadKept, shared, call
  <2>7. ValueKept(t)'
    BY <1>1, <1>3, <2>1, <2>2 DEF ValueKept, shared, call, FindLabels
  <2>8. WitnessKept(t, S)'
    BY <1>2, <1>3, <2>1, <2>2 DEF WitnessKept, call
  <2>9. \A n \in S : next[n].mark /\ Clears(t, n) => Clears(t, n)'
    BY <1>1, <1>8, <2>1, <2>2 DEF Clears, shared, call, FindLabels
  <2> QED BY <2>1, <2>2, <2>3, <2>4, <2>5, <2>6, <2>7, <2>8, <2>9, QuietKeeps DEF Local, Hand, call
<1>9. CASE InPlace(t) /\ ~nxt[t].mark /\ Arrived(t)
  <2> DEFINE b == key[cur[t]] = arg[t]
  <2>1. Found(t, b) /\ UNCHANGED <<prev, cur>> /\ b \in BOOLEAN
    BY <1>9 DEF FindPrevCheck
  <2>2. pc[t] \in FindLabels /\ cur'[t] = cur[t] /\ prev'[t] = prev[t]
        /\ UNCHANGED <<op, value, arg, nxt, owned, was, key>> /\ retired' = retired
    BY <1>1, <2>1 DEF FindLabels, call
  <2>3. b => cur'[t] \in S /\ key[cur'[t]] = arg[t] /\ ~nxt[t].mark
    BY <1>6, <1>9, <2>2
  <2>4. ~b => cur'[t] \in S \cup retired' \cup {NULL} /\ key[cur'[t]] > arg[t]
    BY <1>3, <1>4, <1>9, <2>2 DEF Arrived
  <2>5. prev'[t] = HEAD \/ (prev'[t] \in S \cup retired' /\ key[prev'[t]] < arg[t])
    BY <1>4, <2>2
  <2>6. /\ Frame(t)' /\ Local(t, S)'
        /\ pc' \in [Threads -> Label] /\ result' \in [Threads -> SUBSET BOOLEAN]
        /\ pc'[t] = "mark" => cur'[t] = value'[t]
        /\ \A u \in Threads \ {t} : pc'[u] = pc[u] /\ result'[u] = result[u]
        /\ unused' = IF op[t] = "insert" /\ b THEN unused \cup {value[t]} ELSE unused
        /\ Hand(t)' = IF op[t] = "insert" /\ b THEN NULL ELSE Hand(t)
    <3> HIDE DEF b
    <3> QED BY <1>2, <2>1, <2>2, <2>3, <2>4, <2>5, FoundLocal
  <2>7. OthersStay(t) /\ \A u \in Threads : was'[u] = was[u]
    BY <2>1, <2>2, <2>6 DEF OthersStay, Same
  <2>8. op[t] = "insert" => value[t] \in Nodes
    BY <1>3 DEF Frame
  <2>9. TypeOK'
    BY <1>1, <2>1, <2>2, <2>6, <2>7, <2>8 DEF TypeOK, call, OthersStay, Same
  <2>10. \A n \in S : next[n].mark => ~Clears(t, n)
    <3> SUFFICES ASSUME NEW n \in S, next[n].mark, Clears(t, n) PROVE FALSE
      OBVIOUS
    <3>1. key[n] = arg[t] /\ cur[t] # n
      BY <1>1, <1>9 DEF Clears
    <3>2. key[cur[t]] <= key[n] /\ key[cur[t]] >= key[n]
      BY <1>1, <1>3, <1>9, <3>1, PlaceFacts DEF Arrived, PrevLabels
    <3>3. key[cur[t]] = key[n]
      BY <1>3, <1>4, <3>1, <3>2
    <3> QED BY <1>5, <1>6, <1>9, <3>1, <3>3, ListOrder
  <2>11. CASE op[t] = "insert" /\ b
    <3>1. unused' = unused \cup {value[t]} /\ Hand(t) = value[t] /\ Hand(t)' = NULL /\ Hand(t) # NULL
          /\ UNCHANGED <<next, key, retired, doomed, owned>>
      BY <1>1, <1>3, <2>6, <2>8, <2>11, NoNodes DEF Hand
    <3>2. NodesStay(S)
      BY <3>1 DEF NodesStay
    <3>3. List(S, next, key)' /\ MarksKept(S)'
      <4>1. List(S, next, key)'
        BY <1>5, <3>1 DEF List, IsList
      <4>2. MarksKept(S)'
        BY <3>1 DEF MarksKept, Accounted
      <4> QED BY <4>1, <4>2
    <3>4. OnePlace(S)'
      <4>1. OnePlace(S) /\ \A u \in Threads \ {t} : Hand(u)' = Hand(u)
        BY <2>7 DEF OnePlace, Accounted, OthersStay, Same, Hand
      <4> HIDE DEF Hand
      <4>2. value[t] \notin S \cup unused \cup retired \cup doomed
        BY <3>1, <4>1 DEF OnePlace
      <4>3. \A u \in Threads \ {t} : Hand(u) # NULL => Hand(u) # value[t]
        BY <3>1, <4>1 DEF OnePlace
      <4>4. \A n \in Nodes :
              n \in S \cup unused' \cup retired' \cup doomed' \/ \E u \in Threads : Hand(u)' = n
        <5> SUFFICES ASSUME NEW n \in Nodes, n \notin S \cup unused' \cup retired' \cup doomed'
                     PROVE  \E u \in Threads : Hand(u)' = n
          OBVIOUS
        <5>1. PICK u \in Threads : Hand(u) = n
          BY <3>1, <4>1 DEF OnePlace
        <5>2. u # t
          BY <3>1, <5>1
        <5> QED BY <4>1, <5>1, <5>2
      <4>5. \A u \in Threads : Hand(u)' # NULL => Hand(u)' \notin S \cup unused' \cup retired' \cup doomed'
        BY <3>1, <4>1, <4>3 DEF OnePlace
      <4>6. \A u, v \in Threads : Hand(u)' # NULL /\ Hand(u)' = Hand(v)' => u = v
        BY <3>1, <4>1 DEF OnePlace
      <4> QED BY <3>1, <4>1, <4>2, <4>4, <4>5, <4>6 DEF OnePlace
    <3>5. AllCleared(S)'
      <4> SUFFICES ASSUME NEW n \in S, next[n].mark PROVE \E u \in Threads : Clears(u, n)'
        BY <3>1 DEF AllCleared
      <4>1. PICK u \in Threads : Clears(u, n)
        BY DEF Accounted, AllCleared
      <4>2. u # t
        BY <2>10, <4>1
      <4> QED BY <2>7, <3>2, <4>1, <4>2, OtherClears DEF OthersStay
    <3>6. \A u \in Threads \ {t} : Same(u)
      BY <2>7 DEF OthersStay
    <3>7. \A u \in Threads \ {t} :
            /\ was[u] \subseteq was'[u] /\ (op[u] = "none" => was'[u] = was[u])
            /\ op[u] # "none" => (arg[u] \in PresentIn(S)') \in was'[u]
      BY <1>2, <2>7, SameWitness
    <3>8. Threads \ (Threads \ {t}) = {t}
      OBVIOUS
    <3> QED BY <2>6, <2>9, <3>1, <3>2, <3>3, <3>4, <3>5, <3>6, <3>7, <3>8, StepKeeps
  <2>12. CASE ~(op[t] = "insert" /\ b)
    <3>1. unused' = unused /\ Hand(t)' = Hand(t) /\ UNCHANGED shared
      BY <1>1, <2>6, <2>12 DEF shared
    <3> QED BY <2>6, <2>7, <2>9, <2>10, <3>1, QuietKeeps
  <2> QED BY <2>11, <2>12
<1>10. CASE InPlace(t) /\ ~nxt[t].mark /\ ~Arrived(t)
  <2>1. Look(t, nxt[t].to) /\ prev' = [prev EXCEPT ![t] = cur[t]] /\ cur' = [cur EXCEPT ![t] = nxt[t].to]
    BY <1>10 DEF FindPrevCheck
  <2>2. /\ prev'[t] = cur[t] /\ cur'[t] = nxt[t].to
        /\ \A u \in Threads \ {t} : prev'[u] = prev[u] /\ cur'[u] = cur[u]
        /\ prev' \in [Threads -> Nodes \cup {HEAD, NULL}] /\ cur' \in [Threads -> Nodes \cup {NULL}]
    <3>1. nxt[t].to \in Nodes \cup {NULL} /\ cur[t] \in Nodes
      BY <1>4 DEF TypeOK, Links
    <3> QED BY <2>1, <3>1 DEF TypeOK
  <2>3. pc[t] \in FindLabels /\ UNCHANGED <<op, value, arg, nxt, owned, was, key>> /\ retired' = retired
    BY <1>1 DEF FindLabels, call
  <2>4. key[cur[t]] < arg[t]
    BY <1>3, <1>4, <1>10 DEF Arrived
  <2>5. nxt[t].to \in S \cup retired' \cup {NULL}
    BY <1>1, <1>3, <1>10 DEF GuardKept
  <2>6. /\ Frame(t)' /\ Local(t, S)'
        /\ pc' \in [Threads -> Label] /\ result' \in [Threads -> SUBSET BOOLEAN]
        /\ pc'[t] # "mark"
        /\ \A u \in Threads \ {t} : pc'[u] = pc[u] /\ result'[u] = result[u]
        /\ unused' = unused /\ Hand(t)' = Hand(t)
        /\ pc'[t] = "next" <=> nxt[t].to # NULL
    BY <1>2, <1>4, <2>1, <2>2, <2>3, <2>4, <2>5, LookLocal
  <2>7. UNCHANGED shared /\ OthersStay(t) /\ \A u \in Threads \ {t} : was'[u] = was[u]
    BY <1>1, <2>2, <2>6 DEF shared, OthersStay, Same, call
  <2>8. TypeOK'
    BY <1>1, <2>2, <2>6, <2>7 DEF TypeOK, shared, call, OthersStay, Same
  <2>9. \A n \in S : next[n].mark /\ Clears(t, n) => Clears(t, n)'
    BY <1>1, <1>10, <2>2, <2>4, <2>6 DEF Clears, call, FindLabels
  <2> QED BY <2>6, <2>7, <2>8, <2>9, QuietKeeps
<1> QED BY <1>7, <1>8, <1>9, <1>10

-----------------------------------------------------------------------------
(* The steps that change the list.                                         *)

(* Taking a marked node out of the list.                                   *)
LEMMA TakeOut ==
  ASSUME TypeOK, Frames, NEW S \in SUBSET Nodes, Accounted(S), NEW t \in Threads,
         pc[t] \in {"unlink", "remove"}, InPlace(t), NEW c, c = cur[t],
         next' = [next EXCEPT ![prev[t]] = Link(nxt[t].to, FALSE)], key' = key
  PROVE  /\ c \in S /\ next[c].mark /\ next[c].to = nxt[t].to
         /\ nxt[t].to \in (S \ {c}) \cup {NULL}
         /\ prev[t] \in (S \ {c}) \cup {HEAD} /\ (prev[t] \in S => key[prev[t]] < arg[t])
         /\ List(S \ {c}, next, key)' /\ NodesStay(S) /\ PresentIn(S \ {c})' = PresentIn(S)
         /\ \A n \in S \cup retired \cup doomed : next'[n].mark = next[n].mark
         /\ next' \in [Nodes \cup {HEAD} -> Links] /\ ~next'[HEAD].mark
         /\ \A n \in S \ {c} : key[n] >= arg[t] => nxt[t].to \in S
<1>1. GuardKept(t, S) /\ ReadKept(t) /\ op[t] # "none" /\ arg[t] \in Nat
  BY Mine, Idle DEF Frame, CallLabels, FindLabels
<1>2. List(S, next, key) /\ MarksKept(S) /\ OnePlace(S)
  BY DEF Accounted
<1>3. c \in S \cup retired /\ c # NULL
  BY <1>1, SetFacts DEF GuardKept, CurLabels
<1>4. /\ prev[t] \in S \cup {HEAD} /\ next[prev[t]].to = c /\ ~next[prev[t]].mark
      /\ prev[t] \in S => key[prev[t]] < arg[t]
      /\ c \in S /\ c # prev[t]
      /\ \A n \in S : key[n] >= arg[t] => key[c] <= key[n]
  BY <1>3, PlaceFacts, NoNodes DEF PrevLabels
<1>5. next[c].mark /\ next[c].to = nxt[t].to
  <2>1. Link(nxt[t].to, TRUE).mark /\ Link(nxt[t].to, TRUE).to = nxt[t].to
    BY DEF Link
  <2> QED BY <1>1, <2>1 DEF ReadKept
<1>6. nxt[t].to \in (S \ {c}) \cup {NULL}
  <2>1. nxt[t].to \in S \cup {NULL} /\ (nxt[t].to \in S => key[c] < key[nxt[t].to])
    BY <1>2, <1>4, <1>5, ListOrder
  <2>2. key[c] \in Nat
    BY <1>4, SetFacts
  <2> QED BY <2>1, <2>2
<1>7. HEAD \notin S /\ NULL \notin S /\ S \subseteq Nodes
  BY NoNodes
<1>8. /\ next'[prev[t]] = Link(nxt[t].to, FALSE)
      /\ \A n \in Nodes \cup {HEAD} : n # prev[t] => next'[n] = next[n]
  BY <1>4 DEF TypeOK
<1>9. next'[prev[t]].to = nxt[t].to /\ next'[prev[t]].mark = FALSE
  BY <1>8 DEF Link
<1>10. List(S \ {c}, next', key)
  <2>1. PICK new : new = next'
    OBVIOUS
  <2>2. PICK a \in S \cup {HEAD} : a = prev[t]
    BY <1>4
  <2>3. next[a].to = c /\ new[a].to = next[c].to
    BY <1>4, <1>5, <1>9, <2>1, <2>2
  <2>4. \A x \in S \cup {HEAD} : x # a /\ x # c => new[x].to = next[x].to
    BY <1>7, <1>8, <2>1, <2>2
  <2>5. List(S \ {c}, new, key)
    BY <1>2, <1>4, <2>3, <2>4, ListRemove
  <2> QED BY <2>1, <2>5
<1>11. \A n \in S \cup retired \cup doomed : next'[n].mark = next[n].mark
  <2>1. next[prev[t]].mark = FALSE
    BY <1>4 DEF TypeOK, Links
  <2> QED BY <1>8, <1>9, <2>1 DEF TypeOK
<1>12. NodesStay(S)
  <2>1. \A n \in S \cup retired : next[n].mark => next'[n] = next[n]
    BY <1>4, <1>8 DEF TypeOK
  <2> QED BY <2>1 DEF NodesStay
<1>13. PresentIn(S \ {c})' = PresentIn(S)
  <2>1. {m \in S \ {c} : ~next'[m].mark} = {m \in S : ~next[m].mark}
    BY <1>5, <1>11
  <2> QED BY <2>1 DEF PresentIn
<1>14. next' \in [Nodes \cup {HEAD} -> Links] /\ ~next'[HEAD].mark
  <2>1. Link(nxt[t].to, FALSE) \in Links /\ ~Link(nxt[t].to, FALSE).mark
    BY <1>6 DEF Link, Links
  <2> QED BY <2>1, <1>8 DEF TypeOK
<1>15. ASSUME NEW n \in S \ {c}, key[n] >= arg[t] PROVE nxt[t].to \in S
  <2>1. key[c] <= key[n] /\ key[c] # key[n] /\ key[c] \in Nat /\ key[n] \in Nat
    BY <1>2, <1>4, <1>15, ListOrder
  <2>2. key[c] < key[n]
    BY <2>1
  <2> QED BY <1>2, <1>4, <1>5, <2>2, ListOrder
<1>16. List(S \ {c}, next, key)'
  BY <1>10 DEF List, IsList
<1> QED BY <1>4, <1>5, <1>6, <1>11, <1>12, <1>13, <1>14, <1>15, <1>16

(* The rest of the step.                                                   *)
LEMMA TakeOutKeeps ==
  ASSUME TypeOK, Frames, NEW S \in SUBSET Nodes, Accounted(S), NEW t \in Threads,
         pc[t] \in {"unlink", "remove"}, InPlace(t), NEW c, c = cur[t],
         next' = [next EXCEPT ![prev[t]] = Link(nxt[t].to, FALSE)],
         retired' = retired \cup {c}, UNCHANGED <<key, unused, doomed, owned, was>>,
         TypeOK', OthersStay(t), Frame(t)', Local(t, S \ {c})', Hand(t)' = Hand(t),
         \A n \in S \ {c} : next[n].mark /\ Clears(t, n) => Clears(t, n)'
  PROVE  TypeOK' /\ Frames' /\ Accounted(S \ {c})'
<1>1. PICK S2 \in SUBSET Nodes : S2 = S \ {c}
  OBVIOUS
<1>2. /\ c \in S /\ next[c].mark /\ List(S2, next, key)' /\ NodesStay(S)
      /\ PresentIn(S2)' = PresentIn(S)
      /\ \A n \in S \cup retired \cup doomed : next'[n].mark = next[n].mark
  BY <1>1, TakeOut
<1>3. OnePlace(S) /\ MarksKept(S)
  BY DEF Accounted
<1>4. \A u \in Threads : Hand(u)' = Hand(u)
  BY DEF OthersStay, Same, Hand
<1>5. OnePlace(S2)'
  <2>1. S2 \cup retired' = S \cup retired
    BY <1>1, <1>2
  <2>2. /\ S2 \cap unused' = {} /\ S2 \cap (retired' \cup doomed') = {}
        /\ (retired' \cup doomed') \cap unused' = {} /\ retired' \cap doomed' = {}
    BY <1>1, <1>2, <1>3 DEF OnePlace
  <2>3. /\ \A u \in Threads : Hand(u)' # NULL => Hand(u)' \notin S2 \cup unused' \cup retired' \cup doomed'
        /\ \A u, v \in Threads : Hand(u)' # NULL /\ Hand(u)' = Hand(v)' => u = v
        /\ \A n \in Nodes :
             n \in S2 \cup unused' \cup retired' \cup doomed' \/ \E u \in Threads : Hand(u)' = n
    <3> HIDE DEF Hand
    <3> QED BY <1>3, <1>4, <2>1 DEF OnePlace
  <2> QED BY <2>2, <2>3 DEF OnePlace
<1>6. MarksKept(S2)'
  <2>1. \A n \in retired' \cup doomed' : next'[n].mark
    BY <1>2, <1>3 DEF MarksKept
  <2>2. \A n \in retired' : key'[n] \in Keys
    BY <1>2, <1>3, SetFacts DEF MarksKept
  <2>3. \A u \in Threads : \A n \in owned'[u] : n \in S2 /\ ~next'[n].mark
    BY <1>1, <1>2, <1>3 DEF MarksKept
  <2>4. \A u, v \in Threads : owned'[u] \cap owned'[v] # {} => u = v
    BY <1>3 DEF MarksKept
  <2> QED BY <2>1, <2>2, <2>3, <2>4 DEF MarksKept
<1>7. AllCleared(S2)'
  <2> SUFFICES ASSUME NEW n \in S2, next'[n].mark PROVE \E u \in Threads : Clears(u, n)'
    BY DEF AllCleared
  <2>1. n \in S /\ n # c /\ next[n].mark
    BY <1>1, <1>2
  <2>2. PICK u \in Threads : Clears(u, n)
    BY <2>1 DEF Accounted, AllCleared
  <2>3. CASE u = t
    BY <2>1, <2>2, <2>3
  <2>4. CASE u # t
    BY <1>2, <2>1, <2>2, <2>4, OtherClears DEF OthersStay
  <2> QED BY <2>3, <2>4
<1>8. \A u \in Threads \ {t} :
        /\ Same(u) /\ was[u] \subseteq was'[u] /\ (op[u] = "none" => was'[u] = was[u])
        /\ op[u] # "none" => (arg[u] \in PresentIn(S2)') \in was'[u]
        /\ \A n \in S \cup retired : Guarded(u, n) => n \in S2 \cup retired'
  BY <1>1, <1>2, SameWitness DEF OthersStay
<1>9. PICK U \in SUBSET Threads : U = Threads \ {t}
  OBVIOUS
<1>10. \A u \in Threads \ U : Frame(u)' /\ Local(u, S2)'
  <2>1. Local(t, S2)'
    BY <1>1
  <2> QED BY <1>9, <2>1
<1>11. \A u \in U :
        /\ Same(u) /\ was[u] \subseteq was'[u] /\ (op[u] = "none" => was'[u] = was[u])
        /\ op[u] # "none" => (arg[u] \in PresentIn(S2)') \in was'[u]
        /\ \A n \in S \cup retired : Guarded(u, n) => n \in S2 \cup retired'
  BY <1>8, <1>9
<1>12. TypeOK' /\ Frames' /\ Accounted(S2)'
  BY <1>2, <1>5, <1>6, <1>7, <1>10, <1>11, StepKeeps
<1> QED BY <1>1, <1>12

(* A search takes a marked node out of the list.                           *)
LEMMA FindUnlinkKeeps ==
  ASSUME TypeOK, Frames, NEW S \in SUBSET Nodes, Accounted(S), NEW t \in Threads, FindUnlink(t)
  PROVE  TypeOK' /\ Frames' /\ \E S2 \in SUBSET Nodes : Accounted(S2)' /\ PresentIn(S2)' = PresentIn(S)
<1>1. /\ pc[t] = "unlink"
      /\ UNCHANGED <<key, doomed, owned, call, prev, nxt, was>>
  BY DEF FindUnlink
<1>2. CASE ~InPlace(t)
  <2>1. Goto(t, "head") /\ UNCHANGED <<next, retired, cur, result, unused>>
    BY <1>2 DEF FindUnlink
  <2>2. UNCHANGED <<shared, call, prev, cur, nxt, result, was>>
    BY <1>1, <2>1 DEF shared
  <2>3. TypeOK' /\ Frames' /\ Accounted(S)'
    BY <1>1, <2>1, <2>2, BackKeeps DEF FindLabels
  <2>4. PresentIn(S)' = PresentIn(S)
    BY <1>1, <2>1 DEF PresentIn
  <2> QED BY <2>3, <2>4
<1>3. CASE InPlace(t)
  <2>1. PICK c : c = cur[t]
    OBVIOUS
  <2>2. PICK S2 \in SUBSET Nodes : S2 = S \ {c}
    OBVIOUS
  <2>3. /\ next' = [next EXCEPT ![prev[t]] = Link(nxt[t].to, FALSE)]
        /\ retired' = retired \cup {c} /\ cur' = [cur EXCEPT ![t] = nxt[t].to]
        /\ Look(t, nxt[t].to)
    BY <1>3, <2>1 DEF FindUnlink
  <2>4. key' = key /\ pc[t] \in {"unlink", "remove"}
    BY <1>1
  <2>5. /\ c \in S /\ next[c].mark /\ next[c].to = nxt[t].to
        /\ nxt[t].to \in S2 \cup {NULL}
        /\ prev[t] \in S2 \cup {HEAD} /\ (prev[t] \in S => key[prev[t]] < arg[t])
        /\ PresentIn(S2)' = PresentIn(S)
        /\ next' \in [Nodes \cup {HEAD} -> Links] /\ ~next'[HEAD].mark
        /\ \A n \in S \ {c} : key[n] >= arg[t] => nxt[t].to \in S
    <3>1. next' = [next EXCEPT ![prev[t]] = Link(nxt[t].to, FALSE)]
      BY <2>3
    <3>2. /\ c \in S /\ next[c].mark /\ next[c].to = nxt[t].to
          /\ nxt[t].to \in (S \ {c}) \cup {NULL}
          /\ prev[t] \in (S \ {c}) \cup {HEAD} /\ (prev[t] \in S => key[prev[t]] < arg[t])
          /\ PresentIn(S \ {c})' = PresentIn(S)
          /\ next' \in [Nodes \cup {HEAD} -> Links] /\ ~next'[HEAD].mark
      BY <1>3, <2>1, <2>4, <3>1, TakeOut
    <3>3. \A n \in S \ {c} : key[n] >= arg[t] => nxt[t].to \in S
      BY <1>3, <2>1, <2>4, <3>1, TakeOut
    <3> QED BY <2>2, <3>2, <3>3
  <2>6. /\ cur'[t] = nxt[t].to /\ \A u \in Threads \ {t} : cur'[u] = cur[u]
        /\ cur' \in [Threads -> Nodes \cup {NULL}]
    BY <2>3, <2>5 DEF TypeOK
  <2>7. /\ Frame(t)' /\ Local(t, S2)'
        /\ pc' \in [Threads -> Label] /\ result' \in [Threads -> SUBSET BOOLEAN]
        /\ pc'[t] # "mark"
        /\ \A u \in Threads \ {t} : pc'[u] = pc[u] /\ result'[u] = result[u]
        /\ unused' = unused /\ Hand(t)' = Hand(t)
        /\ pc'[t] = "next" <=> nxt[t].to # NULL
    <3>1. pc[t] \in FindLabels /\ UNCHANGED <<op, value, arg, nxt, owned, was, key>> /\ prev'[t] = prev[t]
      BY <1>1 DEF FindLabels, call
    <3>2. prev'[t] = HEAD \/ (prev'[t] \in S2 \cup retired' /\ key[prev'[t]] < arg[t])
      BY <2>2, <2>5, <3>1
    <3>3. nxt[t].to \in S2 \cup retired' \cup {NULL}
      BY <2>5
    <3> QED BY <2>3, <2>5, <2>6, <3>1, <3>2, <3>3, LookLocal
  <2>8. OthersStay(t)
    BY <1>1, <2>6, <2>7 DEF OthersStay, Same, call
  <2>9. TypeOK'
    <3>1. retired' \subseteq Nodes
      BY <2>3, <2>5 DEF TypeOK
    <3> QED BY <1>1, <2>5, <2>6, <2>7, <2>8, <3>1 DEF TypeOK, call, OthersStay, Same
  <2>10. \A n \in S \ {c} : next[n].mark /\ Clears(t, n) => Clears(t, n)'
    <3> SUFFICES ASSUME NEW n \in S \ {c}, Clears(t, n) PROVE Clears(t, n)'
      OBVIOUS
    <3>1. value[t] = n /\ key[n] = arg[t] /\ op[t] = "removed"
      BY <1>1 DEF Clears
    <3>2. arg[t] \in Nat
      BY Idle, <3>1
    <3>3. pc'[t] = "next"
      BY <2>5, <2>7, <3>1, <3>2, NoNodes
    <3> QED BY <1>1, <3>1, <3>3 DEF Clears, call, FindLabels
  <2>11. TypeOK' /\ Frames' /\ Accounted(S2)'
    BY <1>1, <1>3, <2>1, <2>2, <2>3, <2>4, <2>7, <2>8, <2>9, <2>10, TakeOutKeeps
  <2> QED BY <2>5, <2>11
<1> QED BY <1>2, <1>3

(* A removal takes the node out itself, or leaves that to a search.        *)
LEMMA RemoveUnlinkKeeps ==
  ASSUME TypeOK, Frames, NEW S \in SUBSET Nodes, Accounted(S), NEW t \in Threads, RemoveUnlink(t)
  PROVE  TypeOK' /\ Frames' /\ \E S2 \in SUBSET Nodes : Accounted(S2)' /\ PresentIn(S2)' = PresentIn(S)
<1>1. /\ pc[t] = "remove"
      /\ UNCHANGED <<key, unused, doomed, owned, value, arg, prev, nxt, was>>
  BY DEF RemoveUnlink
<1>2. /\ Frame(t) /\ GuardKept(t, S) /\ ReadKept(t) /\ ValueKept(t) /\ WitnessKept(t, S)
      /\ op[t] = "remove" /\ result[t] = {} /\ cur[t] = value[t] /\ value[t] \in Nodes /\ arg[t] \in Keys
  BY <1>1, Mine DEF Frame, ReadKept, CallLabels
<1>3. CASE ~InPlace(t)
  <2>1. op' = [op EXCEPT ![t] = "removed"] /\ Goto(t, "head") /\ UNCHANGED <<next, retired, cur, result>>
    BY <1>3 DEF RemoveUnlink
  <2>2. /\ pc'[t] = "head" /\ op'[t] = "removed" /\ UNCHANGED shared
        /\ pc' \in [Threads -> Label]
        /\ op' \in [Threads -> {"none", "find", "insert", "remove", "removed"}]
    BY <1>1, <2>1 DEF TypeOK, Label, shared
  <2>3. OthersStay(t)
    BY <1>1, <2>1 DEF OthersStay, Same, TypeOK
  <2>4. TypeOK'
    BY <1>1, <2>1, <2>2, <2>3 DEF TypeOK, shared, OthersStay, Same
  <2>5. Frame(t)'
    BY <1>1, <1>2, <2>1, <2>2 DEF Frame, CallLabels, FindLabels, WalkLabels
  <2>6. PresentIn(S)' = PresentIn(S)
    BY <2>2 DEF PresentIn, shared
  <2>7. Local(t, S)'
    BY <1>1, <1>2, <2>2, <2>6 DEF Local, GuardKept, ReadKept, ValueKept, WitnessKept, PrevLabels, CurLabels
  <2>8. Hand(t)' = Hand(t)
    BY <1>2, <2>2 DEF Hand
  <2>9. \A n \in S : Clears(t, n) => Clears(t, n)'
    BY <1>1, <2>2 DEF Clears, FindLabels
  <2>10. TypeOK' /\ Frames' /\ Accounted(S)'
    BY <1>1, <2>2, <2>3, <2>4, <2>5, <2>7, <2>8, <2>9, QuietKeeps
  <2> QED BY <2>6, <2>10
<1>4. CASE InPlace(t)
  <2>1. PICK c : c = cur[t]
    OBVIOUS
  <2>2. PICK S2 \in SUBSET Nodes : S2 = S \ {c}
    OBVIOUS
  <2>3. /\ next' = [next EXCEPT ![prev[t]] = Link(nxt[t].to, FALSE)]
        /\ retired' = retired \cup {c} /\ cur' = [cur EXCEPT ![t] = NULL]
        /\ Finish(t, TRUE) /\ op' = op
    BY <1>2, <1>4, <2>1 DEF RemoveUnlink
  <2>4. key' = key /\ pc[t] \in {"unlink", "remove"}
    BY <1>1
  <2>5. c \in S /\ next' \in [Nodes \cup {HEAD} -> Links] /\ ~next'[HEAD].mark
        /\ PresentIn(S2)' = PresentIn(S)
    BY <1>4, <2>1, <2>2, <2>3, <2>4, TakeOut
  <2>6. /\ cur'[t] = NULL /\ \A u \in Threads \ {t} : cur'[u] = cur[u]
        /\ cur' \in [Threads -> Nodes \cup {NULL}]
    BY <2>3 DEF TypeOK
  <2>7. /\ pc'[t] = "done" /\ result'[t] # {}
        /\ pc' \in [Threads -> Label] /\ result' \in [Threads -> SUBSET BOOLEAN]
        /\ \A u \in Threads \ {t} : pc'[u] = pc[u] /\ result'[u] = result[u]
    BY <2>3, Finished
  <2>8. OthersStay(t)
    BY <1>1, <2>3, <2>6, <2>7 DEF OthersStay, Same
  <2>9. TypeOK'
    <3>1. retired' \subseteq Nodes
      BY <2>3, <2>5 DEF TypeOK
    <3>2. \A u \in Threads : pc'[u] = "mark" => cur'[u] = value'[u]
      BY <1>1, <2>6, <2>7 DEF TypeOK
    <3> QED BY <1>1, <2>3, <2>5, <2>6, <2>7, <3>1, <3>2 DEF TypeOK
  <2>10. Frame(t)'
    BY <1>1, <1>2, <2>3, <2>7 DEF Frame, CallLabels, FindLabels, WalkLabels
  <2>11. Local(t, S2)'
    BY <1>1, <1>2, <2>3, <2>5, <2>6, <2>7
       DEF Local, GuardKept, ReadKept, ValueKept, WitnessKept, PrevLabels, CurLabels, FindLabels
  <2>12. Hand(t)' = Hand(t)
    BY <1>2, <2>3 DEF Hand
  <2>13. \A n \in S \ {c} : ~Clears(t, n)
    BY <1>2, <2>1 DEF Clears
  <2>14. TypeOK' /\ Frames' /\ Accounted(S2)'
    BY <1>1, <1>4, <2>1, <2>2, <2>3, <2>4, <2>8, <2>9, <2>10, <2>11, <2>12, <2>13, TakeOutKeeps
  <2> QED BY <2>5, <2>14
<1> QED BY <1>3, <1>4

(* The set changes at key k, and those who watch that key see it.          *)
LEMMA ChangeWitness ==
  ASSUME TypeOK, Frames, NEW S \in SUBSET Nodes, Accounted(S), NEW S2, NEW k \in Keys,
         NEW b \in BOOLEAN, was' = Witness(k, b), k \in PresentIn(S2)' <=> b,
         \A j \in Keys : j # k => (j \in PresentIn(S2)' <=> j \in PresentIn(S))
  PROVE  /\ was' \in [Threads -> SUBSET BOOLEAN]
         /\ \A u \in Threads :
              /\ was[u] \subseteq was'[u] /\ (op[u] = "none" => was'[u] = was[u])
              /\ op[u] # "none" => (arg[u] \in PresentIn(S2)') \in was'[u]
<1>1. was' \in [Threads -> SUBSET BOOLEAN]
  <2>1. \A u \in Threads : was[u] \cup {b} \in SUBSET BOOLEAN /\ was[u] \in SUBSET BOOLEAN
    BY DEF TypeOK
  <2> QED BY <2>1 DEF Witness
<1> SUFFICES ASSUME NEW u \in Threads
             PROVE  /\ was[u] \subseteq was'[u] /\ (op[u] = "none" => was'[u] = was[u])
                    /\ op[u] # "none" => (arg[u] \in PresentIn(S2)') \in was'[u]
  BY <1>1
<1>2. was'[u] = IF arg[u] = k THEN was[u] \cup {b} ELSE was[u]
  BY DEF Witness
<1>3. was[u] \subseteq was'[u]
  BY <1>2
<1>4. op[u] = "none" => was'[u] = was[u]
  <2>1. op[u] = "none" => arg[u] \notin Keys
    BY Idle DEF Resting
  <2> QED BY <1>2, <2>1
<1>5. ASSUME op[u] # "none" PROVE (arg[u] \in PresentIn(S2)') \in was'[u]
  <2>1. (arg[u] \in PresentIn(S)) \in was[u] /\ arg[u] \in Keys
    BY <1>5, Idle DEF Accounted, Local, WitnessKept
  <2>2. CASE arg[u] = k
    <3>1. (arg[u] \in PresentIn(S2)') = b
      BY <2>2
    <3>2. b \in was'[u]
      BY <1>2, <2>2
    <3> QED BY <3>1, <3>2
  <2>3. CASE arg[u] # k
    <3>1. (arg[u] \in PresentIn(S2)') = (arg[u] \in PresentIn(S))
      BY <2>1, <2>3
    <3> QED BY <1>2, <2>1, <2>3, <3>1
  <2> QED BY <2>2, <2>3
<1> QED BY <1>3, <1>4, <1>5

(* An insertion begins: a node gets its key.                               *)
LEMMA InsertKeeps ==
  ASSUME TypeOK, Frames, NEW S \in SUBSET Nodes, Accounted(S), NEW t \in Threads, Insert(t)
  PROVE  TypeOK' /\ Frames' /\ Accounted(S)' /\ PresentIn(S)' = PresentIn(S)
<1>1. PICK n \in unused, k \in Keys :
        /\ Begin(t, "insert", n, k)
        /\ key' = [key EXCEPT ![n] = k] /\ unused' = unused \ {n}
  BY DEF Insert
<1>2. UNCHANGED <<next, retired, doomed, owned, prev, cur, nxt, result>>
  BY <1>1 DEF Begin
<1>3. List(S, next, key) /\ OnePlace(S) /\ MarksKept(S)
  BY DEF Accounted
<1>4. n \in Nodes /\ n \notin S \cup retired \cup doomed
  BY <1>3 DEF OnePlace, TypeOK
<1>5. key'[n] = k /\ \A m \in Nodes : m # n => key'[m] = key[m]
  BY <1>1, <1>4 DEF TypeOK
<1>6. PresentIn(S)' = PresentIn(S)
  <2>1. \A m \in S : key'[m] = key[m]
    BY <1>4, <1>5
  <2> QED BY <1>2, <2>1 DEF PresentIn
<1>7. /\ Frame(t)' /\ Local(t, S)' /\ OthersStay(t) /\ pc[t] = "idle" /\ op[t] = "none"
      /\ \A u \in Threads \ {t} : was'[u] = was[u]
      /\ pc'[t] = "head" /\ op'[t] = "insert" /\ value'[t] = n /\ result'[t] = {}
      /\ pc' \in [Threads -> Label] /\ op' \in [Threads -> {"none", "find", "insert", "remove", "removed"}]
      /\ value' \in [Threads -> Nodes \cup {NULL}] /\ arg' \in [Threads -> Keys \cup {NoKey}]
      /\ was' \in [Threads -> SUBSET BOOLEAN]
  BY <1>1, <1>4, <1>5, <1>6, BeginLocal
<1>8. TypeOK'
  <2>1. key' \in [Nodes -> Keys \cup {NoKey}]
    BY <1>1 DEF TypeOK
  <2> QED BY <1>1, <1>2, <1>7, <2>1 DEF TypeOK, OthersStay, Same
<1>9. NodesStay(S)
  BY <1>1, <1>2, <1>5 DEF NodesStay, InUse
<1>10. List(S, next, key)'
  <2>1. List(S, next', key')
    BY <1>2, <1>3, <1>4, <1>5, ListSame
  <2> QED BY <2>1 DEF List, IsList
<1>11. MarksKept(S)'
  BY <1>2, <1>3, <1>4, <1>5 DEF MarksKept, TypeOK
<1>12. OnePlace(S)'
  <2>1. Hand(t) = NULL /\ Hand(t)' = n /\ \A u \in Threads \ {t} : Hand(u)' = Hand(u)
    BY <1>7 DEF Hand, OthersStay, Same
  <2> HIDE DEF Hand
  <2>2. \A u \in Threads : Hand(u) # n
    BY <1>3, <1>4, NoNodes DEF OnePlace
  <2>3. \A u \in Threads : Hand(u)' # NULL => Hand(u)' \notin S \cup unused' \cup retired' \cup doomed'
    BY <1>1, <1>2, <1>3, <1>4, <2>1 DEF OnePlace
  <2>4. \A u, v \in Threads : Hand(u)' # NULL /\ Hand(u)' = Hand(v)' => u = v
    BY <1>3, <2>1, <2>2 DEF OnePlace
  <2>5. \A m \in Nodes :
          m \in S \cup unused' \cup retired' \cup doomed' \/ \E u \in Threads : Hand(u)' = m
    <3> SUFFICES ASSUME NEW m \in Nodes, m \notin S \cup unused' \cup retired' \cup doomed', m # n
                 PROVE  \E u \in Threads : Hand(u)' = m
      BY <2>1
    <3>1. PICK u \in Threads : Hand(u) = m
      BY <1>1, <1>2, <1>3 DEF OnePlace
    <3>2. u # t
      BY <2>1, <3>1, NoNodes
    <3> QED BY <2>1, <3>1, <3>2
  <2> QED BY <1>1, <1>2, <1>3, <2>3, <2>4, <2>5 DEF OnePlace
<1>13. AllCleared(S)'
  <2> SUFFICES ASSUME NEW m \in S, next[m].mark PROVE \E u \in Threads : Clears(u, m)'
    BY <1>2 DEF AllCleared
  <2>1. PICK u \in Threads : Clears(u, m)
    BY DEF Accounted, AllCleared
  <2>2. u # t
    BY <1>7, <2>1 DEF Clears, FindLabels
  <2> QED BY <1>7, <1>9, <2>1, <2>2, OtherClears DEF OthersStay
<1>14. PICK U \in SUBSET Threads : U = Threads \ {t}
  OBVIOUS
<1>15. \A u \in Threads \ U : Frame(u)' /\ Local(u, S)'
  BY <1>7, <1>14
<1>16. \A u \in U :
        /\ Same(u) /\ was[u] \subseteq was'[u] /\ (op[u] = "none" => was'[u] = was[u])
        /\ op[u] # "none" => (arg[u] \in PresentIn(S)') \in was'[u]
        /\ \A m \in S \cup retired : Guarded(u, m) => m \in S \cup retired'
  BY <1>2, <1>6, <1>7, <1>14, SameWitness DEF OthersStay
<1> QED BY <1>6, <1>8, <1>9, <1>10, <1>11, <1>12, <1>13, <1>15, <1>16, StepKeeps

(* An insertion puts its node into the list, or starts again.              *)
LEMMA InsertLinkKeeps ==
  ASSUME TypeOK, Frames, NEW S \in SUBSET Nodes, Accounted(S), NEW t \in Threads, InsertLink(t)
  PROVE  /\ TypeOK' /\ Frames'
         /\ \E S2 \in SUBSET Nodes :
              /\ Accounted(S2)'
              /\ IF InPlace(t) THEN \A j : j \in PresentIn(S2)' <=> j \in PresentIn(S) \/ j = arg[t]
                               ELSE PresentIn(S2)' = PresentIn(S)
<1>1. /\ pc[t] = "link" /\ nxt' = [nxt EXCEPT ![t] = Link(value[t], FALSE)]
      /\ UNCHANGED <<key, unused, retired, doomed, call, prev, cur>>
  BY DEF InsertLink
<1>2. PICK v \in Nodes : v = value[t]
  BY <1>1, Mine DEF Frame
<1>3. /\ Frame(t) /\ GuardKept(t, S) /\ ReadKept(t) /\ ValueKept(t) /\ WitnessKept(t, S)
      /\ op[t] = "insert" /\ result[t] = {} /\ arg[t] \in Keys /\ arg[t] \in Nat /\ key[v] = arg[t]
  BY <1>1, <1>2, Mine, Idle DEF Frame, CallLabels, ValueKept
<1>4. List(S, next, key) /\ OnePlace(S) /\ MarksKept(S)
  BY DEF Accounted
<1>5. Hand(t) = v /\ v # NULL /\ v # HEAD
  BY <1>2, <1>3, NoNodes DEF Hand
<1>6. v \notin S \cup unused \cup retired \cup doomed
  BY <1>4, <1>5 DEF OnePlace
<1>7. nxt' \in [Threads -> Links] /\ Link(value[t], FALSE) \in Links /\ Link(cur[t], FALSE) \in Links
  <2>1. Link(value[t], FALSE) \in Links /\ Link(cur[t], FALSE) \in Links
    BY DEF TypeOK, Link, Links
  <2> QED BY <1>1, <2>1 DEF TypeOK
<1>8. Link(v, FALSE).to = v /\ Link(v, FALSE).mark = FALSE
      /\ Link(cur[t], FALSE).to = cur[t] /\ Link(cur[t], FALSE).mark = FALSE
  BY DEF Link
<1>9. \A u \in Threads \ {t} : nxt'[u] = nxt[u]
  BY <1>1 DEF TypeOK
<1>10. PICK U \in SUBSET Threads : U = Threads \ {t}
  OBVIOUS
<1>11. CASE ~InPlace(t)
  <2>1. /\ next' = [next EXCEPT ![v] = Link(cur[t], FALSE)] /\ Goto(t, "head")
        /\ UNCHANGED <<owned, was, result>>
    BY <1>2, <1>11 DEF InsertLink
  <2>2. /\ pc'[t] = "head" /\ pc' \in [Threads -> Label]
        /\ \A n \in Nodes \cup {HEAD} : n # v => next'[n] = next[n]
        /\ next' \in [Nodes \cup {HEAD} -> Links]
    BY <1>7, <2>1 DEF TypeOK, Label
  <2>3. OthersStay(t)
    BY <1>1, <1>9, <2>1 DEF OthersStay, Same, TypeOK, call
  <2>4. TypeOK'
    <3>1. ~next'[HEAD].mark
      BY <1>5, <2>2 DEF TypeOK
    <3> QED BY <1>1, <1>7, <2>1, <2>2, <2>3, <3>1 DEF TypeOK, call, OthersStay, Same
  <2>5. Frame(t)'
    BY <1>1, <1>3, <2>1, <2>2 DEF Frame, CallLabels, FindLabels, WalkLabels, call
  <2>6. \A n \in S \cup retired \cup doomed : next'[n] = next[n]
    BY <1>6, <2>2 DEF TypeOK
  <2>7. PresentIn(S)' = PresentIn(S)
    BY <1>1, <2>6 DEF PresentIn
  <2>8. Local(t, S)'
    BY <1>1, <1>3, <2>1, <2>2, <2>7
       DEF Local, GuardKept, ReadKept, ValueKept, WitnessKept, PrevLabels, CurLabels, FindLabels, call
  <2>9. NodesStay(S)
    BY <1>1, <2>6 DEF NodesStay
  <2>10. List(S, next, key)'
    <3>1. List(S, next', key)
      BY <1>4, <1>5, <1>6, <2>2, ListSame
    <3> QED BY <1>1, <3>1 DEF List, IsList
  <2>11. MarksKept(S)'
    BY <1>1, <1>4, <2>1, <2>6 DEF MarksKept
  <2>12. OnePlace(S)'
    <3>1. \A u \in Threads : Hand(u)' = Hand(u)
      BY <1>1, <2>1 DEF Hand, call
    <3> QED BY <1>1, <1>4, <3>1 DEF OnePlace
  <2>13. AllCleared(S)'
    <3> SUFFICES ASSUME NEW m \in S, next[m].mark PROVE \E u \in Threads : Clears(u, m)'
      BY <2>6 DEF AllCleared
    <3>1. PICK u \in Threads : Clears(u, m)
      BY DEF Accounted, AllCleared
    <3>2. u # t
      BY <1>1, <3>1 DEF Clears, FindLabels
    <3> QED BY <2>3, <2>9, <3>1, <3>2, OtherClears DEF OthersStay
  <2>14. \A u \in Threads \ U : Frame(u)' /\ Local(u, S)'
    BY <1>10, <2>5, <2>8
  <2>15. \A u \in U :
          /\ Same(u) /\ was[u] \subseteq was'[u] /\ (op[u] = "none" => was'[u] = was[u])
          /\ op[u] # "none" => (arg[u] \in PresentIn(S)') \in was'[u]
          /\ \A m \in S \cup retired : Guarded(u, m) => m \in S \cup retired'
    BY <1>1, <1>10, <2>1, <2>3, <2>7, SameWitness DEF OthersStay
  <2>16. TypeOK' /\ Frames' /\ Accounted(S)'
    BY <2>4, <2>9, <2>10, <2>11, <2>12, <2>13, <2>14, <2>15, StepKeeps
  <2> QED BY <1>11, <2>7, <2>16
<1>12. CASE InPlace(t)
  <2>1. PICK S2 \in SUBSET Nodes : S2 = S \cup {v}
    OBVIOUS
  <2>2. PICK a : a = prev[t]
    OBVIOUS
  <2>3. PICK c : c = cur[t]
    OBVIOUS
  <2>4. PICK o \in SUBSET Nodes : o = owned[t] \cup {v}
    BY DEF TypeOK
  <2>5. /\ a \in S \cup {HEAD} /\ next[a].to = c /\ ~next[a].mark
        /\ (a \in S => key[a] < key[v]) /\ c \in S \cup {NULL} /\ (c \in S => key[v] < key[c])
        /\ a # v
    <3>1. c \in S => key[c] \in Nat
      BY SetFacts
    <3> QED BY <1>1, <1>3, <1>5, <1>6, <1>12, <2>2, <2>3, <3>1, PlaceFacts, NoNodes DEF PrevLabels, ReadKept
  <2>6. /\ next' = [next EXCEPT ![v] = Link(c, FALSE), ![a] = Link(v, FALSE)]
        /\ owned' = [owned EXCEPT ![t] = o] /\ was' = Witness(arg[t], TRUE) /\ Finish(t, TRUE)
    BY <1>2, <1>12, <2>2, <2>3, <2>4 DEF InsertLink
  <2>7. /\ next'[v] = Link(c, FALSE) /\ next'[a] = Link(v, FALSE)
        /\ \A n \in Nodes \cup {HEAD} : n # v /\ n # a => next'[n] = next[n]
    BY <2>5, <2>6 DEF TypeOK
  <2>8. next' \in [Nodes \cup {HEAD} -> Links]
    BY <1>2, <1>7, <2>3, <2>6 DEF TypeOK
  <2>9. /\ pc'[t] = "done" /\ result'[t] # {}
        /\ pc' \in [Threads -> Label] /\ result' \in [Threads -> SUBSET BOOLEAN]
        /\ \A u \in Threads \ {t} : pc'[u] = pc[u] /\ result'[u] = result[u]
    BY <2>6, Finished
  <2>10. owned'[t] = o /\ owned' \in [Threads -> SUBSET Nodes]
         /\ \A u \in Threads \ {t} : owned'[u] = owned[u]
    BY <2>6 DEF TypeOK
  <2>11. OthersStay(t)
    BY <1>1, <1>9, <2>9, <2>10 DEF OthersStay, Same, call
  <2>12. next'[v].mark = FALSE /\ next'[a].mark = FALSE /\ next[a].mark = FALSE
         /\ next'[v].to = c /\ next'[a].to = v
    <3>1. next[a] \in Links
      BY <2>5 DEF TypeOK
    <3> QED BY <2>5, <2>7, <3>1 DEF Link, Links
  <2>13. {m \in S2 : ~next'[m].mark} = {m \in S : ~next[m].mark} \cup {v}
    BY <1>6, <2>1, <2>7, <2>12
  <2>14. \A j : j \in PresentIn(S2)' <=> j \in PresentIn(S) \/ j = arg[t]
    BY <1>1, <1>3, <2>13 DEF PresentIn
  <2>15. /\ was' \in [Threads -> SUBSET BOOLEAN]
         /\ \A u \in Threads :
              /\ was[u] \subseteq was'[u] /\ (op[u] = "none" => was'[u] = was[u])
              /\ op[u] # "none" => (arg[u] \in PresentIn(S2)') \in was'[u]
    BY <1>3, <2>6, <2>14, ChangeWitness
  <2>16. TypeOK'
    <3>1. ~next'[HEAD].mark
      BY <1>5, <2>7, <2>12 DEF TypeOK
    <3>2. \A u \in Threads : pc'[u] = "mark" => cur'[u] = value'[u]
      BY <1>1, <2>9 DEF TypeOK, call
    <3> QED BY <1>1, <1>7, <2>8, <2>9, <2>10, <2>15, <3>1, <3>2 DEF TypeOK, call
  <2>17. Frame(t)'
    BY <1>1, <1>3, <2>9 DEF Frame, CallLabels, FindLabels, WalkLabels, call
  <2>18. Local(t, S2)'
    <3>1. GuardKept(t, S2)'
      BY <1>1, <2>1, <2>3, <2>5, <2>9 DEF GuardKept, PrevLabels, CurLabels
    <3>2. ReadKept(t)' /\ ValueKept(t)'
      BY <1>1, <1>3, <2>9 DEF ReadKept, ValueKept, FindLabels, call
    <3>3. WitnessKept(t, S2)'
      BY <1>1, <2>9, <2>15 DEF WitnessKept, call
    <3> QED BY <3>1, <3>2, <3>3 DEF Local
  <2>19. \A n \in S \cup retired \cup doomed : next'[n].mark = next[n].mark
    BY <1>6, <2>7, <2>12 DEF TypeOK
  <2>20. NodesStay(S)
    <3>1. \A n \in S \cup retired : next[n].mark => next'[n] = next[n]
      BY <1>6, <2>7, <2>12 DEF TypeOK
    <3> QED BY <1>1, <3>1 DEF NodesStay
  <2>21. List(S2, next, key)'
    <3>1. PICK new : new = next'
      OBVIOUS
    <3>2. \A x \in S \cup {HEAD} : x # a => new[x].to = next[x].to
      BY <1>5, <1>6, <2>7, <3>1
    <3>3. List(S \cup {v}, new, key)
      BY <1>3, <1>4, <1>6, <2>5, <2>12, <3>1, <3>2, ListInsert
    <3> QED BY <1>1, <2>1, <3>1, <3>3 DEF List, IsList
  <2>22. MarksKept(S2)'
    <3>1. /\ \A n \in retired' \cup doomed' : next'[n].mark
          /\ \A n \in retired' : key'[n] \in Keys
      BY <1>1, <1>4, <2>19 DEF MarksKept
    <3>2. \A u \in Threads : \A n \in owned[u] : n \in S2 /\ ~next'[n].mark
      BY <1>4, <2>1, <2>19 DEF MarksKept
    <3>3. \A u \in Threads : v \notin owned[u]
      BY <1>4, <1>6 DEF MarksKept
    <3>4. \A u \in Threads : \A n \in owned'[u] : n \in owned[u] \/ (u = t /\ n = v)
      BY <2>4, <2>10
    <3>5. \A u \in Threads : \A n \in owned'[u] : n \in S2 /\ ~next'[n].mark
      BY <2>1, <2>12, <3>2, <3>4
    <3>6. \A u, w \in Threads : owned'[u] \cap owned'[w] # {} => u = w
      <4> SUFFICES ASSUME NEW u \in Threads, NEW w \in Threads, NEW n \in owned'[u], n \in owned'[w]
                   PROVE  u = w
        OBVIOUS
      <4>1. n \in owned[u] \/ (u = t /\ n = v)
        BY <3>4
      <4>2. n \in owned[w] \/ (w = t /\ n = v)
        BY <3>4
      <4>3. n \in owned[u] /\ n \in owned[w] => u = w
        BY <1>4 DEF MarksKept
      <4> QED BY <3>3, <4>1, <4>2, <4>3
    <3> QED BY <3>1, <3>5, <3>6 DEF MarksKept
  <2>23. OnePlace(S2)'
    <3>1. Hand(t)' = NULL /\ \A u \in Threads \ {t} : Hand(u)' = Hand(u)
      BY <2>9, <2>11 DEF Hand, OthersStay, Same
    <3> HIDE DEF Hand
    <3>2. \A u \in Threads \ {t} : Hand(u) # v
      BY <1>4, <1>5 DEF OnePlace
    <3>3. \A u \in Threads : Hand(u)' # NULL => Hand(u)' \notin S2 \cup unused' \cup retired' \cup doomed'
      BY <1>1, <1>4, <2>1, <3>1, <3>2 DEF OnePlace
    <3>4. \A u, w \in Threads : Hand(u)' # NULL /\ Hand(u)' = Hand(w)' => u = w
      BY <1>4, <3>1 DEF OnePlace
    <3>5. \A m \in Nodes :
            m \in S2 \cup unused' \cup retired' \cup doomed' \/ \E u \in Threads : Hand(u)' = m
      <4> SUFFICES ASSUME NEW m \in Nodes, m \notin S2 \cup unused' \cup retired' \cup doomed'
                   PROVE  \E u \in Threads : Hand(u)' = m
        OBVIOUS
      <4>1. PICK u \in Threads : Hand(u) = m
        BY <1>1, <1>4, <2>1 DEF OnePlace
      <4>2. u # t
        BY <1>5, <2>1, <4>1
      <4> QED BY <3>1, <4>1, <4>2
    <3>6. S2 \cap unused' = {} /\ S2 \cap (retired' \cup doomed') = {}
      BY <1>1, <1>4, <1>6, <2>1 DEF OnePlace
    <3> QED BY <1>1, <1>4, <3>3, <3>4, <3>5, <3>6 DEF OnePlace
  <2>24. AllCleared(S2)'
    <3> SUFFICES ASSUME NEW m \in S2, next'[m].mark PROVE \E u \in Threads : Clears(u, m)'
      BY DEF AllCleared
    <3>1. m \in S /\ next[m].mark
      BY <2>1, <2>12, <2>19
    <3>2. PICK u \in Threads : Clears(u, m)
      BY <3>1 DEF Accounted, AllCleared
    <3>3. u # t
      BY <1>1, <3>2 DEF Clears, FindLabels
    <3> QED BY <2>11, <2>20, <3>1, <3>2, <3>3, OtherClears DEF OthersStay
  <2>25. \A u \in Threads \ U : Frame(u)' /\ Local(u, S2)'
    BY <1>10, <2>17, <2>18
  <2>26. \A u \in U :
          /\ Same(u) /\ was[u] \subseteq was'[u] /\ (op[u] = "none" => was'[u] = was[u])
          /\ op[u] # "none" => (arg[u] \in PresentIn(S2)') \in was'[u]
          /\ \A m \in S \cup retired : Guarded(u, m) => m \in S2 \cup retired'
    BY <1>1, <1>10, <2>1, <2>11, <2>15 DEF OthersStay
  <2>27. TypeOK' /\ Frames' /\ Accounted(S2)'
    BY <2>16, <2>20, <2>21, <2>22, <2>23, <2>24, <2>25, <2>26, StepKeeps
  <2> QED BY <1>12, <2>14, <2>27
<1> QED BY <1>11, <1>12

(* A removal marks its node, or starts again.                              *)
LEMMA RemoveMarkKeeps ==
  ASSUME TypeOK, Frames, NEW S \in SUBSET Nodes, Accounted(S), NEW t \in Threads, RemoveMark(t)
  PROVE  /\ TypeOK' /\ Frames' /\ Accounted(S)'
         /\ IF Stable(t) THEN \A j : j \in PresentIn(S)' <=> j \in PresentIn(S) /\ j # arg[t]
                         ELSE PresentIn(S)' = PresentIn(S)
<1>1. /\ pc[t] = "mark"
      /\ UNCHANGED <<key, unused, retired, doomed, call, prev, cur, nxt, result>>
  BY DEF RemoveMark
<1>2. PICK c : c = cur[t]
  OBVIOUS
<1>3. /\ Frame(t) /\ GuardKept(t, S) /\ ReadKept(t) /\ ValueKept(t) /\ WitnessKept(t, S)
      /\ op[t] = "remove" /\ result[t] = {} /\ arg[t] \in Keys
      /\ c = value[t] /\ c \in owned[t] /\ key[c] = arg[t] /\ nxt[t].mark = FALSE
  <2>1. /\ Frame(t) /\ GuardKept(t, S) /\ ReadKept(t) /\ ValueKept(t) /\ WitnessKept(t, S)
        /\ op[t] = "remove" /\ result[t] = {} /\ arg[t] \in Keys
        /\ c = value[t] /\ c \in owned[t] /\ key[c] = arg[t] /\ ~nxt[t].mark
    BY <1>1, <1>2, Mine DEF Frame, CallLabels, ValueKept, ReadKept
  <2>2. nxt[t].mark \in BOOLEAN
    BY DEF TypeOK, Links
  <2> QED BY <2>1, <2>2
<1>4. List(S, next, key) /\ OnePlace(S) /\ MarksKept(S)
  BY DEF Accounted
<1>5. c \in S /\ c # HEAD /\ c \notin retired \cup doomed
  BY <1>3, <1>4, NoNodes DEF MarksKept, OnePlace
<1>6. CASE ~Stable(t)
  <2>1. Goto(t, "head") /\ UNCHANGED <<shared, call, prev, cur, nxt, result, was>>
    BY <1>1, <1>6 DEF RemoveMark, shared
  <2>2. PresentIn(S)' = PresentIn(S)
    BY <2>1 DEF PresentIn, shared
  <2> QED BY <1>1, <1>6, <2>1, <2>2, BackKeeps
<1>7. CASE Stable(t)
  <2>1. PICK o \in SUBSET Nodes : o = owned[t] \ {c}
    BY DEF TypeOK
  <2>2. /\ next' = [next EXCEPT ![c].mark = TRUE] /\ Goto(t, "remove")
        /\ owned' = [owned EXCEPT ![t] = o] /\ was' = Witness(arg[t], FALSE)
    BY <1>2, <1>3, <1>7, <2>1 DEF RemoveMark
  <2>3. next[c] = nxt[t] /\ next[c] \in Links
    BY <1>2, <1>5, <1>7 DEF Stable, TypeOK
  <2>4. next'[c] = Link(nxt[t].to, TRUE)
    BY <1>5, <2>2, <2>3 DEF Link, Links, TypeOK
  <2>5. /\ \A n \in Nodes \cup {HEAD} : n # c => next'[n] = next[n]
        /\ next' \in [Nodes \cup {HEAD} -> Links]
    BY <1>5, <2>2, <2>3 DEF Links, TypeOK
  <2>6. next'[c].mark = TRUE /\ next'[c].to = next[c].to /\ next[c].mark = FALSE
    BY <1>3, <2>3, <2>4 DEF Link
  <2>7. pc'[t] = "remove" /\ pc' \in [Threads -> Label] /\ \A u \in Threads \ {t} : pc'[u] = pc[u]
    BY <2>2 DEF TypeOK, Label
  <2>8. owned'[t] = o /\ owned' \in [Threads -> SUBSET Nodes]
        /\ \A u \in Threads \ {t} : owned'[u] = owned[u]
    BY <2>2 DEF TypeOK
  <2>9. OthersStay(t)
    BY <1>1, <2>7, <2>8 DEF OthersStay, Same, call
  <2>10. {m \in S : ~next'[m].mark} = {m \in S : ~next[m].mark} \ {c}
    BY <1>5, <2>5, <2>6
  <2>11. \A m \in S : key[m] = key[c] => m = c
    BY <1>4, <1>5, ListOrder
  <2>12. \A j : j \in PresentIn(S)' <=> j \in PresentIn(S) /\ j # arg[t]
    BY <1>1, <1>3, <2>10, <2>11 DEF PresentIn
  <2>13. /\ was' \in [Threads -> SUBSET BOOLEAN]
         /\ \A u \in Threads :
              /\ was[u] \subseteq was'[u] /\ (op[u] = "none" => was'[u] = was[u])
              /\ op[u] # "none" => (arg[u] \in PresentIn(S)') \in was'[u]
    BY <1>3, <2>2, <2>12, ChangeWitness
  <2>14. TypeOK'
    <3>1. ~next'[HEAD].mark
      BY <1>5, <2>5 DEF TypeOK
    <3>2. \A u \in Threads : pc'[u] = "mark" => cur'[u] = value'[u]
      BY <1>1, <2>7 DEF TypeOK, call
    <3> QED BY <1>1, <2>5, <2>7, <2>8, <2>13, <3>1, <3>2 DEF TypeOK, call
  <2>15. Frame(t)'
    BY <1>1, <1>3, <2>7 DEF Frame, CallLabels, FindLabels, WalkLabels, call
  <2>16. Local(t, S)'
    <3>1. GuardKept(t, S)'
      BY <1>1, <1>3, <2>7 DEF GuardKept, PrevLabels, CurLabels, call
    <3>2. ReadKept(t)'
      BY <1>1, <1>2, <1>3, <2>4, <2>7 DEF ReadKept, call
    <3>3. ValueKept(t)'
      BY <1>1, <1>3, <2>7 DEF ValueKept, FindLabels, call
    <3>4. WitnessKept(t, S)'
      BY <1>1, <2>7, <2>13 DEF WitnessKept, call
    <3> QED BY <3>1, <3>2, <3>3, <3>4 DEF Local
  <2>17. NodesStay(S)
    <3>1. \A n \in S \cup retired : next[n].mark => next'[n] = next[n]
      BY <1>4, <2>5, <2>6 DEF TypeOK
    <3> QED BY <1>1, <3>1 DEF NodesStay
  <2>18. List(S, next, key)'
    <3>1. PICK new : new = next'
      OBVIOUS
    <3>2. \A x \in S \cup {HEAD} : new[x].to = next[x].to
      BY <2>5, <2>6, <3>1
    <3>3. List(S, new, key)
      BY <1>4, <3>2, ListSame
    <3> QED BY <1>1, <3>1, <3>3 DEF List, IsList
  <2>19. MarksKept(S)'
    <3>1. /\ \A n \in retired' \cup doomed' : next'[n].mark
          /\ \A n \in retired' : key'[n] \in Keys
      BY <1>1, <1>4, <1>5, <2>5 DEF MarksKept, TypeOK
    <3>2. \A u \in Threads : \A n \in owned'[u] : n \in owned[u] /\ n # c
      <4>1. \A u \in Threads : c \in owned[u] => u = t
        BY <1>3, <1>4 DEF MarksKept
      <4> QED BY <2>1, <2>8, <4>1
    <3>3. \A u \in Threads : \A n \in owned'[u] : n \in S /\ ~next'[n].mark
      BY <1>4, <2>5, <3>2 DEF MarksKept
    <3>4. \A u, w \in Threads : owned'[u] \cap owned'[w] # {} => u = w
      BY <1>4, <3>2 DEF MarksKept
    <3> QED BY <3>1, <3>3, <3>4 DEF MarksKept
  <2>20. OnePlace(S)'
    <3>1. \A u \in Threads : Hand(u)' = Hand(u)
      BY <1>1 DEF Hand, call
    <3> QED BY <1>1, <1>4, <3>1 DEF OnePlace
  <2>21. AllCleared(S)'
    <3> SUFFICES ASSUME NEW m \in S, next'[m].mark PROVE \E u \in Threads : Clears(u, m)'
      BY DEF AllCleared
    <3>1. CASE m = c
      <4>1. Clears(t, c)'
        BY <1>1, <1>3, <2>7 DEF Clears, call
      <4> QED BY <3>1, <4>1
    <3>2. CASE m # c
      <4>1. next[m].mark
        BY <2>5, <3>2
      <4>2. PICK u \in Threads : Clears(u, m)
        BY <4>1 DEF Accounted, AllCleared
      <4>3. u # t
        BY <1>1, <4>2 DEF Clears, FindLabels
      <4> QED BY <2>9, <2>17, <4>2, <4>3, OtherClears DEF OthersStay
    <3> QED BY <3>1, <3>2
  <2>22. PICK U \in SUBSET Threads : U = Threads \ {t}
    OBVIOUS
  <2>23. \A u \in Threads \ U : Frame(u)' /\ Local(u, S)'
    BY <2>15, <2>16, <2>22
  <2>24. \A u \in U :
          /\ Same(u) /\ was[u] \subseteq was'[u] /\ (op[u] = "none" => was'[u] = was[u])
          /\ op[u] # "none" => (arg[u] \in PresentIn(S)') \in was'[u]
          /\ \A m \in S \cup retired : Guarded(u, m) => m \in S \cup retired'
    BY <1>1, <2>9, <2>13, <2>22 DEF OthersStay
  <2>25. TypeOK' /\ Frames' /\ Accounted(S)'
    BY <2>14, <2>17, <2>18, <2>19, <2>20, <2>21, <2>23, <2>24, StepKeeps
  <2> QED BY <1>7, <2>12, <2>25
<1> QED BY <1>6, <1>7

-----------------------------------------------------------------------------
(* The hazard pointers' part.                                              *)

(* A step that leaves the threads and the list alone.                      *)
LEMMA NodesMove ==
  ASSUME TypeOK, Frames, NEW S \in SUBSET Nodes, Accounted(S),
         UNCHANGED <<owned, pc, call, prev, cur, nxt, result, was>>, TypeOK',
         \A n \in Nodes : InUse(n) => key'[n] = key[n],
         \A n \in S \cup retired \cup {HEAD} : next'[n] = next[n],
         retired' \subseteq retired, \A n \in retired \ retired' : ~Hazardous(n),
         \A n \in doomed' : next'[n].mark,
         unused' \cup retired' \cup doomed' = unused \cup retired \cup doomed,
         S \cap unused' = {}, (retired' \cup doomed') \cap unused' = {}, retired' \cap doomed' = {}
  PROVE  TypeOK' /\ Frames' /\ Accounted(S)' /\ PresentIn(S)' = PresentIn(S)
<1>1. List(S, next, key) /\ OnePlace(S) /\ MarksKept(S) /\ S \cap (retired \cup doomed) = {}
  BY DEF Accounted, OnePlace
<1>2. \A n \in S \cup retired : InUse(n) /\ n \in Nodes /\ key[n] \in Keys
  BY SetFacts DEF InUse
<1>3. NodesStay(S)
  BY DEF NodesStay
<1>4. \A n \in S : key'[n] = key[n] /\ next'[n] = next[n]
  BY <1>2
<1>5. List(S, next, key)'
  <2>1. List(S, next', key')
    BY <1>1, <1>4, ListSame
  <2> QED BY <2>1 DEF List, IsList
<1>6. PresentIn(S)' = PresentIn(S)
  BY <1>4 DEF PresentIn
<1>7. MarksKept(S)'
  BY <1>1, <1>2, <1>4 DEF MarksKept
<1>8. OnePlace(S)'
  <2>1. \A u \in Threads : Hand(u)' = Hand(u)
    BY DEF Hand, call
  <2>2. S \cap retired' = {} /\ S \cap doomed' = {}
    BY <1>1 DEF OnePlace
  <2> HIDE DEF Hand
  <2> QED BY <1>1, <2>1, <2>2 DEF OnePlace
<1>9. AllCleared(S)'
  <2> SUFFICES ASSUME NEW m \in S, next[m].mark PROVE \E u \in Threads : Clears(u, m)'
    BY <1>4 DEF AllCleared
  <2>1. PICK u \in Threads : Clears(u, m)
    BY DEF Accounted, AllCleared
  <2>2. Same(u)
    BY DEF Same, call
  <2> QED BY <1>3, <2>1, <2>2, OtherClears
<1>10. \A u \in Threads :
        /\ Same(u) /\ was[u] \subseteq was'[u] /\ (op[u] = "none" => was'[u] = was[u])
        /\ op[u] # "none" => (arg[u] \in PresentIn(S)') \in was'[u]
        /\ \A m \in S \cup retired : Guarded(u, m) => m \in S \cup retired'
  <2> SUFFICES ASSUME NEW u \in Threads
               PROVE  /\ Same(u) /\ was[u] \subseteq was'[u] /\ (op[u] = "none" => was'[u] = was[u])
                      /\ op[u] # "none" => (arg[u] \in PresentIn(S)') \in was'[u]
                      /\ \A m \in S \cup retired : Guarded(u, m) => m \in S \cup retired'
    OBVIOUS
  <2>1. Same(u) /\ was'[u] = was[u]
    BY DEF Same, call
  <2>2. \A m \in S \cup retired : Guarded(u, m) => m \in S \cup retired'
    BY DEF Guarded, Hazardous
  <2> QED BY <1>6, <2>1, <2>2, SameWitness
<1> QED BY <1>3, <1>5, <1>6, <1>7, <1>8, <1>9, <1>10, StepKeeps

(* A scan finds no hazard pointer to a node.                               *)
LEMMA ScanKeeps ==
  ASSUME TypeOK, Frames, NEW S \in SUBSET Nodes, Accounted(S), Scan
  PROVE  TypeOK' /\ Frames' /\ Accounted(S)' /\ PresentIn(S)' = PresentIn(S)
<1>1. PICK n \in retired :
        ~Hazardous(n) /\ retired' = retired \ {n} /\ doomed' = doomed \cup {n}
  BY DEF Scan
<1>2. UNCHANGED <<next, key, unused, owned, pc, call, prev, cur, nxt, result, was>>
  BY DEF Scan
<1>3. OnePlace(S) /\ MarksKept(S)
  BY DEF Accounted
<1>4. TypeOK'
  BY <1>1, <1>2 DEF TypeOK, call
<1>5. \A m \in doomed' : next'[m].mark
  BY <1>1, <1>2, <1>3 DEF MarksKept
<1>6. /\ unused' \cup retired' \cup doomed' = unused \cup retired \cup doomed
      /\ S \cap unused' = {} /\ (retired' \cup doomed') \cap unused' = {} /\ retired' \cap doomed' = {}
  BY <1>1, <1>2, <1>3 DEF OnePlace
<1>7. retired' \subseteq retired /\ \A m \in retired \ retired' : ~Hazardous(m)
  BY <1>1
<1> QED BY <1>2, <1>4, <1>5, <1>6, <1>7, NodesMove

(* A node is freed.                                                        *)
LEMMA FreeKeeps ==
  ASSUME TypeOK, Frames, NEW S \in SUBSET Nodes, Accounted(S), Free
  PROVE  TypeOK' /\ Frames' /\ Accounted(S)' /\ PresentIn(S)' = PresentIn(S)
<1>1. PICK n \in doomed :
        /\ doomed' = doomed \ {n} /\ unused' = unused \cup {n}
        /\ key' = [key EXCEPT ![n] = NoKey] /\ next' = [next EXCEPT ![n] = Nil]
  BY DEF Free
<1>2. UNCHANGED <<retired, owned, pc, call, prev, cur, nxt, result, was>>
  BY DEF Free
<1>3. OnePlace(S) /\ MarksKept(S)
  BY DEF Accounted
<1>4. n \in Nodes /\ n # HEAD /\ n \notin S \cup retired
  BY <1>3, NoNodes DEF OnePlace, TypeOK
<1>5. /\ \A m \in Nodes \cup {HEAD} : m # n => next'[m] = next[m]
      /\ \A m \in Nodes : m # n => key'[m] = key[m]
      /\ next' \in [Nodes \cup {HEAD} -> Links] /\ key' \in [Nodes -> Keys \cup {NoKey}]
  <2>1. Nil \in Links
    BY DEF Nil, Link, Links
  <2> QED BY <1>1, <2>1 DEF TypeOK
<1>6. TypeOK'
  BY <1>1, <1>2, <1>4, <1>5 DEF TypeOK, call
<1>7. \A m \in doomed' : next'[m].mark
  BY <1>1, <1>3, <1>5 DEF MarksKept, TypeOK
<1>8. /\ unused' \cup retired' \cup doomed' = unused \cup retired \cup doomed
      /\ S \cap unused' = {} /\ (retired' \cup doomed') \cap unused' = {} /\ retired' \cap doomed' = {}
  BY <1>1, <1>2, <1>3, <1>4 DEF OnePlace
<1>9. \A m \in Nodes : InUse(m) => key'[m] = key[m]
  BY <1>5 DEF InUse
<1>10. \A m \in S \cup retired \cup {HEAD} : next'[m] = next[m]
  BY <1>4, <1>5 DEF TypeOK
<1> QED BY <1>2, <1>6, <1>7, <1>8, <1>9, <1>10, NodesMove

-----------------------------------------------------------------------------
(* The invariant.                                                          *)

(* The list begins empty, and every node is unused.                        *)
LEMMA SetInit ==
  ASSUME Init
  PROVE  SetInv
<1>1. TypeOK
  <2>1. Nil \in Links /\ ~Nil.mark
    BY DEF Nil, Link, Links
  <2> QED BY <2>1 DEF Init, TypeOK, Label
<1>2. Frames
  BY DEF Init, Frames, Frame, Resting, WalkLabels, CallLabels, FindLabels
<1>3. PICK S \in SUBSET Nodes : S = {}
  OBVIOUS
<1>4. List(S, next, key)
  <2>1. PICK l \in Seq(Nodes \cup {HEAD}) : l = <<HEAD>>
    <3>1. <<HEAD>> \in Seq(Nodes \cup {HEAD})
      OBVIOUS
    <3> QED BY <3>1
  <2>2. Len(l) = 1 /\ l[1] = HEAD
    BY <2>1
  <2>3. next[HEAD].to = NULL
    BY DEF Init, Nil, Link
  <2>4. IsList(l, S, next, key)
    BY <1>3, <2>2, <2>3 DEF IsList
  <2> QED BY <2>4 DEF List
<1>5. \A t \in Threads : Hand(t) = NULL
  BY DEF Init, Hand
<1>6. OnePlace(S)
  BY <1>3, <1>5 DEF OnePlace, Init
<1>7. MarksKept(S) /\ AllCleared(S)
  BY <1>3 DEF Init, MarksKept, AllCleared
<1>8. \A t \in Threads : Local(t, S)
  BY DEF Init, Local, GuardKept, ReadKept, ValueKept, WitnessKept, PrevLabels, CurLabels, FindLabels
<1>9. Accounted(S)
  BY <1>4, <1>6, <1>7, <1>8 DEF Accounted
<1> QED BY <1>1, <1>2, <1>9 DEF SetInv

(* Each step keeps the invariant: one lemma per action, gathered here.     *)
LEMMA SetStep ==
  ASSUME SetInv, [Next]_vars
  PROVE  SetInv'
<1>1. TypeOK /\ Frames
  BY DEF SetInv
<1>2. PICK S \in SUBSET Nodes : Accounted(S)
  BY DEF SetInv
<1> SUFFICES TypeOK' /\ Frames' /\ \E S2 \in SUBSET Nodes : Accounted(S2)'
  BY DEF SetInv
<1>3. CASE UNCHANGED vars
  <2>1. TypeOK'
    BY <1>1, <1>3 DEF vars, shared, call, TypeOK
  <2>2. /\ UNCHANGED <<owned, pc, call, prev, cur, nxt, result, was>>
        /\ UNCHANGED <<next, key, unused, retired, doomed>>
    BY <1>3 DEF vars, shared
  <2>3. OnePlace(S) /\ \A n \in doomed : next[n].mark
    BY <1>2 DEF Accounted, MarksKept
  <2>4. S \cap unused = {} /\ (retired \cup doomed) \cap unused = {} /\ retired \cap doomed = {}
    BY <2>3 DEF OnePlace
  <2> QED BY <1>1, <1>2, <2>1, <2>2, <2>3, <2>4, NodesMove
<1>4. CASE Scan
  BY <1>1, <1>2, <1>4, ScanKeeps
<1>5. CASE Free
  BY <1>1, <1>2, <1>5, FreeKeeps
<1>6. ASSUME NEW t \in Threads, Find(t) \/ Insert(t) \/ Remove(t) \/ Iterate(t) \/ Clean(t) \/ Step(t)
      PROVE  TypeOK' /\ Frames' /\ \E S2 \in SUBSET Nodes : Accounted(S2)'
  <2>1. CASE Find(t)
    BY <1>1, <1>2, <2>1, FindKeeps
  <2>2. CASE Insert(t)
    BY <1>1, <1>2, <2>2, InsertKeeps
  <2>3. CASE Remove(t)
    BY <1>1, <1>2, <2>3, RemoveKeeps
  <2>4. CASE Iterate(t) \/ Walk(t)
    BY <1>1, <1>2, <2>4, WalkKeeps
  <2>5. CASE Clean(t)
    BY <1>1, <1>2, <2>5, CleanKeeps
  <2>6. CASE FindHead(t)
    BY <1>1, <1>2, <2>6, FindHeadKeeps
  <2>7. CASE FindHeadCheck(t)
    BY <1>1, <1>2, <2>7, FindHeadCheckKeeps
  <2>8. CASE FindNext(t)
    BY <1>1, <1>2, <2>8, FindNextKeeps
  <2>9. CASE FindNextCheck(t)
    BY <1>1, <1>2, <2>9, FindNextCheckKeeps
  <2>10. CASE FindPrevCheck(t)
    BY <1>1, <1>2, <2>10, FindPrevCheckKeeps
  <2>11. CASE FindUnlink(t)
    BY <1>1, <1>2, <2>11, FindUnlinkKeeps
  <2>12. CASE InsertLink(t)
    BY <1>1, <1>2, <2>12, InsertLinkKeeps
  <2>13. CASE RemoveMark(t)
    BY <1>1, <1>2, <2>13, RemoveMarkKeeps
  <2>14. CASE RemoveUnlink(t)
    BY <1>1, <1>2, <2>14, RemoveUnlinkKeeps
  <2> QED BY <1>6, <2>1, <2>2, <2>3, <2>4, <2>5, <2>6, <2>7, <2>8, <2>9, <2>10, <2>11, <2>12, <2>13, <2>14
          DEF Step, Search, Change
<1> QED BY <1>3, <1>4, <1>5, <1>6 DEF Next

(* The invariant holds of every behaviour of the linked-list set.          *)
THEOREM SetAlways == Spec => []SetInv
<1>1. Init => SetInv
  BY SetInit
<1>2. SetInv /\ [Next]_vars => SetInv'
  BY SetStep
<1> QED BY <1>1, <1>2, PTL DEF Spec

-----------------------------------------------------------------------------
(* What the invariant says.                                                *)

(* In every state in which SetInv holds, the list is in order.             *)
LEMMA InvSorted ==
  ASSUME SetInv
  PROVE  Sorted
BY LinkedIs DEF SetInv, Accounted

(* In every state in which SetInv holds, what a call is about to follow or *)
(* to change has not been freed: it is in the list, or retired.            *)
LEMMA InvNoUseAfterFree ==
  ASSUME SetInv
  PROVE  NoUseAfterFree
<1>1. PICK S \in SUBSET Nodes : Accounted(S)
  BY DEF SetInv
<1>2. (S \cup retired) \cap unused = {} /\ NULL \notin unused /\ HEAD \notin unused
  BY <1>1, NoNodes DEF SetInv, TypeOK, Accounted, OnePlace
<1> SUFFICES ASSUME NEW t \in Threads, op[t] # "none" PROVE Follows(t) \cap unused = {}
  BY DEF NoUseAfterFree
<1>3. GuardKept(t, S) /\ pc[t] \in Label
  BY <1>1, Mine DEF SetInv, TypeOK
<1>4. CASE pc[t] \in {"next", "next_check", "mark", "done"}
  BY <1>2, <1>3, <1>4 DEF Follows, GuardKept, CurLabels
<1>5. CASE pc[t] \in {"prev_check", "unlink", "link", "remove"}
  BY <1>2, <1>3, <1>5 DEF Follows, GuardKept, CurLabels, PrevLabels
<1>6. CASE pc[t] \notin {"next", "next_check", "mark", "done", "prev_check", "unlink", "link", "remove"}
  BY <1>6 DEF Follows
<1> QED BY <1>4, <1>5, <1>6

(* In every state in which SetInv holds, each node is in one place, and a  *)
(* marked node that is still in the list has a call that will take it out. *)
LEMMA InvNodesAccounted ==
  ASSUME SetInv
  PROVE  NodesAccounted
<1>1. PICK S \in SUBSET Nodes : Accounted(S)
  BY DEF SetInv
<1>2. Linked = S /\ OnePlace(S) /\ AllCleared(S)
  BY <1>1, LinkedIs DEF Accounted
<1>3. TypeOK /\ Frames
  BY DEF SetInv
<1>4. ASSUME NEW n \in S, next[n].mark
      PROVE  \E t \in Threads : n \in Removing(t) /\ pc[t] \notin {"idle", "done"}
  <2>1. PICK t \in Threads : Clears(t, n)
    BY <1>2, <1>4 DEF AllCleared
  <2>2. value[t] = n /\ op[t] \in {"remove", "removed"} /\ pc[t] \notin {"idle", "done"}
    BY <1>3, <2>1 DEF Clears, Frames, Frame, FindLabels
  <2> QED BY <2>2 DEF Removing
<1>5. RemovedLeave
  BY <1>2, <1>4 DEF RemovedLeave, OnePlace
<1> DEFINE Hands == {value[t] : t \in {u \in Threads : op[u] = "insert" /\ result[u] = {}}}
<1>6. Hands \subseteq Nodes
  BY <1>3 DEF Frames, Frame
<1>7. \A n \in Nodes : n \in unused \cup retired \cup doomed \cup S \cup Hands
  <2> SUFFICES ASSUME NEW n \in Nodes, n \notin S \cup unused \cup retired \cup doomed PROVE n \in Hands
    OBVIOUS
  <2>1. PICK t \in Threads : Hand(t) = n
    BY <1>2 DEF OnePlace
  <2>2. op[t] = "insert" /\ result[t] = {} /\ value[t] = n
    BY <2>1, NoNodes DEF Hand
  <2> QED BY <2>2
<1>8. Nodes = unused \cup retired \cup doomed \cup Linked \cup Hands
  BY <1>2, <1>3, <1>6, <1>7 DEF TypeOK
<1> QED BY <1>3, <1>5, <1>8 DEF NodesAccounted

(* The list is in the order of the keys, each there once                   *)
(* (mono-linked-list-set.c:117).                                           *)
THEOREM SortedAlways == Spec => []Sorted
<1>1. SetInv => Sorted
  BY InvSorted
<1> QED BY <1>1, SetAlways, PTL

(* No call follows the link of a node that has been freed                  *)
(* (mono-linked-list-set.c:103).                                           *)
THEOREM NeverUsedAfterFree == Spec => []NoUseAfterFree
<1>1. SetInv => NoUseAfterFree
  BY InvNoUseAfterFree
<1> QED BY <1>1, SetAlways, PTL

(* A node is in one place, and a removed one leaves the list before it is  *)
(* freed (mono-linked-list-set.c:124).                                     *)
THEOREM NodesAlwaysAccounted == Spec => []NodesAccounted
<1>1. SetInv => NodesAccounted
  BY InvNodesAccounted
<1> QED BY <1>1, SetAlways, PTL

-----------------------------------------------------------------------------
(* The refinement: what a step of the set is to ConcurrentSet.             *)

SetCall == [t \in Threads |-> IF op[t] = "removed" THEN "remove" ELSE op[t]]
SetAnswer ==
  [t \in Threads |-> IF pc[t] = "remove" \/ op[t] = "removed" THEN {TRUE} ELSE result[t]]

(* What of a thread ConcurrentSet sees.                                    *)
Seen(u) == pc'[u] = pc[u] /\ op'[u] = op[u] /\ result'[u] = result[u]

(* The keys of the set are those of the unmarked nodes of the list...      *)
LEMMA LinkedOf == \A S : List(S, next, key) => Present = PresentIn(S)
BY LinkedIs

(* ... and so they are after a step.                                       *)
LEMMA LinkedNext == (\A S : List(S, next, key) => Present = PresentIn(S))'
BY LinkedOf, PTL

(* The set of keys is as it was.                                           *)
LEMMA SameSet ==
  ASSUME NEW S, Accounted(S), NEW S2, Accounted(S2)', PresentIn(S2)' = PresentIn(S)
  PROVE  Present' = Present
<1>1. List(S, next, key) /\ List(S2, next, key)'
  BY DEF Accounted
<1> QED BY <1>1, LinkedOf, LinkedNext

(* A step that ConcurrentSet does not see.                                 *)
LEMMA Stutter ==
  ASSUME TypeOK, NEW t \in Threads, \A u \in Threads \ {t} : Seen(u),
         UNCHANGED <<arg, was>>, Present' = Present, SetCall'[t] = SetCall[t],
         SetAnswer'[t] = SetAnswer[t]
  PROVE  UNCHANGED IsSet!vars
<1>1. SetCall' = SetCall
  BY DEF SetCall, Seen
<1>2. SetAnswer' = SetAnswer
  BY DEF SetAnswer, Seen
<1> QED BY <1>1, <1>2 DEF IsSet!vars, SetCall, SetAnswer

(* The answer of a call.                                                   *)
LEMMA AnswerOf ==
  ASSUME TypeOK, NEW t \in Threads, \A u \in Threads \ {t} : Seen(u), NEW r, SetAnswer'[t] = r
  PROVE  SetAnswer' = [SetAnswer EXCEPT ![t] = r]
BY DEF SetAnswer, Seen

(* The other threads' share of what a call ends with.                      *)
LEMMA FinishSeen ==
  ASSUME TypeOK, NEW t \in Threads, NEW b \in BOOLEAN, Finish(t, b), op' = op
  PROVE  /\ \A u \in Threads \ {t} : Seen(u)
         /\ pc'[t] = "done" /\ result'[t] = {b}
<1>1. PICK r \in SUBSET BOOLEAN : r = {b}
  OBVIOUS
<1>2. pc' = [pc EXCEPT ![t] = "done"] /\ result' = [result EXCEPT ![t] = r]
  BY <1>1 DEF Finish
<1> QED BY <1>1, <1>2 DEF TypeOK, Seen

(* A call that only goes on has answered nothing.                          *)
LEMMA GotoSeen ==
  ASSUME TypeOK, NEW t \in Threads, NEW l, Goto(t, l), result' = result, op' = op
  PROVE  (\A u \in Threads \ {t} : Seen(u)) /\ pc'[t] = l /\ result'[t] = result[t]
BY DEF TypeOK, Seen

(* What a search has found is an answer, or is not seen.                   *)
LEMMA FoundImplements ==
  ASSUME TypeOK, Frames, NEW t \in Threads, pc[t] \in FindLabels, NEW b \in BOOLEAN,
         Found(t, b), b \in was[t], UNCHANGED call, was' = was, Present' = Present
  PROVE  IsSet!Answer(t) \/ UNCHANGED IsSet!vars
<1>1. op[t] # "none" /\ result[t] = {} /\ op' = op /\ arg' = arg
      /\ op[t] \in {"find", "insert", "remove", "removed"}
  BY DEF Frames, Frame, CallLabels, TypeOK, call
<1>2. pc[t] # "remove"
  BY DEF FindLabels
<1>3. SetCall' = SetCall
  BY <1>1 DEF SetCall
<1>4. op[t] # "removed" => SetAnswer[t] = {} /\ SetCall[t] = op[t]
  BY <1>1, <1>2 DEF SetAnswer, SetCall
<1>5. CASE op[t] = "find"
  <2>1. (\A u \in Threads \ {t} : Seen(u)) /\ pc'[t] = "done" /\ result'[t] = {b}
    BY <1>1, <1>5, FinishSeen DEF Found
  <2>2. SetAnswer'[t] = {b}
    BY <1>1, <1>5, <2>1 DEF SetAnswer
  <2>3. SetAnswer' = [SetAnswer EXCEPT ![t] = {b}]
    BY <2>1, <2>2, AnswerOf
  <2> QED BY <1>1, <1>3, <1>4, <1>5, <2>3 DEF IsSet!Answer, SetAnswer, SetCall
<1>6. CASE (op[t] = "insert" /\ b) \/ (op[t] = "remove" /\ ~b)
  <2>1. (\A u \in Threads \ {t} : Seen(u)) /\ pc'[t] = "done" /\ result'[t] = {FALSE}
    BY <1>1, <1>6, FinishSeen DEF Found
  <2>2. SetAnswer'[t] = {FALSE}
    BY <1>1, <1>6, <2>1 DEF SetAnswer
  <2>3. SetAnswer' = [SetAnswer EXCEPT ![t] = {FALSE}]
    BY <2>1, <2>2, AnswerOf
  <2>4. (SetCall[t] = "insert" /\ TRUE \in was[t]) \/ (SetCall[t] = "remove" /\ FALSE \in was[t])
    <3>1. (b => b = TRUE) /\ (~b => b = FALSE)
      OBVIOUS
    <3> QED BY <1>4, <1>6, <3>1
  <2> QED BY <1>1, <1>3, <1>4, <1>6, <2>3, <2>4 DEF IsSet!Answer, SetAnswer, SetCall
<1>7. CASE (op[t] = "insert" /\ ~b) \/ (op[t] = "remove" /\ b)
  <2>1. /\ (\A u \in Threads \ {t} : Seen(u)) /\ pc'[t] \in {"link", "mark"}
        /\ result'[t] = result[t]
    BY <1>1, <1>7, GotoSeen DEF Found
  <2>2. SetAnswer'[t] = SetAnswer[t]
    BY <1>1, <1>2, <2>1 DEF SetAnswer
  <2> QED BY <1>1, <1>3, <2>1, <2>2, Stutter
<1>8. CASE op[t] = "removed"
  <2>1. (\A u \in Threads \ {t} : Seen(u))
    BY <1>1, <1>8, FinishSeen DEF Found
  <2>2. SetAnswer'[t] = SetAnswer[t]
    BY <1>1, <1>8 DEF SetAnswer
  <2> QED BY <1>1, <1>3, <2>1, <2>2, Stutter
<1> QED BY <1>1, <1>5, <1>6, <1>7, <1>8

(* A call that looks at the next node is seen only when its search ends.   *)
LEMMA LookImplements ==
  ASSUME TypeOK, Frames, NEW t \in Threads, pc[t] \in FindLabels, NEW n,
         Look(t, n), n = NULL => FALSE \in was[t], UNCHANGED call, was' = was, Present' = Present
  PROVE  IsSet!Answer(t) \/ UNCHANGED IsSet!vars
<1>1. CASE n = NULL
  BY <1>1, FoundImplements DEF Look
<1>2. CASE n # NULL
  <2>1. Goto(t, "next") /\ result' = result /\ op' = op /\ arg' = arg
    BY <1>2 DEF Look, call
  <2>2. (\A u \in Threads \ {t} : Seen(u)) /\ pc'[t] = "next" /\ result'[t] = result[t]
    BY <2>1, GotoSeen
  <2>3. pc[t] # "remove"
    BY DEF FindLabels
  <2>4. SetCall'[t] = SetCall[t] /\ SetAnswer'[t] = SetAnswer[t]
    BY <2>1, <2>2, <2>3 DEF SetCall, SetAnswer
  <2> QED BY <2>1, <2>2, <2>4, Stutter
<1> QED BY <1>1, <1>2

(* A step of a thread to another label within its call is not seen.        *)
LEMMA GoesOn ==
  ASSUME TypeOK, NEW t \in Threads, NEW l, Goto(t, l), l # "remove", pc[t] # "remove",
         result' = result, UNCHANGED call, was' = was, Present' = Present
  PROVE  UNCHANGED IsSet!vars
<1>1. op' = op /\ arg' = arg
  BY DEF call
<1>2. (\A u \in Threads \ {t} : Seen(u)) /\ pc'[t] = l /\ result'[t] = result[t]
  BY <1>1, GotoSeen
<1>3. SetCall'[t] = SetCall[t] /\ SetAnswer'[t] = SetAnswer[t]
  BY <1>1, <1>2 DEF SetCall, SetAnswer
<1> QED BY <1>1, <1>2, <1>3, Stutter

(* A call begins.                                                          *)
LEMMA BeginImplements ==
  ASSUME TypeOK, Frames, NEW t \in Threads, NEW o \in {"find", "insert", "remove"}, NEW n,
         NEW k \in Keys, Begin(t, o, n, k), Present' = Present
  PROVE  IsSet!Begin(t)
<1>1. PICK w \in SUBSET BOOLEAN : w = {(k \in Present)}
  <2>1. (k \in Present) \in BOOLEAN
    OBVIOUS
  <2> QED BY <2>1
<1>2. /\ pc[t] = "idle" /\ pc' = [pc EXCEPT ![t] = "head"] /\ op' = [op EXCEPT ![t] = o]
      /\ arg' = [arg EXCEPT ![t] = k] /\ was' = [was EXCEPT ![t] = w] /\ result' = result
  BY <1>1 DEF Begin
<1>3. op[t] = "none"
  BY <1>2 DEF Frames, Frame, Resting
<1>4. SetCall[t] = "none" /\ SetCall' = [SetCall EXCEPT ![t] = o]
  BY <1>2, <1>3 DEF SetCall, TypeOK
<1>5. SetAnswer' = SetAnswer
  BY <1>2, <1>3 DEF SetAnswer, TypeOK
<1> QED BY <1>1, <1>2, <1>4, <1>5 DEF IsSet!Begin, SetCall, SetAnswer

(* A call is over.                                                         *)
LEMMA CleanImplements ==
  ASSUME TypeOK, Frames, NEW t \in Threads, Clean(t), Present' = Present
  PROVE  IsSet!End(t) \/ UNCHANGED IsSet!vars
<1>1. /\ pc[t] = "done" /\ pc' = [pc EXCEPT ![t] = "idle"] /\ op' = [op EXCEPT ![t] = "none"]
      /\ arg' = [arg EXCEPT ![t] = NoKey] /\ was' = [was EXCEPT ![t] = {}]
      /\ result' = [result EXCEPT ![t] = {}]
  BY DEF Clean
<1>2. SetCall' = [SetCall EXCEPT ![t] = "none"]
  BY <1>1 DEF SetCall, TypeOK
<1>3. SetAnswer' = [SetAnswer EXCEPT ![t] = {}]
  BY <1>1 DEF SetAnswer, TypeOK
<1>4. CASE op[t] # "none"
  <2>1. result[t] # {}
    BY <1>1, <1>4 DEF Frames, Frame, Resting
  <2>2. SetCall[t] # "none"
    BY <1>4 DEF SetCall
  <2>3. SetAnswer[t] # {}
    BY <2>1 DEF SetAnswer
  <2> QED BY <1>1, <1>2, <1>3, <2>2, <2>3 DEF IsSet!End, SetCall, SetAnswer
<1>5. CASE op[t] = "none"
  <2>1. Resting(t)
    BY <1>5, Idle
  <2>2. arg' = arg /\ was' = was
    BY <1>1, <2>1 DEF Resting, TypeOK
  <2>3. SetCall' = SetCall
    BY <1>2, <1>5 DEF SetCall
  <2>4. SetAnswer' = SetAnswer
    BY <1>1, <1>3, <1>5, <2>1 DEF SetAnswer, Resting
  <2> QED BY <2>2, <2>3, <2>4 DEF IsSet!vars, SetCall, SetAnswer
<1> QED BY <1>4, <1>5

(* What the set's steps change, and what stays.                            *)
LEMMA QuietSet ==
  ASSUME next' = next, key' = key
  PROVE  Present' = Present
BY DEF Present, Linked, Listed

(* A search looks on, or ends.                                             *)
LEMMA SearchImplements ==
  ASSUME TypeOK, Frames, NEW S \in SUBSET Nodes, Accounted(S), NEW t \in Threads, Search(t),
         SetInv'
  PROVE  IsSet!Answer(t) \/ UNCHANGED IsSet!vars
<1>1. GuardKept(t, S) /\ ReadKept(t) /\ WitnessKept(t, S)
  BY Mine
<1>2. List(S, next, key) /\ MarksKept(S)
  BY DEF Accounted
<1>3. pc[t] \in FindLabels /\ pc[t] # "remove"
  BY DEF Search, FindHead, FindHeadCheck, FindNext, FindNextCheck, FindPrevCheck, FindUnlink, FindLabels
<1>4. op[t] # "none" /\ arg[t] \in Nat /\ (arg[t] \in PresentIn(S)) \in was[t]
  BY <1>1, <1>3, Mine, Idle DEF Frame, CallLabels, WitnessKept
<1>5. arg[t] \notin PresentIn(S) => FALSE \in was[t]
  <2>1. arg[t] \notin PresentIn(S) => (arg[t] \in PresentIn(S)) = FALSE
    OBVIOUS
  <2> QED BY <1>4, <2>1
<1>6. CASE FindHead(t)
  <2>1. Goto(t, "head_check") /\ result' = result /\ UNCHANGED call /\ was' = was /\ next' = next /\ key' = key
    BY <1>6 DEF FindHead, shared
  <2> QED BY <1>3, <2>1, QuietSet, GoesOn
<1>7. CASE FindHeadCheck(t)
  <2>1. UNCHANGED call /\ was' = was /\ next' = next /\ key' = key
    BY <1>7 DEF FindHeadCheck
  <2>2. CASE next[HEAD].to = cur[t]
    <3>1. cur[t] = NULL => S = {}
      BY <1>2, <2>2, ListOrder, NoNodes
    <3>2. cur[t] = NULL => FALSE \in was[t]
      BY <1>5, <3>1 DEF PresentIn
    <3>3. Look(t, cur[t])
      BY <1>7, <2>2 DEF FindHeadCheck
    <3> QED BY <1>3, <2>1, <3>2, <3>3, QuietSet, LookImplements
  <2>3. CASE next[HEAD].to # cur[t]
    <3>1. Goto(t, "head") /\ result' = result
      BY <1>7, <2>3 DEF FindHeadCheck
    <3> QED BY <1>3, <2>1, <3>1, QuietSet, GoesOn
  <2> QED BY <2>2, <2>3
<1>8. CASE FindNext(t)
  <2>1. Goto(t, "next_check") /\ result' = result /\ UNCHANGED call /\ was' = was /\ next' = next /\ key' = key
    BY <1>8 DEF FindNext, shared
  <2> QED BY <1>3, <2>1, QuietSet, GoesOn
<1>9. CASE FindNextCheck(t)
  <2>1. result' = result /\ UNCHANGED call /\ was' = was /\ next' = next /\ key' = key
    BY <1>9 DEF FindNextCheck, shared
  <2>2. Goto(t, "prev_check") \/ Goto(t, "next")
    BY <1>9 DEF FindNextCheck
  <2> QED BY <1>3, <2>1, <2>2, QuietSet, GoesOn
<1>10. CASE FindPrevCheck(t)
  <2>1. pc[t] = "prev_check" /\ UNCHANGED call /\ was' = was /\ next' = next /\ key' = key
    BY <1>10 DEF FindPrevCheck
  <2>2. CASE ~InPlace(t) \/ nxt[t].mark
    <3>1. result' = result /\ (Goto(t, "head") \/ Goto(t, "unlink"))
      BY <1>10, <2>2 DEF FindPrevCheck
    <3> QED BY <1>3, <2>1, <3>1, QuietSet, GoesOn
  <2>3. CASE InPlace(t) /\ ~nxt[t].mark /\ Arrived(t)
    <3> DEFINE b == key[cur[t]] = arg[t]
    <3>1. Found(t, b) /\ b \in BOOLEAN
      BY <1>10, <2>3 DEF FindPrevCheck
    <3>2. cur[t] \in S \cup retired
      BY <1>1, <2>1 DEF GuardKept, CurLabels
    <3>3. b => TRUE \in was[t]
      BY <1>1, <2>1, <2>3 DEF WitnessKept
    <3>4. ~b => arg[t] \notin PresentIn(S)
      <4> SUFFICES ASSUME ~b, NEW n \in S, key[n] = arg[t] PROVE FALSE
        BY DEF PresentIn
      <4>1. cur[t] \in S /\ key[cur[t]] <= key[n] /\ key[cur[t]] \in Nat
        BY <1>4, <2>1, <2>3, <3>2, PlaceFacts, SetFacts DEF PrevLabels
      <4> QED BY <1>4, <2>3, <4>1 DEF Arrived
    <3>5. b \in was[t]
      <4> HIDE DEF b
      <4>1. (b => b = TRUE) /\ (~b => b = FALSE)
        BY <3>1
      <4> QED BY <1>5, <3>1, <3>3, <3>4, <4>1
    <3> HIDE DEF b
    <3> QED BY <1>3, <2>1, <3>1, <3>5, QuietSet, FoundImplements
  <2>4. CASE InPlace(t) /\ ~nxt[t].mark /\ ~Arrived(t)
    <3>1. Look(t, nxt[t].to)
      BY <1>10, <2>4 DEF FindPrevCheck
    <3>2. key[cur[t]] < arg[t]
      <4>1. key[cur[t]] \in Nat
        BY <1>1, <2>1, SetFacts DEF GuardKept, CurLabels
      <4> QED BY <1>4, <2>4, <4>1 DEF Arrived
    <3>3. nxt[t].to = NULL => FALSE \in was[t]
      BY <1>1, <2>1, <2>4, <3>2 DEF WitnessKept
    <3> QED BY <1>3, <2>1, <3>1, <3>3, QuietSet, LookImplements
  <2> QED BY <2>2, <2>3, <2>4
<1>11. CASE FindUnlink(t)
  <2>1. pc[t] = "unlink" /\ UNCHANGED call /\ was' = was /\ key' = key
    BY <1>11 DEF FindUnlink
  <2>2. PICK S2 \in SUBSET Nodes : Accounted(S2)' /\ PresentIn(S2)' = PresentIn(S)
    BY <1>11, FindUnlinkKeeps
  <2>3. Present' = Present
    BY <2>2, SameSet
  <2>4. CASE InPlace(t)
    <3>1. PICK c : c = cur[t]
      OBVIOUS
    <3>2. next' = [next EXCEPT ![prev[t]] = Link(nxt[t].to, FALSE)] /\ Look(t, nxt[t].to)
      BY <1>11, <2>4 DEF FindUnlink
    <3>3. next[c].mark /\ \A n \in S \ {c} : key[n] >= arg[t] => nxt[t].to \in S
      BY <2>1, <2>4, <3>1, <3>2, TakeOut
    <3>4. nxt[t].to = NULL => arg[t] \notin PresentIn(S)
      BY <1>4, <3>3, NoNodes DEF PresentIn
    <3> QED BY <1>3, <1>5, <2>1, <2>3, <3>2, <3>4, LookImplements
  <2>5. CASE ~InPlace(t)
    <3>1. Goto(t, "head") /\ result' = result
      BY <1>11, <2>5 DEF FindUnlink
    <3> QED BY <1>3, <2>1, <2>3, <3>1, GoesOn
  <2> QED BY <2>4, <2>5
<1> QED BY <1>6, <1>7, <1>8, <1>9, <1>10, <1>11 DEF Search

(* An insertion takes effect with the CAS of the link to its node.         *)
LEMMA InsertLinkImplements ==
  ASSUME TypeOK, Frames, NEW S \in SUBSET Nodes, Accounted(S), NEW t \in Threads, InsertLink(t)
  PROVE  IsSet!Insert(t) \/ UNCHANGED IsSet!vars
<1>1. pc[t] = "link" /\ UNCHANGED call /\ op' = op /\ arg' = arg
  BY DEF InsertLink, call
<1>2. /\ op[t] = "insert" /\ result[t] = {} /\ arg[t] \in Nat /\ GuardKept(t, S) /\ ReadKept(t)
  BY <1>1, Mine, Idle DEF Frame, CallLabels
<1>3. PICK S2 \in SUBSET Nodes :
        /\ Accounted(S2)'
        /\ IF InPlace(t) THEN \A j : j \in PresentIn(S2)' <=> j \in PresentIn(S) \/ j = arg[t]
                         ELSE PresentIn(S2)' = PresentIn(S)
  BY InsertLinkKeeps
<1>4. CASE ~InPlace(t)
  <2>1. Present' = Present
    BY <1>3, <1>4, SameSet
  <2>2. Goto(t, "head") /\ result' = result /\ was' = was
    BY <1>4 DEF InsertLink
  <2> QED BY <1>1, <2>1, <2>2, GoesOn
<1>5. CASE InPlace(t)
  <2>1. Finish(t, TRUE) /\ was' = Witness(arg[t], TRUE)
    BY <1>5 DEF InsertLink
  <2>2. Present = PresentIn(S) /\ Present' = PresentIn(S2)'
    BY <1>3, LinkedOf, LinkedNext DEF Accounted
  <2>3. Present' = Present \cup {arg[t]}
    BY <1>3, <1>5, <2>2
  <2>4. arg[t] \notin Present
    <3> SUFFICES ASSUME NEW n \in S, key[n] = arg[t] PROVE FALSE
      BY <2>2 DEF PresentIn
    <3>1. cur[t] \in S /\ key[cur[t]] <= key[n] /\ key[cur[t]] \in Nat
      BY <1>1, <1>2, <1>5, PlaceFacts, SetFacts DEF PrevLabels
    <3> QED BY <1>1, <1>2, <3>1, NoNodes DEF ReadKept
  <2>5. (\A u \in Threads \ {t} : Seen(u)) /\ pc'[t] = "done" /\ result'[t] = {TRUE}
    BY <1>1, <2>1, FinishSeen
  <2>6. SetCall' = SetCall /\ SetCall[t] = "insert"
    BY <1>1, <1>2 DEF SetCall
  <2>7. SetAnswer[t] = {} /\ SetAnswer'[t] = {TRUE}
    BY <1>1, <1>2, <2>5 DEF SetAnswer
  <2>8. SetAnswer' = [SetAnswer EXCEPT ![t] = {TRUE}]
    BY <2>5, <2>7, AnswerOf
  <2> QED BY <1>1, <2>1, <2>3, <2>4, <2>6, <2>7, <2>8
          DEF IsSet!Insert, IsSet!Witness, Witness, SetCall, SetAnswer
<1> QED BY <1>4, <1>5

(* A removal takes effect when it marks its node.                          *)
LEMMA RemoveMarkImplements ==
  ASSUME TypeOK, Frames, NEW S \in SUBSET Nodes, Accounted(S), NEW t \in Threads, RemoveMark(t)
  PROVE  IsSet!Remove(t) \/ UNCHANGED IsSet!vars
<1>1. pc[t] = "mark" /\ UNCHANGED call /\ op' = op /\ arg' = arg /\ result' = result
  BY DEF RemoveMark, call
<1>2. /\ op[t] = "remove" /\ result[t] = {} /\ value[t] \in owned[t] /\ key[value[t]] = arg[t]
  BY <1>1, Mine DEF Frame, CallLabels, ValueKept
<1>3. /\ Accounted(S)'
      /\ IF Stable(t) THEN \A j : j \in PresentIn(S)' <=> j \in PresentIn(S) /\ j # arg[t]
                      ELSE PresentIn(S)' = PresentIn(S)
  BY RemoveMarkKeeps
<1>4. CASE ~Stable(t)
  <2>1. Present' = Present
    BY <1>3, <1>4, SameSet
  <2>2. Goto(t, "head") /\ was' = was
    BY <1>4 DEF RemoveMark
  <2> QED BY <1>1, <2>1, <2>2, GoesOn
<1>5. CASE Stable(t)
  <2>1. Goto(t, "remove") /\ was' = Witness(arg[t], FALSE)
    BY <1>5 DEF RemoveMark
  <2>2. Present = PresentIn(S) /\ Present' = PresentIn(S)'
    BY <1>3, LinkedOf, LinkedNext DEF Accounted
  <2>3. Present' = Present \ {arg[t]}
    BY <1>3, <1>5, <2>2
  <2>4. arg[t] \in Present
    <3>1. value[t] \in S /\ ~next[value[t]].mark
      BY <1>2 DEF Accounted, MarksKept
    <3> QED BY <1>2, <2>2, <3>1 DEF PresentIn
  <2>5. (\A u \in Threads \ {t} : Seen(u)) /\ pc'[t] = "remove"
    BY <1>1, <2>1, GotoSeen
  <2>6. SetCall' = SetCall /\ SetCall[t] = "remove"
    BY <1>1, <1>2 DEF SetCall
  <2>7. SetAnswer[t] = {} /\ SetAnswer'[t] = {TRUE}
    BY <1>1, <1>2, <2>5 DEF SetAnswer
  <2>8. SetAnswer' = [SetAnswer EXCEPT ![t] = {TRUE}]
    BY <2>5, <2>7, AnswerOf
  <2> QED BY <1>1, <2>1, <2>3, <2>4, <2>6, <2>7, <2>8
          DEF IsSet!Remove, IsSet!Witness, Witness, SetCall, SetAnswer
<1> QED BY <1>4, <1>5

(* That the node leaves the list is not seen.                              *)
LEMMA RemoveUnlinkImplements ==
  ASSUME TypeOK, Frames, NEW S \in SUBSET Nodes, Accounted(S), NEW t \in Threads, RemoveUnlink(t)
  PROVE  UNCHANGED IsSet!vars
<1>1. pc[t] = "remove" /\ arg' = arg /\ was' = was
  BY DEF RemoveUnlink
<1>2. op[t] = "remove"
  BY <1>1, Mine DEF Frame
<1>3. PICK S2 \in SUBSET Nodes : Accounted(S2)' /\ PresentIn(S2)' = PresentIn(S)
  BY RemoveUnlinkKeeps
<1>4. Present' = Present
  BY <1>3, SameSet
<1>5. SetAnswer[t] = {TRUE} /\ SetCall[t] = "remove"
  BY <1>1, <1>2 DEF SetAnswer, SetCall
<1>6. CASE InPlace(t)
  <2>1. Finish(t, TRUE) /\ op' = op
    BY <1>2, <1>6 DEF RemoveUnlink
  <2>2. (\A u \in Threads \ {t} : Seen(u)) /\ pc'[t] = "done" /\ result'[t] = {TRUE}
    BY <2>1, FinishSeen
  <2>3. SetAnswer'[t] = {TRUE} /\ SetCall'[t] = "remove"
    BY <1>2, <2>1, <2>2 DEF SetAnswer, SetCall
  <2> QED BY <1>1, <1>4, <1>5, <2>2, <2>3, Stutter
<1>7. CASE ~InPlace(t)
  <2>1. op' = [op EXCEPT ![t] = "removed"] /\ Goto(t, "head") /\ result' = result
    BY <1>7 DEF RemoveUnlink
  <2>2. (\A u \in Threads \ {t} : Seen(u)) /\ op'[t] = "removed"
    BY <2>1 DEF Seen, TypeOK
  <2>3. SetAnswer'[t] = {TRUE} /\ SetCall'[t] = "remove"
    BY <2>2 DEF SetAnswer, SetCall
  <2> QED BY <1>1, <1>4, <1>5, <2>2, <2>3, Stutter
<1> QED BY <1>6, <1>7

(* Every step of the set is one of ConcurrentSet, or none.                 *)
LEMMA StepImplements ==
  ASSUME SetInv, [Next]_vars, SetInv'
  PROVE  [IsSet!Next]_(IsSet!vars)
<1>1. TypeOK /\ Frames
  BY DEF SetInv
<1>2. PICK S \in SUBSET Nodes : Accounted(S)
  BY DEF SetInv
<1>3. CASE UNCHANGED vars
  <2>1. Present' = Present
    BY <1>3, QuietSet DEF vars, shared
  <2> QED BY <1>3, <2>1 DEF vars, shared, call, IsSet!vars
<1>4. CASE Scan \/ Free
  <2>1. Accounted(S)' /\ PresentIn(S)' = PresentIn(S)
    BY <1>1, <1>2, <1>4, ScanKeeps, FreeKeeps
  <2>2. Present' = Present
    BY <1>2, <2>1, SameSet
  <2> QED BY <1>4, <2>2 DEF Scan, Free, call, IsSet!vars
<1>5. ASSUME NEW t \in Threads, Find(t) \/ Insert(t) \/ Remove(t) \/ Iterate(t) \/ Clean(t) \/ Step(t)
      PROVE  IsSet!Begin(t) \/ IsSet!Insert(t) \/ IsSet!Remove(t) \/ IsSet!Answer(t) \/ IsSet!End(t)
             \/ UNCHANGED IsSet!vars
  <2>1. CASE Find(t)
    <3>1. PICK k \in Keys : Begin(t, "find", NULL, k)
      BY <2>1 DEF Find
    <3>2. Present' = Present
      BY <2>1, <3>1, QuietSet DEF Find, Begin
    <3> QED BY <1>1, <3>1, <3>2, BeginImplements
  <2>2. CASE Insert(t)
    <3>1. PICK n \in unused, k \in Keys : Begin(t, "insert", n, k)
      BY <2>2 DEF Insert
    <3>2. Accounted(S)' /\ PresentIn(S)' = PresentIn(S)
      BY <1>1, <1>2, <2>2, InsertKeeps
    <3>3. Present' = Present
      BY <1>2, <3>2, SameSet
    <3> QED BY <1>1, <3>1, <3>3, BeginImplements
  <2>3. CASE Remove(t)
    <3>1. PICK n \in owned[t] : Begin(t, "remove", n, key[n])
      BY <2>3 DEF Remove
    <3>2. key[n] \in Keys
      BY <1>1, <1>2, SetFacts DEF Accounted, MarksKept
    <3>3. Present' = Present
      BY <2>3, <3>1, QuietSet DEF Remove, Begin
    <3> QED BY <1>1, <3>1, <3>2, <3>3, BeginImplements
  <2>4. CASE Iterate(t) \/ Walk(t)
    <3>1. /\ UNCHANGED <<shared, call, result, was>>
          /\ pc[t] \in WalkLabels \cup {"idle"}
          /\ \E l \in WalkLabels \cup {"done"} : Goto(t, l)
      BY <2>4 DEF Iterate, Walk, IterateHead, IterateHeadCheck, IterateNext, IterateNextCheck, Visit, WalkLabels
    <3>2. Present' = Present
      BY <3>1, QuietSet DEF shared
    <3>3. PICK l \in WalkLabels \cup {"done"} : Goto(t, l)
      BY <3>1
    <3>4. l # "remove" /\ pc[t] # "remove"
      BY <3>1, <3>3 DEF WalkLabels
    <3> QED BY <1>1, <3>1, <3>2, <3>3, <3>4, GoesOn
  <2>5. CASE Clean(t)
    <3>1. Present' = Present
      BY <2>5, QuietSet DEF Clean, shared
    <3> QED BY <1>1, <2>5, <3>1, CleanImplements
  <2>6. CASE Search(t)
    BY <1>1, <1>2, <2>6, SearchImplements
  <2>7. CASE InsertLink(t)
    BY <1>1, <1>2, <2>7, InsertLinkImplements
  <2>8. CASE RemoveMark(t)
    BY <1>1, <1>2, <2>8, RemoveMarkImplements
  <2>9. CASE RemoveUnlink(t)
    BY <1>1, <1>2, <2>9, RemoveUnlinkImplements
  <2> QED BY <1>5, <2>1, <2>2, <2>3, <2>4, <2>5, <2>6, <2>7, <2>8, <2>9 DEF Step, Change
<1>6. CASE \E t \in Threads :
             Find(t) \/ Insert(t) \/ Remove(t) \/ Iterate(t) \/ Clean(t) \/ Step(t)
  BY <1>5, <1>6 DEF IsSet!Next
<1> QED BY <1>3, <1>4, <1>6 DEF Next

(* The set is empty to begin with.                                         *)
LEMMA InitImplements ==
  ASSUME Init
  PROVE  IsSet!Init
<1>1. PICK S \in SUBSET Nodes : Accounted(S)
  BY SetInit DEF SetInv
<1>2. S = {}
  BY <1>1 DEF Accounted, OnePlace, Init
<1>3. Present = {}
  BY <1>1, <1>2, LinkedOf DEF Accounted, PresentIn
<1> QED BY <1>3 DEF Init, IsSet!Init

(* Insertions, removals and searches are linearizable                      *)
(* (mono-linked-list-set.c:163, :188): they answer what a set would answer *)
(* that does each at one point in time.                                    *)
THEOREM SetIsLinearizable == Spec => Linearizable
<1>1. Init => IsSet!Init
  BY InitImplements
<1>2. SetInv /\ [Next]_vars /\ SetInv' => [IsSet!Next]_(IsSet!vars)
  BY StepImplements
<1> QED BY <1>1, <1>2, SetAlways, PTL DEF Spec, Linearizable, IsSet!Spec

=============================================================================
