---------------------------- MODULE DescAvailProofs ----------------------------
(***************************************************************************)
(* What is proved of DescAvail for every number of threads, batches and    *)
(* descriptors in a batch.                                                 *)
(***************************************************************************)
EXTENDS DescAvail, FiniteSetTheorems, WellFoundedInduction, TLAPS

USE DEF At, Goto, Set, Unchanged

-----------------------------------------------------------------------------
(* The inductive invariant. DescsAccounted is not inductive: a call that   *)
(* has read the link of the first descriptor trusts its CAS to fail when   *)
(* the link has changed, and the CAS compares descriptors only.            *)

(* The descriptors of a stack from the bottom up: c[n] is its top a, and   *)
(* the link of each leads to the one under it.                             *)
Under(c, i) == IF i = 0 THEN NoDesc ELSE c[i]
IsStack(c, n, a, link) ==
  /\ c \in [1 .. n -> Desc]
  /\ \A i, j \in 1 .. n : c[i] = c[j] => i = j
  /\ a = Under(c, n)
  /\ \A i \in 1 .. n : link[c[i]] = Under(c, i - 1)
Stacked(F, a, link) ==
  \E n \in Nat : \E c \in [1 .. n -> Desc] : IsStack(c, n, a, link) /\ F = {c[i] : i \in 1 .. n}

(* A descriptor is live when its batch is published.                       *)
Live(d) ==
  /\ d \in Desc
  /\ d[1] \in mapped
  /\ \A t \in Threads : At(t, "publish") => desc[t][1] # d[1]

(* Thread t has taken its descriptor from the list, or is to put it there. *)
Holds(t) == pc[t] \in {"mark", "push_read", "push"}

(* Hazard pointer 1 guards the thread's descriptor.                        *)
Guards(t) == pc[t] \in {"next", "pop"}

(* Each live descriptor is in one place, F being those in the list.        *)
OnePlace(F) ==
  /\ \A d \in F \cup used \cup retired : Live(d)
  /\ F \cap used = {} /\ F \cap retired = {} /\ used \cap retired = {}
  /\ \A t \in Threads : Holds(t) => Live(desc[t]) /\ desc[t] \notin F \cup used \cup retired
  /\ \A t, u \in Threads : Holds(t) /\ Holds(u) /\ desc[t] = desc[u] => t = u
  /\ \A d \in Desc :
       Live(d) => d \in F \cup used \cup retired \/ \E t \in Threads : Holds(t) /\ desc[t] = d

(* What desc_alloc guards does not come back to the list, so that the link *)
(* it has read is right as long as its descriptor is there.                *)
GuardKept(F) ==
  /\ \A t, u \in Threads :
       Guards(t) /\ pc[u] \in {"push_read", "push"} => desc[u] # desc[t]
  /\ \A t \in Threads : Guards(t) => Live(desc[t])
  /\ \A t \in Threads : At(t, "pop") /\ desc[t] \in F => other[t] = next[desc[t]]

(* A new batch is linked, and its thread's own.                            *)
BatchKept ==
  /\ \A t \in Threads : At(t, "publish") =>
       /\ desc[t][1] \in mapped /\ desc[t] = First(desc[t][1])
       /\ \A d \in Desc : d[1] = desc[t][1] => next[d] = After(d)
  /\ \A t, u \in Threads :
       At(t, "publish") /\ At(u, "publish") /\ desc[t][1] = desc[u][1] => t = u

(* A descriptor that is to be pushed points where its thread believes.     *)
PushKept == \A t \in Threads : At(t, "push") => other[t] = next[desc[t]]

UseKept == \A d \in Desc : in_use[d] <=> d \in used

Accounted(F) ==
  /\ Stacked(F, desc_avail, next)
  /\ OnePlace(F) /\ GuardKept(F) /\ BatchKept /\ PushKept /\ UseKept

AvailInv == TypeOK /\ \E F \in SUBSET Desc : Accounted(F)

(* The descriptors of a batch, and which follows which.                    *)
LEMMA DescFacts ==
  /\ NoDesc \notin Desc
  /\ \A d \in Desc : d = <<d[1], d[2]>> /\ d[1] \in Batches /\ d[2] \in 1 .. NUM_DESC_BATCH
  /\ \A b \in Batches : First(b) \in Desc /\ First(b)[1] = b /\ First(b)[2] = 1
  /\ \A d \in Desc : /\ d[2] = NUM_DESC_BATCH => After(d) = NoDesc
                     /\ d[2] # NUM_DESC_BATCH => After(d) = <<d[1], d[2] + 1>> /\ After(d) \in Desc
<1>1. NUM_DESC_BATCH \in Nat /\ NUM_DESC_BATCH >= 1
  BY BatchIsPositive
<1>2. 1 \in 1 .. NUM_DESC_BATCH
  BY <1>1
<1>3. \A i \in 1 .. NUM_DESC_BATCH : i # NUM_DESC_BATCH => i + 1 \in 1 .. NUM_DESC_BATCH
  BY <1>1
<1>4. \A d \in Desc : d = <<d[1], d[2]>> /\ d[1] \in Batches /\ d[2] \in 1 .. NUM_DESC_BATCH
  BY DEF Desc
<1>5. NoDesc \notin Desc
  BY NullIsNoBatch DEF Desc, NoDesc
<1>6. \A b \in Batches : First(b) \in Desc /\ First(b)[1] = b /\ First(b)[2] = 1
  BY <1>2 DEF Desc, First
<1>7. ASSUME NEW d \in Desc
      PROVE  /\ d[2] = NUM_DESC_BATCH => After(d) = NoDesc
             /\ d[2] # NUM_DESC_BATCH => After(d) = <<d[1], d[2] + 1>> /\ After(d) \in Desc
  <2>1. d[2] # NUM_DESC_BATCH => <<d[1], d[2] + 1>> \in Desc
    BY <1>3, <1>4 DEF Desc
  <2> QED BY <2>1 DEF After
<1> QED BY <1>4, <1>5, <1>6, <1>7

-----------------------------------------------------------------------------
(* The stack.                                                              *)

(* Its members are descriptors; it is empty if the head is NoDesc, and the *)
(* head is a member otherwise.                                             *)
LEMMA StackHead ==
  ASSUME NEW F, NEW a, NEW link, Stacked(F, a, link)
  PROVE  /\ F \subseteq Desc
         /\ a = NoDesc => F = {}
         /\ a # NoDesc => a \in F
         /\ \A d \in F : link[d] \in F \cup {NoDesc}
<1>1. PICK n \in Nat : \E c \in [1 .. n -> Desc] :
               IsStack(c, n, a, link) /\ F = {c[i] : i \in 1 .. n}
  BY DEF Stacked
<1>2. PICK c \in [1 .. n -> Desc] : IsStack(c, n, a, link) /\ F = {c[i] : i \in 1 .. n}
  BY <1>1
<1>3. n # 0 => n \in 1 .. n /\ a = c[n] /\ c[n] \in Desc
  BY <1>2 DEF IsStack, Under
<1>4. n = 0 => F = {} /\ a = NoDesc
  BY <1>2 DEF IsStack, Under
<1>5. ASSUME NEW d \in F PROVE link[d] \in F \cup {NoDesc}
  <2>1. PICK i \in 1 .. n : d = c[i]
    BY <1>2
  <2>2. link[d] = Under(c, i - 1)
    BY <1>2, <2>1 DEF IsStack
  <2>3. i - 1 # 0 => i - 1 \in 1 .. n
    OBVIOUS
  <2> QED BY <1>2, <2>2, <2>3 DEF Under
<1>6. a # NoDesc => a \in F
  BY <1>2, <1>3, <1>4
<1>7. a = NoDesc => F = {}
  BY <1>3, <1>4, DescFacts
<1> QED BY <1>2, <1>5, <1>6, <1>7

(* It does not depend on the links of other descriptors.                   *)
LEMMA StackKept ==
  ASSUME NEW F, NEW a, NEW link, NEW new, Stacked(F, a, link), \A d \in F : new[d] = link[d]
  PROVE  Stacked(F, a, new)
<1>1. PICK n \in Nat : \E c \in [1 .. n -> Desc] :
               IsStack(c, n, a, link) /\ F = {c[i] : i \in 1 .. n}
  BY DEF Stacked
<1>2. PICK c \in [1 .. n -> Desc] : IsStack(c, n, a, link) /\ F = {c[i] : i \in 1 .. n}
  BY <1>1
<1>3. IsStack(c, n, a, new)
  BY <1>2 DEF IsStack
<1> QED BY <1>2, <1>3 DEF Stacked

(* Without its first descriptor it begins where that one points to.        *)
LEMMA StackPopped ==
  ASSUME NEW F, NEW a, NEW link, Stacked(F, a, link), a # NoDesc
  PROVE  Stacked(F \ {a}, link[a], link)
<1>1. PICK n \in Nat : \E c \in [1 .. n -> Desc] :
               IsStack(c, n, a, link) /\ F = {c[i] : i \in 1 .. n}
  BY DEF Stacked
<1>2. PICK c \in [1 .. n -> Desc] : IsStack(c, n, a, link) /\ F = {c[i] : i \in 1 .. n}
  BY <1>1
<1>3. n # 0 /\ a = c[n]
  BY <1>2 DEF IsStack, Under
<1> DEFINE m == n - 1
           e == [i \in 1 .. m |-> c[i]]
<1>4. m \in Nat /\ n \in 1 .. n /\ (\A i \in 1 .. m : i \in 1 .. n /\ i # n /\ i - 1 # m)
      /\ \A i \in 1 .. n : i # n => i \in 1 .. m
  BY <1>3
<1>5. e \in [1 .. m -> Desc] /\ \A i \in 1 .. m : e[i] = c[i]
  BY <1>4
<1>6. \A i \in 1 .. m : Under(e, i - 1) = Under(c, i - 1)
  <2>1. \A i \in 1 .. m : i - 1 = 0 \/ i - 1 \in 1 .. m
    BY <1>4
  <2> QED BY <1>5, <2>1 DEF Under
<1>7. Under(e, m) = Under(c, n - 1)
  <2>1. m = 0 \/ m \in 1 .. m
    BY <1>4
  <2> QED BY <1>5, <2>1 DEF Under
<1>8. link[a] = Under(e, m)
  <2>1. link[c[n]] = Under(c, n - 1)
    BY <1>2, <1>4 DEF IsStack
  <2> HIDE DEF m, e
  <2> QED BY <1>3, <1>7, <2>1
<1>9. IsStack(e, m, link[a], link)
  <2> HIDE DEF m, e
  <2> QED BY <1>2, <1>4, <1>5, <1>6, <1>8 DEF IsStack
<1>10. F \ {a} = {e[i] : i \in 1 .. m}
  <2> HIDE DEF m, e
  <2>1. ASSUME NEW i \in 1 .. m PROVE e[i] \in F \ {a}
    <3>1. i \in 1 .. n /\ n \in 1 .. n /\ i # n /\ e[i] = c[i]
      BY <1>4, <1>5
    <3> QED BY <1>2, <1>3, <3>1 DEF IsStack
  <2>2. ASSUME NEW d \in F \ {a} PROVE \E i \in 1 .. m : d = e[i]
    BY <1>2, <1>3, <1>4, <1>5
  <2> QED BY <2>1, <2>2
<1> QED
  <2> HIDE DEF m, e
  <2> QED BY <1>4, <1>5, <1>9, <1>10 DEF Stacked

(* A new descriptor that points to the head becomes the head.              *)
LEMMA StackPushed ==
  ASSUME NEW F, NEW a, NEW link, Stacked(F, a, link),
         NEW d \in Desc, d \notin F, link[d] = a
  PROVE  Stacked(F \cup {d}, d, link)
<1>1. PICK n \in Nat : \E c \in [1 .. n -> Desc] :
               IsStack(c, n, a, link) /\ F = {c[i] : i \in 1 .. n}
  BY DEF Stacked
<1>2. PICK c \in [1 .. n -> Desc] : IsStack(c, n, a, link) /\ F = {c[i] : i \in 1 .. n}
  BY <1>1
<1> DEFINE m == n + 1
           e == [i \in 1 .. m |-> IF i = m THEN d ELSE c[i]]
<1>3. m \in Nat /\ m # 0 /\ m \in 1 .. m /\ m \notin 1 .. n /\ m - 1 = n
      /\ (\A i \in 1 .. n : i \in 1 .. m /\ i # m /\ i - 1 # m)
      /\ \A i \in 1 .. m : i # m => i \in 1 .. n
  OBVIOUS
<1>4. e \in [1 .. m -> Desc] /\ e[m] = d /\ \A i \in 1 .. n : e[i] = c[i]
  BY <1>3
<1>5. \A i \in 1 .. n : Under(e, i - 1) = Under(c, i - 1)
  <2>1. \A i \in 1 .. n : i - 1 = 0 \/ i - 1 \in 1 .. n
    OBVIOUS
  <2> QED BY <1>4, <2>1 DEF Under
<1>6. Under(e, m - 1) = Under(c, n)
  <2>1. n = 0 \/ n \in 1 .. n
    OBVIOUS
  <2> HIDE DEF m, e
  <2> QED BY <1>3, <1>4, <2>1 DEF Under
<1>7. IsStack(e, m, d, link)
  <2> HIDE DEF m, e
  <2>1. \A i \in 1 .. m : link[e[i]] = Under(e, i - 1)
    BY <1>2, <1>3, <1>4, <1>5, <1>6 DEF IsStack
  <2>2. \A i, j \in 1 .. m : e[i] = e[j] => i = j
    BY <1>2, <1>3, <1>4 DEF IsStack
  <2>3. d = Under(e, m)
    BY <1>3, <1>4 DEF Under
  <2> QED BY <1>4, <2>1, <2>2, <2>3 DEF IsStack
<1>8. F \cup {d} = {e[i] : i \in 1 .. m}
  <2> HIDE DEF m, e
  <2> QED BY <1>2, <1>3, <1>4
<1> QED
  <2> HIDE DEF m, e
  <2> QED BY <1>3, <1>4, <1>7, <1>8 DEF Stacked

(* A linked batch without its first descriptor.                            *)
LEMMA StackFresh ==
  ASSUME NEW b \in Batches, NEW link, \A d \in Desc : d[1] = b => link[d] = After(d)
  PROVE  Stacked({d \in Desc : d[1] = b} \ {First(b)}, link[First(b)], link)
<1> DEFINE N == NUM_DESC_BATCH
           n == N - 1
           c == [i \in 1 .. n |-> <<b, N + 1 - i>>]
           F == {d \in Desc : d[1] = b} \ {First(b)}
<1>1. N \in Nat /\ N >= 1
  BY BatchIsPositive
<1>2. n \in Nat /\ \A i \in 1 .. n : /\ N + 1 - i \in 2 .. N
                                     /\ i - 1 # 0 => i - 1 \in 1 .. n
                                     /\ (N + 1 - i = N <=> i = 1)
                                     /\ N + 1 - i + 1 = N + 1 - (i - 1)
  BY <1>1
<1>3. \A i \in 1 .. n : c[i] = <<b, N + 1 - i>> /\ c[i] \in Desc /\ c[i][1] = b
                        /\ c[i][2] = N + 1 - i /\ c[i][2] # 1
  BY <1>1, <1>2 DEF Desc
<1>4. c \in [1 .. n -> Desc]
  BY <1>3
<1>5. \A i, j \in 1 .. n : c[i] = c[j] => i = j
  BY <1>1, <1>3
<1>6. link[First(b)] = Under(c, n)
  <2>1. link[First(b)] = After(First(b))
    BY DescFacts
  <2>2. CASE N = 1
    BY <1>1, <2>1, <2>2, DescFacts DEF Under
  <2>3. CASE N # 1
    <3>1. n # 0 /\ n \in 1 .. n /\ N + 1 - n = 2
      BY <1>1, <2>3
    <3>2. Under(c, n) = <<b, 2>>
      BY <1>3, <3>1 DEF Under
    <3>3. After(First(b)) = <<b, 1 + 1>>
      BY <2>3, DescFacts
    <3> QED BY <2>1, <3>2, <3>3
  <2> QED BY <2>2, <2>3
<1>7. ASSUME NEW i \in 1 .. n PROVE link[c[i]] = Under(c, i - 1)
  <2>1. link[c[i]] = After(c[i])
    BY <1>3
  <2>2. CASE i = 1
    <3>1. c[i][2] = N
      BY <1>2, <1>3, <2>2
    <3> HIDE DEF c, N
    <3>2. After(c[i]) = NoDesc
      BY <1>3, <3>1, DescFacts DEF N
    <3> QED BY <2>1, <2>2, <3>2 DEF Under
  <2>3. CASE i # 1
    <3>1. i - 1 \in 1 .. n /\ i - 1 # 0
      BY <1>2, <2>3
    <3>2. Under(c, i - 1) = <<b, N + 1 - (i - 1)>>
      BY <1>3, <3>1 DEF Under
    <3>3. After(c[i]) = <<b, N + 1 - i + 1>>
      <4>1. c[i][2] # N /\ c[i][2] = N + 1 - i
        BY <1>2, <1>3, <2>3
      <4> HIDE DEF c, N
      <4> QED BY <1>3, <4>1, DescFacts DEF N
    <3> QED BY <1>2, <2>1, <3>2, <3>3
  <2> QED BY <2>2, <2>3
<1>8. IsStack(c, n, link[First(b)], link)
  BY <1>4, <1>5, <1>6, <1>7 DEF IsStack
<1>9. F = {c[i] : i \in 1 .. n}
  <2>1. ASSUME NEW d \in F PROVE \E i \in 1 .. n : d = c[i]
    <3>1. d \in Desc /\ d[1] = b /\ d[2] \in 1 .. N /\ d = <<b, d[2]>>
      BY DescFacts
    <3>2. d[2] # 1
      BY <3>1 DEF First
    <3>3. N + 1 - d[2] \in 1 .. n /\ N + 1 - (N + 1 - d[2]) = d[2]
      BY <1>1, <3>1, <3>2
    <3> QED BY <1>3, <3>1, <3>3
  <2>2. ASSUME NEW i \in 1 .. n PROVE c[i] \in F
    BY <1>3, DescFacts
  <2> HIDE DEF F, c, n
  <2> QED BY <2>1, <2>2
<1> QED
  <2> HIDE DEF F, c, n
  <2> QED BY <1>2, <1>4, <1>8, <1>9 DEF Stacked, F

-----------------------------------------------------------------------------
(* The steps.                                                              *)

(* A step of thread t leaves the locals of the others alone.               *)
OthersStay(t) ==
  \A u \in Threads : u # t => pc'[u] = pc[u] /\ desc'[u] = desc[u] /\ other'[u] = other[u]

(* Nothing is published or unmapped, so that the same descriptors are live *)
(* before and after a step.                                                *)
LEMMA LiveSame ==
  ASSUME NEW t \in Threads, OthersStay(t), mapped' = mapped,
         ~At(t, "publish"), ~At(t, "publish")'
  PROVE  \A d : Live(d)' <=> Live(d)
BY DEF Live, OthersStay

(* desc_alloc, up to its CAS: the step changes locals only, and a label at *)
(* which desc[t] is guarded is reached with the head of the list.          *)
LEMMA QuietStep ==
  ASSUME TypeOK, NEW F, Accounted(F), NEW t \in Threads,
         AllocBegin(t) \/ Get(t) \/ Check(t) \/ Next1(t)
  PROVE  TypeOK' /\ Accounted(F)'
<1>1. /\ UNCHANGED shared
      /\ pc[t] \in {"idle", "get", "check", "next"}
      /\ pc'[t] \in {"get", "check", "batch", "next", "pop"}
      /\ OthersStay(t)
      /\ desc'[t] \in OrNone(Desc) /\ other'[t] \in OrNone(Desc)
      /\ pc'[t] = "next" => desc_avail = desc[t] /\ desc[t] # NoDesc /\ desc'[t] = desc[t]
      /\ pc'[t] = "pop" => pc[t] = "next" /\ desc'[t] = desc[t] /\ other'[t] = next[desc[t]]
      /\ pc' \in [Threads -> Label] /\ desc' \in [Threads -> OrNone(Desc)]
      /\ other' \in [Threads -> OrNone(Desc)]
  <2>1. CASE AllocBegin(t)
    BY <2>1 DEF AllocBegin, TypeOK, Label, OthersStay
  <2>2. CASE Get(t)
    BY <2>2 DEF Get, TypeOK, Label, OthersStay
  <2>3. CASE Check(t)
    BY <2>3 DEF Check, TypeOK, Label, OthersStay
  <2>4. CASE Next1(t)
    <3>1. desc[t][1] \in mapped /\ desc[t] \in OrNone(Desc)
      BY <2>4 DEF Next1, TypeOK
    <3>2. desc[t] \in Desc
      BY <2>4 DEF Next1, Accounted, GuardKept, Guards, Live
    <3>3. next[desc[t]] \in OrNone(Desc)
      BY <3>2 DEF TypeOK
    <3> QED BY <2>4, <3>3 DEF Next1, TypeOK, Label, OthersStay
  <2> QED BY <2>1, <2>2, <2>3, <2>4
<1>2. /\ desc_avail' = desc_avail /\ next' = next /\ in_use' = in_use
      /\ mapped' = mapped /\ used' = used /\ retired' = retired
  BY <1>1 DEF shared
<1>3. \A d : Live(d)' <=> Live(d)
  BY <1>1, <1>2, LiveSame
<1>4. pc'[t] = "next" => desc'[t] \in F /\ Live(desc'[t])
  BY <1>1, StackHead DEF Accounted, OnePlace
<1>5. TypeOK'
  <2>1. \A u \in Threads :
          ~(pc'[u] \in {"idle", "get", "check", "batch"}) => desc'[u][1] \in mapped
    BY <1>1, <1>2, <1>4 DEF OthersStay, Live, TypeOK
  <2> QED BY <1>1, <1>2, <2>1 DEF TypeOK
<1>6. Stacked(F, desc_avail, next)'
  BY <1>2 DEF Accounted, Stacked, IsStack
<1>7. OnePlace(F)'
  <2>1. \A u \in Threads : Holds(u)' <=> Holds(u)
    BY <1>1 DEF Holds, OthersStay
  <2>2. \A u \in Threads : Holds(u) => desc'[u] = desc[u]
    BY <1>1 DEF Holds, OthersStay
  <2> QED BY <1>2, <1>3, <2>1, <2>2 DEF Accounted, OnePlace
<1>8. GuardKept(F)'
  <2>1. \A u \in Threads : pc'[u] \in {"push_read", "push"}
                             => pc[u] = pc'[u] /\ desc'[u] = desc[u] /\ Holds(u)
    BY <1>1 DEF OthersStay, Holds
  <2>2. \A u \in Threads : pc'[u] \in {"push_read", "push"} => desc'[u] \notin F
    BY <2>1 DEF Accounted, OnePlace
  <2>3. \A u \in Threads : Guards(u)' =>
          \/ Guards(u) /\ desc'[u] = desc[u]
          \/ u = t /\ desc'[u] \in F /\ Live(desc'[u])
    BY <1>1, <1>4 DEF OthersStay, Guards
  <2>4. \A u, v \in Threads :
          Guards(u)' /\ pc'[v] \in {"push_read", "push"} => desc'[v] # desc'[u]
    BY <2>1, <2>2, <2>3 DEF Accounted, GuardKept
  <2>5. \A u \in Threads : pc'[u] = "pop" /\ desc'[u] \in F => other'[u] = next'[desc'[u]]
    BY <1>1, <1>2 DEF OthersStay, Accounted, GuardKept
  <2> QED BY <1>3, <2>3, <2>4, <2>5 DEF Accounted, GuardKept
<1>9. BatchKept'
  BY <1>1, <1>2 DEF Accounted, BatchKept, OthersStay
<1>10. PushKept'
  BY <1>1, <1>2 DEF Accounted, PushKept, OthersStay
<1>11. UseKept'
  BY <1>2 DEF Accounted, UseKept
<1> QED BY <1>5, <1>6, <1>7, <1>8, <1>9, <1>10, <1>11 DEF Accounted

(* The CAS of desc_alloc: the link that was read still is the head's.      *)
LEMMA PopStep ==
  ASSUME TypeOK, NEW F \in SUBSET Desc, Accounted(F), NEW t \in Threads, Pop(t)
  PROVE  TypeOK' /\ \E G \in SUBSET Desc : Accounted(G)'
<1>1. /\ next' = next /\ in_use' = in_use /\ mapped' = mapped
      /\ used' = used /\ retired' = retired
      /\ pc[t] = "pop" /\ OthersStay(t)
      /\ pc' \in [Threads -> Label] /\ desc' \in [Threads -> OrNone(Desc)]
      /\ other' \in [Threads -> OrNone(Desc)]
  BY DEF Pop, TypeOK, OthersStay, Label, OrNone
<1>2. PICK d : d = desc[t]
  OBVIOUS
<1>3. Live(d) /\ d \in Desc /\ d # NoDesc /\ d[1] \in mapped
  BY <1>1, <1>2, DescFacts DEF Accounted, GuardKept, Guards, Live
<1>4. \/ /\ desc_avail = d /\ desc_avail' = other[t]
         /\ pc'[t] = "mark" /\ desc'[t] = d
      \/ desc_avail' = desc_avail /\ pc'[t] = "get"
  BY <1>2 DEF Pop, TypeOK
<1>5. \A e : Live(e)' <=> Live(e)
  <2>1. pc'[t] # "publish" /\ pc[t] # "publish"
    BY <1>1, <1>4
  <2> QED BY <1>1, <2>1, LiveSame
<1>6. TypeOK'
  <2>1. desc_avail' \in OrNone(Desc)
    BY <1>4 DEF TypeOK
  <2> QED BY <1>1, <1>3, <1>4, <2>1 DEF TypeOK, OthersStay
<1>7. BatchKept'
  BY <1>1, <1>4 DEF Accounted, BatchKept, OthersStay
<1>8. PushKept'
  BY <1>1, <1>4 DEF Accounted, PushKept, OthersStay
<1>9. UseKept'
  BY <1>1 DEF Accounted, UseKept
<1>10. CASE desc_avail' = desc_avail /\ pc'[t] = "get"
  <2>1. Stacked(F, desc_avail, next)'
    BY <1>1, <1>10 DEF Accounted, Stacked, IsStack
  <2>2. OnePlace(F)'
    <3>1. \A u \in Threads : Holds(u)' => Holds(u) /\ desc'[u] = desc[u]
      BY <1>1, <1>10 DEF Holds, OthersStay
    <3>2. \A u \in Threads : Holds(u) => Holds(u)' /\ desc'[u] = desc[u]
      BY <1>1, <1>10 DEF Holds, OthersStay
    <3> QED BY <1>1, <1>5, <3>1, <3>2 DEF Accounted, OnePlace
  <2>3. GuardKept(F)'
    BY <1>1, <1>5, <1>10 DEF Accounted, GuardKept, Guards, OthersStay
  <2> QED BY <1>6, <1>7, <1>8, <1>9, <2>1, <2>2, <2>3 DEF Accounted
<1>11. CASE /\ desc_avail = d /\ desc_avail' = other[t]
            /\ pc'[t] = "mark" /\ desc'[t] = d
  <2>1. d \in F
    BY <1>3, <1>11, StackHead DEF Accounted
  <2>2. other[t] = next[d]
    BY <1>1, <1>2, <2>1 DEF Accounted, GuardKept
  <2>3. Stacked(F \ {d}, desc_avail, next)'
    <3>1. Stacked(F \ {d}, next[d], next)
      BY <1>3, <1>11, StackPopped DEF Accounted
    <3>2. desc_avail' = next[d] /\ next' = next
      BY <1>1, <1>11, <2>2
    <3> QED BY <3>1, <3>2 DEF Stacked, IsStack
  <2>4. OnePlace(F \ {d})'
    <3>1. \A u \in Threads : u # t => (Holds(u)' <=> Holds(u)) /\ desc'[u] = desc[u]
      BY <1>1 DEF Holds, OthersStay
    <3>2. \A u \in Threads : Holds(u) => desc[u] # d
      BY <2>1 DEF Accounted, OnePlace
    <3>3. Holds(t)' /\ ~Holds(t)
      BY <1>1, <1>11 DEF Holds
    <3>4. d \notin used \cup retired
      BY <2>1 DEF Accounted, OnePlace
    <3>5. \A u, v \in Threads : Holds(u)' /\ Holds(v)' /\ desc'[u] = desc'[v] => u = v
      BY <1>11, <3>1, <3>2, <3>3 DEF Accounted, OnePlace
    <3>6. ASSUME NEW e \in Desc, Live(e)'
          PROVE  \/ e \in (F \ {d}) \cup used \cup retired
                 \/ \E u \in Threads : Holds(u)' /\ desc'[u] = e
      BY <1>5, <1>11, <3>1, <3>3, <3>6 DEF Accounted, OnePlace
    <3>7. \A u \in Threads : Holds(u)' =>
            Live(desc'[u]) /\ desc'[u] \notin (F \ {d}) \cup used \cup retired
      BY <1>3, <1>11, <3>1, <3>3, <3>4 DEF Accounted, OnePlace
    <3>8. /\ \A e \in (F \ {d}) \cup used \cup retired : Live(e)
          /\ (F \ {d}) \cap used = {} /\ (F \ {d}) \cap retired = {} /\ used \cap retired = {}
      BY DEF Accounted, OnePlace
    <3>9. \A u \in Threads : Live(desc'[u]) <=> Live(desc[u])'
      BY <1>5
    <3> QED BY <1>1, <1>5, <3>5, <3>6, <3>7, <3>8, <3>9 DEF OnePlace
  <2>5. GuardKept(F \ {d})'
    <3>1. \A u \in Threads : Guards(u)' => u # t /\ Guards(u) /\ desc'[u] = desc[u]
      BY <1>1, <1>11 DEF Guards, OthersStay
    <3>2. \A u \in Threads :
            pc'[u] \in {"push_read", "push"} => pc'[u] = pc[u] /\ desc'[u] = desc[u]
      BY <1>1, <1>11 DEF OthersStay
    <3>3. \A u \in Threads : pc'[u] = "pop" =>
            pc[u] = "pop" /\ desc'[u] = desc[u] /\ other'[u] = other[u]
      BY <1>1, <1>11 DEF OthersStay
    <3> QED BY <1>1, <1>5, <3>1, <3>2, <3>3 DEF Accounted, GuardKept
  <2>6. F \ {d} \in SUBSET Desc
    OBVIOUS
  <2> QED BY <1>6, <1>7, <1>8, <1>9, <2>3, <2>4, <2>5, <2>6 DEF Accounted
<1> QED BY <1>4, <1>10, <1>11

(* A new batch: nothing else is linked or live in it.                      *)
LEMMA BatchStep ==
  ASSUME TypeOK, NEW F \in SUBSET Desc, Accounted(F), NEW t \in Threads, Batch(t)
  PROVE  TypeOK' /\ Accounted(F)'
<1>1. PICK b \in Batches \ mapped :
        /\ mapped' = mapped \cup {b}
        /\ next' = [d \in Desc |-> IF d[1] = b THEN After(d) ELSE next[d]]
        /\ desc' = [desc EXCEPT ![t] = First(b)]
  BY DEF Batch
<1>2. /\ desc_avail' = desc_avail /\ in_use' = in_use /\ used' = used /\ retired' = retired
      /\ pc[t] = "batch" /\ pc' = [pc EXCEPT ![t] = "publish"] /\ other' = other
  BY DEF Batch
<1>3. /\ OthersStay(t) /\ pc'[t] = "publish" /\ desc'[t] = First(b)
      /\ First(b) \in Desc /\ First(b)[1] = b
  BY <1>1, <1>2, DescFacts DEF TypeOK, OthersStay
<1>4. \A d \in Desc : next'[d] = IF d[1] = b THEN After(d) ELSE next[d]
  BY <1>1
<1>5. \A d : Live(d) => d \in Desc /\ d[1] # b /\ d[1] \in mapped /\ next'[d] = next[d]
  BY <1>1, <1>4 DEF Live
<1>6. \A d : Live(d)' <=> Live(d)
  BY <1>1, <1>2, <1>3 DEF Live, OthersStay
<1>7. TypeOK'
  <2>1. next' \in [Desc -> OrNone(Desc)]
    BY <1>1, DescFacts DEF TypeOK, OrNone
  <2>2. pc' \in [Threads -> Label] /\ desc' \in [Threads -> OrNone(Desc)]
    BY <1>1, <1>2, <1>3 DEF TypeOK, OrNone, Label
  <2>3. \A u \in Threads :
          ~(pc'[u] \in {"idle", "get", "check", "batch"}) => desc'[u][1] \in mapped'
    BY <1>1, <1>3 DEF TypeOK, OthersStay
  <2> QED BY <1>1, <1>2, <2>1, <2>2, <2>3 DEF TypeOK
<1>8. Stacked(F, desc_avail, next)'
  <2>1. \A d \in F : next'[d] = next[d]
    BY <1>5 DEF Accounted, OnePlace
  <2>2. Stacked(F, desc_avail, next')
    BY <2>1, StackKept DEF Accounted
  <2> QED BY <1>2, <2>2 DEF Stacked, IsStack
<1>9. OnePlace(F)'
  <2>1. \A u \in Threads : (Holds(u)' <=> Holds(u)) /\ (Holds(u) => desc'[u] = desc[u])
    BY <1>2, <1>3 DEF Holds, OthersStay
  <2> QED BY <1>2, <1>6, <2>1 DEF Accounted, OnePlace
<1>10. GuardKept(F)'
  <2>1. \A u \in Threads : Guards(u)' => Guards(u) /\ desc'[u] = desc[u] /\ other'[u] = other[u]
    BY <1>2, <1>3 DEF Guards, OthersStay
  <2>2. \A u \in Threads : pc'[u] \in {"push_read", "push"} => pc'[u] = pc[u] /\ desc'[u] = desc[u]
    BY <1>3 DEF OthersStay
  <2>3. \A u \in Threads : pc'[u] = "pop" => pc[u] = "pop" /\ Guards(u) /\ Guards(u)'
    BY <1>3 DEF OthersStay, Guards
  <2> QED BY <1>5, <1>6, <2>1, <2>2, <2>3 DEF Accounted, GuardKept
<1>11. BatchKept'
  <2>1. ASSUME NEW u \in Threads, pc'[u] = "publish"
        PROVE  /\ desc'[u][1] \in mapped' /\ desc'[u] = First(desc'[u][1])
               /\ \A d \in Desc : d[1] = desc'[u][1] => next'[d] = After(d)
    BY <1>1, <1>3, <1>4, <2>1 DEF Accounted, BatchKept, OthersStay
  <2>2. \A u \in Threads : pc'[u] = "publish" /\ u # t => desc'[u][1] # b
    BY <1>1, <1>3 DEF Accounted, BatchKept, OthersStay
  <2>3. \A u, v \in Threads :
          pc'[u] = "publish" /\ pc'[v] = "publish" /\ desc'[u][1] = desc'[v][1] => u = v
    BY <1>3, <2>2 DEF Accounted, BatchKept, OthersStay
  <2> QED BY <2>1, <2>3 DEF BatchKept
<1>12. PushKept'
  <2>1. \A u \in Threads : pc'[u] = "push" =>
          /\ pc[u] = "push" /\ desc'[u] = desc[u] /\ other'[u] = other[u] /\ Live(desc[u])
    BY <1>2, <1>3 DEF OthersStay, Accounted, OnePlace, Holds
  <2> QED BY <1>5, <2>1 DEF Accounted, PushKept
<1>13. UseKept'
  BY <1>2 DEF Accounted, UseKept
<1> QED BY <1>7, <1>8, <1>9, <1>10, <1>11, <1>12, <1>13 DEF Accounted

(* The batch becomes available, or is unmapped with nothing in it.         *)
LEMMA PublishStep ==
  ASSUME TypeOK, NEW F \in SUBSET Desc, Accounted(F), NEW t \in Threads, Publish(t)
  PROVE  TypeOK' /\ \E G \in SUBSET Desc : Accounted(G)'
<1>1. /\ next' = next /\ in_use' = in_use /\ used' = used /\ retired' = retired
      /\ pc[t] = "publish" /\ other' = other /\ OthersStay(t)
      /\ pc' \in [Threads -> Label] /\ desc' \in [Threads -> OrNone(Desc)]
  BY DEF Publish, TypeOK, OthersStay, Label, OrNone
<1>2. PICK b : b = desc[t][1]
  OBVIOUS
<1>3. /\ b \in mapped /\ b \in Batches /\ desc[t] = First(b)
      /\ \A d \in Desc : d[1] = b => next[d] = After(d)
      /\ First(b) \in Desc /\ First(b)[1] = b
  <2>1. b \in mapped /\ desc[t] = First(b) /\ \A d \in Desc : d[1] = b => next[d] = After(d)
    BY <1>1, <1>2 DEF Accounted, BatchKept
  <2> QED BY <2>1, DescFacts DEF TypeOK
<1>4. \/ /\ desc_avail = NoDesc /\ desc_avail' = next[First(b)]
         /\ pc'[t] = "mark" /\ desc'[t] = First(b) /\ mapped' = mapped
      \/ /\ desc_avail' = desc_avail /\ pc'[t] = "get" /\ mapped' = mapped \ {b}
  BY <1>2, <1>3 DEF Publish, TypeOK
<1>5. \A u \in Threads : pc'[u] = "publish" => u # t /\ pc[u] = "publish" /\ desc'[u] = desc[u]
                                              /\ desc[u][1] # b
  BY <1>1, <1>2, <1>4 DEF OthersStay, Accounted, BatchKept
<1>6. \A d : Live(d) => d[1] # b
  BY <1>1, <1>2 DEF Live
<1>7. \A d : Live(d) => Live(d)'
  BY <1>4, <1>5, <1>6 DEF Live
<1>8. \A u \in Threads : Holds(u) \/ Guards(u) => Live(desc[u])
  BY DEF Accounted, OnePlace, GuardKept
<1>9. used \cup retired \subseteq mapped' \X (1 .. NUM_DESC_BATCH)
  <2>1. \A d \in used \cup retired : d \in mapped \X (1 .. NUM_DESC_BATCH) /\ d[1] # b
    BY <1>6 DEF TypeOK, Accounted, OnePlace
  <2> QED BY <1>4, <2>1
<1>10. TypeOK'
  <2>1. desc_avail' \in OrNone(Desc)
    BY <1>3, <1>4 DEF TypeOK
  <2>2. \A u \in Threads :
          ~(pc'[u] \in {"idle", "get", "check", "batch"}) => desc'[u][1] \in mapped'
    <3>1. ASSUME NEW u \in Threads, u # t, pc[u] \notin {"idle", "get", "check", "batch"}
          PROVE  desc[u][1] \in mapped /\ desc[u][1] # b
      BY <1>1, <1>2, <1>6, <1>8, <3>1 DEF TypeOK, Label, Holds, Guards, Accounted, BatchKept
    <3> QED BY <1>1, <1>3, <1>4, <3>1 DEF OthersStay
  <2> QED BY <1>1, <1>4, <1>9, <2>1, <2>2 DEF TypeOK
<1>11. BatchKept'
  BY <1>1, <1>4, <1>5 DEF Accounted, BatchKept
<1>12. PushKept'
  BY <1>1, <1>4 DEF Accounted, PushKept, OthersStay
<1>13. UseKept'
  BY <1>1 DEF Accounted, UseKept
<1>14. ASSUME NEW G \in SUBSET Desc, \A d \in G \ F : d[1] = b
       PROVE  GuardKept(G)'
  <2>1. \A u \in Threads : Guards(u)' => /\ Guards(u) /\ desc'[u] = desc[u]
                                         /\ pc'[u] = pc[u] /\ other'[u] = other[u]
    BY <1>1, <1>4 DEF Guards, OthersStay
  <2>2. \A u \in Threads : pc'[u] \in {"push_read", "push"} => pc'[u] = pc[u] /\ desc'[u] = desc[u]
    BY <1>1, <1>4 DEF OthersStay
  <2>3. \A u \in Threads : Guards(u)' => (desc[u] \in G => desc[u] \in F)
    BY <1>6, <1>8, <1>14, <2>1
  <2>4. \A u \in Threads : pc'[u] = "pop" => Guards(u)'
    BY DEF Guards
  <2>5. \A u, v \in Threads :
          Guards(u)' /\ pc'[v] \in {"push_read", "push"} => desc'[v] # desc'[u]
    BY <2>1, <2>2 DEF Accounted, GuardKept
  <2>6. \A u \in Threads : Guards(u)' => Live(desc[u])'
    <3>1. \A u \in Threads : Guards(u)' => Live(desc'[u])
      BY <1>8, <2>1
    <3> QED BY <1>7, <3>1
  <2>7. \A u \in Threads : pc'[u] = "pop" /\ desc'[u] \in G => other'[u] = next'[desc'[u]]
    BY <1>1, <2>1, <2>3, <2>4 DEF Accounted, GuardKept
  <2> QED BY <2>5, <2>6, <2>7 DEF GuardKept
<1>15. CASE desc_avail' = desc_avail /\ pc'[t] = "get" /\ mapped' = mapped \ {b}
  <2>1. Stacked(F, desc_avail, next)'
    BY <1>1, <1>15 DEF Accounted, Stacked, IsStack
  <2>2. OnePlace(F)'
    <3>1. \A u \in Threads : (Holds(u)' <=> Holds(u)) /\ (Holds(u) => desc'[u] = desc[u])
      BY <1>1, <1>15 DEF Holds, OthersStay
    <3>2. \A d : Live(d)' => Live(d)
      <4> SUFFICES ASSUME NEW d, Live(d)' PROVE Live(d)
        OBVIOUS
      <4>1. d \in Desc /\ d[1] \in mapped /\ d[1] # b
        BY <1>15 DEF Live
      <4>2. \A u \in Threads : pc[u] = "publish" => desc[u][1] # d[1]
        <5>1. \A u \in Threads : pc[u] = "publish" /\ u # t =>
              desc'[u][1] # d[1] /\ desc'[u] = desc[u]
          BY <1>1 DEF Live, OthersStay
        <5> QED BY <1>2, <4>1, <5>1
      <4> QED BY <4>1, <4>2 DEF Live
    <3>3. \A u \in Threads : Holds(u)' => Live(desc'[u])
      BY <1>8, <3>1
    <3>4. \A u \in Threads : Holds(u)' => Live(desc[u])'
      BY <1>7, <3>3
    <3> QED BY <1>1, <1>7, <3>1, <3>2, <3>4 DEF Accounted, OnePlace
  <2>3. GuardKept(F)'
    BY <1>14
  <2> QED BY <1>10, <1>11, <1>12, <1>13, <2>1, <2>2, <2>3 DEF Accounted
<1>16. CASE /\ desc_avail = NoDesc /\ desc_avail' = next[First(b)]
            /\ pc'[t] = "mark" /\ desc'[t] = First(b) /\ mapped' = mapped
  <2> DEFINE G == {d \in Desc : d[1] = b} \ {First(b)}
  <2>1. F = {}
    BY <1>16, StackHead DEF Accounted
  <2>2. Stacked(G, desc_avail, next)'
    <3>1. Stacked(G, next[First(b)], next)
      BY <1>3, StackFresh
    <3> QED BY <1>1, <1>16, <3>1 DEF Stacked, IsStack
  <2>3. \A d \in Desc : d[1] = b => Live(d)'
    BY <1>3, <1>5, <1>16 DEF Live
  <2>4. \A d : Live(d)' => Live(d) \/ d[1] = b
    <3> SUFFICES ASSUME NEW d, Live(d)', d[1] # b PROVE Live(d)
      OBVIOUS
    <3>1. \A u \in Threads : pc[u] = "publish" => desc[u][1] # d[1]
      <4>1. \A u \in Threads : pc[u] = "publish" /\ u # t =>
              desc'[u][1] # d[1] /\ desc'[u] = desc[u]
        BY <1>1 DEF Live, OthersStay
      <4> QED BY <1>2, <4>1
    <3> QED BY <1>16, <3>1 DEF Live
  <2>5. OnePlace(G)'
    <3>1. \A u \in Threads : u # t => (Holds(u)' <=> Holds(u)) /\ desc'[u] = desc[u]
      BY <1>1 DEF Holds, OthersStay
    <3>2. Holds(t)' /\ ~Holds(t)
      BY <1>1, <1>16 DEF Holds
    <3>3. \A d \in G : d \in Desc /\ d[1] = b
      OBVIOUS
    <3>4. \A d \in used \cup retired : Live(d)' /\ Live(d) /\ d[1] # b
      BY <1>6, <1>7 DEF Accounted, OnePlace
    <3>5. First(b) \notin G
      OBVIOUS
    <3>6. \A u \in Threads : Holds(u) /\ u # t =>
            Live(desc[u]) /\ desc'[u] = desc[u] /\ desc[u][1] # b
      BY <1>6, <1>8, <3>1
    <3>7. \A u \in Threads : Holds(u)' => Live(desc[u])'
      <4>1. \A u \in Threads : Holds(u)' /\ u # t => Live(desc'[u])
        BY <3>1, <3>6
      <4>2. Live(desc[t])'
        BY <1>3, <1>16, <2>3
      <4> QED BY <1>7, <4>1, <4>2
    <3>8. \A u \in Threads : Holds(u)' => desc'[u] \notin G \cup used \cup retired
      BY <1>3, <1>16, <3>1, <3>2, <3>3, <3>4, <3>5, <3>6 DEF Accounted, OnePlace
    <3>9. \A u, v \in Threads : Holds(u)' /\ Holds(v)' /\ desc'[u] = desc'[v] => u = v
      BY <1>3, <1>16, <3>1, <3>2, <3>6 DEF Accounted, OnePlace
    <3>10. ASSUME NEW d \in Desc, Live(d)'
           PROVE  d \in G \cup used \cup retired \/ \E u \in Threads : Holds(u)' /\ desc'[u] = d
      <4>1. CASE d[1] = b
        <5>1. d = First(b) \/ d \in G
          BY <4>1
        <5> QED BY <1>16, <3>2, <5>1
      <4>2. CASE d[1] # b
        <5>1. Live(d)
          BY <2>4, <3>10, <4>2
        <5>2. d \in used \cup retired \/ \E u \in Threads : Holds(u) /\ desc[u] = d
          BY <2>1, <5>1 DEF Accounted, OnePlace
        <5> QED BY <3>1, <3>2, <5>2
      <4> QED BY <4>1, <4>2
    <3>11. G \cap used = {} /\ G \cap retired = {} /\ used \cap retired = {}
      BY <3>3, <3>4 DEF Accounted, OnePlace
    <3> HIDE DEF G
    <3> QED BY <1>1, <2>3, <3>3, <3>4, <3>7, <3>8, <3>9, <3>10, <3>11 DEF OnePlace
  <2>6. GuardKept(G)'
    BY <1>14
  <2>7. G \in SUBSET Desc
    OBVIOUS
  <2> HIDE DEF G
  <2> QED BY <1>10, <1>11, <1>12, <1>13, <2>2, <2>5, <2>6, <2>7 DEF Accounted
<1> QED BY <1>4, <1>15, <1>16

(* Steps that move a descriptor between the heaps, the delayed-free queue  *)
(* and the thread's hands: the list, its links and the batches stay, and   *)
(* the thread guards nothing and has no link.                              *)
LEMMA HandStep ==
  ASSUME TypeOK, NEW F \in SUBSET Desc, Accounted(F), NEW t \in Threads, OthersStay(t),
         pc[t] \notin {"next", "pop", "publish"}, pc'[t] \notin {"next", "pop", "publish", "push"},
         UNCHANGED <<desc_avail, next, mapped>>,
         used' \cup retired' \subseteq Desc, UseKept', OnePlace(F)',
         pc' \in [Threads -> Label], desc' \in [Threads -> OrNone(Desc)],
         other' \in [Threads -> OrNone(Desc)], in_use' \in [Desc -> BOOLEAN],
         pc'[t] \notin {"idle", "get", "check", "batch"} => Live(desc'[t]),
         pc'[t] = "push_read" =>
           \/ desc'[t] = desc[t] /\ pc[t] = "push"
           \/ \A u \in Threads : Guards(u) => desc[u] # desc'[t]
  PROVE  TypeOK' /\ Accounted(F)'
<1>1. /\ desc_avail' = desc_avail /\ next' = next /\ mapped' = mapped
  OBVIOUS
<1>2. \A d : Live(d)' <=> Live(d)
  BY <1>1, LiveSame
<1>3. TypeOK'
  <2>1. \A u \in Threads :
          ~(pc'[u] \in {"idle", "get", "check", "batch"}) => desc'[u][1] \in mapped'
    BY <1>1 DEF TypeOK, OthersStay, Live
  <2>2. \A d \in used' \cup retired' : d \in mapped' \X (1 .. NUM_DESC_BATCH)
    <3>1. \A d \in used' \cup retired' : Live(d)'
      BY DEF OnePlace
    <3>2. \A d \in used' \cup retired' : d \in Desc /\ d[1] \in mapped
      BY <1>2, <3>1 DEF Live
    <3> QED BY <1>1, <3>2, DescFacts
  <2> QED BY <1>1, <2>1, <2>2 DEF TypeOK
<1>4. Stacked(F, desc_avail, next)'
  BY <1>1 DEF Accounted, Stacked, IsStack
<1>5. GuardKept(F)'
  <2>1. \A u \in Threads : Guards(u)' => /\ u # t /\ Guards(u) /\ desc'[u] = desc[u]
                                         /\ pc'[u] = pc[u] /\ other'[u] = other[u]
    BY DEF Guards, OthersStay
  <2>2. \A u \in Threads : pc'[u] \in {"push_read", "push"} =>
          \/ pc[u] \in {"push_read", "push"} /\ desc'[u] = desc[u]
          \/ \A v \in Threads : Guards(v) => desc[v] # desc'[u]
    BY DEF OthersStay
  <2>3. \A u \in Threads : pc'[u] = "pop" => Guards(u)'
    BY DEF Guards
  <2>4. \A u, v \in Threads :
          Guards(u)' /\ pc'[v] \in {"push_read", "push"} => desc'[v] # desc'[u]
    BY <2>1, <2>2 DEF Accounted, GuardKept
  <2>5. \A u \in Threads : Guards(u)' => Live(desc[u])'
    BY <1>2, <2>1 DEF Accounted, GuardKept
  <2>6. \A u \in Threads : pc'[u] = "pop" /\ desc'[u] \in F => other'[u] = next'[desc'[u]]
    BY <1>1, <2>1, <2>3 DEF Accounted, GuardKept
  <2> QED BY <2>4, <2>5, <2>6 DEF GuardKept
<1>6. BatchKept'
  BY <1>1 DEF Accounted, BatchKept, OthersStay
<1>7. PushKept'
  BY <1>1 DEF Accounted, PushKept, OthersStay
<1> QED BY <1>3, <1>4, <1>5, <1>6, <1>7 DEF Accounted

(* The end of desc_alloc: the descriptor is with a heap.                   *)
LEMMA MarkStep ==
  ASSUME TypeOK, NEW F \in SUBSET Desc, Accounted(F), NEW t \in Threads, Mark(t)
  PROVE  TypeOK' /\ Accounted(F)'
<1>1. PICK d : d = desc[t]
  OBVIOUS
<1>2. /\ UNCHANGED <<desc_avail, next, mapped>> /\ retired' = retired /\ other' = other
      /\ pc[t] = "mark" /\ pc'[t] = "idle" /\ OthersStay(t)
      /\ in_use' = [in_use EXCEPT ![d] = TRUE] /\ used' = used \cup {d}
      /\ pc' \in [Threads -> Label] /\ desc' \in [Threads -> OrNone(Desc)]
  BY <1>1 DEF Mark, TypeOK, OthersStay, Label, OrNone
<1>3. Live(d) /\ d \in Desc /\ d \notin F \cup used \cup retired
  BY <1>1, <1>2 DEF Accounted, OnePlace, Holds, Live
<1>4. mapped' = mapped
  BY <1>2
<1>5. \A e : Live(e)' <=> Live(e)
  BY <1>2, <1>4, LiveSame
<1>6. UseKept'
  BY <1>2, <1>3 DEF Accounted, UseKept, TypeOK
<1>7. OnePlace(F)'
  <2>1. \A u \in Threads : Holds(u)' => u # t /\ Holds(u) /\ desc'[u] = desc[u] /\ desc[u] # d
    BY <1>1, <1>2 DEF Holds, OthersStay, Accounted, OnePlace
  <2>2. \A u \in Threads : Holds(u) /\ desc[u] # d => Holds(u)' /\ desc'[u] = desc[u]
    BY <1>1, <1>2 DEF Holds, OthersStay
  <2>3. \A u \in Threads : Holds(u)' => Live(desc[u])'
    BY <1>5, <2>1 DEF Accounted, OnePlace
  <2>4. \A u \in Threads : Holds(u)' => desc'[u] \notin F \cup used' \cup retired'
    BY <1>2, <2>1 DEF Accounted, OnePlace
  <2>5. \A u, v \in Threads : Holds(u)' /\ Holds(v)' /\ desc'[u] = desc'[v] => u = v
    BY <2>1 DEF Accounted, OnePlace
  <2>6. ASSUME NEW e \in Desc, Live(e)'
        PROVE  e \in F \cup used' \cup retired' \/ \E u \in Threads : Holds(u)' /\ desc'[u] = e
    BY <1>2, <1>5, <2>2, <2>6 DEF Accounted, OnePlace
  <2>7. \A e \in F \cup used' \cup retired' : Live(e)'
    BY <1>2, <1>3, <1>5 DEF Accounted, OnePlace
  <2>8. F \cap used' = {} /\ F \cap retired' = {} /\ used' \cap retired' = {}
    BY <1>2, <1>3 DEF Accounted, OnePlace
  <2> QED BY <2>3, <2>4, <2>5, <2>6, <2>7, <2>8 DEF OnePlace
<1>8. used' \cup retired' \subseteq Desc
  BY <1>2, <1>3 DEF Accounted, OnePlace, Live
<1>9. in_use' \in [Desc -> BOOLEAN] /\ other' \in [Threads -> OrNone(Desc)]
  BY <1>2, <1>3 DEF TypeOK
<1> QED BY <1>2, <1>6, <1>7, <1>8, <1>9, HandStep

(* desc_retire: the descriptor waits to be freed.                          *)
LEMMA RetireStep ==
  ASSUME TypeOK, NEW F \in SUBSET Desc, Accounted(F), NEW t \in Threads, Retire(t)
  PROVE  TypeOK' /\ Accounted(F)'
<1>1. PICK d \in used : /\ in_use' = [in_use EXCEPT ![d] = FALSE]
                        /\ used' = used \ {d} /\ retired' = retired \cup {d}
  BY DEF Retire
<1>2. /\ UNCHANGED <<desc_avail, next, mapped>> /\ pc' = pc /\ desc' = desc /\ other' = other
      /\ pc[t] = "idle" /\ pc'[t] = "idle" /\ OthersStay(t) /\ mapped' = mapped
  BY DEF Retire, OthersStay
<1>3. Live(d) /\ d \in Desc /\ d \notin F \cup retired /\ \A u \in Threads : Holds(u) => desc[u] # d
  BY DEF Accounted, OnePlace, Live
<1>4. \A e : Live(e)' <=> Live(e)
  BY <1>2, LiveSame
<1>5. UseKept'
  BY <1>1, <1>3 DEF Accounted, UseKept, TypeOK
<1>6. OnePlace(F)'
  <2>1. used' \cup retired' = used \cup retired
    BY <1>1
  <2>2. \A u \in Threads : (Holds(u)' <=> Holds(u)) /\ desc'[u] = desc[u]
    BY <1>2 DEF Holds
  <2>3. F \cap used' = {} /\ F \cap retired' = {} /\ used' \cap retired' = {}
    BY <1>1, <1>3 DEF Accounted, OnePlace
  <2>4. \A e \in F \cup used' \cup retired' : Live(e)'
    BY <1>4, <2>1 DEF Accounted, OnePlace
  <2>5. \A u \in Threads : Holds(u)' => Live(desc[u])' /\ desc'[u] \notin F \cup used' \cup retired'
    BY <1>2, <1>4, <2>1, <2>2 DEF Accounted, OnePlace
  <2>6. \A e \in Desc : Live(e)' =>
          e \in F \cup used' \cup retired' \/ \E u \in Threads : Holds(u)' /\ desc'[u] = e
    BY <1>4, <2>1, <2>2 DEF Accounted, OnePlace
  <2> QED BY <2>2, <2>3, <2>4, <2>5, <2>6 DEF Accounted, OnePlace
<1>7. used' \cup retired' \subseteq Desc
  BY <1>1 DEF Accounted, OnePlace, Live
<1>8. /\ in_use' \in [Desc -> BOOLEAN] /\ other' \in [Threads -> OrNone(Desc)]
      /\ pc' \in [Threads -> Label] /\ desc' \in [Threads -> OrNone(Desc)]
  BY <1>1, <1>2, <1>3 DEF TypeOK
<1> QED BY <1>2, <1>5, <1>6, <1>7, <1>8, HandStep

(* desc_enqueue_avail begins: nobody guards the descriptor.                *)
LEMMA PushBeginStep ==
  ASSUME TypeOK, NEW F \in SUBSET Desc, Accounted(F), NEW t \in Threads, PushBegin(t)
  PROVE  TypeOK' /\ Accounted(F)'
<1>1. PICK d \in retired : Freeable(d) /\ retired' = retired \ {d} /\ desc' = [desc EXCEPT ![t] = d]
  BY DEF PushBegin
<1>2. Live(d) /\ d \in Desc /\ d \notin F \cup used /\ \A u \in Threads : Holds(u) => desc[u] # d
  BY DEF Accounted, OnePlace, Live
<1>3. /\ UNCHANGED <<desc_avail, next, mapped>> /\ used' = used /\ other' = other
      /\ pc[t] = "idle" /\ pc'[t] = "push_read" /\ OthersStay(t) /\ desc'[t] = d
      /\ pc' \in [Threads -> Label] /\ desc' \in [Threads -> OrNone(Desc)]
      /\ in_use' = in_use /\ mapped' = mapped
  BY <1>1, <1>2 DEF PushBegin, TypeOK, OthersStay, Label, OrNone
<1>4. \A e : Live(e)' <=> Live(e)
  BY <1>3, LiveSame
<1>5. UseKept'
  BY <1>3 DEF Accounted, UseKept
<1>6. OnePlace(F)'
  <2>1. Holds(t)' /\ ~Holds(t)
    BY <1>3 DEF Holds
  <2>2. \A u \in Threads : u # t => (Holds(u)' <=> Holds(u)) /\ desc'[u] = desc[u]
    BY <1>3 DEF Holds, OthersStay
  <2>3. \A u \in Threads : Holds(u)' => Live(desc'[u])
    BY <1>2, <1>3, <2>2 DEF Accounted, OnePlace
  <2>4. \A u \in Threads : Holds(u)' => Live(desc[u])'
    BY <1>4, <2>3
  <2>5. \A u \in Threads : Holds(u)' => desc'[u] \notin F \cup used' \cup retired'
    BY <1>1, <1>2, <1>3, <2>2 DEF Accounted, OnePlace
  <2>6. \A u, v \in Threads : Holds(u)' /\ Holds(v)' /\ desc'[u] = desc'[v] => u = v
    BY <1>2, <1>3, <2>1, <2>2 DEF Accounted, OnePlace
  <2>7. ASSUME NEW e \in Desc, Live(e)'
        PROVE  e \in F \cup used' \cup retired' \/ \E u \in Threads : Holds(u)' /\ desc'[u] = e
    BY <1>1, <1>3, <1>4, <2>1, <2>2, <2>7 DEF Accounted, OnePlace
  <2>8. \A e \in F \cup used' \cup retired' : Live(e)'
    BY <1>1, <1>3, <1>4 DEF Accounted, OnePlace
  <2>9. F \cap used' = {} /\ F \cap retired' = {} /\ used' \cap retired' = {}
    BY <1>1, <1>3 DEF Accounted, OnePlace
  <2> QED BY <2>4, <2>5, <2>6, <2>7, <2>8, <2>9 DEF OnePlace
<1>7. used' \cup retired' \subseteq Desc
  BY <1>1, <1>3 DEF Accounted, OnePlace, Live
<1>8. in_use' \in [Desc -> BOOLEAN] /\ other' \in [Threads -> OrNone(Desc)]
  BY <1>3 DEF TypeOK
<1>9. \A u \in Threads : Guards(u) => desc[u] # desc'[t]
  BY <1>1, <1>3 DEF Freeable, Guards
<1> QED BY <1>2, <1>3, <1>5, <1>6, <1>7, <1>8, <1>9, HandStep

(* It links its descriptor, which is in nobody else's hands.               *)
LEMMA PushReadStep ==
  ASSUME TypeOK, NEW F \in SUBSET Desc, Accounted(F), NEW t \in Threads, PushRead(t)
  PROVE  TypeOK' /\ Accounted(F)'
<1>1. PICK d : d = desc[t]
  OBVIOUS
<1>2. /\ desc_avail' = desc_avail /\ in_use' = in_use /\ mapped' = mapped
      /\ used' = used /\ retired' = retired /\ desc' = desc
      /\ pc[t] = "push_read" /\ pc'[t] = "push" /\ OthersStay(t)
      /\ next' = [next EXCEPT ![d] = desc_avail] /\ other' = [other EXCEPT ![t] = desc_avail]
      /\ pc' \in [Threads -> Label]
  BY <1>1 DEF PushRead, TypeOK, OthersStay, Label
<1>3. Live(d) /\ d \in Desc /\ d \notin F /\ d \notin used \cup retired
  BY <1>1, <1>2 DEF Accounted, OnePlace, Holds, Live
<1>4. /\ next' \in [Desc -> OrNone(Desc)] /\ next'[d] = desc_avail
      /\ \A e \in Desc : e # d => next'[e] = next[e]
      /\ other' \in [Threads -> OrNone(Desc)] /\ other'[t] = desc_avail
  BY <1>2, <1>3 DEF TypeOK
<1>5. \A e : Live(e)' <=> Live(e)
  BY <1>2, LiveSame
<1>6. TypeOK'
  BY <1>2, <1>4 DEF TypeOK, OthersStay
<1>7. Stacked(F, desc_avail, next)'
  <2>1. \A e \in F : next'[e] = next[e]
    BY <1>3, <1>4
  <2>2. Stacked(F, desc_avail, next')
    BY <2>1, StackKept DEF Accounted
  <2> QED BY <1>2, <2>2 DEF Stacked, IsStack
<1>8. OnePlace(F)'
  <2>1. \A u \in Threads : Holds(u)' <=> Holds(u)
    BY <1>2 DEF Holds, OthersStay
  <2> QED BY <1>2, <1>5, <2>1 DEF Accounted, OnePlace
<1>9. GuardKept(F)'
  <2>1. \A u \in Threads : Guards(u)' => /\ u # t /\ Guards(u) /\ pc'[u] = pc[u]
                                         /\ other'[u] = other[u] /\ Live(desc[u])
    BY <1>2 DEF Guards, OthersStay, Accounted, GuardKept
  <2>2. \A u \in Threads : pc'[u] \in {"push_read", "push"} => pc[u] \in {"push_read", "push"}
    BY <1>2 DEF OthersStay
  <2>3. \A u \in Threads : pc'[u] = "pop" => Guards(u)'
    BY DEF Guards
  <2>4. \A u \in Threads : pc'[u] = "pop" /\ desc'[u] \in F => other'[u] = next'[desc'[u]]
    BY <1>2, <1>3, <1>4, <2>1, <2>3 DEF Accounted, GuardKept
  <2>5. \A u \in Threads : Guards(u)' => Live(desc[u])'
    BY <1>2, <1>5, <2>1
  <2>6. \A u, v \in Threads :
          Guards(u)' /\ pc'[v] \in {"push_read", "push"} => desc'[v] # desc'[u]
    BY <1>2, <2>1, <2>2 DEF Accounted, GuardKept
  <2> QED BY <2>4, <2>5, <2>6 DEF GuardKept
<1>10. BatchKept'
  <2>1. ASSUME NEW u \in Threads, pc'[u] = "publish"
        PROVE  pc[u] = "publish" /\ d[1] # desc[u][1]
    BY <1>2, <1>3, <2>1 DEF Live, OthersStay
  <2>2. \A u \in Threads : pc'[u] = "publish" =>
          \A e \in Desc : e[1] = desc'[u][1] => next'[e] = After(e)
    BY <1>2, <1>4, <2>1 DEF Accounted, BatchKept
  <2> QED BY <1>2, <2>1, <2>2 DEF Accounted, BatchKept
<1>11. PushKept'
  <2>1. ASSUME NEW u \in Threads, pc'[u] = "push", u # t
        PROVE  pc[u] = "push" /\ desc[u] \in Desc /\ desc[u] # d /\ other'[u] = other[u]
    BY <1>1, <1>2, <2>1 DEF OthersStay, Accounted, OnePlace, Holds, Live
  <2> QED BY <1>1, <1>2, <1>4, <2>1 DEF Accounted, PushKept
<1>12. UseKept'
  BY <1>2 DEF Accounted, UseKept
<1> QED BY <1>6, <1>7, <1>8, <1>9, <1>10, <1>11, <1>12 DEF Accounted

(* The CAS of desc_enqueue_avail: the link that was set still is the head. *)
LEMMA PushStep ==
  ASSUME TypeOK, NEW F \in SUBSET Desc, Accounted(F), NEW t \in Threads, Push(t)
  PROVE  TypeOK' /\ \E G \in SUBSET Desc : Accounted(G)'
<1>1. PICK d : d = desc[t]
  OBVIOUS
<1>2. /\ next' = next /\ in_use' = in_use /\ mapped' = mapped
      /\ used' = used /\ retired' = retired
      /\ pc[t] = "push" /\ OthersStay(t) /\ UNCHANGED <<next, mapped>>
      /\ pc' \in [Threads -> Label] /\ desc' \in [Threads -> OrNone(Desc)]
      /\ other' \in [Threads -> OrNone(Desc)]
  BY DEF Push, TypeOK, OthersStay, Label, OrNone
<1>3. Live(d) /\ d \in Desc /\ d \notin F /\ d \notin used \cup retired /\ Holds(t)
      /\ other[t] = next[d]
  BY <1>1, <1>2 DEF Accounted, OnePlace, PushKept, Holds, Live
<1>4. \/ /\ desc_avail = other[t] /\ desc_avail' = d /\ pc'[t] = "idle" /\ desc'[t] = NoDesc
      \/ desc_avail' = desc_avail /\ pc'[t] = "push_read" /\ desc'[t] = d
  BY <1>1 DEF Push, TypeOK
<1>5. \A e : Live(e)' <=> Live(e)
  <2>1. pc[t] # "publish" /\ pc'[t] # "publish"
    BY <1>2, <1>4
  <2> QED BY <1>2, <2>1, LiveSame
<1>6. \A u \in Threads : u # t => (Holds(u)' <=> Holds(u)) /\ desc'[u] = desc[u]
  BY <1>2 DEF Holds, OthersStay
<1>7. UseKept'
  BY <1>2 DEF Accounted, UseKept
<1>8. CASE desc_avail' = desc_avail /\ pc'[t] = "push_read" /\ desc'[t] = d
  <2>1. OnePlace(F)'
    <3>1. \A u \in Threads : (Holds(u)' <=> Holds(u)) /\ desc'[u] = desc[u]
      BY <1>1, <1>3, <1>6, <1>8 DEF Holds
    <3> QED BY <1>2, <1>5, <3>1 DEF Accounted, OnePlace
  <2>2. used' \cup retired' \subseteq Desc /\ in_use' \in [Desc -> BOOLEAN]
    BY <1>2 DEF Accounted, OnePlace, Live, TypeOK
  <2>3. UNCHANGED <<desc_avail, next, mapped>>
    BY <1>2, <1>8
  <2> QED BY <1>1, <1>2, <1>3, <1>7, <1>8, <2>1, <2>2, <2>3, HandStep
<1>9. CASE /\ desc_avail = other[t] /\ desc_avail' = d
           /\ pc'[t] = "idle" /\ desc'[t] = NoDesc
  <2>1. Stacked(F \cup {d}, desc_avail, next)'
    <3>1. Stacked(F \cup {d}, d, next)
      BY <1>3, <1>9, StackPushed DEF Accounted
    <3> QED BY <1>2, <1>9, <3>1 DEF Stacked, IsStack
  <2>2. OnePlace(F \cup {d})'
    <3>1. \A u \in Threads : Holds(u)' => u # t /\ Holds(u) /\ desc'[u] = desc[u] /\ desc[u] # d
      BY <1>1, <1>3, <1>6, <1>9 DEF Holds, Accounted, OnePlace
    <3>2. \A u \in Threads : Holds(u)' => Live(desc[u])'
      BY <1>5, <3>1 DEF Accounted, OnePlace
    <3>3. \A u \in Threads : Holds(u)' => desc'[u] \notin (F \cup {d}) \cup used' \cup retired'
      BY <1>2, <3>1 DEF Accounted, OnePlace
    <3>4. \A u, v \in Threads : Holds(u)' /\ Holds(v)' /\ desc'[u] = desc'[v] => u = v
      BY <3>1 DEF Accounted, OnePlace
    <3>5. ASSUME NEW e \in Desc, Live(e)'
          PROVE  \/ e \in (F \cup {d}) \cup used' \cup retired'
                 \/ \E u \in Threads : Holds(u)' /\ desc'[u] = e
      BY <1>1, <1>2, <1>5, <1>6, <3>5 DEF Accounted, OnePlace
    <3>6. \A e \in (F \cup {d}) \cup used' \cup retired' : Live(e)'
      BY <1>2, <1>3, <1>5 DEF Accounted, OnePlace
    <3>7. /\ (F \cup {d}) \cap used' = {} /\ (F \cup {d}) \cap retired' = {}
          /\ used' \cap retired' = {}
      BY <1>2, <1>3 DEF Accounted, OnePlace
    <3> QED BY <3>2, <3>3, <3>4, <3>5, <3>6, <3>7 DEF OnePlace
  <2>3. GuardKept(F \cup {d})'
    <3>1. \A u \in Threads : Guards(u)' => /\ Guards(u) /\ desc'[u] = desc[u] /\ pc'[u] = pc[u]
                                           /\ other'[u] = other[u] /\ desc[u] # d
      BY <1>1, <1>2, <1>9 DEF Guards, OthersStay, Accounted, GuardKept
    <3>2. \A u \in Threads :
            pc'[u] \in {"push_read", "push"} => pc'[u] = pc[u] /\ desc'[u] = desc[u]
      BY <1>2, <1>9 DEF OthersStay
    <3>3. \A u \in Threads : pc'[u] = "pop" => Guards(u)'
      BY DEF Guards
    <3>4. \A u, v \in Threads :
            Guards(u)' /\ pc'[v] \in {"push_read", "push"} => desc'[v] # desc'[u]
      BY <3>1, <3>2 DEF Accounted, GuardKept
    <3>5. \A u \in Threads : Guards(u)' => Live(desc[u])'
      BY <1>5, <3>1 DEF Accounted, GuardKept
    <3>6. \A u \in Threads : pc'[u] = "pop" /\ desc'[u] \in F \cup {d} =>
            other'[u] = next'[desc'[u]]
      BY <1>2, <3>1, <3>3 DEF Accounted, GuardKept
    <3> QED BY <3>4, <3>5, <3>6 DEF GuardKept
  <2>4. TypeOK'
    BY <1>2, <1>3, <1>9 DEF TypeOK, OthersStay, OrNone
  <2>5. BatchKept'
    BY <1>2, <1>9 DEF Accounted, BatchKept, OthersStay
  <2>6. PushKept'
    BY <1>2, <1>9 DEF Accounted, PushKept, OthersStay
  <2>7. F \cup {d} \in SUBSET Desc
    BY <1>3
  <2> QED BY <1>7, <2>1, <2>2, <2>3, <2>4, <2>5, <2>6, <2>7 DEF Accounted
<1> QED BY <1>4, <1>8, <1>9

-----------------------------------------------------------------------------
(* The invariant holds, and each property of the list follows from it.     *)

(* The list begins empty, and no batch is mapped.                          *)
LEMMA AvailInit == Init => AvailInv
<1> SUFFICES ASSUME Init PROVE AvailInv
  OBVIOUS
<1>1. TypeOK
  BY DEF Init, TypeOK, OrNone, Label
<1>2. Stacked({}, desc_avail, next)
  <2> DEFINE c == [i \in 1 .. 0 |-> NoDesc]
  <2>1. c \in [1 .. 0 -> Desc] /\ 0 \in Nat /\ \A i \in 1 .. 0 : FALSE
    OBVIOUS
  <2>2. IsStack(c, 0, desc_avail, next)
    BY <2>1 DEF IsStack, Under, Init
  <2>3. {} = {c[i] : i \in 1 .. 0}
    OBVIOUS
  <2> QED BY <2>1, <2>2, <2>3 DEF Stacked
<1>3. OnePlace({}) /\ GuardKept({}) /\ BatchKept /\ PushKept /\ UseKept
  BY DEF Init, OnePlace, GuardKept, BatchKept, PushKept, UseKept, Live, Holds, Guards
<1> QED BY <1>1, <1>2, <1>3 DEF AvailInv, Accounted

(* Each step keeps the invariant.                                          *)
LEMMA AvailStep == AvailInv /\ [Next]_vars => AvailInv'
<1> SUFFICES ASSUME AvailInv, [Next]_vars PROVE AvailInv'
  OBVIOUS
<1>1. PICK F \in SUBSET Desc : Accounted(F)
  BY DEF AvailInv
<1>2. TypeOK
  BY DEF AvailInv
<1>3. CASE UNCHANGED vars
  <2>1. /\ UNCHANGED shared /\ pc' = pc /\ desc' = desc /\ other' = other
    BY <1>3 DEF vars
  <2>2. /\ desc_avail' = desc_avail /\ next' = next /\ in_use' = in_use
        /\ mapped' = mapped /\ used' = used /\ retired' = retired
    BY <2>1 DEF shared
  <2>3. TypeOK'
    BY <1>2, <2>1, <2>2 DEF TypeOK
  <2>4. \A d : Live(d)' <=> Live(d)
    BY <2>1, <2>2 DEF Live
  <2>5. \A u : (Holds(u)' <=> Holds(u)) /\ (Guards(u)' <=> Guards(u))
    BY <2>1 DEF Holds, Guards
  <2>6. Stacked(F, desc_avail, next)'
    BY <1>1, <2>2 DEF Accounted, Stacked, IsStack
  <2>7. OnePlace(F)'
    BY <1>1, <2>1, <2>2, <2>4, <2>5 DEF Accounted, OnePlace
  <2>8. GuardKept(F)'
    BY <1>1, <2>1, <2>2, <2>4, <2>5 DEF Accounted, GuardKept
  <2>9. BatchKept' /\ PushKept' /\ UseKept'
    BY <1>1, <2>1, <2>2 DEF Accounted, BatchKept, PushKept, UseKept
  <2> QED BY <2>3, <2>6, <2>7, <2>8, <2>9 DEF AvailInv, Accounted
<1>4. ASSUME NEW t \in Threads, AllocBegin(t) \/ Retire(t) \/ PushBegin(t) \/ Step(t)
      PROVE  AvailInv'
  <2>1. CASE AllocBegin(t) \/ Get(t) \/ Check(t) \/ Next1(t)
    BY <1>1, <1>2, <2>1, QuietStep DEF AvailInv
  <2>2. CASE Pop(t)
    BY <1>1, <1>2, <2>2, PopStep DEF AvailInv
  <2>3. CASE Batch(t)
    BY <1>1, <1>2, <2>3, BatchStep DEF AvailInv
  <2>4. CASE Publish(t)
    BY <1>1, <1>2, <2>4, PublishStep DEF AvailInv
  <2>5. CASE Mark(t)
    BY <1>1, <1>2, <2>5, MarkStep DEF AvailInv
  <2>6. CASE Retire(t)
    BY <1>1, <1>2, <2>6, RetireStep DEF AvailInv
  <2>7. CASE PushBegin(t)
    BY <1>1, <1>2, <2>7, PushBeginStep DEF AvailInv
  <2>8. CASE PushRead(t)
    BY <1>1, <1>2, <2>8, PushReadStep DEF AvailInv
  <2>9. CASE Push(t)
    BY <1>1, <1>2, <2>9, PushStep DEF AvailInv
  <2> QED
    BY <1>4, <2>1, <2>2, <2>3, <2>4, <2>5, <2>6, <2>7, <2>8, <2>9 DEF Step
<1> QED BY <1>3, <1>4 DEF Next

-----------------------------------------------------------------------------
(* Avail. Its definition is recursive; the stack says what it comes to,    *)
(* for the stack gives a function that satisfies the definition's equation *)
(* and a second one cannot differ from it at a least place.                *)

(* The least element of a set of natural numbers, from the order of the    *)
(* finite sets by inclusion.                                               *)
LEMMA Least ==
  ASSUME NEW T, T \subseteq Nat, T # {}
  PROVE  \E x \in T : \A y \in T : ~(y < x)
<1> DEFINE F == {1 .. n : n \in T}
<1>1. F \subseteq FiniteSubsetsOf(Nat)
  BY FS_Interval DEF FiniteSubsetsOf
<1>2. F # {}
  OBVIOUS
<1>3. PICK X \in F : \A Y \in F : <<Y, X>> \notin StrictSubsetOrdering(Nat)
  <2> HIDE DEF F
  <2> QED BY <1>1, <1>2, FS_StrictSubsetOrderingWellFounded, WFMin
<1>4. PICK x \in T : X = 1 .. x
  OBVIOUS
<1>5. ASSUME NEW y \in T, y < x PROVE FALSE
  <2>1. 1 .. y \subseteq 1 .. x /\ 1 .. y # 1 .. x
    <3>1. y \in Nat /\ x \in Nat /\ x \in 1 .. x /\ x \notin 1 .. y
      BY <1>5
    <3> QED BY <3>1, <1>5
  <2>2. <<1 .. y, X>> \in StrictSubsetOrdering(Nat)
    BY <1>4, <2>1 DEF StrictSubsetOrdering
  <2> QED BY <1>3, <2>2
<1> QED BY <1>5

(* There are finitely many descriptors.                                    *)
LEMMA FiniteDesc == IsFiniteSet(Desc) /\ Cardinality(Desc) \in Nat
<1>1. IsFiniteSet(1 .. NUM_DESC_BATCH)
  BY BatchIsPositive, FS_Interval
<1>2. IsFiniteSet(Desc)
  BY <1>1, BatchesAreFinite, FS_Product DEF Desc
<1> QED BY <1>2, FS_CardinalityType

(* What the model walks from desc_avail on is the stack.                   *)
LEMMA AvailIs ==
  ASSUME NEW F, Stacked(F, desc_avail, next)
  PROVE  Avail = F
<1>1. PICK n \in Nat : \E c \in [1 .. n -> Desc] :
               IsStack(c, n, desc_avail, next) /\ F = {c[i] : i \in 1 .. n}
  BY DEF Stacked
<1>2. PICK c \in [1 .. n -> Desc] : IsStack(c, n, desc_avail, next) /\ F = {c[i] : i \in 1 .. n}
  BY <1>1
<1> DEFINE N == Cardinality(Desc)
           Body(f, k) == IF k = 0 THEN {desc_avail} \ {NoDesc}
                         ELSE f[k - 1] \cup ({next[d] : d \in f[k - 1]} \ {NoDesc})
           Eq(f) == f = [k \in 0 .. N |-> Body(f, k)]
           Top(k) == {c[i] : i \in {j \in 1 .. n : j >= n - k}}
           P == [k \in 0 .. N |-> Top(k)]
<1>3. N \in Nat /\ n <= N
  <2>1. IsFiniteSet(1 .. n) /\ Cardinality(1 .. n) = n
    BY FS_Interval
  <2>2. c \in Injection(1 .. n, Desc)
    BY <1>2 DEF IsStack, Injection, IsInjective
  <2> QED BY <2>1, <2>2, FiniteDesc, FS_Injection
<1>4. \A i \in 1 .. n : c[i] # NoDesc
  BY DescFacts
<1>5. \A k \in 0 .. N : P[k] = Top(k)
  OBVIOUS
<1>6. ASSUME NEW k \in 0 .. N PROVE Top(k) = Body(P, k)
  <2>1. CASE k = 0
    <3>1. \A j \in 1 .. n : j >= n - k <=> j = n
      BY <2>1
    <3>2. n = 0 => Top(k) = {} /\ desc_avail = NoDesc
      BY <1>2 DEF IsStack, Under
    <3>3. n # 0 => Top(k) = {c[n]} /\ desc_avail = c[n] /\ c[n] # NoDesc
      BY <1>2, <1>4, <3>1 DEF IsStack, Under
    <3> QED BY <2>1, <3>2, <3>3
  <2>2. CASE k # 0
    <3>1. k - 1 \in 0 .. N /\ P[k - 1] = Top(k - 1)
      <4>1. k - 1 \in 0 .. N
        BY <1>3, <2>2
      <4> HIDE DEF P, Top
      <4> QED BY <1>5, <4>1
    <3>2. \A i \in 1 .. n : next[c[i]] = IF i = 1 THEN NoDesc ELSE c[i - 1]
      BY <1>2 DEF IsStack, Under
    <3>3. ASSUME NEW x \in Top(k) PROVE x \in Body(P, k)
      <4>1. PICK j \in 1 .. n : j >= n - k /\ x = c[j]
        OBVIOUS
      <4>2. CASE j >= n - (k - 1)
        BY <2>2, <3>1, <4>1, <4>2
      <4>3. CASE ~(j >= n - (k - 1))
        <5>1. j + 1 \in 1 .. n /\ j + 1 >= n - (k - 1) /\ (j + 1) - 1 = j /\ j + 1 # 1
          BY <1>3, <2>2, <4>1, <4>3
        <5>2. next[c[j + 1]] = x
          BY <3>2, <4>1, <5>1
        <5>3. c[j + 1] \in P[k - 1]
          BY <3>1, <5>1
        <5> HIDE DEF P, Top
        <5> QED BY <1>4, <2>2, <4>1, <5>2, <5>3
      <4> QED BY <4>2, <4>3
    <3>4. ASSUME NEW x \in Body(P, k) PROVE x \in Top(k)
      <4>1. x \in Top(k - 1) \/ (x # NoDesc /\ \E d \in Top(k - 1) : x = next[d])
        BY <2>2, <3>1
      <4>2. PICK i \in 1 .. n : i >= n - (k - 1) /\ (x = c[i] \/ (x # NoDesc /\ x = next[c[i]]))
        BY <4>1
      <4>3. CASE x = c[i]
        BY <1>3, <4>2, <4>3
      <4>4. CASE x # NoDesc /\ x = next[c[i]]
        <5>1. i # 1 /\ x = c[i - 1]
          BY <3>2, <4>4
        <5>2. i - 1 \in 1 .. n /\ i - 1 >= n - k
          BY <1>3, <4>2, <5>1
        <5> QED BY <5>1, <5>2
      <4> QED BY <4>2, <4>3, <4>4
    <3> HIDE DEF Top, Body, P
    <3> QED BY <3>3, <3>4
  <2> QED BY <2>1, <2>2
<1>7. Eq(P)
  <2> HIDE DEF Top, Body
  <2> QED BY <1>6
<1>8. PICK g : Eq(g) /\ Avail = g[N]
  <2>1. Avail = (CHOOSE f : Eq(f))[N]
    BY DEF Avail
  <2> HIDE DEF Eq
  <2> QED BY <1>7, <2>1
<1>9. \A k \in 0 .. N : g[k] = Body(g, k)
  <2>1. g = [k \in 0 .. N |-> Body(g, k)]
    BY <1>8
  <2> HIDE DEF Body
  <2> QED BY <2>1
<1>10. \A k \in 0 .. N : P[k] = Body(P, k)
  <2> HIDE DEF Body
  <2> QED BY <1>5, <1>6
<1> DEFINE B == {k \in 0 .. N : g[k] # P[k]}
<1>11. ASSUME B # {} PROVE FALSE
  <2>1. PICK x \in B : \A y \in B : ~(y < x)
    <3>1. B \subseteq Nat
      OBVIOUS
    <3> HIDE DEF B
    <3> QED BY <1>11, <3>1, Least
  <2> HIDE DEF P
  <2>2. x \in 0 .. N /\ x # 0
    BY <1>9, <1>10, <2>1
  <2>3. x - 1 \in 0 .. N /\ x - 1 < x
    BY <1>3, <2>2
  <2>4. g[x - 1] = P[x - 1]
    BY <2>1, <2>3
  <2>5. g[x] = Body(g, x) /\ P[x] = Body(P, x)
    BY <1>9, <1>10, <2>2
  <2>6. Body(g, x) = Body(P, x)
    BY <2>2, <2>4
  <2>7. g[x] # P[x]
    BY <2>1
  <2> HIDE DEF Body
  <2> QED BY <2>5, <2>6, <2>7
<1>12. g[N] = P[N]
  <2>1. N \in 0 .. N
    BY <1>3
  <2> HIDE DEF P
  <2> QED BY <1>11, <2>1
<1>13. P[N] = F
  <2>1. N \in 0 .. N
    BY <1>3
  <2>2. \A j \in 1 .. n : j >= n - N
    BY <1>3
  <2>3. {j \in 1 .. n : j >= n - N} = 1 .. n
    BY <2>2
  <2>4. Top(N) = F
    BY <1>2, <2>3
  <2> HIDE DEF Top
  <2> QED BY <2>1, <2>4
<1> QED BY <1>8, <1>12, <1>13

(* A live descriptor has one holder or none.                               *)
LEMMA HoldersOf ==
  ASSUME NEW F, OnePlace(F), NEW d
  PROVE  /\ \A t \in Threads : Holds(t) /\ desc[t] = d => Cardinality(Holders(d)) = 1
         /\ (\A t \in Threads : ~(Holds(t) /\ desc[t] = d)) => Cardinality(Holders(d)) = 0
<1>1. ASSUME NEW t \in Threads, Holds(t), desc[t] = d PROVE Holders(d) = {t}
  BY <1>1 DEF Holders, Holds, OnePlace
<1>2. (\A t \in Threads : ~(Holds(t) /\ desc[t] = d)) => Holders(d) = {}
  BY DEF Holders, Holds
<1>3. Cardinality({}) = 0 /\ \A x : Cardinality({x}) = 1
  BY FS_EmptySet, FS_Singleton
<1>4. ASSUME NEW t \in Threads, Holds(t), desc[t] = d PROVE Cardinality(Holders(d)) = 1
  BY <1>1, <1>3, <1>4
<1> QED BY <1>2, <1>3, <1>4

(* Each descriptor of a published batch is accounted for once.             *)
LEMMA AccountFollows == AvailInv => DescsAccounted
<1> SUFFICES ASSUME AvailInv PROVE DescsAccounted
  OBVIOUS
<1>1. PICK F \in SUBSET Desc : Accounted(F)
  BY DEF AvailInv
<1>2. OnePlace(F) /\ UseKept /\ Avail = F
  BY <1>1, AvailIs DEF Accounted
<1>3. GAsserts
  <2>1. \A t \in Threads : Holds(t) => desc[t] \in Desc /\ desc[t] \notin used
    BY <1>2 DEF OnePlace, Live
  <2>2. \A d \in used : d \in Desc
    BY <1>2 DEF OnePlace, Live
  <2> QED BY <1>2, <2>1, <2>2 DEF GAsserts, Holds, UseKept
<1>4. ASSUME NEW d \in Desc
      PROVE  Cardinality({d} \cap Avail) + Cardinality({d} \cap used)
               + Cardinality({d} \cap retired) + Cardinality(Holders(d))
               = IF d[1] \in mapped \ UNION {Made(t) : t \in Threads} THEN 1 ELSE 0
  <2>1. d[1] \in mapped \ UNION {Made(t) : t \in Threads} <=> Live(d)
    BY DEF Live, Made
  <2>2. \A S : Cardinality({d} \cap S) = IF d \in S THEN 1 ELSE 0
    <3>1. \A S : {d} \cap S = IF d \in S THEN {d} ELSE {}
      OBVIOUS
    <3>2. Cardinality({}) = 0 /\ Cardinality({d}) = 1
      BY FS_EmptySet, FS_Singleton
    <3> QED BY <3>1, <3>2
  <2>3. CASE ~Live(d)
    <3>1. d \notin F /\ d \notin used /\ d \notin retired /\ Cardinality(Holders(d)) = 0
      BY <1>2, <2>3, HoldersOf DEF OnePlace
    <3> QED BY <1>2, <2>1, <2>2, <2>3, <3>1
  <2>4. CASE Live(d) /\ d \in F \cup used \cup retired
    <3>1. Cardinality(Holders(d)) = 0
      <4>1. \A t \in Threads : ~(Holds(t) /\ desc[t] = d)
        BY <1>2, <2>4 DEF OnePlace
      <4> QED BY <1>2, <4>1, HoldersOf
    <3>2. \/ d \in F /\ d \notin used /\ d \notin retired
          \/ d \notin F /\ d \in used /\ d \notin retired
          \/ d \notin F /\ d \notin used /\ d \in retired
      BY <1>2, <2>4 DEF OnePlace
    <3> QED BY <1>2, <2>1, <2>2, <2>4, <3>1, <3>2
  <2>5. CASE Live(d) /\ d \notin F \cup used \cup retired
    <3>1. Cardinality(Holders(d)) = 1
      BY <1>2, <2>5, HoldersOf DEF OnePlace
    <3> QED BY <1>2, <2>1, <2>2, <2>5, <3>1
  <2> QED BY <2>3, <2>4, <2>5
<1> QED BY <1>3, <1>4 DEF DescsAccounted, AvailInv

(* For every number of threads and descriptors, whatever calls of          *)
(* desc_alloc, desc_retire and desc_enqueue_avail are interleaved: a       *)
(* descriptor is in one place, none is handed out twice and none is lost,  *)
(* and the assertions about its in_use hold.                               *)
THEOREM DescsAlwaysAccounted == Spec => []DescsAccounted
<1>1. Spec => []AvailInv
  BY AvailInit, AvailStep, PTL DEF Spec
<1> QED BY <1>1, AccountFollows, PTL

=============================================================================
