----------------------------- MODULE LinkedListSet -----------------------------
(***************************************************************************)
(* mono-linked-list-set.c, one action per access to shared memory, and the *)
(* iteration of mono-linked-list-set.h.  A link is a node or NULL and the  *)
(* mark that says that the node the link belongs to has been removed.      *)
(*                                                                         *)
(* A thread's hazard pointers 0, 1 and 2 hold what its locals next (or the *)
(* node it inserts), cur and prev point to, in this order.  A node that    *)
(* is freed hazardously is first doomed, when a scan finds no hazard       *)
(* pointer to it, and then free: a hazard pointer set after the scan does  *)
(* not save it.  What a scan is like in detail is in HazardPointers.       *)
(*                                                                         *)
(* Like in test.c, a node is removed by one thread only; here by the one   *)
(* that has inserted it.                                                   *)
(***************************************************************************)
EXTENDS Integers, FiniteSets, Sequences

CONSTANTS
  Threads,
  Nodes,
  Keys,         \* natural numbers: a key is a uintptr_t
  HEAD,         \* list->head as a link
  NULL,
  Iterators     \* the threads that iterate

ASSUME KeysAreNaturals == Keys \subseteq Nat
ASSUME NodesAreFinite == IsFiniteSet(Nodes)
ASSUME NoNodes == {HEAD, NULL} \cap Nodes = {}
ASSUME IteratorsAreThreads == Iterators \subseteq Threads

VARIABLES
  next,                 \* the links, of HEAD and of the nodes
  key,                  \* of the nodes
  unused,               \* the nodes that are free
  retired, doomed,      \* removed nodes before and after a scan
  owned,                \* per thread: the nodes it has inserted and not removed
  pc,
  op, value, arg,       \* the call, its node and its key
  prev, cur, nxt,       \* locals prev, cur, next of the functions
  result,
  was                   \* history: whether the key was in the set during the call

shared == <<next, key, unused, retired, doomed, owned>>
call == <<op, value, arg>>
vars == <<shared, pc, call, prev, cur, nxt, result, was>>

Link(n, marked) == [to |-> n, mark |-> marked]
Nil == Link(NULL, FALSE)
NoKey == -1

Init ==
  /\ next = [n \in Nodes \cup {HEAD} |-> Nil]
  /\ key = [n \in Nodes |-> NoKey]
  /\ unused = Nodes
  /\ retired = {} /\ doomed = {}
  /\ owned = [t \in Threads |-> {}]
  /\ pc = [t \in Threads |-> "idle"]
  /\ op = [t \in Threads |-> "none"]
  /\ value = [t \in Threads |-> NULL]
  /\ arg = [t \in Threads |-> NoKey]
  /\ prev = [t \in Threads |-> NULL]
  /\ cur = [t \in Threads |-> NULL]
  /\ nxt = [t \in Threads |-> Nil]
  /\ result = [t \in Threads |-> {}]
  /\ was = [t \in Threads |-> {}]

At(t, label) == pc[t] = label
Goto(t, label) == pc' = [pc EXCEPT ![t] = label]
Set(var, t, v) == [var EXCEPT ![t] = v]

(* The nodes from the head on, and the keys that are in the set *)
Listed ==
  LET path[k \in 0 .. Cardinality(Nodes)] ==
        IF k = 0 THEN <<HEAD>>
        ELSE LET p == path[k - 1] IN
             IF Len(p) = k /\ next[p[k]].to \in Nodes THEN Append(p, next[p[k]].to) ELSE p
  IN Tail(path[Cardinality(Nodes)])
Linked == LET l == Listed IN {l[i] : i \in DOMAIN l}
Present == {key[n] : n \in {m \in Linked : ~next[m].mark}}
Witness(k, b) == [t \in Threads |-> IF arg[t] = k THEN was[t] \cup {b} ELSE was[t]]

-----------------------------------------------------------------------------
(* Calls *)

Begin(t, operation, node, k) ==
  /\ At(t, "idle")
  /\ op' = Set(op, t, operation)
  /\ value' = Set(value, t, node)
  /\ arg' = Set(arg, t, k)
  /\ was' = Set(was, t, {(k \in Present)})
  /\ Goto(t, "head")
  /\ UNCHANGED <<next, retired, doomed, owned, prev, cur, nxt, result>>

(* mono_lls_find *)
Find(t) ==
  /\ \E k \in Keys : Begin(t, "find", NULL, k)
  /\ UNCHANGED <<key, unused>>

(* mono_lls_insert, of a new node *)
Insert(t) ==
  \E n \in unused, k \in Keys :
    /\ Begin(t, "insert", n, k)
    /\ key' = [key EXCEPT ![n] = k]
    /\ unused' = unused \ {n}

(* mono_lls_remove *)
Remove(t) ==
  /\ \E n \in owned[t] : Begin(t, "remove", n, key[n])
  /\ UNCHANGED <<key, unused>>

(* The caller cleans its hazard pointers. *)
Clean(t) ==
  /\ At(t, "done")
  /\ Goto(t, "idle")
  /\ op' = Set(op, t, "none")
  /\ value' = Set(value, t, NULL)
  /\ arg' = Set(arg, t, NoKey)
  /\ prev' = Set(prev, t, NULL)
  /\ cur' = Set(cur, t, NULL)
  /\ nxt' = Set(nxt, t, Nil)
  /\ result' = Set(result, t, {})
  /\ was' = Set(was, t, {})
  /\ UNCHANGED shared

Finish(t, b) == Goto(t, "done") /\ result' = Set(result, t, {b})

-----------------------------------------------------------------------------
(* mono_lls_find, also as a part of the others *)

(* From the beginning: get_hazardous_pointer_with_mask (&list->head, hp, 1) *)
FindHead(t) ==
  /\ At(t, "head")
  /\ prev' = Set(prev, t, HEAD)
  /\ cur' = Set(cur, t, next[HEAD].to)
  /\ Goto(t, "head_check")
  /\ UNCHANGED <<shared, call, nxt, result, was>>

(* What the functions do with what find has found *)
Found(t, b) ==
  CASE op[t] = "find" -> Finish(t, b) /\ UNCHANGED unused
    [] op[t] = "insert" /\ b ->
         Finish(t, FALSE) /\ unused' = unused \cup {value[t]}
    [] op[t] = "insert" /\ ~b -> Goto(t, "link") /\ UNCHANGED <<result, unused>>
    [] op[t] = "remove" /\ b -> Goto(t, "mark") /\ UNCHANGED <<result, unused>>
    [] op[t] = "remove" /\ ~b -> Finish(t, FALSE) /\ UNCHANGED unused
    [] op[t] = "removed" -> Finish(t, TRUE) /\ UNCHANGED unused

(* The loop, with n as the next cur *)
Look(t, n) ==
  IF n = NULL THEN Found(t, FALSE) ELSE Goto(t, "next") /\ UNCHANGED <<result, unused>>

FindHeadCheck(t) ==
  /\ At(t, "head_check")
  /\ IF next[HEAD].to = cur[t] THEN Look(t, cur[t])
     ELSE Goto(t, "head") /\ UNCHANGED <<result, unused>>
  /\ UNCHANGED <<next, key, retired, doomed, owned, call, prev, cur, nxt, was>>

(* get_hazardous_pointer_with_mask (&cur->next, hp, 0) *)
FindNext(t) ==
  /\ At(t, "next")
  /\ nxt' = Set(nxt, t, next[cur[t]])
  /\ Goto(t, "next_check")
  /\ UNCHANGED <<shared, call, prev, cur, result, was>>

Stable_Unmarked(t) == next[cur[t]] = Link(nxt[t].to, FALSE)  (* a mutant *)
Stable(t) == next[cur[t]] = nxt[t]

FindNextCheck(t) ==
  /\ At(t, "next_check")
  /\ Goto(t, IF Stable(t) THEN "prev_check" ELSE "next")
  /\ UNCHANGED <<shared, call, prev, cur, nxt, result, was>>

(* cur is still where it was found. *)
InPlace_IgnoresMark(t) == next[prev[t]].to = cur[t]  (* a mutant *)
InPlace(t) == next[prev[t]] = Link(cur[t], FALSE)

(* The search has come to its key, or past it. *)
Arrived_Past(t) == key[cur[t]] > arg[t]  (* a mutant *)
Arrived(t) == key[cur[t]] >= arg[t]

FindPrevCheck(t) ==
  /\ At(t, "prev_check")
  /\ \/ /\ ~InPlace(t)
        /\ Goto(t, "head")
        /\ UNCHANGED <<prev, cur, result, unused>>
     \/ /\ InPlace(t) /\ nxt[t].mark
        /\ Goto(t, "unlink")
        /\ UNCHANGED <<prev, cur, result, unused>>
     \/ /\ InPlace(t) /\ ~nxt[t].mark /\ Arrived(t)
        /\ Found(t, key[cur[t]] = arg[t])
        /\ UNCHANGED <<prev, cur>>
     \/ /\ InPlace(t) /\ ~nxt[t].mark /\ ~Arrived(t)
        /\ prev' = Set(prev, t, cur[t])
        /\ cur' = Set(cur, t, nxt[t].to)
        /\ Look(t, nxt[t].to)
  /\ UNCHANGED <<next, key, retired, doomed, owned, call, nxt, was>>

(* A node that has been marked is taken out of the list with a CAS of the link
   to it, and by that CAS's winner freed hazardously.  The call that frees it is
   made within mono_lls_find; here the node is retired, and Scan and Free may
   follow at any time, also after the search has gone on. *)
FindUnlink(t) ==
  /\ At(t, "unlink")
  /\ \/ /\ InPlace(t)
        /\ next' = [next EXCEPT ![prev[t]] = Link(nxt[t].to, FALSE)]
        /\ retired' = retired \cup {cur[t]}
        /\ cur' = Set(cur, t, nxt[t].to)
        /\ Look(t, nxt[t].to)
     \/ /\ ~InPlace(t)
        /\ Goto(t, "head")
        /\ UNCHANGED <<next, retired, cur, result, unused>>
  /\ UNCHANGED <<key, doomed, owned, call, prev, nxt, was>>

-----------------------------------------------------------------------------
(* The rest of mono_lls_insert and mono_lls_remove *)

InsertLink(t) ==
  /\ At(t, "link")
  /\ nxt' = Set(nxt, t, Link(value[t], FALSE))
  /\ \/ /\ InPlace(t)
        /\ next' = [next EXCEPT ![value[t]] = Link(cur[t], FALSE),
                                ![prev[t]] = Link(value[t], FALSE)]
        /\ owned' = Set(owned, t, owned[t] \cup {value[t]})
        /\ was' = Witness(arg[t], TRUE)
        /\ Finish(t, TRUE)
     \/ /\ ~InPlace(t)
        /\ next' = [next EXCEPT ![value[t]] = Link(cur[t], FALSE)]
        /\ Goto(t, "head")
        /\ UNCHANGED <<owned, was, result>>
  /\ UNCHANGED <<key, unused, retired, doomed, call, prev, cur>>

RemoveMark(t) ==
  /\ At(t, "mark")
  /\ \/ /\ Stable(t)
        /\ next' = [next EXCEPT ![cur[t]].mark = TRUE]
        /\ owned' = Set(owned, t, owned[t] \ {value[t]})
        /\ was' = Witness(arg[t], FALSE)
        /\ Goto(t, "remove")
     \/ /\ ~Stable(t)
        /\ Goto(t, "head")
        /\ UNCHANGED <<next, owned, was>>
  /\ UNCHANGED <<key, unused, retired, doomed, call, prev, cur, nxt, result>>

(* It takes the node out itself, and frees it hazardously (as for FindUnlink,
   Scan and Free are steps of their own), or else runs mono_lls_find to have it
   done. *)
RemoveUnlink(t) ==
  /\ At(t, "remove")
  /\ \/ /\ InPlace(t)
        /\ next' = [next EXCEPT ![prev[t]] = Link(nxt[t].to, FALSE)]
        /\ retired' = retired \cup {value[t]}
        /\ cur' = Set(cur, t, NULL)
        /\ Finish(t, TRUE)
        /\ UNCHANGED op
     \/ /\ ~InPlace(t)
        /\ op' = Set(op, t, "removed")
        /\ Goto(t, "head")
        /\ UNCHANGED <<next, retired, cur, result>>
  /\ UNCHANGED <<key, unused, doomed, owned, value, arg, prev, nxt, was>>

-----------------------------------------------------------------------------
(* MONO_LLS_FOREACH_SAFE *)

Iterate(t) ==
  /\ At(t, "idle")
  /\ t \in Iterators
  /\ Goto(t, "it_head")
  /\ UNCHANGED <<shared, call, prev, cur, nxt, result, was>>

(* get_hazardous_pointer (&list->head, hp, 1) *)
IterateHead(t) ==
  /\ At(t, "it_head")
  /\ cur' = Set(cur, t, next[HEAD].to)
  /\ Goto(t, "it_head_check")
  /\ UNCHANGED <<shared, call, prev, nxt, result, was>>

Visit(t, n) == Goto(t, IF n = NULL THEN "done" ELSE "it_next")

IterateHeadCheck(t) ==
  /\ At(t, "it_head_check")
  /\ IF next[HEAD].to = cur[t] THEN Visit(t, cur[t]) ELSE Goto(t, "it_head")
  /\ UNCHANGED <<shared, call, prev, cur, nxt, result, was>>

(* get_hazardous_pointer_with_mask (&cur->next, hp, 0), and if that has been
   checked the next node is the one to be visited. *)
IterateNext(t) ==
  /\ At(t, "it_next")
  /\ nxt' = Set(nxt, t, next[cur[t]])
  /\ Goto(t, "it_next_check")
  /\ UNCHANGED <<shared, call, prev, cur, result, was>>

IterateNextCheck(t) ==
  /\ At(t, "it_next_check")
  /\ \/ /\ next[cur[t]] = nxt[t]
        /\ cur' = Set(cur, t, nxt[t].to)
        /\ Visit(t, nxt[t].to)
     \/ /\ next[cur[t]] # nxt[t]
        /\ Goto(t, "it_next")
        /\ UNCHANGED cur
  /\ UNCHANGED <<shared, call, prev, nxt, result, was>>

-----------------------------------------------------------------------------
(* hazard-pointer.c *)

Hazardous_WithoutPrev(n) == \E t \in Threads : n \in {cur[t], nxt[t].to}  (* a mutant *)
Hazardous(n) == \E t \in Threads : n \in {prev[t], cur[t], nxt[t].to}

Scan ==
  /\ \E n \in retired :
       /\ ~Hazardous(n)
       /\ retired' = retired \ {n}
       /\ doomed' = doomed \cup {n}
  /\ UNCHANGED <<next, key, unused, owned, pc, call, prev, cur, nxt, result, was>>

Free ==
  /\ \E n \in doomed :
       /\ doomed' = doomed \ {n}
       /\ unused' = unused \cup {n}
       /\ key' = [key EXCEPT ![n] = NoKey]
       /\ next' = [next EXCEPT ![n] = Nil]
  /\ UNCHANGED <<retired, owned, pc, call, prev, cur, nxt, result, was>>

-----------------------------------------------------------------------------

Search(t) ==
  FindHead(t) \/ FindHeadCheck(t) \/ FindNext(t) \/ FindNextCheck(t) \/ FindPrevCheck(t) \/ FindUnlink(t)
Change(t) == InsertLink(t) \/ RemoveMark(t) \/ RemoveUnlink(t)
Walk(t) == IterateHead(t) \/ IterateHeadCheck(t) \/ IterateNext(t) \/ IterateNextCheck(t)
Step(t) == Search(t) \/ Change(t) \/ Walk(t)

Next ==
  \/ Scan \/ Free
  \/ \E t \in Threads : Find(t) \/ Insert(t) \/ Remove(t) \/ Iterate(t) \/ Clean(t) \/ Step(t)

Spec == Init /\ [][Next]_vars

(* Some thread that is in a call goes on; the others may stop for ever. *)
FairSpec == Spec /\ WF_vars(\E t \in Threads : Step(t))

-----------------------------------------------------------------------------
(* Properties *)

Label ==
  {"idle", "done", "head", "head_check", "next", "next_check", "prev_check", "unlink",
   "link", "mark", "remove", "it_head", "it_head_check", "it_next", "it_next_check"}
Links == [to : Nodes \cup {NULL}, mark : BOOLEAN]

(* The variables keep their types.  A node that a call finds to remove is the
   one it was called for (g_assert (cur == value), mono-linked-list-set.c:186). *)
TypeOK ==
  /\ next \in [Nodes \cup {HEAD} -> Links]
  /\ ~next[HEAD].mark
  /\ key \in [Nodes -> Keys \cup {NoKey}]
  /\ unused \cup retired \cup doomed \subseteq Nodes
  /\ owned \in [Threads -> SUBSET Nodes]
  /\ pc \in [Threads -> Label]
  /\ op \in [Threads -> {"none", "find", "insert", "remove", "removed"}]
  /\ value \in [Threads -> Nodes \cup {NULL}]
  /\ arg \in [Threads -> Keys \cup {NoKey}]
  /\ prev \in [Threads -> Nodes \cup {HEAD, NULL}]
  /\ cur \in [Threads -> Nodes \cup {NULL}]
  /\ nxt \in [Threads -> Links]
  /\ result \in [Threads -> SUBSET BOOLEAN]
  /\ was \in [Threads -> SUBSET BOOLEAN]
  /\ \A t \in Threads : At(t, "mark") => cur[t] = value[t]

(* The list is in the order of the keys, each there once, the nodes that are
   marked included. *)
Sorted ==
  LET l == Listed IN \A i, j \in DOMAIN l : i < j => key[l[i]] < key[l[j]]

(* What a thread follows links from has not been freed. *)
Follows(t) ==
  CASE pc[t] \in {"next", "next_check", "mark", "done"} -> {cur[t]}
    [] pc[t] \in {"prev_check", "unlink", "link", "remove"} -> {cur[t], prev[t]}
    [] OTHER -> {}
NoUseAfterFree == \A t \in Threads : Follows(t) \cap unused = {} \/ op[t] = "none"

(* A removed node is freed once, and not while it can be reached; a marked node
   that is still in the list is the business of the thread that has marked it. *)
Removing(t) == {value[u] : u \in {t} \cap {v \in Threads : op[v] \in {"remove", "removed"}}}
RemovedLeave ==
  /\ Linked \cap (retired \cup doomed \cup unused) = {}
  /\ retired \cap doomed = {} /\ (retired \cup doomed) \cap unused = {}
  /\ \A n \in Linked :
       next[n].mark => \E t \in Threads : n \in Removing(t) /\ pc[t] \notin {"idle", "done"}

(* The types, RemovedLeave, and nothing is lost: a node is free, with the thread
   that inserts it, in the list, or on its way to be freed. *)
NodesAccounted ==
  /\ TypeOK
  /\ RemovedLeave
  /\ Nodes = unused \cup retired \cup doomed \cup Linked
               \cup {value[t] : t \in {u \in Threads : op[u] = "insert" /\ result[u] = {}}}

IsSet == INSTANCE ConcurrentSet WITH
  set <- Present,
  call <- [t \in Threads |-> IF op[t] = "removed" THEN "remove" ELSE op[t]],
  answer <- [t \in Threads |->
               IF pc[t] = "remove" \/ op[t] = "removed" THEN {TRUE} ELSE result[t]]
(* Insertions, removals and searches do what ConcurrentSet says. *)
Linearizable == IsSet!Spec

(* As long as somebody goes on, calls return.  (As far as the loops of the set
   go: the calls that free a node hazardously are not part of these.) *)
Returns == \E t \in Threads : ~At(t, "done") /\ At(t, "done")'
LockFree == []<><<Returns>>_vars \/ <>[](\A t \in Threads : pc[t] \in {"idle", "done"})

=============================================================================
