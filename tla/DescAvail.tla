------------------------------- MODULE DescAvail -------------------------------
(***************************************************************************)
(* The list of available descriptors of lock-free-alloc.c, desc_alloc,     *)
(* desc_retire and desc_enqueue_avail, one action per access to shared     *)
(* memory: a stack, to which a batch of new descriptors is added when it   *)
(* is empty.                                                               *)
(*                                                                         *)
(* Of hazard-pointer.c the model takes what HazardPointers shows: a        *)
(* descriptor is not freed, that is put back into the list, while a thread *)
(* has it from get_hazardous_pointer.                                      *)
(***************************************************************************)
EXTENDS Integers, FiniteSets

CONSTANTS
  Threads,
  Batches,          \* what mono_sgen_alloc_os_memory can return
  NUM_DESC_BATCH,
  NULL

ASSUME BatchIsPositive == NUM_DESC_BATCH \in Nat \ {0}
ASSUME NullIsNoBatch == NULL \notin Batches
ASSUME BatchesAreFinite == IsFiniteSet(Batches)

(* A descriptor is a place in a batch. *)
Desc == Batches \X (1 .. NUM_DESC_BATCH)
NoDesc == <<NULL, 0>>
First(b) == <<b, 1>>
After(d) == IF d[2] = NUM_DESC_BATCH THEN NoDesc ELSE <<d[1], d[2] + 1>>

VARIABLES
  desc_avail, next, in_use,
  mapped,               \* the batches that are mapped
  used, retired,        \* descriptors with the heaps, and waiting to be freed
  pc,
  desc,                 \* local of all three; guarded by hazard pointer 1 in desc_alloc
  other                 \* locals next and old_head

shared == <<desc_avail, next, in_use, mapped, used, retired>>
vars == <<shared, pc, desc, other>>

Init ==
  /\ desc_avail = NoDesc
  /\ next = [d \in Desc |-> NoDesc]
  /\ in_use = [d \in Desc |-> FALSE]
  /\ mapped = {} /\ used = {} /\ retired = {}
  /\ pc = [t \in Threads |-> "idle"]
  /\ desc = [t \in Threads |-> NoDesc]
  /\ other = [t \in Threads |-> NoDesc]

At(t, label) == pc[t] = label
Goto(t, label) == pc' = [pc EXCEPT ![t] = label]
Set(var, t, value) == [var EXCEPT ![t] = value]

(* desc_avail still is what get_hazardous_pointer has read *)
(* a mutant *)
Unchanged_Inverted(t) == desc_avail # desc[t]
Unchanged(t) == desc_avail = desc[t]

-----------------------------------------------------------------------------
(* desc_alloc *)

AllocBegin(t) ==
  /\ At(t, "idle")
  /\ Goto(t, "get")
  /\ UNCHANGED <<shared, desc, other>>

(* get_hazardous_pointer (&desc_avail, hp, 1) *)
Get(t) ==
  /\ At(t, "get")
  /\ desc' = Set(desc, t, desc_avail)
  /\ Goto(t, "check")
  /\ UNCHANGED <<shared, other>>

Check(t) ==
  /\ At(t, "check")
  /\ Goto(t, IF ~Unchanged(t) THEN "get" ELSE IF desc[t] = NoDesc THEN "batch" ELSE "next")
  /\ UNCHANGED <<shared, desc, other>>

Next1(t) ==
  /\ At(t, "next")
  /\ other' = Set(other, t, next[desc[t]])
  /\ Goto(t, "pop")
  /\ UNCHANGED <<shared, desc>>

Pop(t) ==
  /\ At(t, "pop")
  /\ other' = Set(other, t, NoDesc)
  /\ \/ /\ Unchanged(t)
        /\ desc_avail' = other[t]
        /\ Goto(t, "mark")
        /\ UNCHANGED desc
     \/ /\ ~Unchanged(t)
        /\ desc' = Set(desc, t, NoDesc)
        /\ Goto(t, "get")
        /\ UNCHANGED desc_avail
  /\ UNCHANGED <<next, in_use, mapped, used, retired>>

(* Map a batch and link its descriptors. *)
Batch(t) ==
  /\ At(t, "batch")
  /\ \E b \in Batches \ mapped :
       /\ mapped' = mapped \cup {b}
       /\ next' = [d \in Desc |-> IF d[1] = b THEN After(d) ELSE next[d]]
       /\ desc' = Set(desc, t, First(b))
  /\ Goto(t, "publish")
  /\ UNCHANGED <<desc_avail, in_use, used, retired, other>>

(* All but the first become available, if there are still none; who comes too
   late unmaps its batch. *)
Publish(t) ==
  /\ At(t, "publish")
  /\ \/ /\ desc_avail = NoDesc
        /\ desc_avail' = next[desc[t]]
        /\ Goto(t, "mark")
        /\ UNCHANGED <<mapped, desc>>
     \/ /\ desc_avail # NoDesc
        /\ mapped' = mapped \ {desc[t][1]}
        /\ desc' = Set(desc, t, NoDesc)
        /\ Goto(t, "get")
        /\ UNCHANGED desc_avail
  /\ UNCHANGED <<next, in_use, used, retired, other>>

Mark(t) ==
  /\ At(t, "mark")
  /\ in_use' = [in_use EXCEPT ![desc[t]] = TRUE]
  /\ used' = used \cup {desc[t]}
  /\ desc' = Set(desc, t, NoDesc)
  /\ Goto(t, "idle")
  /\ UNCHANGED <<desc_avail, next, mapped, retired, other>>

-----------------------------------------------------------------------------
(* desc_retire, by the thread that has emptied the superblock *)
Retire(t) ==
  /\ At(t, "idle")
  /\ \E d \in used :
       /\ in_use' = [in_use EXCEPT ![d] = FALSE]
       /\ used' = used \ {d}
       /\ retired' = retired \cup {d}
  /\ UNCHANGED <<desc_avail, next, mapped, pc, desc, other>>

(* No thread has d from get_hazardous_pointer. *)
(* a mutant *)
Freeable_Always(d) == TRUE
Freeable(d) == \A t \in Threads : desc[t] = d => ~(pc[t] \in {"next", "pop"})

(* desc_enqueue_avail, called for a descriptor that waits to be freed *)
PushBegin(t) ==
  /\ At(t, "idle")
  /\ \E d \in retired :
       /\ Freeable(d)
       /\ retired' = retired \ {d}
       /\ desc' = Set(desc, t, d)
  /\ Goto(t, "push_read")
  /\ UNCHANGED <<desc_avail, next, in_use, mapped, used, other>>

PushRead(t) ==
  /\ At(t, "push_read")
  /\ other' = Set(other, t, desc_avail)
  /\ next' = [next EXCEPT ![desc[t]] = desc_avail]
  /\ Goto(t, "push")
  /\ UNCHANGED <<desc_avail, in_use, mapped, used, retired, desc>>

Push(t) ==
  /\ At(t, "push")
  /\ other' = Set(other, t, NoDesc)
  /\ \/ /\ desc_avail = other[t]
        /\ desc_avail' = desc[t]
        /\ desc' = Set(desc, t, NoDesc)
        /\ Goto(t, "idle")
     \/ /\ desc_avail # other[t]
        /\ Goto(t, "push_read")
        /\ UNCHANGED <<desc_avail, desc>>
  /\ UNCHANGED <<next, in_use, mapped, used, retired>>

-----------------------------------------------------------------------------

Step(t) ==
  \/ Get(t) \/ Check(t) \/ Next1(t) \/ Pop(t) \/ Batch(t) \/ Publish(t) \/ Mark(t)
  \/ PushRead(t) \/ Push(t)
Next == \E t \in Threads : AllocBegin(t) \/ Retire(t) \/ PushBegin(t) \/ Step(t)

Spec == Init /\ [][Next]_vars

(* Some thread that is in a call goes on; the others may stop for ever. *)
FairSpec == Spec /\ WF_vars(\E t \in Threads : Step(t))

-----------------------------------------------------------------------------
(* Properties *)

OrNone(S) == S \cup {NoDesc}
Label == {"idle", "get", "check", "next", "pop", "batch", "publish", "mark", "push_read", "push"}

(* The variables keep their types, and only mapped memory is used. *)
TypeOK ==
  /\ desc_avail \in OrNone(Desc)
  /\ next \in [Desc -> OrNone(Desc)]
  /\ in_use \in [Desc -> BOOLEAN]
  /\ mapped \subseteq Batches
  /\ used \cup retired \subseteq mapped \X (1 .. NUM_DESC_BATCH)
  /\ pc \in [Threads -> Label]
  /\ desc \in [Threads -> OrNone(Desc)]
  /\ other \in [Threads -> OrNone(Desc)]
  /\ \A t \in Threads : ~(pc[t] \in {"idle", "get", "check", "batch"}) => desc[t][1] \in mapped

(* The descriptors in the list, from the first one on *)
Avail ==
  LET path[k \in 0 .. Cardinality(Desc)] ==
        IF k = 0 THEN {desc_avail} \ {NoDesc}
        ELSE path[k - 1] \cup ({next[d] : d \in path[k - 1]} \ {NoDesc})
  IN path[Cardinality(Desc)]

Holders(d) == {t \in Threads : desc[t] = d /\ pc[t] \in {"mark", "push_read", "push"}}
Made(t) == IF At(t, "publish") THEN {desc[t][1]} ELSE {}

(* No assertion fails: a descriptor that desc_alloc or desc_enqueue_avail works
   on is not in use, in whatever order it was retired, freed and handed out; one
   that is with a heap, to be retired some time, is. *)
GAsserts ==
  /\ \A t \in Threads : pc[t] \in {"mark", "push_read", "push"} => ~in_use[desc[t]]
  /\ \A d \in used : in_use[d]

(* The types and the assertions; and every descriptor is in one place:
   available, on its way out of or into the list, with a heap, or retired.  So
   none is handed out twice, however often it has been freed and taken out while
   another call was looking at it, and none gets lost; the batch of a call that
   came too late is unmapped. *)
DescsAccounted ==
  /\ TypeOK
  /\ GAsserts
  /\ LET avail == Avail
         made == UNION {Made(t) : t \in Threads}
     IN \A d \in Desc :
          Cardinality({d} \cap avail) + Cardinality({d} \cap used) + Cardinality({d} \cap retired)
            + Cardinality(Holders(d)) = IF d[1] \in mapped \ made THEN 1 ELSE 0

(* As long as somebody goes on, calls return (or there is no more memory). *)
Returns == \E t \in Threads : ~At(t, "idle") /\ At(t, "idle")'
LockFree ==
  []<><<Returns>>_vars \/ <>[](\A t \in Threads : At(t, "idle") \/ (At(t, "batch") /\ mapped = Batches))

=============================================================================
