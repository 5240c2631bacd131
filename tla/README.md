# michael-alloc: a TLA+ development

The repository is an implementation of Maged Michael's lock-free memory allocator
(`src/lock-free-alloc.c`), with the lock-free structures it stands on (hazard
pointers, an array queue, Michael and Scott's queue, a linked-list set) and the
programs that test them (`src/test.c`). This directory specifies it in TLA+, checks
the specification with TLC on small instances and proves theorems about it with
TLAPS.

| Code | Module | What it is to implement | Run | Proofs |
|---|---|---|---|---|
| `lock-free-alloc.c`, with what it drives | `LockFreeAlloc` | | `two_superblocks`, `one_superblock` | `LockFreeAllocProofs` |
| the same, with the loops of the delayed-free queue | `LockFreeAllocProgress` | | `lock_free` | |
| its list of descriptors | `DescAvail` | | `desc_avail` | `DescAvailProofs` |
| `lock-free-queue.c` | `LockFreeQueue` | `ConcurrentQueue` | `lock_free_queue` | `LockFreeQueueProofs` |
| `hazard-pointer.c`, from `get_hazardous_pointer` on | `HazardPointers` | | `hazard_pointers` | `HazardPointersProofs` |
| `hazard-pointer.c`, small ids | `SmallIds` | | `small_ids` | `SmallIdsProofs` |
| `lock-free-array-queue.c` | `LockFreeArrayQueue` | `ConcurrentBag` | `array_queue` | `LockFreeArrayQueueProofs` |
| `mono-linked-list-set.c`, `.h` | `LinkedListSet` | `ConcurrentSet` | `linked_list_set` | `LinkedListSetProofs` |
| `atomic.h` | `AtomicOps` | `AtomicWord` | `atomic_ops` | `AtomicOpsProofs` |
| `mono-membar.h` | `Membar` | | (used by `HazardPointers`) | |

`MC<Module>.tla` has the definitions an instance needs, `<Run>.cfg` (in camel case)
the values of the constants. `RetireAba.cfg` and `ActiveEmpty.cfg` are runs of
`LockFreeAlloc` that end in a counterexample (section 4). `PROJECT.json` is the
index: components, runs, mutants, the source lines of each definition, hazards,
findings, theorems.

To repeat a run: `tlc -config TwoSuperblocks.cfg MCLockFreeAlloc`; the proofs:
`tlapm LockFreeAllocProofs.tla`, and so on (some minutes each).

## 1. Inventory

### Allocator: `lock-free-alloc.c`
State: `heap->active`; for every superblock a descriptor with its anchor (`avail`,
`count`, `state` in one word), `in_use`, `sb`; the free slots, linked through their
first words; `heap->sc->partial`.
Operations: `mono_lock_free_alloc` takes the active descriptor, else one from the
partial queue, pops a slot with a CAS of the anchor and gives the descriptor back;
else it makes a new superblock and publishes it. `mono_lock_free_free` pushes the
slot with a CAS of the anchor; the free that makes a superblock EMPTY helps
retiring, the one that finds it FULL gives the descriptor back.
`mono_lock_free_allocator_check_consistency` drains the partial queue and compares
chains and counts when all threads are done.
Hard: ownership without locks (a descriptor is owned by whoever took it out of
`active` or the queue; a FULL one is referenced from nowhere); a link read after the
anchor and used before the CAS; lost races that must be undone; memory unmapped
while others still run.
Correct when: no object is handed out twice, no slot and no descriptor is lost,
nothing is unmapped under an object, EMPTY superblocks are retired once, every
`g_assert` holds, and calls keep returning whoever is stopped.

### Available descriptors: `desc_alloc`, `desc_enqueue_avail`
State: `desc_avail`, a stack linked through `desc->next`. Descriptors come from the
operating system in batches and never go back to it.
Hard: pop reads `desc->next` before its CAS (hazard pointer 1, and the hazardous
free before a push); two threads getting a batch at once.

### Partial queue: `lock-free-queue.c`
State: `head`, `tail`, `node->next` (a pointer, or `INVALID_NEXT`, `FREE_NEXT`,
`END_MARKER`), `has_dummy`, the dummies with their `in_use`.
Operations: `enqueue`, `dequeue`, `try_reenqueue_dummy`, `free_dummy`.
Hard: the last node cannot be taken, so a dummy has to come back after it; several
dequeues notice at once; a dequeued dummy sits in the delayed-free queue; the tail
lags. Calls the hazardous free, is called by its callbacks.
Correct when: it is a FIFO queue that may say NULL while another thread is busy with
the dummy, never loses a node or a dummy, and never enqueues one twice.

### Hazard pointers and delayed free: `hazard-pointer.c`
State: `hazard_table` (three pointers a thread), `delayed_free_queue`.
Operations: `get_hazardous_pointer` (read, set, fence, read again),
`mono_thread_hazardous_free_or_queue` (try up to three delayed items, then free or
queue its own), `mono_thread_hazardous_try_free_all`.
Hard: the scan is not atomic; a free function may itself free; an item may stay
guarded for ever.
Correct when: nothing is handed to its free function while a thread that found it
reachable guards it.

### Small ids: `hazard-pointer.c`
State: the id table, `small_id_next`, `highest_small_id`, the pages of the hazard
table. Operations: `small_id_alloc`, `small_id_free` (never called). Hard: growth by
doubling; publication of a fresh slot against a scan; a thread that never attached
uses id 0, which belongs to another thread.

### Array queue: `lock-free-array-queue.c`
State: chunks, `num_used_entries`, an entry state each (free, busy, used).
Operations: `push`, `pop`, `array_nth` (appends chunks), cleanup. Hard: the index
and the entry are claimed by different CASes; `num_used_entries` may fall below a
used entry.

### Linked-list set: `mono-linked-list-set.c`
State: a sorted list, deleted nodes marked in their own `next`. Operations: `find`
(unlinks marked nodes), `insert`, `remove`. Hard: the two CASes of a remove, a find
that helps, three hazard pointers per thread.

### OS memory: `sgen-gc.c`, `mono-mmap.c`
Aligned allocation by mapping more than the size and trimming; `total_alloc`, kept
without synchronization.

### Test programs: `test.c`, `test-queue.c`
`TEST_ALLOC`: threads walk a table, freeing what they find and allocating what they
miss. `TEST_LLS`: the same for the set (the one the Makefile selects). `TEST_QUEUE`
calls `mono_thread_hazardous_free_or_queue` with two arguments and
`TEST_DELAYED_FREE` calls functions that are nowhere defined: neither compiles any
more. `test-queue.c` is a stand-in for the partial queue.

### Atomic operations and barriers: `atomic.h`, `mono-membar.h`
State: the word in memory, and what a processor keeps (a reservation, registers).
Operations: compare and exchange, exchange, increment, decrement, exchange and add,
each with a sequence of instructions per processor or compiler; three barriers. Hard:
whatever is made of two accesses to the word; additions that wrap.
Correct when: each operation has its effect at one moment and answers what belongs
to it, and a retry is due to somebody else's progress.

### The rest
`mono-mmap.c` (system calls), `fake-glib.h`, `metadata.h`, `alloc.h`,
`delayed-free.h` (declarations), the iOS application that starts the test from a
button.

### How they interact
`mono_lock_free_alloc` and `_free` call the queue's `dequeue` for a partial
descriptor. Putting one back goes through `mono_thread_hazardous_free_or_queue
(desc, desc_put_partial, ...)` and retiring one through the same with
`desc_enqueue_avail`, so that a node comes back to a list only when nobody guards
it. A dequeued dummy goes the same way with `free_dummy`. Each such call also tries
three items other threads have left behind, so any thread may execute any thread's
callback, and a callback may enqueue. All of this is shared between threads; there
are no messages.

## 2. What is modelled

All modules are written alike. There is one process per thread, whose control is
`pc`, and one action per access to shared memory that another thread can separate
from the next one; locals of functions are functions of the thread, and work on
locals belongs to the access before it. A label is named after the place in the code
where the thread stands. What a thread may call next, with which arguments, is an
action of its own, enabled at `idle`, and reproduces how `test.c` and the other
components of the repository call it.

The modules rest on one another as the code does, each on the abstract promise of
the one below: `LockFreeQueue`, `DescAvail` and `LinkedListSet` take of the hazard
pointers that a node is not freed while a thread has it from
`get_hazardous_pointer`, which `HazardPointers` proves (`NoUseAfterFree`);
`HazardPointers` takes of the delayed-free queue what `ConcurrentBag` says, which
the array queue is proved to implement; all take of a CAS what `AtomicWord` says,
which `AtomicOps` is proved to implement; `LockFreeAlloc` has the partial queue and
the list of descriptors at their commits, as `LockFreeQueue` and `DescAvail`
justify. That nobody disturbs a thread's place in the hazard table is `SmallIds`.

### `LockFreeAlloc`

`LockFreeAlloc` has one process per thread and one action per access to shared
memory that another thread can separate from the next. A thread's control is `pc`,
and its locals are four frames, one per function that can be on its stack: `op`
(alloc, free), `deq`, `enq`, `haz`. A call fills the callee's frame, which holds the
label to return to.

| Code | Model |
|---|---|
| `heap->active` | `active` |
| `desc->anchor`, `desc->in_use`, `desc->sb` | `anchor[d]`, `in_use[d]`, `mapped[d]` |
| the first words of the slots of `desc->sb` | `word[d]`: a slot number (a link) or `User` (what the mutator wrote) |
| `desc_avail` | the sequence `desc_avail` |
| `queue->head` ... `tail` | the sequence `queue` |
| `node->next` as the assertions of the queue see it | `next` |
| `dummy->in_use`, `queue->has_dummy` | `dummy_in_use`, `has_dummy` |
| `delayed_free_queue` | the set `delayed` |
| hazard pointers 0 and 1 | `hp` |
| `mono_lock_free_alloc`, `alloc_from_active_or_partial`, `list_get_partial` | `AllocStep` |
| `alloc_from_new_sb`, `desc_alloc` | `NewSbStep` |
| `mono_lock_free_free`, `list_remove_empty_desc` | `FreeStep` |
| `mono_lock_free_queue_dequeue`, `try_reenqueue_dummy`, `mono_lock_free_queue_enqueue` | `QueueStep` |
| `mono_thread_hazardous_free_or_queue` and the three callbacks | `HazardStep` |
| `thread_func` of TEST_ALLOC (test.c:160) | `AllocBegin`, `AllocReturn`, `FreeBegin`: a thread frees any live object, its own or another's |

`desc_retire` and `list_put_partial` are operators used by the actions that call
them. `set_anchor` is the test `SetAnchorSucceeds` and the update beside it.

What the model abstracts from, and why that is right:

* **Sequential consistency.** On x86 each CAS is a locked instruction, and the code puts a
  barrier wherever it needs order between two accesses; the model runs the program
  order. Where a barrier is what correctness hangs on, between a hazard pointer and
  the second read, `HazardPointers` has store buffers.
* **Reads that nobody can separate.** A read of shared memory followed only by work
  on locals until the next shared access is one action with that work.
  `FreeReadAnchor` joins the read of the anchor to the write of the link into the
  slot: the freeing thread is the only one that may write the slot, and whoever
  reads a link from it meanwhile fails its CAS, since the slot is not free in the
  anchor it has read.
* **The queue, the descriptor list and the delayed queue at their commits.** The
  thread sets the hazard pointer when it reads head, tail or `desc_avail` and the
  CAS is a later action that succeeds if the structure still has that end. That the
  links read in between are still right at the CAS is what the hazard pointers are
  for; here it is assumed, and the condition it rests on is the checked property
  `RecycledUnguarded`. That under this condition the links are right, also with a
  tail that lags, is what `LockFreeQueue` and `DescAvail` check access by access.
* **The scan of the hazard table is one step**, and any delayed item may be popped.
  `HazardPointers` has the scan pointer by pointer, `LockFreeArrayQueue` the queue
  entry by entry. As `ConcurrentBag` says, a pop may find nothing though items are
  there when another thread may be in the queue (`InCompany`). What a single step
  cannot show is that the loops of that queue may not end; see
  `LockFreeAllocProgress`.
* **`in_use` of a dummy**: `get_dummy` looks at one dummy after the other, so with
  others changing places meanwhile it may find none although one is free at each
  moment; `ReenqueuePickDummy` therefore lets it fail as soon as one is in use.
* **One heap, one size class**, as in the test program. Two heaps share only
  `desc_avail` and the delayed queue.
* **The assertions.** `aborted` is set by the assertion of `desc_retire` after a
  free has taken `heap->active`, because that one can fail (section 4). Each of the
  others is a conjunct of `GAsserts`.

Bounds: `Batches`, the batches of descriptors the operating system will give, bounds
the number of superblocks. It is the only bound inside a guard (`DescAllocBatch`).
The counters of the code do not grow: `count` is at most `MaxCount`, `kept` ends at
2, `tries` at `FreeAttempts + 1`.

### `LockFreeAllocProgress`

`LockFreeAlloc` for the question of progress. A thread at a pop or a push of the
delayed-free queue has one step more, `Spin`: once round the loop of
`mono_lock_free_array_queue_push` (lines 139-142) or `_pop` (169-177) without
success, possible while another thread may be in that queue. `Spin` changes only
`turn`, which exists to make it a step that fairness can be used up on: a thread that
takes steps need not get on.

### `DescAvail`

The stack of descriptors with its links: a descriptor is a place in a batch, `next`
its link, `desc_avail` the top.

| Code | Model |
|---|---|
| `desc_alloc`, the pop | `AllocBegin`, `Get` and `Check` (`get_hazardous_pointer`), `Next1` (the read of `desc->next`), `Pop` (the CAS) |
| `desc_alloc`, a new batch | `Batch`, `Publish` (its CAS, and `mono_sgen_free_os_memory` when it fails), `Mark` |
| `desc_retire` | `Retire` |
| `desc_enqueue_avail` | `PushBegin`, `PushRead`, `Push` |

A retired descriptor is pushed when no thread has it from `get_hazardous_pointer`
(`Freeable`). `Batches` bounds the memory, in the guard of `Batch`. The map from
`mmap` to a batch is exact in that an unmapped batch can be mapped again at the same
address.

### `LockFreeQueue` and `ConcurrentQueue`

`head`, `tail`, `next` and the dummies as in the code; the fields are read and
written one at a time.

| Code | Model |
|---|---|
| `mono_lock_free_queue_enqueue` | `EnqueueBegin`, `TailGet` to `TailConsistent`, `Link`, `TailHelp`, `Swing` |
| `mono_lock_free_queue_dequeue` | `DequeueBegin`, `HeadGet` to `HeadConsistent`, `HeadHelp`, `Unlink`, `Taken`, `DummyGone` |
| `try_reenqueue_dummy`, `get_dummy` | `HasDummy`, `GetDummy` (one dummy a step), `DummyCas`, then the actions of enqueue |
| `mono_thread_hazardous_free_or_queue` of a dummy | `DummyFree`: a dummy nobody guards is freed, and any of the delayed items that nobody guards may be; one step, without the three tries and the loops of the array queue |
| `mono_thread_hazardous_try_free_all` by another thread | `TryFree` |

`ConcurrentQueue` is what it promises. An enqueue appends its node and a dequeue
takes the oldest one, each at one moment. A dequeue may find nothing though nodes
are there: the code says NULL when it meets the dummy, or a lone node it cannot
replace by a dummy. The abstract specification narrows down when: another call was
under way at some time during it, or there was at most one node when it began.
`may_fail` is a history variable that records it; the implementation has the same
variable and reads it nowhere.

### `HazardPointers` and `Membar`

Threads follow pointers from shared words to nodes. Stores to the hazard table go
through the store buffer of the processor (`buffer`, `Drain`), from which they reach
memory in order; a CAS waits until it is empty, and so does `mono_memory_barrier` if
on `OnPlatform` it orders a store before a load. Loads happen in the order of the
code. That is the memory of x86 processors (`TotalStoreOrder`), to which the module
is restricted by an assumption. On ppc, arm and ia64 the CASes of `atomic.h` are no
full fences (lines 730-761, 812-825, 1052), the write barrier of ppc is `eieio`
(mono-membar.h:126), and the loads of a scan (hazard-pointer.c:174-178) have no
barrier between them: there the scan may pass the CAS that unlinks the node, and
nothing is claimed about it (section 6).

| Code | Model |
|---|---|
| `get_hazardous_pointer` | `GetBegin`, `GetRead` (read and set), `GetCheck` (the barrier and the second read) |
| `mono_hazard_pointer_set`, `_clear` as its callers use them | `Keep` (from hazard pointer 0 to a later one), `Done` |
| the CAS by which a caller takes the node out | `Unlink` |
| `mono_thread_hazardous_free_or_queue` | `Unlink` (its call), `Pop`, `PopNone`, `ScanOwn`, `Free`, `Queue` |
| `mono_thread_hazardous_try_free_all` | `TryFreeAll`, then the same; it ends with the first item that is not freed |
| `is_pointer_hazardous` | `BeginScan`, `ScanStep`, one hazard pointer of one thread a step |
| `try_free_delayed_free_item` | `Pop` to `Free` or `Queue`; an item that might lock goes back unscanned in a lock-free context (`MustWait`) |
| `mono_thread_attach` | `Attach`: the thread is the next to be scanned; a scan that has begun does not see it |

`Membar` says for each of the processors and compilers that `mono-membar.h`
distinguishes which of the four orders its barriers enforce. The constants are
smaller than in the code, with no other case in between: two hazard pointers instead
of three (one under which pointers are read and one to which they are moved; the set
uses three, `LinkedListSet` has them all), one delayed item tried before its own
instead of three (a loop over the same step), two buffered stores.

### `SmallIds`

`small_id_alloc` is one critical section, hence one action (`Attach`): the search
from `small_id_next` on and its wrap, the doubling of the id table, the page of the
hazard table made accessible, the clearing of a fresh slot, `highest_small_id`.
`Detach` is `small_id_free` by a thread that leaves: nobody calls it yet. `Guard`
and `Clear` write to the slot `mono_hazard_pointer_get` returns, which a thread that
has not attached gets too. Sizes are counted in units of which a slot has
`EntrySize` and a page `PageSize`; in the run a page is not a multiple of a slot, so
the rounding matters, and the last page has room for more than
`HAZARD_TABLE_MAX_SIZE` slots. What is reserved is whole pages (`ReservedPages`), as
`mono_valloc` maps them. The table of ids is bounded by `HAZARD_TABLE_MAX_SIZE`, which
the code asserts; `ThreadsFit` says that the threads are as few.

### `LockFreeArrayQueue` and `ConcurrentBag`

| Code | Model |
|---|---|
| `mono_lock_free_array_nth` | `Walk` (links never change once set, so the walk up to the first empty link is one step) and `Link` (the CAS that appends a chunk; the loser frees its own) |
| `..._queue_push` | `PushBegin`, `PushClaim` (the increment), `Walk`, `MakeBusy`, `PushWrite`, `PushUsed`, `PushCheck`, `PushRaise` |
| `..._queue_pop` | `PopBegin`, `PopRead`, `PopClaim`, `Walk`, `MakeBusy`, `PopCopy`, `PopFree` |
| `..._queue_cleanup` | `Cleanup`, when all threads are joined |

`pool` holds the items that the callers may push. `MaxUsed` bounds
`num_used_entries`, in the guard of `PushClaim`: in the code it may grow without
bound while pushes keep meeting busy entries. `mono_lock_free_array_iterate` changes
nothing and has no caller.

`ConcurrentBag`: an item that was pushed stays until it is popped, once, in whatever
order. A pop may say that there is none while there are some, but only if there are
as many other calls under way as there are items: each of these can hide one.

### `LinkedListSet` and `ConcurrentSet`

A link is a node or NULL with the mark the code keeps in its lowest bit. A thread's
locals `prev`, `cur` and `next` are guarded by hazard pointers 2, 1 and 0.

| Code | Model |
|---|---|
| `mono_lls_find` | `FindHead`, `FindHeadCheck`, `FindNext`, `FindNextCheck`, `FindPrevCheck`, `FindUnlink` |
| `mono_lls_insert` | `Insert`, the search, `InsertLink` |
| `mono_lls_remove` | `Remove`, the search, `RemoveMark`, `RemoveUnlink`, and the search again when the last CAS fails |
| `MONO_LLS_FOREACH_SAFE` | `Iterate`, `IterateHead`, `IterateHeadCheck`, `IterateNext`, `IterateNextCheck` |
| hazardous free | `Scan` (nobody guards the node) and `Free`, two steps: a hazard pointer set in between does not save it |

The code frees the node within `mono_lls_find` (lines 128-129) and `mono_lls_remove`
(196-197). The model puts it into `retired` there, and `Scan` and `Free` follow at any
later time: more orders than the code has, but a call does not wait for them.

As in `test.c`, a node is removed by one thread, the one that has inserted it.
`ConcurrentSet`: a set of keys; insertions and removals that succeed have their
effect at one moment, and searches and refusals answer what was the case at some
moment during the call (`was`, a history variable).

### `AtomicOps` and `AtomicWord`

Every operation of `atomic.h` is made, on each processor or compiler, in one of five
ways: one instruction or builtin; a loop around a compare-and-swap that rereads
(`cas`) or uses what the failing attempt has found (`cmpxchg`); a load with
reservation and a store conditional (`reserve`), where `Interrupt` may drop the
reservation at any time; for ARM before version 6 a swap that is swapped back if the
word was not as expected (`swap`). ia64 is two builds, for gcc and, with
`__INTEL_COMPILER`, from the builtins of that compiler; in the latter
`InterlockedExchangeAdd` (lines 1140-1148) ends without a return, so that its caller
may find any value (`NoReturn`). `By(build, kind)` says which; the actions make
the accesses one by one. `AtomicWord` is the promise: one effect at one moment,
additions modulo `WordSize`. The functions for pointers have the same instructions
as those for integers.

## 3. What the runs check

| Run | Instance | Distinct states |
|---|---|---|
| `two_superblocks` | 2 threads, 1 batch of 2 descriptors, 2 dummies, 2 slots, 3 delayed items tried | 789,798 |
| `one_superblock` | 3 threads, 1 descriptor, 2 dummies, 3 slots | 103,730 |
| `lock_free` | 2 threads, 2 batches of 1 descriptor, 2 slots, 1 delayed item tried | 2,299,192 |
| `desc_avail` | 2 threads, 2 batches of 2 descriptors | 1,346,394 |
| `lock_free_queue` | 2 threads, 2 nodes, 2 dummies | 102,362 |
| `hazard_pointers` | 2 threads, 2 nodes (one might lock), 1 word, x86_64, 2 stores buffered, 1 delayed item tried | 322,305 |
| `small_ids` | 5 threads, slots of 3, pages of 7, 8 ids at most | 123,721 |
| `array_queue` | 2 threads, 2 items, 3 chunks of 2 entries, `num_used_entries` up to 3 | 508,263 |
| `linked_list_set` | 2 threads (one also iterates), 2 nodes, 2 keys | 922,025 |
| `atomic_ops` | 2 threads, words of 3 values, 2 arguments, all processors | 369,420 |

Every property is broken by a mutant of a modelled definition (`PROJECT.json`): a
CAS that does not compare, a hazard scan in the other order, an off-by-one, a dummy
that keeps its `in_use`, and so on.

### The allocator

`two_superblocks` is the main one. With two descriptors of two slots, FULL, PARTIAL
and EMPTY follow each other within two calls; each descriptor goes through `active`,
the queue, the descriptor list and the delayed queue; both threads dequeue at once
and meet the missing dummy; descriptors are retired and reused while the other
thread still has an old pointer to them. Threads and dummies are interchangeable in
the specification, so they are symmetric; liveness is checked without symmetry.
`one_superblock` trades the second superblock for a third slot and a third thread:
only there does one CAS of the anchor have two competitors, and can a chain of free
slots be wrong in its middle. In `lock_free` descriptors come one by one, so a
thread in need of one while the other holds the first goes through the operating
system, and `FreeAttempts` is 1, since the loop over delayed items repeats one step.

The safety properties:

* `OneOwner`: a descriptor or dummy is in at most one place (active, queue, list,
  delayed, or one thread's hands), once. This is lock-free-alloc.c:45.
* `NoneLost`: exactly the FULL descriptors in use are in no place.
* `NoDoubleAllocation`: what a thread is about to return is neither live nor held by
  another thread.
* `SlotsAccounted`: at every moment the chain from `anchor.avail`, `count` long,
  holds exactly the slots nobody has, and the state agrees with the count. It is the
  consistency check of the code, made for every state instead of the last.
* `ObjectsIntact`: the word of a live object is the mutator's, and no superblock is
  unmapped under an object.
* `GAsserts`: the other assertions of the sources hold where they are evaluated.
* `DummyAccount`: `has_dummy` and the dummies' `in_use` say what is the case,
  whatever dequeues race.
* `RecycledUnguarded`: a node comes back to a list only while nobody guards it.
* `EmptyIsFinal`: an EMPTY anchor changes only with a new superblock.

### The other components

**`desc_avail`.** Two batches of two, so that a list has a link to go wrong, two
threads can get a batch at once and the one that comes late unmaps its own, and a
descriptor can be taken, retired and put back while the other thread still has the
link it read before. `DescsAccounted` (with the types and the assertions): each
descriptor of a mapped batch is in exactly one place. It fails when a descriptor is
put back while a thread guards it.

**`lock_free_queue`.** Two nodes and two dummies: the list grows and shrinks over
the lone dummy and the lone node, both threads notice that the dummy is gone, and
both dummies are under way at once. `GAsserts`: the assertions of the code, at their
lines. `DummiesAccounted` (with the types): one dummy at most in the list, and each
dummy in one place. `TailLagsByOne`: the tail is at the last node or the one before,
and never behind the head, though a dequeue, too, moves it on. `IsFifo`: the
refinement of `ConcurrentQueue`.

**`hazard_pointers`.** On x86_64. One word and two nodes suffice for what matters: a pointer
moves from hazard pointer 0 to 1 under a scan, or is still in the store buffer when
the scan comes by, while the word already holds another node. `NoUseAfterFree` is
the promise of hazard pointers; `OnePlace` (with the types) says that nodes that are
popped, found hazardous and pushed back are neither freed twice nor lost;
`MightLockWaits` that `free_func` is not called in a lock-free context if it might
lock; `AllFreed` that every node is freed in the end.

**`small_ids`.** Five threads, so that the id table doubles twice and the search
wraps over gaps. `IdsAreOwn`: ids are exclusive. `ScanCoversAll` (with the types): a
scan up to `highest_small_id` meets all attached threads and stays within the
accessible pages, which hold as many slots as `hazard_table_size` says, a partly
filled page included, and lie within those that were reserved. `GuardsStay`: nobody but its
thread writes to a hazard pointer, but for the slot of id 0 (section 4).

**`array_queue`.** Two chunks of two entries and a third one for the loser of the
race to append; the two threads meet on one index in all four combinations.
`BusyIsOwned` (with the types): a BUSY entry belongs to one thread. `NotStranded`: a
used entry the count does not cover is somebody's business. `ChunksAccounted`: no
chunk leaks, and none is left after the cleanup. `IsBag`: the refinement.
`CallsReturn`: section *Liveness*.

**`linked_list_set`.** Two nodes with two keys: the node before the one that is
looked at is removed, and so is the node itself; a freed node comes back with
another key; insertions compete for one place and for one key. `Sorted`, marked
nodes included. `NoUseAfterFree`: what a call follows links from is not free
(iterations are left out, see section 4). `NodesAccounted` (with the types): a
removed node leaves the list, by whoever's hand, and is freed once; none is lost.
`Linearizable`: the refinement of `ConcurrentSet`.

**`atomic_ops`.** Words of three values, so that a comparison can fail in two ways
and the additions wrap; all builds, since `build` is chosen in `Init`. `TypeOK`:
additions wrap. `IsAtomic`: the refinement, in the builds that keep to it. The
`InterlockedExchangeAdd` of sparc, which answers the new value, and that of the Intel
compiler for ia64, which answers nothing, are excluded (`EveryCall`): nothing calls
the function.

### Why the bounds are enough
Each of the races is between two threads and about one or two nodes, and the
instance lets it happen: the counterexamples of the mutants are found within it.
These larger instances were checked once, safety only, with symmetry, and hold too:
the array queue with 3 threads (550,000 states), the queue with 3 threads (658,000),
the set with 3 nodes (3.6 million), the hazard pointers with 2 words (1.2 million),
the descriptors with 3 threads (3.6 million). They take longer than a run should.

### Liveness and fairness
Lock-freedom is that calls keep returning wherever some thread has stopped. So
`LockFree` is checked for `WF_vars` of "some thread that is in a call takes a step"
(of `ProgressNext` in `LockFreeAllocProgress`): nothing is assumed of any particular
thread, and the scheduler may stop one at any point for ever. A program with a
runnable thread and a processor satisfies this. It says that calls return infinitely
often, or that from some time on nobody is in a call. Excepted are runs of the
allocator that end in the assertion of section 4; runs in which, there and in
`DescAvail`, the memory of the bound `Batches` is used up; and, for `AtomicOps`, runs with infinitely
many interrupts, which a store conditional may not survive. `ObstructionFree` is for
all builds: a thread that is left alone returns.

The array queue is not lock-free (section 4), so `CallsReturn`
assumes weak fairness of each thread (`ThreadFairSpec`): a scheduler that gives every
thread its turn. What stands on that queue inherits this:

* The allocator calls it in every hazardous free (hazard-pointer.c:249, 255, 287).
  `LockFree` of `LockFreeAllocProgress` therefore excepts threads that stop *inside the
  delayed-free queue*: beside the fairness above it assumes that, as long as threads
  are at calls of that queue, one of them gets through (weak fairness of "some
  `DelayedQueueCall`"), which is `CallsReturn`. A thread may go round in the queue any
  number of times before (`Spin`). Without this assumption `LockFree` is violated: a
  thread stopped in the queue keeps another one spinning. What the run shows is that
  nothing else in the allocator waits for a stopped thread: not the loops over the
  anchor, `heap->active`, the partial queue, `desc_avail` and the missing dummy.
* `LockFree` of `LockFreeQueue` speaks of the loops of the partial queue itself. The
  hazardous free of a dummy is the single step `DummyFree`, which always completes; in
  the code it goes through the array queue, so a dequeue that frees a dummy has the
  same exception.
* `LockFree` of `LinkedListSet` speaks of the loops of the set. The hazardous frees
  inside `mono_lls_find` and `mono_lls_remove` are not part of the calls of the model.

Freeing everything in the end (`AllFreed`) takes more: that calls go on and store
buffers drain (weak fairness), that the program calls
`mono_thread_hazardous_try_free_all` again and again, that readers let go of their
nodes (strong fairness of `TryFreeAll` and `Done`, which stand for what callers do),
and that of calls that meet on the queue again and again one gets an item (strong
fairness of some `Pop`). The last is the promise of the bag that a pop fails only
beside another call: without it two threads could make each other's pop fail for
ever.

`CHECK_DEADLOCK FALSE` stands where the program really ends, or where a bound stops
it: in the runs of `LockFreeAlloc`, after a failed `g_assert`, or with all batches
taken and every descriptor FULL; in `desc_avail` with all batches taken; in
`array_queue` after the cleanup, and at `MaxUsed`; in `hazard_pointers` when all
threads have exited.

## 4. What the code says and does not do

Two runs violate a property on purpose; both hold of the program as it stands.

**`retire_aba`** (lock-free-alloc.c:470). Lines 40-42 say that the ABA problem
cannot occur since descriptors are owned. The free that sets EMPTY (line 465) does
not own the descriptor when it compares `heap->active` with it. Between the two, the
owner can find the descriptor EMPTY and retire it, get it back from `desc_alloc`,
give it a new superblock and publish it: the CAS succeeds on a descriptor that is
PARTIAL, and `desc_retire` fails its assertion at line 224.

**`active_empty`** (lock-free-alloc.c:488, and 375). An owner of a PARTIAL
descriptor publishes it without looking at its state again. When the last object has
been freed in between, and that free has found nothing to take out of
`heap->active`, the allocator comes to rest with an EMPTY active descriptor. The
consistency check, called when all threads are joined, asserts PARTIAL at line 572.
The descriptor itself is not lost: the next allocation retires it.

The following was met while modelling, and is stated here; the properties of the
passing runs say how far the code goes.

* **The array queue is not lock-free**, though lock-free-array-queue.c:2 calls it
  so. A thread that stops between making an entry BUSY (lines 142, 177) and letting
  go of it (150, 186) can keep two others going for ever: the pusher increments the
  count over the entry and finds it BUSY, the popper decrements it and finds it BUSY,
  each undoes the other's count, and no call returns. TLC shows this for `CallsReturn`
  under `FairSpec`, with the constants of `ArrayQueue.cfg` and a third thread; hence
  `ThreadFairSpec`, and the exceptions of section 3 for what is built on the queue.
* **A barrier without an instruction.** With msvc, for mips and for cross compilers
  `mono_memory_barrier` stops only the compiler, or nothing at all
  (mono-membar.h:36 for msvc on x86). With `OnPlatform = "msvc"`, `NoUseAfterFree` is
  violated: the hazard pointer is still in the store buffer when the pointer is read
  again. The theorem about it assumes an x86 processor whose barrier is an
  instruction.
* **The count of the array queue can grow.** A push that finds its entry BUSY has
  raised `num_used_entries` (lock-free-array-queue.c:140) and raises it again, so the
  count, and with it the number of chunks, can grow while the items do not. `MaxUsed`
  bounds this in the model, so no run can see it; `ChunksAccounted` and `NotStranded`
  hold for every bound.
* **A guarded item hides those below it.** `try_free_delayed_free_item` pushes an
  item it cannot free back to where the next pop finds it (hazard-pointer.c:255),
  and `mono_thread_hazardous_try_free_all` stops there (line 296). As long as one
  reader holds on, items nobody guards may wait. `AllFreed` assumes that readers let
  go, so it does not show this hiding.
* **Threads that never attached share a slot.** `mono_hazard_pointer_get` has an
  emergency slot for a negative small id (hazard-pointer.c:203), but a fresh
  `MonoInternalThread` is filled with zeroes (line 192), so such a thread writes to
  the slot of the thread with id 0. `GuardsStay` excepts exactly this slot, so it says
  nothing about such a thread; the test programs attach all of theirs.
* **An iteration can follow the link of a freed node.** `MONO_LLS_FOREACH_SAFE`
  (mono-linked-list-set.h:92), "snapshot iteration" by line 84, guards the next node
  by reading the link of the current one twice. When the current node has been
  removed its link does not change any more, while the next one can be removed and
  freed. `mono_lls_find` looks at `*prev` for this reason. The iteration only reads,
  so it is in the model beside the others, and `NoUseAfterFree` is about calls other
  than it.
* **ARM before version 6.** An operation made of `swp` (atomic.h:835) stores its
  value before it knows whether it may, and swaps it back: another thread can see,
  and keep, the value in between. `IsAtomic` excludes these builds (`SoundBuild`),
  `ObstructionFree` does not.

## 5. What is proved

Each theorem holds for every value of the constants that satisfies the assumptions
named in its module, which TLC evaluates in the run of that module.

| Theorem | Module | |
|---|---|---|
| `TypeCorrect == Spec => []TypeOK` | `LockFreeAllocProofs` | types of the allocator |
| `OwnershipCorrect == Spec => []OneOwner` | `LockFreeAllocProofs` | one owner per descriptor and dummy |
| `RecycledAlwaysUnguarded == Spec => RecycledUnguarded` | `LockFreeAllocProofs` | the ABA rule of the hazard pointers |
| `DummyAccountAlways == Spec => []DummyAccount` | `LockFreeAllocProofs` | no dummy lost or enqueued twice |
| `AllocatesOnce == Spec => []NoDoubleAllocation` | `LockFreeAllocProofs` | no slot is handed out twice |
| `SlotsAlwaysAccounted == Spec => []SlotsAccounted` | `LockFreeAllocProofs` | anchors and chains of free slots |
| `ObjectsAlwaysIntact == Spec => []ObjectsIntact` | `LockFreeAllocProofs` | objects keep their contents and memory |
| `EmptyAlwaysFinal == Spec => EmptyIsFinal` | `LockFreeAllocProofs` | no CAS revives an EMPTY anchor |
| `AssertsAlwaysHold == Spec => []GAsserts` | `LockFreeAllocProofs` | the assertions of the code hold |
| `NoneEverLost == Spec => []NoneLost` | `LockFreeAllocProofs` | no descriptor is lost |
| `DescsAlwaysAccounted == Spec => []DescsAccounted` | `DescAvailProofs` | no descriptor of the list lost or handed out twice |
| `QueueAsserts == Spec => []GAsserts` | `LockFreeQueueProofs` | the assertions of the partial queue hold |
| `DummiesAlwaysAccounted`, `TailNeverFarBehind` | `LockFreeQueueProofs` | the other invariants of `LockFreeQueue` |
| `QueueIsFifo == Spec => IsFifo` | `LockFreeQueueProofs` | the partial queue implements the FIFO queue |
| `OnePlaceAlways`, `NoUseAfterFreeAlways`, `MightLockAlwaysWaits` | `HazardPointersProofs` | all safety properties of `HazardPointers` |
| `BusyIsAlwaysOwned`, `ChunksAlwaysAccounted`, `NeverStranded` | `LockFreeArrayQueueProofs` | all invariants of `LockFreeArrayQueue` |
| `QueueIsBag == Spec => IsBag` | `LockFreeArrayQueueProofs` | the array queue implements the bag |
| `TypeCorrect`, `OpsAreAtomic == Spec => IsAtomic` | `AtomicOpsProofs` | the operations implement the atomic word |
| `SortedAlways`, `NeverUsedAfterFree`, `NodesAlwaysAccounted` | `LinkedListSetProofs` | all invariants of `LinkedListSet` |
| `SetIsLinearizable == Spec => Linearizable` | `LinkedListSetProofs` | the list implements the set |
| `IdsAlwaysOwn`, `ScanAlwaysCovers`, `GuardsAlwaysStay` | `SmallIdsProofs` | ids, scans, and that hazard pointers stay |

### The allocator

**Types.** Beyond the types this says that the partial queue never becomes empty,
that what an allocation uses as a slot number is one, and that the callers of
`dequeue` never receive a dummy. `TypeOK` alone is not inductive: `AllocSetAnchor`
needs an anchor in `op[t].old`, which an earlier action put there. The inductive
invariant `TypeInv` is `TypeOK` with `Frames`, which says for each label which
locals of the four frames are set, and for a frame in use to which label it returns.
The proof has a lemma per action, with a step per conjunct the action can disturb;
`OtherFrames` covers the threads that do not move, and small lemmas (`OpDesc`,
`CallsType`, `NextItemType`, ...) the record updates that several actions share.

**Ownership.** `OneOwner` is not inductive. A free that turns a FULL descriptor
PARTIAL owns it from then on without taking it out of a list, so one must know that
a FULL descriptor in use was in no place; the same goes for a dummy whose `in_use`
was not set and for a batch that comes from the operating system. `OwnInv` therefore
says, beside `Unique` (one place per node) and `ListsDistinct`, what is nowhere
(`Unlisted`). That no descriptor is FULL while it is in a list needs one more fact,
which `UsedInv` states: what the allocator reaches, as an owner, through the queue
or through an object, is in use or EMPTY, and stays so. Hence a descriptor in the
available list, whose anchor is whatever it was, is never taken for a live
superblock. The invariant is `OwnershipInv == TypeInv /\ UsedInv /\ OwnInv`; no
counting is needed.

The proof of a step has three parts, each with a lemma per group of actions and in
it a case per action: what the step does to the places of each node (`Effects`: it
stays, one node moves from where it is, or one that was nowhere enters), that the
lists stay distinct, and which nodes become FULL or lose their flag (`FlagsKept`:
only those that the step leaves nowhere). `OwnKept` puts them together.

**The ABA rule.** `GuardInv` says that what a thread frees or enqueues, and what is
at rest (a dummy not in use, memory not acquired), is unguarded. A step `FollowsRule`
if it clears only what is cleared or unguarded (`FreeCheck` looks), guards only what
is listed (it reads a head or a tail) and lists only what is cleared. That the last
two do not collide is ownership: what is cleared is in no list (`ClearedUnlisted`).

**Dummies.** `DummyInv` says where a dummy in use is, that `has_dummy` holds exactly
when there is a current dummy, and that there is one at most. A step loses the
current one only together with `has_dummy` (`DequeueDummy`), gets one only with it
(`ReenqueueClaim`), and drops none whose flag is set (`DropsNone`). That a dummy not
in use is nowhere is part of `OwnInv`.

**Slots.** The anchor has no version, so why does a CAS that finds the anchor it read
not link a stale `next`? The answer is in `AllocSlots`: while a thread is between
its read of the anchor and its CAS, the anchor of its superblock is either the one
it read or has a larger `count`. Only an owner takes slots, and there is one owner
(`HolderAlone`, from `OwnInv`); others can only free, and a free raises the count.
So if the CAS succeeds, nothing has happened in between, and the link the thread has
read is still that of the slot. `SlotInv` puts this beside `Chains`: for a descriptor
in use there is a sequence of as many distinct slots as the count says, linked from
`avail` through the first words, of exactly the slots that are not out (`ChainOK`).
Six lemmas say what a step can do to it: objects change hands (`Peaceful`), an
EMPTY superblock goes (`Retiring`), its first slot is taken (`Taking`), one is
linked in front (`Freeing`), a superblock is new (`Fresh`) or is given up before
anybody saw it (`Unpublished`). That the count is `MaxCount` only if no object is
out, so that nothing is unmapped under an object, is a counting argument
(`ChainLength`).

An owner must also find in use what it works on, and not in use what it gives a new
superblock. `InUseInv` says it place by place: what is active, queued, dequeued or
on its way to the queue is in use, what is available or on its way there is not. The
invariant is `SlotsInv == OwnershipInv /\ InUseInv /\ SlotInv /\ mapped = in_use`.

`FreeChain` in `SlotsAccounted` is a recursive function. That it is the sequence of
`ChainOK` is shown without induction over data: if they differed, they would at a
least place (`Least`, from the well-founded order of finite sets), where both have
the same predecessor (`FreeChainIs`).

**Assertions.** Most of them follow from the invariants above: a superblock in
somebody's hands is in use and not FULL (`ServingNotFull`), the link an owner has
read is a slot. Those about `node->next` need `NextInv`: the link of a node says
where the node is, LINKED in the queue or past `EnqueueStart`, FREE when it is ready
for an enqueue, INVALID for any other dummy or acquired descriptor. Each action
that sets a link has the node for itself, so that no other thread's view of it
changes (`LinkChanged`). `DequeueLocals` says that a dequeue knows its caller, and
has a descriptor only when it returns it. The invariant is `AssertInv`, all of the
above with these two.

**No descriptor is lost.** `OwnInv` says one direction: a FULL descriptor in use is
in no place. The other is `AccountInv`: any other acquired descriptor is in one. For
each group of actions, a step takes a descriptor from no place without giving it
another or making it FULL (`KeepsPlaces`); a FULL one stays so until the free that
makes it PARTIAL has it in hand (`StepKeepsFull`, where at least two slots are
needed: with one, it would become EMPTY and the free would let go of it); and what
comes with a fresh batch has a place (`PlacesNew`).

The assumptions: at least two slots (asserted by
`mono_lock_free_allocator_init_size_class`), a natural number of delayed items,
descriptors and dummies disjoint, NULL neither a node nor a delayed item, at least
one dummy, `User` not a link, non-empty batches in which no descriptor occurs twice
(each batch is fresh memory). TLC evaluates them in every run.

### Available descriptors

`AvailInv` says that there is a set `F` of descriptors, those in the list, with
which the state can be accounted for (`Accounted`). `Stacked`: the descriptors of
`F`, each once, from the bottom up are such that the link of each leads to the one
under it, and `desc_avail` is the top. `OnePlace`: a live descriptor (one of a batch
that is published) is in `F`, in use, retired or with one thread. What
`DescsAccounted` lacks to be inductive is why the CAS of the pop, which compares
only descriptors, cannot find the one it knows on top of another link. `GuardKept`
says it: nobody is on the way to push what a pop guards, and as long as it is in
`F`, the link that has been read is right. `Freeable`, the guard of `PushBegin`,
keeps a guarded descriptor out; `Check` guards one while it is in the list.
`BatchKept` is the same for a batch that only its thread knows, `PushKept` for what
a push has stored in its descriptor.

The steps that change the stack are those of `desc_avail`: a descriptor is taken off
(`StackPopped`), one is put on top (`StackPushed`), a batch but its first descriptor
becomes the stack, which was empty (`StackFresh`). `Avail` is a recursive function; that it is
`F` is shown as for `FreeChain`, by the least step at which they would differ
(`AvailIs`). The batches must be finitely many, which the module now assumes
(`BatchesAreFinite`).

### Partial queue

`QueueInv` says that there is a list `l` of distinct nodes from `head` on, each
linked to the next and the last to `END_MARKER`, with which the state can be
accounted for. The links never form a loop and never lead away, though nodes come
back, and here is why:

* `OnePlace`: a node is in the list, unused, retired, a dummy not in use, or in the
  hands of one thread; `AwayLinks` and `HandLink` say what its link is when it is
  not in the list (the assertions are read off these).
* `GuardKept`: what a hazard pointer guards is in the list (or is `head`, for a
  dequeue), or has come out of it and has not been freed. It does not come back
  into the list while it is guarded: this excludes ABA.
* `NextRead`, `TailRead`: hence, what a thread has read of the link of its node is
  still true, or it was `END_MARKER`, as long as the node is in the list; a node whose
  link is `END_MARKER` and which was `tail` is `tail` still; and a head that was not
  `tail` does not become it. So a successful CAS of `head`, which compares nodes
  only, takes the first node out and leaves `tail` in the list.
* `TailKept`: `tail` is the last node or the one before.
* `DummyKept`: the dummy that `has_dummy` is about is in the list, on its way there
  or just taken out (`Token`), there is one at most, and none if the flag is not set.

There is a lemma per action; those that neither link nor unlink nor move a node
between places share `StayingKeeps` and `UnguardedKeeps`. `QueueAlways` is the
invariant, from which those that the run checks follow. That `Listed` is the
list of the invariant is shown as for the descriptors (`ListedIs`); it needs finitely
many nodes (`NodesAreFinite`).

For the refinement one must know what the queue holds, which is the list without
the dummies. The model says it with a recursive function (`Held`), of which the
lemmas show that linking a node appends it and unlinking the first takes it off
(`HeldLinked`, `HeldUnlinked`). A step is then an enqueue at `Link`, a dequeue at
`Unlink` if the node is no dummy, or changes nothing that the abstract queue
has. The hard case is a dequeue that says NULL. `SureKept` says that a dequeue whose
`may_fail` is not set has been alone since it began, and that two entries are
still there, or it has one in its hands; that what it has read is therefore true;
and, when it has had to free a dummy, that all dummies are then free. So it never
finds a single node, and never comes to where it would say NULL.

### Hazard pointers

The invariant is `Inv == TypeInv /\ PlaceInv /\ Guards /\ Scans /\ NoUseAfterFree`.
`TypeInv` adds to the types what each label needs of the locals (`Frames`).
`PlaceInv` is `OnePlace`: in which one place each node is. The heart is in the other
two. `Guards` says where a guarded node's hazard pointer is: settled in memory, or
on its way in the store buffer with nothing behind it that would overwrite it. For a
node that was kept, either the later pointer has settled or the earlier one is still
there. What the barrier of `get_hazardous_pointer` gives is that at the second read
the pointer has settled and the node is still in its word, so nobody had begun to
free it. `Scans` relates a scan to the guards: for every node that somebody relies
on and somebody else scans for, the scan has not yet passed the place where the
pointer is (`GotAhead`, `KeptAhead`). As pointers are moved only from a lower to a
higher place and the scan goes up, it cannot be missed; the mutant
`HazardIndex_Descending` shows the order is needed. A scan that ends has therefore
found that nobody relies on the node. All three theorems are about x86 memory (the
assumption `StoresAreOrdered` of the module); `NoUseAfterFreeAlways` assumes besides
that the barrier is an instruction (`OnPlatform \in TotalStoreOrder \ CompilerOnly`).

### Array queue

`Inv` has four parts. `TypeInv` and `ChunkInv`: a chunk is at one place, is nobody's
spare when it is in the list, and the entries of a spare are FREE (`SpareIsFree`),
so that appending it changes nothing; a thread that works on an entry has the one
its index leads to, in a linked chunk (`Frames`). `Owned` is the part of
`BusyIsOwned` beyond the types. `Covering` is `NotStranded`, said of indices; the
crucial steps are `PushCheck` and `PushRaise`: a push leaves only when the count is
above its index, or after raising it, and the raise never lowers the count. That two
indices lead to one entry only if they are equal (`SamePlace`) is division with
remainder (lemmas `Division...`).

For the refinement, `ItemInv` says that no item is at two places (`Apart`) and what
the hands hold at each label (`Hands`). Each step of the queue maps to one of the
bag or a stutter: a push puts at `PushUsed`, a pop takes at `MakeBusy`. Only the pop
that finds nothing needs an argument (`OthersHide`): when `num_used_entries` is 0 no
used entry is covered, so by `Covering` each has a call on its index that is under
way, other than this pop. The calls with their indices are thus mapped onto the
items, and there are at least as many of them.

### Atomic operations and small ids

`OpsAreAtomic`: for the operations that are sound in the sense above, the effect is
at the instruction, the successful CAS, the store conditional that holds, or the
load that finds a comparison failing. The invariant says that a thread is at an
instruction its operation has (`Called`), and that the word is still `seen` as long
as a reservation holds (`Reserved`); for the CAS loops the comparison suffices.

`IdsAlwaysOwn`: ids and table entries are inverse to one another, which
`small_id_alloc` keeps since the entry it chooses is free (`NextIs`, `NextIsFree`:
the least free entry from `small_id_next` on, else the least, else one beyond). That
the id fits the hazard table (`IdFits`, the assertion in line 114) is a counting
argument: the table doubles only when each of its entries has a thread, and the one
that attaches is one more (`FullTable`). `GuardsAlwaysStay` follows, since a fresh
slot is cleared for an id no attached thread has.

`ScanAlwaysCovers`: `ScanInv` says that ids are given out without a gap: the next one
is at most one above `highest_small_id` (`NextIsNear`), for which `small_id_next` must
be too, however it wraps. So an id that does not fit the accessible table is the first
one that does not, and the one page that is added has room for it. `PagesFit` says that
the pages hold `hazard_table_size` slots and not one more; hence the pages the code
counts anew from that number each time, rounding up, are those that it made accessible
(`PageGrows`, where a slot must not be larger than a page: `SlotFitsPage`). The new
page has been reserved because there is an id for a slot in it. `hazard_table_size`
itself can pass `HAZARD_TABLE_MAX_SIZE`.

### Linked-list set

`SetInv` says that there is a set `S` of nodes, the list, with which the state can be
accounted for (`Accounted`). `List`: from `HEAD` on the links lead through all of `S`
in strict order of the keys, marked nodes included. Two invariants that one might
expect do not hold: a node's successor may be freed and be elsewhere when the node
itself has been removed, and `prev` may have been removed when the CAS on it fails. So
what a call has in its locals is said of nodes that are in the list *or have come out
of it and are not freed* (`GuardKept`), and what makes a CAS safe is found in the mark:

* `OnePlace`: a node is in `S`, unused, retired, about to be freed, or in the hand of
  the one thread that inserts it.
* `MarksKept`: what has come out is marked and keeps its key until it is freed; what has
  been inserted and not removed is in `S`, unmarked. Hence an expected value without a
  mark (all that `InsertLink` and the unlinking CASes expect) proves that the node it is
  read from is in the list, and in its place.
* `ReadKept`: the link of a marked node does not change, so that what is unlinked is
  replaced by its true successor, though the mark was read earlier.
* `AllCleared`: a marked node that is still in `S` has a thread that is about to unlink
  it, or, if that CAS failed, whose second search has not passed it (`Clears`). This is
  the part of `NodesAccounted` that says no removed node stays: the search cannot end
  before the node, since the keys on the way are smaller, and what it reads at the node
  is the mark.
* `ValueKept`, `WitnessKept`: the key a call was made for, and that what the call is
  going to answer was the case at some moment since it began. At the second look at
  `*prev`, the node the search stands at was in the list when its link was read; if the
  key is there the answer TRUE, and if the next one is larger or there is none the answer
  FALSE, has been witnessed.

There is a lemma per action. Those that only look share `QuietKeeps`; the list changes
in three: a node is linked, a node is marked (the set loses its key here), a marked node
is unlinked. For each, a lemma says what the new sequence of nodes is. `SetAlways`
is the invariant. That `Listed`, which the model computes, is the sequence of the
invariant is shown as for the descriptors (`ListedIs`).

For the refinement, an insertion that succeeds is the step `InsertLink`, a removal
`RemoveMark`; unlinking, by whomever, changes no key (`SameSet`). Refusals and searches
answer when they end, with what `WitnessKept` says was true. The assumptions: keys are
natural numbers (they are `uintptr_t`) and nodes are finitely many.

### Only model-checked
Liveness, as TLAPS has no rule for it here: `LockFree`, `CallsReturn`, `AllFreed` and
`ObstructionFree`. Every invariant and every action property of the passing runs has a
theorem, and so has every refinement.

## 6. Not modelled

* `mono_lock_free_allocator_check_consistency`: it is called when all threads are
  joined; what it asserts are `SlotsAccounted` and `ActiveIsPartial`, for all
  states.
* The variant `DESC_AVAIL_DUMMY` of the descriptor list and `MONO_SMALL_CONFIG`: not
  compiled.
* `MONO_LLS_FOREACH`, for a stopped world, and `mono_lock_free_array_iterate`: they
  only read.
* `mono_lls_init`, allocator initialisation: done by one thread before any other
  exists; they are the `Init` of the modules.
* `sgen-gc.c`: the aligned allocation is arithmetic local to a call around `mmap`
  and `munmap`; the one shared variable, `total_alloc`, is updated without
  synchronization and read nowhere.
* `mono-mmap.c` (system calls), `fake-glib.h`, `metadata.h`, `alloc.h`,
  `delayed-free.h` (declarations), the iOS application and the project files: no
  state that a property could speak about.
* `test-queue.c` cannot be linked with any program of the repository: it lacks
  `mono_lock_free_queue_node_init` and `mono_lock_free_queue_node_free`.
* `TEST_QUEUE` and `TEST_DELAYED_FREE` of `test.c` do not compile against the
  sources.
* Weak memory other than store buffers, that is, any processor but x86. There loads
  may be reordered, so that the queues also rest on the read barriers of the code and
  a scan, which has none between its loads, on the order the processor chooses; the
  CASes of ppc, arm and ia64 are no full fences, and the write barrier of ppc orders
  stores only by `eieio`. Whether hazard pointers keep a node on these processors is
  left open.
