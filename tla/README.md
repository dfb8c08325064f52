# TLA+ models of the cc lock-free runtime

This directory has TLA+ models of the runtime in `src/`. The runtime is an
M:N thread system: N *executors* (OS threads, `src/cc/thread_executor.c`)
run many user *threads*. It has a lock-free scheduler
(`src/cc/noninteract_scheduler.c`), lock-free queues
(`src/cc/lf_thread_queue.c`), a slice-based memory manager
(`src/mm/slice.c`), a lock-free malloc (`src/mm/malloc/`) and a concurrent
garbage collector (`src/mm/gc/`). `PROJECT.json` lists the components, the runs,
the mutants, the map from every modelling definition to its source lines, the
findings and the hazards.

## The system's parts and how they interact

* **Thread word.** Each `thread_t` has one atomic word, `t_sched_stat_ref`.
  It holds a status (RUNNABLE, RUNNING, SUSPEND, SUSPENDED, TERM, DEAD,
  DESTROY, GC_WAIT, NONE; `thread.h:51-61`) and the flag `T_REF`. `T_REF`
  means "a queue or an executor holds this thread". Everything in the
  scheduler is a CAS on this word, followed by queue operations that must
  agree with it.
* **Scheduler.**
  * Each executor has a private local queue, a counter `sch_num_threads` and
    a current thread.
  * All executors share the lock-free FIFO `sched_workshare` and the counter
    `sched_active_threads`.
  * User code calls `cc_thread_create`, `cc_thread_update_immediate`,
    `cc_thread_destroy`, `cc_thread_update` and `cc_sched_cycle` (`cc.c`).
    These calls activate a thread (CAS to RUNNABLE|T_REF, count it, enqueue
    it on the workshare, wake an idle executor) or deactivate it (CAS to
    SUSPEND/TERM/DESTROY, uncount it, signal the executor running it).
  * A *scheduling cycle* (`scheduler_cycle`) first acknowledges the current
    thread (`sched_set_running_status`: EXECUTE, SKIP, DISCARD). It keeps
    the thread, or replaces it from the local queue or the workshare. Then
    it balances the local queue against the workshare
    (`scheduler_balance_threads`, `scheduler_take_thread`,
    `scheduler_put_thread`).
* **Executor.**
  * It runs a cycle whenever its mailbox has `EX_SIGNAL_SCHEDULE` at a
    safepoint, or when user code yields.
  * Without a thread, it runs its idle thread (`sigsuspend` until SIGUSR1),
    or, during a collection, its GC thread.
* **Slice manager.** Every large region of memory is a *slice* with a
  descriptor from the static table `slice_tab`; the free descriptors form a
  CAS stack. `slice_alloc` reserves the slice's size against the total quota
  and its kind's quota (GC or malloc), pops a descriptor and maps memory.
  The malloc and GC allocators call it from any executor.
* **Lock-free malloc.** `malloc_lf`/`free_lf` (`lf_malloc.c`) is Michael's
  allocator. Each executor has a procheap per size class with an *active*
  word (a descriptor and up to 63 credits) and a *partial* slot; each size
  class has a shared queue of partial descriptors (`sc_partial`, an
  `lf_block_queue`, whose nodes come from one global CAS stack refilled
  from fresh slices). A *descriptor* owns a superblock, a slice of
  `maxcount` blocks, and an *anchor* word (`avail`, `credits`, `state`,
  `tag`; `lf_malloc_data.c`). Descriptors come from a global CAS stack that
  is refilled by carving a fresh slice. Free blocks form a list threaded
  through their first word; an allocated block holds its descriptor there.
  Threads migrate, so any executor may free any block.
* **Garbage collector.** A collection moves `gc_state` out of INACTIVE.
  While it runs, GC_WAIT threads are skipped and idle executors run their GC
  thread.

## Modules

| Module | Models | Source |
|---|---|---|
| `Scheduler` | scheduler, executor cycle/idle/wakeup, runtime calls, GC start/finish | `noninteract_scheduler.c`, `thread_executor.c`, `cc.c`, `thread.c` |
| `MC_Scheduler` | model values and symmetry for TLC | — |
| `LFQueue` | the workshare queue: Michael-Scott queue, hazard pointers, retired lists, static node allocator | `lf_thread_queue.c` |
| `AtomicFIFO` | what the workshare promises its callers: an atomic FIFO | contract of `lf_thread_queue_enqueue/_dequeue` |
| `MC_LFQueue` | the queue size `scheduler_start` uses, the warm-up constraint | — |
| `SliceManager` | quota counters, slice descriptor table and its free list, `slice_alloc`, `slice_free` | `slice.c` |
| `MC_SliceManager` | two callers for TLC | — |
| `LfMalloc` | one size class of the malloc: active words, partial slots and queue, anchors, the descriptor stack, `malloc_lf`, `free_lf` | `lf_malloc.c`, `lf_malloc_data.c` |
| `MC_LfMalloc` | two executors, three slice entries, symmetry | — |
| `MallocEntry` | `malloc_lf` and `free_lf` as callers see them: size classes, `find_heap`, the large-block slice and its tag, and the `malloc`/`free`/`calloc`/`realloc` wrappers | `lf_malloc.c`, `arch/ia32/arch.h` |
| `MC_MallocEntry` | the request sets for TLC | — |
| `LFBlockQueue` | the partial-descriptor queue: Michael-Scott queue, hazard pointers, retired lists, the global node stack and its slice refill | `lf_block_queue.c` |
| `MC_LFBlockQueue` | one descriptor value for TLC | — |

### Scheduler

**State.** The variables correspond to the code's state as follows:

* `st[t]` and `ref[t]` are the two fields of `t_sched_stat_ref`.
* `freed[t]` records that `thread_destroy` ran.
* `mboxExec[t]` is the executor field of the thread's mailbox.
* `ws` is `sched_workshare`.
* `lq[e]`, `nthreads[e]` and `curr[e]` are the scheduler of executor `e`.
* `active` is `sched_active_threads`.
* `sig[e]` is the SCHEDULE bit of `ex_signal_mbox`.
* `osSig[e]` is a pending SIGUSR1.
* `gcActive` means `gc_state` is not INACTIVE.

**Actions.** An executor is a process with program counter `pc[e]`. Each
action is one atomic access of the code:

* The activation is `ActCas`, `ActInc`, `ActEnq`, `ActWake`.
* The deactivation is `DeactRead`, `DeactCas`, `DeactDec`, `DeactSig`.
* The cycle is `CycRetire`, `CycAck`, `Replace`, `TryWorkshare`, `Balance`,
  `TakeThread`, `PutThread`, `LoadThread`.
* The idle thread is `IdleCheck` and `IdleWake`.
* The GC thread's safepoint is `GcSafepoint`.

**User calls.** The user calls are `ThreadCreate`, `Activate`, `Deactivate`,
`ThreadDestroy`, `ThreadUpdate`, `Yield` and `Safepoint`. They are enabled
only while the executor runs a user thread. `MaxReq` bounds their number.

**Atomicity.**

* A failed CAS is retried from a fresh read, so only a successful CAS is a
  step.
* Deactivation's read of the mailbox executor is a step of its own. It
  happens before the CAS, as in the code (line 852).
* A local-queue or workshare dequeue is merged with the status read that
  follows it. The thread is private to the dequeuer in between, so this is
  a sound reduction.

**Faithful quirks.** Several code quirks are kept as they are:

* `scheduler_try_take_thread` and `scheduler_try_put_thread` return `bool`,
  so their `-1` becomes 1. Take and put therefore stop after one thread.
* `executor_raise` compares `sch_curr_thread` with `sch_idle_thread`. These
  are never equal, so it never sends SIGUSR1.
* `scheduler_replace` does not count the thread it makes current (line 745).
* The unsigned counters can wrap. A negative value in the model stands for
  a wrapped one (`BalanceChoice`).
* An INVARIANT or panic the code would hit is recorded in `faults`. The
  property `NoFault` says it stays empty. No run checks it: with no thread
  started in the workshare, balancing never takes or puts, so the property
  would hold only because of the bounds. With four started threads it
  fails through the line-745 drift (see `MC_Scheduler_localcount.cfg`).

**Spots that cannot compile or parse.** Two spots are modelled as clearly
intended:

* Line 678 (`thread != exec->...`) does not compile. It is modelled as "the
  current thread is not the GC thread", which is always true for a user
  thread.
* Line 652 has a precedence slip. It is modelled as the phase test.

**Environment assumptions.** These are the preconditions of `cc.c` that the
runtime leaves to the program:

* The program names only threads it created and has not destroyed (the
  INVARIANTs at `cc.c:163,181,224`).
* It does not destroy a thread while another call on that thread has not
  yet CASed its word.


### LFQueue and AtomicFIFO

`LFQueue` models `lf_thread_queue.c` step by step.

**State.** Nodes are the indices `0 .. Total-1` of the static node array, and
every list is linked through `next` (`lfn_next`) as in the code:

* `head`, `tail` are `lf_head`, `lf_tail`; `data[n]` is `lfn_data`.
* `shared` is the allocator's shared Treiber stack `qna_shared_list`.
* `nlList[e]`, `nlCount[e]` are executor `e`'s node list and its count.
* `hp[e][0..1]` are the hazard pointers; `rlist[e]`, `rcount[e]` the retired
  list and its count.
* `pc[e]` and the locals `t`, `nx`, `h`, `tl`, `pn`, `pnx`, `walk`, `snap`,
  `sIdx` are executor `e`'s position in an operation and the values it read.
* `faults` records a NULL dereference; `Crash` stops every executor.

**Init** is `lf_thread_queue_init`: each executor's list holds
`executor_nodes` nodes linked downwards, and the sentinel is head and tail.
For the queue `scheduler_start` creates (16 per executor), `execs` divides
`num + extra_nodes - 1`, so the shared stack starts empty.

**Actions.** Each action is one shared-memory access:

* Enqueue: `CallEnqueue`, the allocator (`Balance`, `PullRead`, `PullNext`,
  `PullCas`, `PullLink`, `AllocPop`), then `EnqReadTail`, `EnqHazard`,
  `EnqCheck1`, `EnqReadNext`, `EnqCheck2`, `EnqSwing`, `EnqLink` (the CAS of
  `tail->lfn_next`) and `EnqFinish`.
* Dequeue: `CallDequeue`, `DeqReadHead`, `DeqHazard0`, `DeqCheck1`,
  `DeqReadTail`, `DeqReadNext`, `DeqHazard1`, `DeqCheck2` (which also returns
  NULL for an empty queue), `DeqSwing`, `DeqCas` (the CAS of `lf_head`),
  `DeqData` and `DeqRetire`.
* Scan and free: `ScanRead` reads one hazard pointer per step, `ScanWalk`
  keeps a protected node or frees it to the local list, `FreePush` frees it
  to the shared stack; every free is followed by `Balance`, as in
  `lf_thread_queue_node_free`.
* `Balance` is one action: its push to the shared stack and the read of
  `node->lfn_next` after it (line 284) are merged. This leaves out another
  executor pulling the node in between, which would only change which wrong
  pointer line 284 reads; a push is out of the runs' reach anyway (see
  below).

**Refinement.** `AtomicFIFO` is the queue as `Scheduler` uses it: a sequence
`q` and, per executor, the pending operation. `OpOf(e)` maps each program
counter to the abstract operation, and `Queue` reads the threads from the
nodes after `head`. The linearisation points are `EnqLink`, `DeqCas` and an
empty `DeqCheck2`. The history variable `sawE` records that the queue was
empty while a dequeue was pending, which is what permits a NULL result.

### SliceManager

**State.** `total` and `kindSize` are `total_size`, `gc_size` and
`malloc_size`, in units of 4 KiB and wrapping at 2^20 units (32 bits of
bytes). `freeList` and `sNext` are the descriptor free list; `sType` and
`sSize` are the descriptor fields `slice_alloc` fills in. Per caller, `pc`,
`kind`, `size`, `tries` and `lnext` are the position and locals of
`slice_alloc`, `own` the slices it holds. `out` is `slice_alloc`'s local
`out`. It is kept between calls because the code reads it uninitialised
(see below).

**Actions.**

* `SliceAlloc` is the call. `ReserveTotal` and `ReserveKind` are the quota
  reservations, with the code's test `oldspace + size >= limit`. A
  reservation's read and CAS are one step, because a failed CAS only
  retries from a new read. A failed kind reservation releases the total.
* `EntryRead`, `EntryNext`, `EntryCas` are the three accesses of the
  descriptor pop, kept apart because the ABA problem lives between them.
* `Map` is `os_mem_map`, which may fail. `AllocFail` is the failure branch:
  it pushes `out` back if it is not NULL and does not release the quota.
* `SliceFree` pushes the descriptor back and does not release the quota.

**Undefined behaviour.** Two locals are read uninitialised:

* `failures` in `slice_reserve_total_space`. The loop gives up after one to
  four failed tests, depending on the garbage it starts with.
* `out` in `slice_alloc`, when the reservation fails. The model takes the
  value the caller's previous call left in the same slot: NULL, or the slice
  that call returned.

### LfMalloc

One size class, the largest (`maxcount` = 4 blocks a superblock), since
the protocol is the same for every class and four blocks are enough to
fill, go partial and empty.

**State.** `anchor`, `dNext`, `dSlice`, `dHeap` are the descriptor fields
`des_anchor`, `des_next`, `des_slice`, `des_heap`; an anchor is the record
of its `avail`, `credits` (10 bits, wrapped by `C10`) and `state` fields.
`avail` is `malloc_desc_avail`. `mem[b]` is the first word of block `b`:
`IdxW(i)`, the index of the next free block, or `HdrW(d)`, the descriptor
written into an allocated block's header. `active` and `partial` are
`ph_active` and `ph_partial` of each executor's procheap, `queue` is
`sc_partial`, `freeSlices` the slice table entries not in use. `held` and
`live` are ghost state: the blocks callers hold, and the descriptors of
superblocks set up and not yet EMPTY. Per executor, `pc` and the locals
`desc`, `act`, `mc` (morecredits), `blk`, `sb`, `tnext`, `qd`.

**Actions.** `MallocLf` is the call with `reserve_from_active`;
`PopFromActive`, `UpdateActive` (with `update_partial`), `HeapPutPartial`
and `EnqueuePartial`, `HeapGetPartial`, `ClaimPartial`, `PopFromPartial`,
`SliceAllocSb`, `DescRead`/`DescNext`/`DescCas` (the untagged descriptor
pop, three accesses), `DescSlab` (the carve of a fresh slice) and
`InstallSb` are the steps of `try_alloc`; `ReserveFromActive` is
`malloc_lf`'s retry after `try_alloc` returns NULL. `FreeLf` is `free_lf`
with `try_free`'s anchor CAS; `RemoveEmptyDesc`, `DescRetire`,
`DrainPartial` and `ReEnqueue` are `remove_empty_desc`.

**Abstractions.**

* A CAS loop whose new value depends only on what it read is one step. The
  anchor's tag is left out: every pop advances it, which is what makes the
  fused read-and-CAS of a pop sound.
* Each executor's procheap is touched only by its own mallocs (no
  preemption moves a call between executors), so the active-word CASes
  never fail; steps that touch only executor-private state are fused with
  the next shared step.
* `slice_alloc` and `slice_free` are used through their contract (take a
  free table entry or NULL; give it back); `SliceManager` models how. The
  partial queue is used through its contract, an atomic FIFO; `LFQueue`
  models the same code for threads.
* A slice holds `DescCount` = 6 descriptors, not 1024: the carve's shape
  (link, step back, publish from the second cell) is the same.

### MallocEntry

This module models the allocator's entry points as a caller sees them, in
the ia32 build: `CACHE_LINE_SIZE` is 32, so the 32-entry size-class table
applies. It is the repository's only architecture.

* **`MallocLf`.** `malloc_lf` grows the request by a cache line for the
  block header. `find_heap` maps the grown size to a size class, and the
  procheap is `malloc_procheaps[exec] + size_class`, an index into one flat
  array of `execs * NUM_SIZE_CLASSES`. A size above `find_heap`'s bound
  (0x40000) gets a whole slice of `LargeSliceSize(size)` instead, tagged in
  its header with `s_ptr | 1` (`MemTag`). A procheap block's header holds
  its descriptor (`DescTag`).
* **The size-class operators.** `malloc_size_class` gives eight classes 32
  bytes apart, then calls `malloc_big_size_class`. That function is five
  bands of four classes, where each band's step is twice the last's, plus a
  sixth band with no upper limit. `Band` is that recursion, with `>> k`
  written as `\div 2^k`.
* **`FreeLf`.** `free_lf` reads the header word. It gives a procheap block
  to `try_free` (LfMalloc models that), and a large block's tag pointer to
  `slice_free`.
* **The wrappers.** `Malloc`, `Free`, `Calloc` and `Realloc` are the libc
  wrappers. `Realloc` passes `MallocLf` what it does with the new block
  (`Moved`): the `memcpy` and the free of the old block.

**State.**
* `held`: the blocks callers hold. Each is a record of the request, the
  grown size, the executor, the procheap or slice, the usable bytes and
  the header word.
* `freeSlices`: the slice table entries `slice_alloc` may still hand out.
* `unmapped`: what `slice_free` was given.
* `copy`: realloc's last `memcpy`.
* `fault`: whether `malloc_size_class`'s `INVARIANT(size <= 0x4000)`
  failed.

**Bounds and abstractions.** TLC's integers stop at 2^31 - 1, so the sizes
are kept below 2^30. The 32-bit wraps of `req_size + 32` and of calloc's
`size * num` are out of reach and are listed as hazards. The band
arithmetic never uses classes 8 to 11 (0x140 to 0x200): a size of 0x100
starts at class 12 (0x280). That wastes space but is not wrong, so no
property is about it.

### LFBlockQueue

`lf_block_queue.c` copies the queue and hazard-pointer code of
`lf_thread_queue.c`, but its nodes come from one global Treiber stack
(`lf_block_queue_nodes`), not from per-executor lists:

* **Node allocation** (`AllocRead`, `AllocNext`, `AllocCas`) pops that
  stack: it reads the head, reads the head's `lfn_next` and CASes. The CAS
  has no tag and there is no hazard pointer.
* **Empty stack** (`AllocSlice`, `AllocRefill`): `slice_alloc` (by its
  contract: a slice, or NULL when none is left) gives a fresh slice. Its
  nodes 1 .. limit-1 are linked privately, and the stack is CASed from NULL
  to node 1. If that CAS loses, the slice is given back with `slice_free`.
  With no slice left, the enqueue panics.
* **The queue** (`EnqReadTail` .. `EnqFinish`, `DeqReadHead` ..
  `DeqData`) follows the code access by access. A store of a hazard
  pointer and the re-check of `lf_tail`/`lf_head` after it are one step.
* **Retirement and scan** (`DeqRetire`, `ScanRead`, `ScanWalk`, `FreeLink`,
  `FreeCas`): the dummy is pushed on the retired list through its own
  `lfn_next`. When the count before the increment reaches `2 * execs`, the
  hazard pointers are read one at a time into the ptab (`InPtab`, a set).
  The unprotected retired nodes are chained through `lfn_next` and pushed
  onto the stack in one CAS; a NULL `free_tail` there is a crash.

Nodes are indices: slice `s` holds `PerSlice` of them (the code's
0x10000-byte slice holds 8192). `Init` is the state `lf_block_queue_init`
leaves: slice 0 taken, node 0 the sentinel, nodes 1 .. `PerSlice`-1 on the
stack. One queue is modelled. The other size classes' queues share the
stack but only take nodes from it, so they are left out.

The properties are:

* `NodesPartitioned` (checked by bq_nodes): every node has exactly one
  owner, which is one of the stack, the queue, a retired list (its
  `rcount` nodes), an executor's hands, or an unused slice.
* `NodesOwnedOnce`: the weaker half, that no node has two owners.
* `HazardSafe`: as in LFQueue, checked against the global stack.
* `NoCrash`: the scan never stores through a NULL `free_tail`.

## Runs

Every run uses 2 executors (`NExec = 2`).

| Run | cfg | Expect | What it shows |
|---|---|---|---|
| sched_ownership | `MC_Scheduler.cfg` | pass | see (1) below |
| sched_balance | `MC_Scheduler_balance.cfg` | pass | see (2) below |
| sched_gcwait | `MC_Scheduler_gcwait.cfg` | violation | `RefIsOwnership` fails with GC_WAIT updates |
| sched_wakeup | `MC_Scheduler_wakeup.cfg` | violation | `SleepersServeWorkshare` fails |
| lfq_hazard | `MC_LFQueue.cfg` | pass | `TypeOK`, `HazardSafe`, `CallsReturn` hold |
| lfq_lost_enqueue | `MC_LFQueue_lin.cfg` | violation | `Linearizable` fails |
| slice_accounting | `MC_SliceManager.cfg` | pass | `TypeOK`, `QuotaCoversHeld`, `AllocReturns` hold |
| slice_aba | `MC_SliceManager_aba.cfg` | violation | `EntryOwnership` fails |
| lfmalloc_blocks | `MC_LfMalloc.cfg` | pass | `TypeOK`, `BlocksPartitioned`, `EmptyMeansFree` hold |
| lfmalloc_lost_partial | `MC_LfMalloc_lost.cfg` | violation | `NoLostPartial` fails |
| malloc_block_fits | `MC_MallocEntry.cfg` | violation | `BlockHoldsRequest` fails |
| bq_nodes | `MC_LFBlockQueue.cfg` | violation | `NodesPartitioned` fails |

The passing runs:

1. **sched_ownership** uses 3 threads. Creation, activation, suspension,
   termination, destruction, updates to SUSPEND/TERM and collections all
   interleave. It checks `TypeOK` and `RefIsOwnership`: a thread with T_REF
   is in exactly one of the workshare, a local queue, a current slot or an
   activator about to enqueue it, and an unreferenced or freed thread is in
   none.
2. **sched_balance** uses 5 threads, 4 of them already waiting in the
   workshare, so `sched_active_threads` exceeds `NExec`. That is the only
   case in which `scheduler_balance_threads` takes or puts. It checks
   `RefIsOwnership` and `ActiveCountExact`.

3. **lfq_hazard** uses up to 11 calls of two executors. It checks
   `HazardSafe`: a node an executor has validated through a hazard pointer
   (the tail in an enqueue, the head and its successor in a dequeue) is
   never on an allocator list while it is still used. Scans, frees to the
   local list and to the shared stack, and pulls all happen in this run.
   It also checks `CallsReturn`: every enqueue or dequeue that starts
   returns, including through the retry loops of
   `lf_thread_queue_dequeue`/`_enqueue`, unless it ends in the known
   NULL-pull crash of `MC_LFQueue_crash.cfg`. The property holds because
   the calls are bounded (`MaxOps`). The queue is lock-free, not wait-free:
   with calls that never stop, an executor's CAS could keep losing to the
   other's. `WarmUp` only delays executor 1's first call. It never
   restricts a step of a call in progress, so it does not weaken the
   property.
4. **slice_accounting** uses two callers, two free descriptors, sizes of 1
   and 16 units, all three kinds and limits of 16, so reservations both fail
   and succeed. It checks `QuotaCoversHeld`: the counters never fall below
   the sizes of the slices held, across failed reservations and their
   rollbacks. It also checks `AllocReturns`: every `slice_alloc` returns.

5. **lfmalloc_blocks** uses two executors, three slice entries and 14
   malloc and free calls. Superblocks fill, go FULL, become PARTIAL on a
   free, displace one another into the shared queue, and empty;
   `remove_empty_desc` both retires from the slot and drains the queue and
   enqueues an EMPTY descriptor again. It checks:
   * `BlocksPartitioned`: for every superblock in use, the free list its
     anchor heads, as long as the credits of the anchor, of any active word
     and of the mallocs in progress add up to, runs through distinct
     blocks that no caller holds, and with the blocks out makes up all
     `maxcount`. Every credit hand-off between anchor, active word and
     caller must be exact for this to hold.
   * `EmptyMeansFree` (spec.md): a superblock `try_free` has made EMPTY
     has no block held, no malloc about to return one of its blocks, and no
     active word with credits for it.

The violation runs and what the code does wrong:

* **sched_gcwait.** A GC_WAIT thread yields during a collection. `SKIP` is
  handled as a discard, and the thread is dropped with T_REF still set.
  Since its T_REF is set, no activation enqueues it again.
* **sched_wakeup.** This run is a liveness check under the fairness below.
  An idle executor sleeps with SCHEDULE pending, because `executor_raise`
  never signals, and `executor_restart_idle` skips it. A thread therefore
  waits in the workshare while that executor sleeps. This run has no
  symmetry, which is unsound with liveness.

* **lfq_lost_enqueue.** An enqueuer reads the tail and passes both checks.
  Another executor then dequeues, and retirement sets the old dummy's
  `lfn_next` to the retired list, which is NULL (line 488). The enqueuer's
  CAS from NULL succeeds on the retired node. The enqueue returns true, but
  the thread is in no queue.
* **slice_aba.** Executor 1 reads the head of the descriptor list and its
  successor. Executor 2 pops both and pushes the head back. Executor 1's
  CAS succeeds and makes the list head a descriptor executor 2 holds.
* **lfmalloc_lost_partial.** Executor 1's free makes superblock A PARTIAL
  and is about to put it in the slot, where B sits. Executor 2's free
  makes A EMPTY; A is not in the slot, so `remove_empty_desc` drains the
  queue. Executor 1 puts A in the slot and enqueues B; executor 2 dequeues
  B, sees it is not EMPTY and drops it. B is PARTIAL with free blocks, and
  no slot, queue or active word refers to it again (line 994).
* **malloc_block_fits.** This run tries every malloc size from 0 up to
  0x4000 - 32 on both executors. That is the largest size
  `malloc_size_class`'s INVARIANT admits once the header line is added.
  It also tries 0x40000 and 0x50000, which are past `find_heap`'s bound.
  The run finds two bugs:
  * A request of 16096 bytes (grown size 0x3f00) gets class
    8 + 20 + 4 = 32, one past the table. Executor 0 then gets procheap 32,
    which is executor 1's 32-byte class. This happens for every grown size
    from 0x3f00 to 0x4000. `find_heap` admits sizes up to 0x40000, sixteen
    times the INVARIANT's bound. Every size between the two either fails
    the INVARIANT or, with it compiled out, indexes further out.
  * A large request gets a slice of `((size - 1) % PAGE_SIZE) + PAGE_SIZE`
    bytes, at most two pages (line 1106). `malloc(0x40000)` gets 4095
    usable bytes.
* **bq_nodes.** This is the block queue's copy of the lost enqueue
  (`lf_block_queue.c:308`), found at depth 29:
  * Executor 0 reads the tail (the dummy) and its NULL `lfn_next`.
  * Executor 1 enqueues behind the dummy, dequeues it, and retires it with
    an empty retired list, so the dummy's `lfn_next` becomes NULL again.
  * Executor 0's CAS from NULL then links its node behind the retired
    dummy.
  
  The descriptor is in no queue, and the node is owned by no one. The
  scan that later frees the dummy walks on into that node and frees it
  too.

**Checks kept beside the run set.** More cfgs reproduce code bugs;
each checks one property that TLC finds violated:

* `MC_Scheduler_localcount.cfg`, `LocalCountExact`: `scheduler_replace`
  makes a local thread current without `sch_num_threads++`, although every
  other path into `sch_curr_thread` increments it
  (`noninteract_scheduler.c:745`). The counter drifts and wraps, and
  balance puts from an empty local queue, so `sched_queue_dequeue`'s
  INVARIANT fails. The same drift makes `NoFault` fail when
  `MC_Scheduler.cfg` is run with the balance run's four started threads.
* `MC_MallocEntry_large.cfg`, `BlockHoldsRequest`: the large-block
  slice size alone. `MC_MallocEntry_free.cfg`, `FreeUnmapsSlice`:
  `malloc_lf` tags a large block with `slice->s_ptr | 1` (line 1119), the
  slice's memory. `free_lf` passes that pointer to `slice_free`, which
  takes the descriptor, so `slice_free` reads `s_size` and `s_ptr` from
  the block's own first words. The first large free violates it.
  `MC_MallocEntry_realloc.cfg`, `ReallocCopiesWithin`: `realloc` copies
  the new size out of the old block (line 1210). That reads past the end
  of a block it grows, and `realloc(NULL, n)` reads from NULL.
* `MC_Scheduler_stopsignal.cfg`, `StopIsSignalled`: deactivation reads
  the mailbox executor before its CAS (`noninteract_scheduler.c:852`). A
  thread loaded in between runs on with status SUSPEND/TERM and no
  SCHEDULE signal, although the thesis says deactivation signals the
  executor running it.
* `MC_LFBlockQueue_aba.cfg`, `NodesOwnedOnce`: the untagged pop of the
  node stack (`lf_block_queue.c:39-47`). TLC finds this in about two
  minutes, at depth 115:
  * Executor 1 reads head 2 and, much later, its `lfn_next` 3.
  * Meanwhile executor 0 enqueues and dequeues until a scan pushes
    3 → 2 → 1 → 0 back onto the stack, and then pops 3.
  * Executor 1's CAS from 2 to 3 succeeds, and node 3 is handed out a
    second time.
  
  `HazardSafe` fails after the same steps.
* `MC_LFBlockQueue_scan.cfg` checks `TypeOK` and `NoCrash`, and they
  **hold** (3.2 million states, 12 calls, scans reached). The retiring
  executor's own hazard pointer 0 and the other executor's two can protect
  at most three retired nodes. A scan starts with five, so `free_tail` is
  never NULL, and the store at line 189 is not a hazard of this code. With the threshold set to `execs`, TLC finds the NULL store
  in seconds.
* `MC_LFQueue_crash.cfg`, `NoCrash`: the shared node stack starts empty;
  after seven net allocations on one executor, balance pulls NULL and
  writes through it (`lf_thread_queue.c:294`).
* `MC_SliceManager_quota.cfg`, `WithinQuota`: the reservation test is
  inverted (`oldspace + size >= limit`, `slice.c:113`); under a limit of 16
  units a 16-unit slice is granted at 0 and again at 16.
* `MC_LfMalloc_carve.cfg`, `DescFresh`: `try_desc_alloc`'s carve (lines
  428-441) links cells 0 .. count-2, steps back and ends the list at cell
  count-2, and returns that cell, which is also the tail of the list it
  publishes. The first malloc violates it; the descriptor is handed out a
  second time count-3 pops later, while its superblock is live.
* `MC_LfMalloc_spin.cfg`, `MallocReturns` (no symmetry): with the slices
  used up and no partial superblock, `malloc_lf` retries `try_alloc`
  forever (line 1101); spec.md says alloc returns null.
Each property of a passing run has a mutant in `PROJECT.json`: a plausible
bug in one mapped action (a dropped T_REF test, a missing T_REF clear, a
destroy of a referenced thread, a miscounted status, a loop bound off by one).
TLC finds each mutant's property violated.

## Bounds

**Threads.**

* Three threads are enough for every pairwise interaction in the ownership
  run: a creator, a thread it acts on and a third competing for the
  workshare.
* Balancing needs more active threads than executors, so the balance run
  starts four threads in the workshare (`Started`).

**Calls.** `MaxReq` (2 or 3) bounds user calls. It does not bound executor
steps, so every cycle, take and put that the calls enable is explored.

**Queue.** `MC_LFQueue` uses two executors and `Num = 32`, the capacity
`scheduler_start` gives the workshare; that makes 45 nodes, 22 per
executor, an upper bound of 28 and a lower bound of 17. A single thread
value suffices because the nodes, not the values, carry the interleavings.
`MaxOps` bounds the calls. The constraint `WarmUp` lets executor 0 make its
first `WarmCalls` calls alone before executor 1 starts: scans need five
retirements and pulls need seven net allocations, and without the warm-up
those prefixes are interleaved in every order and the state space does not
fit the time limit. After the warm-up both executors interleave freely.
The lost-enqueue run needs no warm-up and has none. Each run stops when
`MaxOps` calls have returned, an idle state of the program, so deadlock
checking is off in these runs.

**Block queue.** Two executors, two slices of three nodes, one
descriptor value, and 8 calls for bq_nodes (12 for the ABA and scan
checks). Five retirements before the first scan need at least ten calls.
The ABA needs one executor paused inside a pop across a whole scan of
the other, which first happens at depth 115. Each slice's nodes go through
the stack exactly as the code's 8192 would. As in the other queue runs,
deadlock checking is off.

**Slices.** Two callers and two or three free descriptors stand for the
tail of the 256-entry table: the table is empty, and the pop's ABA
happens, only with its last entries. Three or four calls reach every
branch of `slice_alloc`. The limits are chosen against the sizes so the
inverted test both passes and fails. The default limits of 0, under which
every reservation passes, are used for the ABA run. As in the queue runs,
an idle state after the last call is a real final state, and deadlock
checking is off.

**Malloc.** Two executors, three slice entries, four blocks a superblock,
`MAX_CREDITS` = 64 and 14 calls. Three slices give one descriptor slab and
two superblocks, so a superblock can empty while another is partial; the
re-enqueue of an EMPTY descriptor by `remove_empty_desc` first happens at
14 calls. The descriptor ABA and the second hand-out of the carved
descriptor need a fourth slice, beyond the time limit. The run stops when
the calls are used up, so deadlock checking is off.

**Symmetry.** In the malloc runs executors and slice entries are
symmetric: heaps are indexed by executor and nothing names either.
The non-main threads are symmetric in the safety runs: no
definition names one of them.

## Fairness

Each executor's own steps are weakly fair (`WF_vars(Step(e))`). This is
justified as follows:

* Executors are OS threads the kernel schedules.
* A thread that polls safepoints services its mailbox.

In `LFQueue`, `LFBlockQueue`, `SliceManager` and `LfMalloc` each executor's steps are weakly fair for
the same reason; calls are not. `AllocReturns` and `CallsReturn` rely on this fairness, and
`MallocReturns` fails under it.

User calls and collections are not fair: the program decides whether to make
them.

## Not modelled

These parts are not modelled, each for the reason given:

* **LfMalloc**, partly: the partial queue `lf_block_queue.c` is used by
  contract. `LFBlockQueue` models that queue on its own, and composing the
  two is beyond the time limit.
* **LFBlockQueue**, partly: `lf_block_queue_destroy` is not modelled,
  because nothing in the repository calls it. No run checks `HazardSafe`
  or `NoCrash`, because the run set is full and `HazardSafe` fails through
  the ABA. The NoCrash check that holds is kept beside the run set.
  `MallocEntry` models the entry points, size classes and wrappers.
* **Executor shutdown.** `executor_stop`, `executor_shutdown` and the
  signal thread would need a run of their own, and the run set is full. Its
  hazard is listed: two concurrent stops join each other and never exit
  (`thread_executor.c:554`).

The garbage collector is modelled only where the scheduler meets it. The
collector code does not compile:

* `gc_thread.c` defines `gc_thread_claim` twice (lines 497 and 1417). Its
  `gc_thread_balance` uses an undeclared `moderator`, and is called with
  one argument but defined with two. `gc_thread_pull` has
  `if(bool = (NULL != obj))` and an `else` with no statement. `gc_thread` is
  defined with four parameters, while `gc_thread.h` and
  `thread_executor.c:232` use two.
* The `GC_STATE_*` constants that `gc_thread.c` and `gc_alloc.c` test are
  defined in no header.

A model of it would check a guess at what the finished code will do. So the
phases and barriers, the generation choice, the allocator's slice stacks
and the object queue (`lf_object_queue.c`, a copy of `lf_thread_queue.c`
for objects) are not modelled. The atomic bitmap of `atomic.c` is used only
by `gc_thread.c`, and is not modelled either.

In `LFQueue` two hazards are modelled but not reached within the bounds:
the splice at line 284 needs a local list above 28 nodes, and the ABA in
the shared-stack pull needs the stack to be refilled while a pull is
pending.

In `SliceManager` the push of a stale `out` is modelled, but
`EntryOwnership` is checked only under the default limits, where no
reservation fails and that path is closed; a run with set limits would
show it as a second way to corrupt the descriptor list.

These parts are out of scope for a model checker:

* context switching and the POSIX layer, which are assembly and system
  calls;
* the launcher, which is sequential;
* `mm.c` initialisation, which is sequential.
