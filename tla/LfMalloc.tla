------------------------------ MODULE LfMalloc ------------------------------
(***************************************************************************)
(* The lock-free allocator of src/mm/malloc/lf_malloc.c (Michael's         *)
(* algorithm) for one size class: every executor has its procheap, an     *)
(* active word {descriptor, credits} and a partial slot, the size class    *)
(* has a shared queue of partial descriptors (sc_partial), and the         *)
(* descriptors come from a global CAS stack (malloc_desc_avail) that is    *)
(* refilled by carving a fresh slice.  A superblock is a slice of MaxCount *)
(* blocks; a free block holds the index of the next free block, an         *)
(* allocated one holds its descriptor in its header line.                  *)
(*                                                                         *)
(* The slice manager is used through its contract: slice_alloc takes a    *)
(* free slice table entry, or gives NULL when there is none, and           *)
(* slice_free gives it back (SliceManager models how it does so).  The    *)
(* partial queue is used through its contract too, as a FIFO whose        *)
(* enqueue and dequeue are atomic.                                        *)
(*                                                                         *)
(* A CAS loop whose new value depends only on what it read is one step    *)
(* (a failed CAS retries with no effect).  The anchor's tag is left out:   *)
(* it is what makes the fused read-compute-CAS of a pop sound, since every *)
(* pop advances it.                                                        *)
(***************************************************************************)
EXTENDS Integers, Sequences, FiniteSets

CONSTANTS
  Procs,        \* executors, each with its procheap for this size class
  Slices,       \* slice table entries available to the allocator
  MaxCount,     \* blocks per superblock: sc_block_size / sc_size
  MaxCredits,   \* MAX_CREDITS
  DescCount,    \* descriptors carved from one slice: s_size / dessize
  MaxOps,       \* bound on the malloc and free calls made
  Null

Idx    == 0 .. MaxCount - 1
Descs  == Slices \X (0 .. DescCount - 1)
Blocks == Slices \X Idx
States == {"ACTIVE", "FULL", "PARTIAL", "EMPTY"}
Anchor == [avail : Idx, credits : 0 .. 1023, state : States]
NoActive == [ptr |-> Null, credits |-> 0]       \* the active word 0
\* The first word of a block: the index of the next free block, or the
\* descriptor in an allocated block's header line.
IdxW(i) == [idx |-> i]
HdrW(d) == [hdr |-> d]
Word == [idx : Idx] \cup [hdr : Descs]

min(a, b) == IF a < b THEN a ELSE b
\* min(credits - 1, MAX_CREDITS) with the subtraction unsigned: 0 - 1 wraps
\* to UINT_MAX, so the minimum is MAX_CREDITS.
ClaimCredits(c) == IF c = 0 THEN MaxCredits ELSE min(c - 1, MaxCredits)
C10(x)    == x % 1024                             \* the 10-bit credits field

ASSUME MaxCount >= 2 /\ DescCount >= 2

VARIABLES
  freeSlices,   \* slice table entries not mapped
  avail,        \* malloc_desc_avail
  dNext, dSlice, dHeap, anchor,   \* des_next, des_slice, des_heap, des_anchor
  mem,          \* the first word of every block
  active,       \* ph_active of every procheap
  partial,      \* ph_partial of every procheap
  queue,        \* sc_partial
  held,         \* blocks malloc has returned and free has not been given
  live,         \* descriptors of superblocks set up and not yet EMPTY
  pc, desc, act, mc, blk, sb, tnext, qd,   \* per executor: position, locals
  ops

vars == <<freeSlices, avail, dNext, dSlice, dHeap, anchor, mem, active, partial,
          queue, held, live, pc, desc, act, mc, blk, sb, tnext, qd, ops>>

\* mm_malloc_init (lines 337-390): procheaps with NULL active and partial,
\* empty queues, and no descriptors yet; mapped memory is zero.
Init ==
  /\ freeSlices = Slices /\ avail = Null
  /\ dNext = [d \in Descs |-> Null]
  /\ dSlice = [d \in Descs |-> Null] /\ dHeap = [d \in Descs |-> Null]
  /\ anchor = [d \in Descs |-> [avail |-> 0, credits |-> 0, state |-> "ACTIVE"]]
  /\ mem = [b \in Blocks |-> IdxW(0)]
  /\ active = [p \in Procs |-> NoActive] /\ partial = [p \in Procs |-> Null]
  /\ queue = <<>> /\ held = {} /\ live = {}
  /\ pc = [p \in Procs |-> "idle"]
  /\ desc = [p \in Procs |-> Null] /\ act = [p \in Procs |-> NoActive]
  /\ mc = [p \in Procs |-> 0] /\ blk = [p \in Procs |-> Null]
  /\ sb = [p \in Procs |-> Null] /\ tnext = [p \in Procs |-> Null]
  /\ qd = [p \in Procs |-> Null] /\ ops = 0

Goto(p, l) == pc' = [pc EXCEPT ![p] = l]
Set(f, p, v) == f' = [f EXCEPT ![p] = v]

\* The word a pop reads as the next free index: a free block holds one; a
\* block that holds a descriptor gives whatever its low bits are.
NextOf(b) == IF "idx" \in DOMAIN mem[b] THEN {mem[b].idx} ELSE Idx

\* A call returns: its locals are dead.
Return(p) ==
  /\ Goto(p, "idle")
  /\ desc' = [desc EXCEPT ![p] = Null] /\ act' = [act EXCEPT ![p] = NoActive]
  /\ mc' = [mc EXCEPT ![p] = 0] /\ blk' = [blk EXCEPT ![p] = Null]
  /\ sb' = [sb EXCEPT ![p] = Null] /\ tnext' = [tnext EXCEPT ![p] = Null]
  /\ qd' = [qd EXCEPT ![p] = Null]

\* The end of malloc_lf: the header line of block b gets descriptor d
\* (*store_addr = desc) and the block goes to the caller.
MallocDone(p, b, d) ==
  /\ mem' = [mem EXCEPT ![b] = HdrW(d)]
  /\ held' = held \cup {b}
  /\ Return(p)

\* reserve_from_active / try_reserve_from_active (lines 530-574): take one
\* credit from the active word, or the descriptor itself with its last.
\* Only this executor reads or writes its procheap's active word.
Reserve(p) ==
  /\ IF active[p].ptr = Null
       THEN Goto(p, "gp") /\ UNCHANGED <<active, act>>
       ELSE /\ Set(act, p, active[p])
            /\ Set(active, p, IF active[p].credits = 0 THEN NoActive
                               ELSE [active[p] EXCEPT !.credits = @ - 1])
            /\ Goto(p, "pa")
  /\ UNCHANGED <<freeSlices, avail, dNext, dSlice, dHeap, anchor, mem, partial,
                 queue, held, live, desc, mc, blk, sb, tnext, qd>>

\* malloc_lf (lines 1085-1107) for a size this class serves: find_heap
\* gives the caller's own procheap, and try_alloc (lines 952-976) starts
\* with malloc_from_active's reservation, which touches nothing another
\* executor reads.
MallocLf(p) ==
  /\ pc[p] = "idle" /\ ops < MaxOps
  /\ ops' = ops + 1 /\ Reserve(p)

\* malloc_lf's retry of try_alloc (line 1103) after it returned NULL.
ReserveFromActive(p) ==
  /\ pc[p] = "ra" /\ Reserve(p) /\ UNCHANGED ops

(***************************************************************************)
(* pop_from_active (lines 642-706), retried by malloc_from_active (lines   *)
(* 709-735) until its anchor CAS succeeds: unlink the avail block.  With   *)
(* the last active credit taken, the anchor's credits move to the caller   *)
(* (morecredits) or, if there are none, the superblock becomes FULL.       *)
(***************************************************************************)
PopFromActive(p) ==
  LET d    == act[p].ptr
      oa   == anchor[d]
      b    == <<dSlice[d], oa.avail>>
      more == min(oa.credits, MaxCredits)
  IN /\ pc[p] = "pa"
     /\ \E next \in NextOf(b) :
          LET na == [oa EXCEPT !.avail = next] IN
          anchor' = [anchor EXCEPT ![d] =
                      IF act[p].credits # 0 THEN na
                      ELSE IF oa.credits = 0 THEN [na EXCEPT !.state = "FULL"]
                      ELSE [na EXCEPT !.credits = @ - more]]
     /\ IF act[p].credits = 0 /\ oa.credits > 0
          THEN /\ Goto(p, "ua") /\ Set(desc, p, d) /\ Set(blk, p, b)
               /\ Set(mc, p, more)
               /\ UNCHANGED <<mem, held, act, sb, tnext, qd>>
          ELSE MallocDone(p, b, d)
     /\ UNCHANGED <<freeSlices, avail, dNext, dSlice, dHeap, active, partial,
                    queue, live, ops>>

\* Mutant: update_active installs morecredits rather than morecredits - 1.
UpdateActiveOffByOne(p) ==
  LET d == desc[p] IN
  /\ pc[p] = "ua"
  /\ IF active[p] = NoActive
       THEN /\ Set(active, p, [ptr |-> d, credits |-> mc[p] % 64])
            /\ MallocDone(p, blk[p], d)
            /\ UNCHANGED anchor
       ELSE /\ anchor' = [anchor EXCEPT ![d].state = "PARTIAL",
                                        ![d].credits = C10(@ + mc[p])]
            /\ Goto(p, "put_m")
            /\ UNCHANGED <<active, mem, held, desc, act, mc, blk, sb, tnext, qd>>
  /\ UNCHANGED <<freeSlices, avail, dNext, dSlice, dHeap, partial, queue, live,
                 ops>>

(***************************************************************************)
(* update_active (lines 626-639): install the descriptor as active with    *)
(* morecredits - 1 credits (active_create keeps 6 bits) if the active word  *)
(* is 0; otherwise update_partial (lines 607-623) gives the credits back   *)
(* to the anchor, makes it PARTIAL and heap_put_partial follows.           *)
(***************************************************************************)
UpdateActive(p) ==
  LET d == desc[p] IN
  /\ pc[p] = "ua"
  /\ IF active[p] = NoActive
       THEN /\ Set(active, p, [ptr |-> d, credits |-> (mc[p] - 1) % 64])
            /\ MallocDone(p, blk[p], d)
            /\ UNCHANGED anchor
       ELSE /\ anchor' = [anchor EXCEPT ![d].state = "PARTIAL",
                                        ![d].credits = C10(@ + mc[p])]
            /\ Goto(p, "put_m")
            /\ UNCHANGED <<active, mem, held, desc, act, mc, blk, sb, tnext, qd>>
  /\ UNCHANGED <<freeSlices, avail, dNext, dSlice, dHeap, partial, queue, live,
                 ops>>

\* Where heap_put_partial returns to: the end of malloc_lf after
\* update_partial, or the end of free_lf after try_free.
PutDone(p) ==
  IF pc[p] \in {"put_m", "enq_m"} THEN MallocDone(p, blk[p], desc[p])
  ELSE Return(p) /\ UNCHANGED <<mem, held>>

\* Mutant: the displaced slot value is enqueued even when it was NULL.
HeapPutPartialAlwaysEnqueue(p) ==
  LET d == desc[p]  h == dHeap[d]  prev == partial[h] IN
  /\ pc[p] \in {"put_m", "put_f"}
  /\ partial' = [partial EXCEPT ![h] = d]
  /\ Set(qd, p, prev) /\ Goto(p, IF pc[p] = "put_m" THEN "enq_m" ELSE "enq_f")
  /\ UNCHANGED <<mem, held, desc, act, mc, blk, sb, tnext>>
  /\ UNCHANGED <<freeSlices, avail, dNext, dSlice, dHeap, anchor, active, queue,
                 live, ops>>

\* heap_put_partial / try_heap_put_partial (lines 577-604): CAS the
\* descriptor into its heap's partial slot; the one it displaces is
\* enqueued on the size class's partial queue.
HeapPutPartial(p) ==
  LET d == desc[p]  h == dHeap[d]  prev == partial[h] IN
  /\ pc[p] \in {"put_m", "put_f"}
  /\ partial' = [partial EXCEPT ![h] = d]
  /\ IF prev # Null
       THEN /\ Set(qd, p, prev) /\ Goto(p, IF pc[p] = "put_m" THEN "enq_m" ELSE "enq_f")
            /\ UNCHANGED <<mem, held, desc, act, mc, blk, sb, tnext>>
       ELSE PutDone(p)
  /\ UNCHANGED <<freeSlices, avail, dNext, dSlice, dHeap, anchor, active, queue,
                 live, ops>>

\* lf_block_queue_enqueue of the displaced descriptor (line 600).
EnqueuePartial(p) ==
  /\ pc[p] \in {"enq_m", "enq_f"}
  /\ queue' = Append(queue, qd[p])
  /\ PutDone(p)
  /\ UNCHANGED <<freeSlices, avail, dNext, dSlice, dHeap, anchor, active, partial,
                 live, ops>>

\* heap_get_partial (lines 738-768), called by malloc_from_partial (line
\* 796): take the heap's partial slot by CAS, or else dequeue from the
\* size class's queue; NULL sends try_alloc on to a new superblock.
HeapGetPartial(p) ==
  /\ pc[p] = "gp"
  /\ \/ /\ partial[p] # Null
        /\ Set(desc, p, partial[p]) /\ Set(partial, p, Null)
        /\ Goto(p, "claim") /\ UNCHANGED queue
     \/ /\ partial[p] = Null /\ queue # <<>>
        /\ Set(desc, p, Head(queue)) /\ queue' = Tail(queue)
        /\ Goto(p, "claim") /\ UNCHANGED partial
     \/ /\ partial[p] = Null /\ queue = <<>>
        /\ Goto(p, "nsb") /\ UNCHANGED <<desc, partial, queue>>
  /\ UNCHANGED <<freeSlices, avail, dNext, dSlice, dHeap, anchor, mem, active,
                 held, live, act, mc, blk, sb, tnext, qd, ops>>

(***************************************************************************)
(* The claim loop of malloc_from_partial (lines 798-840): an EMPTY         *)
(* descriptor is skipped, and malloc_from_partial gets another partial;    *)
(* otherwise the anchor gives up min(credits - 1, MAX_CREDITS) credits     *)
(* plus the block about to be popped, and is ACTIVE or FULL.  The          *)
(* subtraction is unsigned, and the credits field 10 bits wide.            *)
(***************************************************************************)
ClaimPartial(p) ==
  LET d == desc[p]  oa == anchor[d]
      c == ClaimCredits(oa.credits)
  IN /\ pc[p] = "claim"
     /\ IF oa.state = "EMPTY"
          THEN Goto(p, "gp") /\ Set(desc, p, Null) /\ UNCHANGED <<anchor, mc>>
          ELSE /\ anchor' = [anchor EXCEPT ![d] =
                               [oa EXCEPT !.state = IF c > 0 THEN "ACTIVE" ELSE "FULL",
                                          !.credits = C10(oa.credits - (c + 1))]]
               /\ Set(mc, p, c) /\ Goto(p, "pp") /\ UNCHANGED desc
     /\ UNCHANGED <<freeSlices, avail, dNext, dSlice, dHeap, mem, active, partial,
                    queue, held, live, act, blk, sb, tnext, qd, ops>>

\* pop_from_partial (lines 771-784), retried until its CAS succeeds, then
\* update_active if credits were claimed (lines 848-866).
PopFromPartial(p) ==
  LET d == desc[p]  oa == anchor[d]  b == <<dSlice[d], oa.avail>> IN
  /\ pc[p] = "pp"
  /\ \E next \in NextOf(b) : anchor' = [anchor EXCEPT ![d].avail = next]
  /\ IF mc[p] > 0
       THEN Set(blk, p, b) /\ Goto(p, "ua")
            /\ UNCHANGED <<mem, held, desc, act, mc, sb, tnext, qd>>
       ELSE MallocDone(p, b, d)
  /\ UNCHANGED <<freeSlices, avail, dNext, dSlice, dHeap, active, partial, queue,
                 live, ops>>

\* malloc_from_new_sb's slice_alloc (lines 881-888): NULL makes try_alloc
\* return NULL, and malloc_lf tries again from the active superblock.
SliceAllocSb(p) ==
  /\ pc[p] = "nsb"
  /\ IF freeSlices = {}
       THEN Goto(p, "ra") /\ UNCHANGED <<freeSlices, sb>>
       ELSE \E e \in freeSlices :
              freeSlices' = freeSlices \ {e} /\ Set(sb, p, e) /\ Goto(p, "dr")
  /\ UNCHANGED <<avail, dNext, dSlice, dHeap, anchor, mem, active, partial, queue,
                 held, live, desc, act, mc, blk, tnext, qd, ops>>

(***************************************************************************)
(* desc_alloc / try_desc_alloc (lines 393-479): pop malloc_desc_avail by   *)
(* reading the head, then its des_next, then CASing the head from one to   *)
(* the other, with no tag.  A failed CAS starts again.                     *)
(***************************************************************************)
DescRead(p) ==
  /\ pc[p] = "dr"
  /\ IF avail = Null THEN Goto(p, "ds") /\ UNCHANGED desc
     ELSE Set(desc, p, avail) /\ Goto(p, "dn")
  /\ UNCHANGED <<freeSlices, avail, dNext, dSlice, dHeap, anchor, mem, active,
                 partial, queue, held, live, act, mc, blk, sb, tnext, qd, ops>>

DescNext(p) ==
  /\ pc[p] = "dn"
  /\ Set(tnext, p, dNext[desc[p]]) /\ Goto(p, "dc")
  /\ UNCHANGED <<freeSlices, avail, dNext, dSlice, dHeap, anchor, mem, active,
                 partial, queue, held, live, desc, act, mc, blk, sb, qd, ops>>

DescCas(p) ==
  /\ pc[p] = "dc"
  /\ IF avail = desc[p]
       THEN avail' = tnext[p] /\ Goto(p, "sbi") /\ UNCHANGED desc
       ELSE Goto(p, "dr") /\ Set(desc, p, Null) /\ UNCHANGED avail
  /\ Set(tnext, p, Null)
  /\ UNCHANGED <<freeSlices, dNext, dSlice, dHeap, anchor, mem, active, partial,
                 queue, held, live, act, mc, blk, sb, qd, ops>>

(***************************************************************************)
(* The refill branch of try_desc_alloc (lines 411-456), with no            *)
(* descriptors available: slice_alloc, chain the cells in the fresh slice  *)
(* and CAS malloc_desc_avail from NULL to the second cell.  The loop sets  *)
(* the des_next of cells 0 .. count-2, then steps back one cell and ends   *)
(* the list there, and that cell, count-2, is what the call returns.  If   *)
(* the CAS fails the slice is freed.  The slice is taken at the CAS.       *)
(***************************************************************************)
Carved(e) == [d \in Descs |->
                IF d[1] # e THEN dNext[d]
                ELSE IF d[2] < DescCount - 2 THEN <<e, d[2] + 1>> ELSE Null]

DescSlab(p) ==
  /\ pc[p] = "ds"
  /\ IF freeSlices = {} \/ avail # Null
       THEN Goto(p, "dr") /\ UNCHANGED <<freeSlices, avail, dNext, desc>>
       ELSE \E e \in freeSlices :
              /\ freeSlices' = freeSlices \ {e} /\ dNext' = Carved(e)
              /\ avail' = <<e, 1>> /\ Set(desc, p, <<e, DescCount - 2>>)
              /\ Goto(p, "sbi")
  /\ UNCHANGED <<dSlice, dHeap, anchor, mem, active, partial, queue, held, live,
                 act, mc, blk, sb, tnext, qd, ops>>

(***************************************************************************)
(* The rest of malloc_from_new_sb (lines 889-940): chain blocks 1 ..       *)
(* maxcount-2 (the last is zero, fresh from mmap), fill in the descriptor  *)
(* with min(maxcount-1, MAX_CREDITS) blocks for the active word and the    *)
(* rest in the anchor, and CAS the active word from 0.  Block 0 goes to    *)
(* the caller.  If the CAS fails the slice is freed, the descriptor        *)
(* retired (malloc_desc_retire, lines 482-501), and NULL returned.         *)
(***************************************************************************)
SbCredits == min(MaxCount - 1, MaxCredits) - 1

InstallSb(p) ==
  LET d == desc[p]  e == sb[p] IN
  /\ pc[p] = "sbi"
  /\ dSlice' = [dSlice EXCEPT ![d] = e] /\ dHeap' = [dHeap EXCEPT ![d] = p]
  /\ anchor' = [anchor EXCEPT ![d] = [avail |-> 1, state |-> "ACTIVE",
                                     credits |-> (MaxCount - 1) - (SbCredits + 1)]]
  /\ IF active[p] = NoActive
       THEN /\ Set(active, p, [ptr |-> d, credits |-> SbCredits])
            /\ mem' = [b \in Blocks |->
                         IF b[1] # e THEN mem[b]
                         ELSE IF b[2] = 0 THEN HdrW(d)
                         ELSE IdxW(IF b[2] < MaxCount - 1 THEN b[2] + 1 ELSE 0)]
            /\ held' = held \cup {<<e, 0>>} /\ live' = live \cup {d}
            /\ Return(p)
            /\ UNCHANGED <<freeSlices, avail, dNext>>
       ELSE /\ freeSlices' = freeSlices \cup {e}
            /\ dNext' = [dNext EXCEPT ![d] = avail] /\ avail' = d
            /\ Goto(p, "ra") /\ Set(desc, p, Null) /\ Set(sb, p, Null)
            /\ UNCHANGED <<active, mem, held, live, act, mc, blk, tnext, qd>>
  /\ UNCHANGED <<partial, queue, ops>>

\* Mutant: try_free takes the superblock for empty one free block early.
FreeLfEarlyEmpty(p, b) ==
  LET d == mem[b].hdr  oa == anchor[d]
      empty == oa.credits = MaxCount - 2
      st == IF empty THEN "EMPTY" ELSE IF oa.state = "FULL" THEN "PARTIAL" ELSE oa.state
  IN /\ pc[p] = "idle" /\ ops < MaxOps /\ b \in held /\ "hdr" \in DOMAIN mem[b]
     /\ held' = held \ {b} /\ ops' = ops + 1
     /\ anchor' = [anchor EXCEPT ![d] =
                     [avail |-> b[2], state |-> st,
                      credits |-> IF empty THEN oa.credits ELSE C10(oa.credits + 1)]]
     /\ mem' = [mem EXCEPT ![b] = IdxW(oa.avail)]
     /\ IF empty
          THEN /\ freeSlices' = freeSlices \cup {dSlice[d]} /\ live' = live \ {d}
               /\ Goto(p, "red") /\ Set(desc, p, d)
          ELSE /\ IF oa.state = "FULL"
                    THEN Goto(p, "put_f") /\ Set(desc, p, d)
                    ELSE UNCHANGED <<pc, desc>>
               /\ UNCHANGED <<freeSlices, live>>
     /\ UNCHANGED <<avail, dNext, dSlice, dHeap, active, partial, queue,
                    act, mc, blk, sb, tnext, qd>>

(***************************************************************************)
(* free_lf (lines 1143-1167) of a block from a superblock: the header line *)
(* gives the descriptor, and try_free (lines 1006-1079) is retried until   *)
(* its CAS succeeds.  The block's first word gets the old avail, the      *)
(* anchor's avail the block; a FULL superblock becomes PARTIAL.  If the    *)
(* anchor's credits already count every other block (maxcount - 1) it     *)
(* becomes EMPTY, its slice is freed and remove_empty_desc follows;        *)
(* otherwise the credits go up by one, and a superblock that was FULL is  *)
(* put on the partial list.  Any executor may free any block, since        *)
(* threads move between executors.                                        *)
(***************************************************************************)
FreeLf(p, b) ==
  LET d == mem[b].hdr  oa == anchor[d]
      empty == oa.credits = MaxCount - 1
      st == IF empty THEN "EMPTY" ELSE IF oa.state = "FULL" THEN "PARTIAL" ELSE oa.state
  IN /\ pc[p] = "idle" /\ ops < MaxOps /\ b \in held /\ "hdr" \in DOMAIN mem[b]
     /\ held' = held \ {b} /\ ops' = ops + 1
     /\ anchor' = [anchor EXCEPT ![d] =
                     [avail |-> b[2], state |-> st,
                      credits |-> IF empty THEN oa.credits ELSE C10(oa.credits + 1)]]
     /\ mem' = [mem EXCEPT ![b] = IdxW(oa.avail)]
     /\ IF empty
          THEN /\ freeSlices' = freeSlices \cup {dSlice[d]} /\ live' = live \ {d}
               /\ Goto(p, "red") /\ Set(desc, p, d)
          ELSE /\ IF oa.state = "FULL"
                    THEN Goto(p, "put_f") /\ Set(desc, p, d)
                    ELSE UNCHANGED <<pc, desc>>
               /\ UNCHANGED <<freeSlices, live>>
     /\ UNCHANGED <<avail, dNext, dSlice, dHeap, active, partial, queue,
                    act, mc, blk, sb, tnext, qd>>

(***************************************************************************)
(* remove_empty_desc (lines 979-1003): CAS the descriptor out of its      *)
(* heap's partial slot and retire it; failing that, dequeue from the      *)
(* size class's queue until the queue is empty or an EMPTY descriptor      *)
(* comes out, and enqueue that one again.  The others dequeued are         *)
(* dropped.                                                               *)
(***************************************************************************)
RemoveEmptyDesc(p) ==
  LET d == desc[p]  h == dHeap[d] IN
  /\ pc[p] = "red"
  /\ IF partial[h] = d
       THEN partial' = [partial EXCEPT ![h] = Null] /\ Goto(p, "rt")
       ELSE Goto(p, "drain") /\ UNCHANGED partial
  /\ UNCHANGED <<freeSlices, avail, dNext, dSlice, dHeap, anchor, mem, active,
                 queue, held, live, desc, act, mc, blk, sb, tnext, qd, ops>>

\* malloc_desc_retire (lines 482-501): push on malloc_desc_avail.
DescRetire(p) ==
  /\ pc[p] = "rt"
  /\ dNext' = [dNext EXCEPT ![desc[p]] = avail] /\ avail' = desc[p]
  /\ Return(p)
  /\ UNCHANGED <<freeSlices, dSlice, dHeap, anchor, mem, active, partial, queue,
                 held, live, ops>>

DrainPartial(p) ==
  /\ pc[p] = "drain"
  /\ IF queue = <<>>
       THEN Return(p) /\ UNCHANGED queue
       ELSE /\ queue' = Tail(queue)
            /\ IF anchor[Head(queue)].state = "EMPTY"
                 THEN Set(qd, p, Head(queue)) /\ Goto(p, "reenq")
                 ELSE UNCHANGED <<pc, qd>>
            /\ UNCHANGED <<desc, act, mc, blk, sb, tnext>>
  /\ UNCHANGED <<freeSlices, avail, dNext, dSlice, dHeap, anchor, mem, active,
                 partial, held, live, ops>>

ReEnqueue(p) ==
  /\ pc[p] = "reenq"
  /\ queue' = Append(queue, qd[p])
  /\ Return(p)
  /\ UNCHANGED <<freeSlices, avail, dNext, dSlice, dHeap, anchor, mem, active,
                 partial, held, live, ops>>

Step(p) ==
  \/ ReserveFromActive(p) \/ PopFromActive(p) \/ UpdateActive(p)
  \/ HeapPutPartial(p) \/ EnqueuePartial(p) \/ HeapGetPartial(p)
  \/ ClaimPartial(p) \/ PopFromPartial(p) \/ SliceAllocSb(p)
  \/ DescRead(p) \/ DescNext(p) \/ DescCas(p) \/ DescSlab(p) \/ InstallSb(p)
  \/ RemoveEmptyDesc(p) \/ DescRetire(p) \/ DrainPartial(p)
  \/ ReEnqueue(p)

Next == \E p \in Procs : \/ Step(p) \/ MallocLf(p) \/ \E b \in held : FreeLf(p, b)

\* Executors are OS threads the kernel keeps running: a call in progress
\* keeps taking steps.  Whether a thread calls malloc or free is its own.
Spec == Init /\ [][Next]_vars /\ \A p \in Procs : WF_vars(Step(p))
-----------------------------------------------------------------------------
TypeOK ==
  /\ freeSlices \subseteq Slices /\ avail \in Descs \cup {Null}
  /\ dNext \in [Descs -> Descs \cup {Null}] /\ anchor \in [Descs -> Anchor]
  /\ mem \in [Blocks -> Word]
  /\ active \in [Procs -> [ptr : Descs \cup {Null}, credits : 0 .. 63]]
  /\ partial \in [Procs -> Descs \cup {Null}] /\ queue \in Seq(Descs)
  /\ held \subseteq Blocks /\ live \subseteq Descs
  /\ desc \in [Procs -> Descs \cup {Null}]

\* The blocks of descriptor d's superblock that are out of its free list:
\* held by callers, or between the pop and the return of a malloc, or
\* between the call and the CAS of a free.
Out(d) ==
  {b \in held : b[1] = dSlice[d]}
  \cup {blk[q] : q \in {q \in Procs : pc[q] \in {"ua", "put_m", "enq_m"} /\ desc[q] = d}}

\* The credits for d's free blocks that are not in its anchor: those of an
\* active word, and those a malloc has taken and not yet used or given on.
ActiveCredits(d) == {<<q, active[q].credits + 1>> : q \in {q \in Procs : active[q].ptr = d}}
Reserved(d) ==
  {<<q, CASE pc[q] = "pa" -> 1 [] pc[q] = "pp" -> mc[q] + 1 [] OTHER -> mc[q]>> :
     q \in {q \in Procs : \/ pc[q] = "pa" /\ act[q].ptr = d
                          \/ pc[q] \in {"pp", "ua"} /\ desc[q] = d}}
RECURSIVE SumSnd(_)
SumSnd(S) == IF S = {} THEN 0
             ELSE LET x == CHOOSE x \in S : TRUE IN x[2] + SumSnd(S \ {x})

\* The number of free blocks d's anchor, active words and callers account for.
FreeCount(d) == anchor[d].credits + SumSnd(ActiveCredits(d)) + SumSnd(Reserved(d))

\* The free list of superblock e from block i, k blocks long, as block
\* indices; -1 marks a link that is not an index.
RECURSIVE Chain(_, _, _)
Chain(e, i, k) ==
  IF k = 0 THEN <<>>
  ELSE <<i>> \o (IF k = 1 THEN <<>>
                 ELSE IF "idx" \in DOMAIN mem[<<e, i>>]
                      THEN Chain(e, mem[<<e, i>>].idx, k - 1)
                      ELSE <<-1>>)

\* Every superblock in use is partitioned: the free list its anchor heads,
\* as long as the credits of the anchor, of the active word and of the
\* mallocs in progress together say, runs through distinct blocks none of
\* which is out, and those blocks with the ones out make up all MaxCount.
\* It is what the anchor CASes of pop_from_active, malloc_from_partial and
\* try_free, and the credit hand-offs of update_active, keep between them.
BlocksPartitioned ==
  \A d \in live :
    LET ch == Chain(dSlice[d], anchor[d].avail, FreeCount(d))
        fr == {<<dSlice[d], ch[i]>> : i \in 1 .. Len(ch)}
    IN /\ \A i \in 1 .. Len(ch) : ch[i] \in Idx
       /\ Cardinality(fr) = Len(ch)
       /\ fr \cap Out(d) = {}
       /\ Len(ch) + Cardinality(Out(d)) = MaxCount

\* spec.md: anchor.state = EMPTY implies no outstanding allocations from the
\* superblock.  try_free sets EMPTY when the anchor's credits count every
\* other block, and frees the slice; no caller may still hold, or be about
\* to receive, a block whose header names the descriptor, and no active
\* word or malloc in progress may still have credits for it.
EmptyMeansFree ==
  \A d \in Descs :
    anchor[d].state = "EMPTY" /\ d \notin live =>
      /\ \A b \in held : mem[b] # HdrW(d)
      /\ \A q \in Procs : pc[q] \in {"pa", "pp", "ua", "put_m", "enq_m"} =>
                           desc[q] # d /\ act[q].ptr # d
      /\ \A q \in Procs : active[q].ptr # d

\* The descriptors on malloc_desc_avail, followed from the head through
\* des_next (a list longer than Descs would repeat one).
RECURSIVE AvailFrom(_, _)
AvailFrom(d, k) == IF d = Null \/ k = 0 THEN {} ELSE {d} \cup AvailFrom(dNext[d], k - 1)
OnAvail == AvailFrom(avail, Cardinality(Descs))

\* Everywhere a descriptor can be referenced from once it leaves the stack.
InUse == live \cup {queue[i] : i \in 1 .. Len(queue)}
         \cup {partial[h] : h \in Procs} \cup {active[h].ptr : h \in Procs}

\* A descriptor is handed out once: none on malloc_desc_avail is in use,
\* and the one a malloc_from_new_sb is setting up is neither in use, on
\* the stack, nor being set up by another executor.  It is what the
\* untagged pop of try_desc_alloc, the carve of a fresh slice and the
\* retire in remove_empty_desc keep between them.
DescFresh ==
  /\ OnAvail \cap InUse = {}
  /\ \A q \in Procs : pc[q] = "sbi" =>
       /\ desc[q] \notin InUse \cup OnAvail
       /\ \A r \in Procs \ {q} : pc[r] = "sbi" => desc[r] # desc[q]

\* Where a descriptor can be found again by a malloc: a heap's partial
\* slot, the size class's queue, an active word, or an executor's locals.
Findable(d) ==
  \/ d \in {partial[h] : h \in Procs} \cup {queue[i] : i \in 1 .. Len(queue)}
  \/ \E q \in Procs : d \in {active[q].ptr, act[q].ptr, desc[q], qd[q]}

\* No superblock with free blocks is lost: a PARTIAL superblock in use can
\* be found again by a malloc.  update_partial and try_free put it on the
\* partial slot (displacing the old one to the queue), malloc_from_partial
\* takes it off, and remove_empty_desc's drain dequeues others.
NoLostPartial == \A d \in live : anchor[d].state = "PARTIAL" => Findable(d)

\* The positions of a free_lf call after its anchor CAS.
FreePcs == {"put_f", "enq_f", "red", "rt", "drain", "reenq"}

\* Every malloc_lf returns (spec.md: alloc returns null only if the slice
\* manager cannot serve a new superblock and no partials exist).
MallocReturns == \A p \in Procs : (pc[p] # "idle" /\ pc[p] \notin FreePcs) ~> pc[p] = "idle"
=============================================================================
