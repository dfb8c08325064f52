---------------------------- MODULE LFBlockQueue ----------------------------
(***************************************************************************)
(* src/mm/malloc/lf_block_queue.c: the queue of partial superblock        *)
(* descriptors (sc_partial) of lf_malloc.c.  The queue and its hazard     *)
(* pointers are those of lf_thread_queue.c, but the nodes come from one   *)
(* global Treiber stack, lf_block_queue_nodes, which an empty pop refills *)
(* with a fresh slice and to which a scan pushes the unprotected part of  *)
(* a retired list in one CAS.  Nodes are indices: slice s holds nodes     *)
(* s * PerSlice .. s * PerSlice + PerSlice - 1 (the code's 0x10000-byte   *)
(* slice holds 8192 nodes; PerSlice is that number made small).  One      *)
(* queue is modelled; the other size classes' queues only take nodes from *)
(* the same stack.  A step is one access to shared memory.                *)
(***************************************************************************)
EXTENDS Integers, FiniteSets

CONSTANTS
  NExec,     \* executors, lf_block_queue_hptrs
  NSlices,   \* slices slice_alloc can hand out for nodes
  PerSlice,  \* nodes in a slice
  Blocks,    \* the descriptors enqueued
  Null,      \* NULL
  MaxOps     \* bound on the enqueue and dequeue calls made

ASSUME NExec >= 1 /\ NSlices >= 1 /\ PerSlice >= 2 /\ Null \notin Int
       /\ Null \notin Blocks

Execs     == 0 .. NExec - 1
Slices    == 0 .. NSlices - 1
Nodes     == 0 .. NSlices * PerSlice - 1
Threshold == 2 * NExec                \* lf_block_queue_hptr_threshold
Slots     == 0 .. 1

SliceNodes(s) == s * PerSlice .. s * PerSlice + PerSlice - 1

VARIABLES
  head, tail,        \* lf_head, lf_tail
  next, data,        \* lfn_next, lfn_data of every node
  free,              \* lf_block_queue_nodes
  unused,            \* slices slice_alloc may still return
  hp,                \* lf_hptrs[e].bhp_ptrs[0..1]
  rlist, rcount,     \* lf_hptrs[e].bhp_rlist, .bhp_rcount
  pc,                \* per executor: program counter
  val, node,         \* locals of enqueue: the block and its node
  an, anx, sl,       \* locals of node allocation: node, next, slice
  t, nx, h, tl,      \* locals of try_enqueue / try_dequeue
  walk, snap, sIdx,  \* locals of the scan: list walked, ptab, pointer read
  fh, ft, fl,        \* free_head, free_tail, and the stack read by try_free
  nops               \* calls made

vars == <<head, tail, next, data, free, unused, hp, rlist, rcount, pc, val,
          node, an, anx, sl, t, nx, h, tl, walk, snap, sIdx, fh, ft, fl, nops>>

Goto(e, l) == pc' = [pc EXCEPT ![e] = l]
SetHp(e, s, v) == hp' = [hp EXCEPT ![e][s] = v]
Set(f, e, v) == [f EXCEPT ![e] = v]

(***************************************************************************)
(* The state lf_block_queue_init (lines 101-129) leaves: its              *)
(* lf_block_queue_alloc_node found the stack empty, took slice 0, pushed  *)
(* nodes 1 .. PerSlice - 1 and made node 0 the sentinel, head and tail.   *)
(***************************************************************************)
Init ==
  /\ next = [n \in Nodes |-> IF n \in 1 .. PerSlice - 2 THEN n + 1 ELSE Null]
  /\ data = [n \in Nodes |-> Null]
  /\ free = 1 /\ unused = Slices \ {0}
  /\ head = 0 /\ tail = 0
  /\ hp = [e \in Execs |-> [s \in Slots |-> Null]]
  /\ rlist = [e \in Execs |-> Null] /\ rcount = [e \in Execs |-> 0]
  /\ pc = [e \in Execs |-> "idle"]
  /\ val = [e \in Execs |-> Null] /\ node = [e \in Execs |-> Null]
  /\ an = [e \in Execs |-> Null] /\ anx = [e \in Execs |-> Null]
  /\ sl = [e \in Execs |-> Null]
  /\ t = [e \in Execs |-> Null] /\ nx = [e \in Execs |-> Null]
  /\ h = [e \in Execs |-> Null] /\ tl = [e \in Execs |-> Null]
  /\ walk = [e \in Execs |-> Null] /\ snap = [e \in Execs |-> {}]
  /\ sIdx = [e \in Execs |-> 0]
  /\ fh = [e \in Execs |-> Null] /\ ft = [e \in Execs |-> Null]
  /\ fl = [e \in Execs |-> Null]
  /\ nops = 0

QueueVars == <<head, tail, data, hp, rlist, rcount>>
Locals    == <<val, node, an, anx, sl, t, nx, h, tl, walk, snap, sIdx, fh, ft, fl>>

(***************************************************************************)
(* lf_block_queue_enqueue (lines 397-433) starts with                     *)
(* lf_block_queue_alloc_node (lines 87-98), which retries                 *)
(* lf_block_queue_try_alloc_node (lines 37-84) until it reports success:  *)
(* read the stack head, read its lfn_next, CAS the head from the one to   *)
(* the other.  The CAS has no tag.                                         *)
(***************************************************************************)
CallEnqueue(e, b) ==
  /\ pc[e] = "idle" /\ nops < MaxOps
  /\ val' = Set(val, e, b)
  /\ Goto(e, "a_read")
  /\ nops' = nops + 1
  /\ UNCHANGED <<QueueVars, next, free, unused, node, an, anx, sl, t, nx, h, tl,
                 walk, snap, sIdx, fh, ft, fl>>

AllocRead(e) ==
  /\ pc[e] = "a_read"
  /\ an' = Set(an, e, free)
  /\ Goto(e, IF free # Null THEN "a_next" ELSE "a_slice")
  /\ UNCHANGED <<QueueVars, next, free, unused, nops, val, node, anx, sl, t, nx,
                 h, tl, walk, snap, sIdx, fh, ft, fl>>

AllocNext(e) ==
  /\ pc[e] = "a_next"
  /\ anx' = Set(anx, e, next[an[e]])
  /\ Goto(e, "a_cas")
  /\ UNCHANGED <<QueueVars, next, free, unused, nops, val, node, an, sl, t, nx,
                 h, tl, walk, snap, sIdx, fh, ft, fl>>

AllocCas(e) ==
  /\ pc[e] = "a_cas"
  /\ IF free = an[e]
       THEN /\ free' = anx[e] /\ node' = Set(node, e, an[e])
            /\ Goto(e, "e_fill")
       ELSE Goto(e, "a_read") /\ UNCHANGED <<free, node>>
  /\ an' = Set(an, e, Null) /\ anx' = Set(anx, e, Null)
  /\ UNCHANGED <<QueueVars, next, unused, nops, val, sl, t, nx, h, tl, walk,
                 snap, sIdx, fh, ft, fl>>

(***************************************************************************)
(* An empty stack: slice_alloc (by its contract, a slice or NULL when none *)
(* is left) and, privately, the links ptr[1] -> ... -> ptr[limit-1] ->    *)
(* NULL.  Without a slice the try reports success with the NULL it read,  *)
(* and the enqueue panics.                                                 *)
(***************************************************************************)
AllocSlice(e) ==
  /\ pc[e] = "a_slice"
  /\ IF unused = {}
       THEN Goto(e, "panic") /\ UNCHANGED <<next, unused, sl>>
       ELSE \E s \in unused :
              LET b == s * PerSlice IN
              /\ unused' = unused \ {s}
              /\ next' = [n \in Nodes |->
                            CASE n \in b + 1 .. b + PerSlice - 2 -> n + 1
                              [] n = b + PerSlice - 1          -> Null
                              [] OTHER                         -> next[n]]
              /\ sl' = Set(sl, e, s)
              /\ Goto(e, "a_refill")
  /\ an' = Set(an, e, Null)
  /\ UNCHANGED <<QueueVars, free, nops, val, node, anx, t, nx, h, tl, walk,
                 snap, sIdx, fh, ft, fl>>

\* CAS the stack from NULL to ptr + 1 and keep ptr; if another executor
\* filled the stack first, slice_free the slice and try again.
AllocRefill(e) ==
  LET b == sl[e] * PerSlice IN
  /\ pc[e] = "a_refill"
  /\ IF free = Null
       THEN /\ free' = b + 1 /\ node' = Set(node, e, b)
            /\ Goto(e, "e_fill") /\ UNCHANGED unused
       ELSE /\ unused' = unused \cup {sl[e]}
            /\ Goto(e, "a_read") /\ UNCHANGED <<free, node>>
  /\ sl' = Set(sl, e, Null)
  /\ UNCHANGED <<QueueVars, next, nops, val, an, anx, t, nx, h, tl, walk, snap,
                 sIdx, fh, ft, fl>>

\* Lines 411-412: node->lfn_data = block; node->lfn_next = NULL.
EnqFill(e) ==
  /\ pc[e] = "e_fill"
  /\ data' = [data EXCEPT ![node[e]] = val[e]]
  /\ next' = [next EXCEPT ![node[e]] = Null]
  /\ Goto(e, "e_tail")
  /\ UNCHANGED <<head, tail, hp, rlist, rcount, free, unused, nops, Locals>>

(***************************************************************************)
(* lf_block_queue_try_enqueue (lines 341-385), retried by the enqueue     *)
(* until it returns the tail it linked behind: read lf_tail, publish it   *)
(* in hazard pointer 0, check it, read its lfn_next, check again; a       *)
(* lagging tail is swung, otherwise lfn_next is CASed from NULL.  A store *)
(* or load and the check of lf_tail after it are one step.                *)
(***************************************************************************)
EnqReadTail(e) ==
  /\ pc[e] = "e_tail"
  /\ t' = Set(t, e, tail)
  /\ Goto(e, "e_hp")
  /\ UNCHANGED <<QueueVars, next, free, unused, nops, val, node, an, anx, sl, nx,
                 h, tl, walk, snap, sIdx, fh, ft, fl>>

EnqHazard(e) ==
  /\ pc[e] = "e_hp"
  /\ SetHp(e, 0, t[e])
  /\ Goto(e, IF tail = t[e] THEN "e_next" ELSE "e_tail")
  /\ UNCHANGED <<head, tail, data, rlist, rcount, next, free, unused, nops, Locals>>

EnqReadNext(e) ==
  /\ pc[e] = "e_next"
  /\ nx' = Set(nx, e, next[t[e]])
  /\ Goto(e, CASE tail # t[e]         -> "e_tail"
               [] next[t[e]] # Null -> "e_swing"
               [] OTHER              -> "e_link")
  /\ UNCHANGED <<QueueVars, next, free, unused, nops, val, node, an, anx, sl, t,
                 h, tl, walk, snap, sIdx, fh, ft, fl>>

\* Line 369: help the lagging tail along, then try again.
EnqSwing(e) ==
  /\ pc[e] = "e_swing"
  /\ tail' = IF tail = t[e] THEN nx[e] ELSE tail
  /\ Goto(e, "e_tail")
  /\ UNCHANGED <<head, data, hp, rlist, rcount, next, free, unused, nops, Locals>>

\* Line 373: CAS tail->lfn_next from NULL to the node.
EnqLink(e) ==
  /\ pc[e] = "e_link"
  /\ IF next[t[e]] = Null
       THEN next' = [next EXCEPT ![t[e]] = node[e]] /\ Goto(e, "e_fix")
       ELSE Goto(e, "e_tail") /\ UNCHANGED next
  /\ UNCHANGED <<QueueVars, free, unused, nops, Locals>>

\* Lines 421-423: CAS lf_tail from the tail to the node, clear hazard
\* pointer 0, return.
EnqFinish(e) ==
  /\ pc[e] = "e_fix"
  /\ tail' = IF tail = t[e] THEN node[e] ELSE tail
  /\ SetHp(e, 0, Null)
  /\ Goto(e, "idle")
  /\ val' = Set(val, e, Null) /\ node' = Set(node, e, Null)
  /\ t' = Set(t, e, Null) /\ nx' = Set(nx, e, Null)
  /\ UNCHANGED <<head, data, rlist, rcount, next, free, unused, nops, an, anx, sl,
                 h, tl, walk, snap, sIdx, fh, ft, fl>>

(***************************************************************************)
(* lf_block_queue_dequeue (lines 509-527) retries                         *)
(* lf_block_queue_try_dequeue (lines 436-497) until it reports success:   *)
(* read lf_head, publish it in hazard pointer 0, check it, read lf_tail   *)
(* and the head's lfn_next, publish that in hazard pointer 1, check       *)
(* again.  An empty queue clears both hazard pointers and returns NULL; a *)
(* lagging tail is swung; otherwise the head is CASed to its successor.   *)
(* As for the enqueue, a store and the check after it are one step.       *)
(***************************************************************************)
CallDequeue(e) ==
  /\ pc[e] = "idle" /\ nops < MaxOps
  /\ Goto(e, "d_head")
  /\ nops' = nops + 1
  /\ UNCHANGED <<QueueVars, next, free, unused, Locals>>

DeqReadHead(e) ==
  /\ pc[e] = "d_head"
  /\ h' = Set(h, e, head)
  /\ Goto(e, "d_hp0")
  /\ UNCHANGED <<QueueVars, next, free, unused, nops, val, node, an, anx, sl, t,
                 nx, tl, walk, snap, sIdx, fh, ft, fl>>

DeqHazard0(e) ==
  /\ pc[e] = "d_hp0"
  /\ SetHp(e, 0, h[e])
  /\ Goto(e, IF head = h[e] THEN "d_tail" ELSE "d_head")
  /\ UNCHANGED <<head, tail, data, rlist, rcount, next, free, unused, nops, Locals>>

DeqReadTail(e) ==
  /\ pc[e] = "d_tail"
  /\ tl' = Set(tl, e, tail)
  /\ Goto(e, "d_next")
  /\ UNCHANGED <<QueueVars, next, free, unused, nops, val, node, an, anx, sl, t,
                 nx, h, walk, snap, sIdx, fh, ft, fl>>

DeqReadNext(e) ==
  /\ pc[e] = "d_next"
  /\ nx' = Set(nx, e, next[h[e]])
  /\ Goto(e, "d_hp1")
  /\ UNCHANGED <<QueueVars, next, free, unused, nops, val, node, an, anx, sl, t,
                 h, tl, walk, snap, sIdx, fh, ft, fl>>

DeqHazard1(e) ==
  /\ pc[e] = "d_hp1"
  /\ SetHp(e, 1, nx[e])
  /\ CASE head # h[e] ->
            Goto(e, "d_head") /\ UNCHANGED Locals
       [] nx[e] = Null ->
            /\ hp' = [hp EXCEPT ![e] = [s \in Slots |-> Null]]
            /\ Goto(e, "idle")
            /\ h' = Set(h, e, Null) /\ tl' = Set(tl, e, Null)
            /\ UNCHANGED <<val, node, an, anx, sl, t, nx, walk, snap, sIdx, fh, ft, fl>>
       [] h[e] # tl[e] ->
            Goto(e, "d_cas") /\ UNCHANGED Locals
       [] OTHER ->
            Goto(e, "d_swing") /\ UNCHANGED Locals
  /\ UNCHANGED <<head, tail, data, rlist, rcount, next, free, unused, nops>>

DeqSwing(e) ==
  /\ pc[e] = "d_swing"
  /\ tail' = IF tail = tl[e] THEN nx[e] ELSE tail
  /\ Goto(e, "d_head")
  /\ UNCHANGED <<head, data, hp, rlist, rcount, next, free, unused, nops, Locals>>

\* Line 463: CAS lf_head from the dummy to its successor; then the block
\* is read out of the new dummy and hazard pointer 1 cleared (465-466).
DeqCas(e) ==
  /\ pc[e] = "d_cas"
  /\ IF head = h[e]
       THEN head' = nx[e] /\ Goto(e, "d_data")
       ELSE Goto(e, "d_head") /\ UNCHANGED head
  /\ UNCHANGED <<tail, data, hp, rlist, rcount, next, free, unused, nops, Locals>>

DeqData(e) ==
  /\ pc[e] = "d_data"
  /\ val' = Set(val, e, data[nx[e]])
  /\ SetHp(e, 1, Null)
  /\ Goto(e, "d_retire")
  /\ UNCHANGED <<head, tail, data, rlist, rcount, next, free, unused, nops, node,
                 an, anx, sl, t, nx, h, tl, walk, snap, sIdx, fh, ft, fl>>

(***************************************************************************)
(* lf_block_queue_node_retire (lines 293-314): the old dummy is pushed on *)
(* the executor's retired list through its own lfn_next (line 308), and  *)
(* when the count before the increment reaches the threshold the hazard   *)
(* pointers are scanned.  The dequeue then clears hazard pointer 0 and    *)
(* returns (line 468).                                                     *)
(***************************************************************************)
DeqRetire(e) ==
  /\ pc[e] = "d_retire"
  /\ next' = [next EXCEPT ![h[e]] = rlist[e]]
  /\ rlist' = Set(rlist, e, h[e])
  /\ rcount' = Set(rcount, e, rcount[e] + 1)
  /\ IF rcount[e] >= Threshold
       THEN Goto(e, "s_read") /\ UNCHANGED <<hp, h>>
       ELSE /\ SetHp(e, 0, Null) /\ Goto(e, "idle")
            /\ h' = Set(h, e, Null)
  /\ nx' = Set(nx, e, Null) /\ tl' = Set(tl, e, Null) /\ val' = Set(val, e, Null)
  /\ UNCHANGED <<head, tail, data, free, unused, nops, node, an, anx, sl, t,
                 walk, snap, sIdx, fh, ft, fl>>

\* lf_block_queue_scan_build_ptab (lines 255-273): the ptab of every
\* executor's two hazard pointers, read one at a time; then
\* scan_free_rlist takes the retired list over and empties it (202-209).
ScanRead(e) ==
  LET x == sIdx[e] \div 2
      s == sIdx[e] % 2
  IN /\ pc[e] = "s_read"
     /\ snap' = Set(snap, e, IF hp[x][s] = Null THEN snap[e] ELSE snap[e] \cup {hp[x][s]})
     /\ IF sIdx[e] = 2 * NExec - 1
          THEN /\ walk' = Set(walk, e, rlist[e])
               /\ rlist' = Set(rlist, e, Null) /\ rcount' = Set(rcount, e, 0)
               /\ sIdx' = Set(sIdx, e, 0)
               /\ Goto(e, "s_walk")
          ELSE /\ sIdx' = Set(sIdx, e, sIdx[e] + 1)
               /\ UNCHANGED <<walk, rlist, rcount, pc>>
     /\ UNCHANGED <<head, tail, data, hp, next, free, unused, nops, val, node, an,
                    anx, sl, t, nx, h, tl, fh, ft, fl>>

(***************************************************************************)
(* lf_block_queue_scan_free_rlist (lines 211-245): a retired node in the  *)
(* ptab goes back on the retired list, any other is appended to the chain *)
(* free_head .. free_tail through free_tail's lfn_next.                   *)
(***************************************************************************)
\* lf_block_queue_ptab_lookup / _insert (lines 132-178): the ptab is a
\* hash table of the pointers read, so a lookup is set membership.
InPtab(e, c) == c \in snap[e]

ScanWalk(e) ==
  LET c == walk[e] IN
  /\ pc[e] = "s_walk" /\ c # Null
  /\ walk' = Set(walk, e, next[c])
  /\ IF InPtab(e, c)
       THEN /\ next' = [next EXCEPT ![c] = rlist[e]]
            /\ rlist' = Set(rlist, e, c) /\ rcount' = Set(rcount, e, rcount[e] + 1)
            /\ UNCHANGED <<fh, ft>>
       ELSE /\ next' = IF fh[e] = Null THEN next ELSE [next EXCEPT ![ft[e]] = c]
            /\ fh' = IF fh[e] = Null THEN Set(fh, e, c) ELSE fh
            /\ ft' = Set(ft, e, c)
            /\ UNCHANGED <<rlist, rcount>>
  /\ UNCHANGED <<head, tail, data, hp, free, unused, pc, nops, val, node, an,
                 anx, sl, t, nx, h, tl, snap, sIdx, fl>>

(***************************************************************************)
(* Lines 247-250 retry lf_block_queue_try_free_nodes (lines 183-195):     *)
(* read the stack head and store it in free_tail's lfn_next (one step),   *)
(* then CAS the stack head to free_head.  With every retired node still   *)
(* protected free_tail is NULL, and the store dereferences it.  After the *)
(* push the dequeue clears hazard pointer 0 and returns (line 468).       *)
(***************************************************************************)
FreeLink(e) ==
  /\ pc[e] = "s_walk" /\ walk[e] = Null
  /\ IF ft[e] = Null
       THEN Goto(e, "crashed") /\ UNCHANGED <<next, fl>>
       ELSE /\ next' = [next EXCEPT ![ft[e]] = free]
            /\ fl' = Set(fl, e, free)
            /\ Goto(e, "f_cas")
  /\ UNCHANGED <<head, tail, data, hp, rlist, rcount, free, unused, nops, val,
                 node, an, anx, sl, t, nx, h, tl, walk, snap, sIdx, fh, ft>>

FreeCas(e) ==
  /\ pc[e] = "f_cas"
  /\ IF free = fl[e]
       THEN /\ free' = fh[e] /\ SetHp(e, 0, Null) /\ Goto(e, "idle")
            /\ fh' = Set(fh, e, Null) /\ ft' = Set(ft, e, Null)
            /\ snap' = Set(snap, e, {}) /\ h' = Set(h, e, Null)
       ELSE Goto(e, "s_walk") /\ UNCHANGED <<free, hp, fh, ft, snap, h>>
  /\ fl' = Set(fl, e, Null)
  /\ UNCHANGED <<head, tail, data, rlist, rcount, next, unused, nops, val, node,
                 an, anx, sl, t, nx, tl, walk, sIdx>>

-----------------------------------------------------------------------------
Step(e) ==
  \/ AllocRead(e) \/ AllocNext(e) \/ AllocCas(e) \/ AllocSlice(e) \/ AllocRefill(e)
  \/ EnqFill(e) \/ EnqReadTail(e) \/ EnqHazard(e) \/ EnqReadNext(e)
  \/ EnqSwing(e) \/ EnqLink(e) \/ EnqFinish(e)
  \/ DeqReadHead(e) \/ DeqHazard0(e) \/ DeqReadTail(e) \/ DeqReadNext(e)
  \/ DeqHazard1(e) \/ DeqSwing(e) \/ DeqCas(e) \/ DeqData(e) \/ DeqRetire(e)
  \/ ScanRead(e) \/ ScanWalk(e) \/ FreeLink(e) \/ FreeCas(e)

Call(e) == CallDequeue(e) \/ \E b \in Blocks : CallEnqueue(e, b)

Next == \E e \in Execs : Step(e) \/ Call(e)

\* The executors are OS threads: a call once made takes its steps.  Calls
\* are lf_malloc.c's choice.
Spec == Init /\ [][Next]_vars /\ \A e \in Execs : WF_vars(Step(e))

-----------------------------------------------------------------------------
Pcs == {"idle", "panic", "crashed", "a_read", "a_next", "a_cas", "a_slice",
        "a_refill", "e_fill", "e_tail", "e_hp", "e_next", "e_swing", "e_link",
        "e_fix", "d_head", "d_hp0", "d_tail", "d_next", "d_hp1", "d_swing",
        "d_cas", "d_data", "d_retire", "s_read", "s_walk", "f_cas"}
NodeOrNull == Nodes \cup {Null}

TypeOK ==
  /\ head \in Nodes /\ tail \in Nodes
  /\ next \in [Nodes -> NodeOrNull] /\ data \in [Nodes -> Blocks \cup {Null}]
  /\ free \in NodeOrNull /\ unused \subseteq Slices
  /\ hp \in [Execs -> [Slots -> NodeOrNull]]
  /\ rlist \in [Execs -> NodeOrNull] /\ rcount \in [Execs -> Nat]
  /\ pc \in [Execs -> Pcs] /\ nops \in 0 .. MaxOps

\* The nodes on the list from n through lfn_next, at most k of them.
RECURSIVE Chain(_, _)
Chain(n, k) == IF n = Null \/ k = 0 THEN {} ELSE {n} \cup Chain(next[n], k - 1)

\* The nodes from n up to and including last.
RECURSIVE Segment(_, _, _)
Segment(n, last, k) ==
  IF n = Null \/ k = 0 THEN {}
  ELSE IF n = last THEN {n} ELSE {n} \cup Segment(next[n], last, k - 1)

N == Cardinality(Nodes)

\* Who a node belongs to: the node stack, the queue (dummy included), an
\* executor's retired list (its rcount nodes), an executor's own hands (a
\* fresh slice, the node it is enqueueing, the dummy it dequeued, the
\* retired nodes its scan is walking or about to free), or a slice not yet
\* handed out.
Owners == {"stack", "queue", "unused"} \cup ({"retired", "held"} \X Execs)

Held(e) ==
  CASE pc[e] = "a_refill" -> SliceNodes(sl[e])
    [] pc[e] \in {"e_fill", "e_tail", "e_hp", "e_next", "e_swing", "e_link"}
                          -> {node[e]}
    [] pc[e] \in {"d_data", "d_retire"} -> {h[e]}
    [] pc[e] = "s_walk"   -> Chain(walk[e], N) \cup Segment(fh[e], ft[e], N)
    [] pc[e] = "f_cas"    -> Segment(fh[e], ft[e], N)
    [] OTHER              -> {}

Part(o) ==
  CASE o = "stack"  -> Chain(free, N)
    [] o = "queue"  -> Chain(head, N)
    [] o = "unused" -> UNION {SliceNodes(s) : s \in unused}
    [] o[1] = "retired" -> Chain(rlist[o[2]], rcount[o[2]])
    [] OTHER        -> Held(o[2])

(***************************************************************************)
(* Every node has exactly one owner at every instant: the stack never     *)
(* hands out a node still in the queue or on a retired list (the untagged *)
(* pop of try_alloc_node), a scan frees only what it took off its retired *)
(* list, and no enqueued node falls out of the queue (the retired dummy's *)
(* lfn_next reused by line 308 under a slow enqueuer's CAS).              *)
(***************************************************************************)
NodesPartitioned ==
  \A n \in Nodes : Cardinality({o \in Owners : n \in Part(o)}) = 1

\* The weaker half: no node has two owners at once.
NodesOwnedOnce ==
  \A n \in Nodes : Cardinality({o \in Owners : n \in Part(o)}) <= 1

\* The nodes executor e dereferences after validating its hazard pointers.
Protected(e) ==
  CASE pc[e] \in {"e_next", "e_swing", "e_link"} -> {t[e]}
    [] pc[e] \in {"d_tail", "d_next", "d_hp1"}   -> {h[e]}
    [] pc[e] \in {"d_cas", "d_swing", "d_data"}  -> {h[e], nx[e]}
    [] pc[e] \in {"d_retire", "s_read"}          -> {h[e]}
    [] OTHER                                     -> {}

(***************************************************************************)
(* Hazard pointers work across the global node stack: a node an executor  *)
(* has validated (the tail in try_enqueue, the head and its successor in  *)
(* try_dequeue) is never on lf_block_queue_nodes while it still uses it,  *)
(* whatever other executors retire, scan and push there.                  *)
(***************************************************************************)
HazardSafe == \A e \in Execs : Protected(e) \cap Chain(free, N) = {}

(***************************************************************************)
(* A scan always finds a retired node to free: scan_free_rlist never      *)
(* reaches try_free_nodes with free_tail NULL.  This rests on the         *)
(* threshold (2 * execs, compared before the increment) exceeding the     *)
(* hazard pointers that can name retired nodes.                           *)
(***************************************************************************)
NoCrash == \A e \in Execs : pc[e] # "crashed"

====

