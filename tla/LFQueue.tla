------------------------------ MODULE LFQueue ------------------------------
(***************************************************************************)
(* The workshare queue of src/cc/lf_thread_queue.c: a Michael-Scott       *)
(* lock-free queue of nodes, hazard pointers with per-executor retired    *)
(* lists, and the static node allocator that hands out and takes back the *)
(* nodes (per-executor lists balanced against a shared Treiber stack).    *)
(* Nodes are the indices of the static node array; every list of the      *)
(* allocator and every retired list is linked through lfn_next as in the  *)
(* code.  An executor is a process with program counter pc[e], and a step *)
(* is one access to shared memory; a CAS whose failure only leads to a    *)
(* retry is one step when it succeeds.                                     *)
(***************************************************************************)
EXTENDS Integers, Sequences, FiniteSets

CONSTANTS
  NExec,   \* executor_num
  Num,     \* num: the queue capacity lf_thread_queue_init is given
  Data,    \* the threads the executors enqueue
  Null,    \* NULL
  Empty,   \* the NULL a dequeue of an empty queue returns
  MaxOps   \* bound on the enqueue and dequeue calls made

ASSUME NExec >= 1 /\ Num >= 1 /\ Null \notin Int /\ Empty \notin Data

Execs     == 0 .. NExec - 1
Extra     == 2 * NExec * NExec + 2 * NExec + 1   \* extra_nodes
Total     == Num + Extra                           \* qna_count
Nodes     == 0 .. Total - 1
ExecNodes == (Total - 1) \div NExec                \* executor_nodes
Sentinel  == Total - 1
Threshold == 2 * NExec                             \* lf_thread_queue_hptr_threshold
Slots     == 0 .. 1

\* lf_thread_queue_allocator_upper_bound / _lower_bound (lines 160-189).
PoolUpper == LET b == (Total + Total \div 4) \div NExec IN IF b # 0 THEN b ELSE 1
PoolLower == LET f == Total \div 4
                 b == (IF f < Total THEN Total - f ELSE 0) \div NExec
             IN IF b # 0 THEN b ELSE 1

VARIABLES
  head, tail,         \* lf_head, lf_tail
  next, data,         \* lfn_next, lfn_data of every node
  shared,             \* qna_shared_list
  nlList, nlCount,    \* qna_lists[e].nl_list, .nl_count
  hp,                 \* lf_hptrs[e].thp_ptrs[0..1]
  rlist, rcount,      \* lf_hptrs[e].thp_rlist, .thp_rcount
  pc, ret,            \* per executor: program counter, return label of balance
  val, node, t, nx, h, tl,  \* locals of enqueue and dequeue
  pn, pnx,            \* locals of the allocator's push and pull
  walk, snap, sIdx,   \* locals of the hazard scan
  sawE,               \* history: the queue was empty while this dequeue was pending
  nops, faults        \* calls made; crashes reached

vars == <<head, tail, next, data, shared, nlList, nlCount, hp, rlist, rcount,
          pc, ret, val, node, t, nx, h, tl, pn, pnx, walk, snap, sIdx, sawE,
          nops, faults>>

\* The threads in the queue: the data of the nodes after the dummy head,
\* following lfn_next (at most Total nodes, in case the links form a cycle).
RECURSIVE Contents(_, _)
Contents(n, k) == IF n = Null \/ k = 0 THEN <<>>
                  ELSE <<data[n]>> \o Contents(next[n], k - 1)
Queue == Contents(next[head], Total)

Goto(e, l) == pc' = [pc EXCEPT ![e] = l]
SetHp(e, s, v) == hp' = [hp EXCEPT ![e][s] = v]

\* A NULL dereference kills the program: every executor stops.
Crash(f) == /\ faults' = faults \cup {f}
            /\ pc' = [x \in Execs |-> "crashed"]

\* A call returns: the executor is idle and its locals are dead.
Locals == <<ret, val, node, t, nx, h, tl, pn, pnx, walk, snap, sIdx, sawE>>
Return(e) ==
  /\ Goto(e, "idle")
  /\ ret' = [ret EXCEPT ![e] = "a_pop"] /\ val' = [val EXCEPT ![e] = Empty]
  /\ node' = [node EXCEPT ![e] = Null] /\ t' = [t EXCEPT ![e] = Null]
  /\ nx' = [nx EXCEPT ![e] = Null] /\ h' = [h EXCEPT ![e] = Null]
  /\ tl' = [tl EXCEPT ![e] = Null] /\ pn' = [pn EXCEPT ![e] = Null]
  /\ pnx' = [pnx EXCEPT ![e] = Null] /\ walk' = [walk EXCEPT ![e] = Null]
  /\ snap' = [snap EXCEPT ![e] = {}] /\ sIdx' = [sIdx EXCEPT ![e] = 0]
  /\ sawE' = [sawE EXCEPT ![e] = FALSE]

(***************************************************************************)
(* lf_thread_queue_init (lines 76-158): each executor list holds          *)
(* executor_nodes nodes linked downwards, the nodes left over go to the   *)
(* shared list (whose head is set to the sentinel's index), and the last  *)
(* node is the sentinel that is both head and tail.                       *)
(***************************************************************************)
Init ==
  /\ next = [n \in Nodes |->
               IF n = Sentinel \/ n = ExecNodes * NExec
                  \/ (n < ExecNodes * NExec /\ n % ExecNodes = 0)
               THEN Null ELSE n - 1]
  /\ data = [n \in Nodes |-> Empty]
  /\ shared = IF ExecNodes * NExec = Sentinel THEN Null ELSE Sentinel
  /\ nlList = [e \in Execs |-> e * ExecNodes + ExecNodes - 1]
  /\ nlCount = [e \in Execs |-> ExecNodes]
  /\ head = Sentinel /\ tail = Sentinel
  /\ hp = [e \in Execs |-> [s \in Slots |-> Null]]
  /\ rlist = [e \in Execs |-> Null] /\ rcount = [e \in Execs |-> 0]
  /\ pc = [e \in Execs |-> "idle"] /\ ret = [e \in Execs |-> "a_pop"]
  /\ val = [e \in Execs |-> Empty]
  /\ node = [e \in Execs |-> Null] /\ t = [e \in Execs |-> Null]
  /\ nx = [e \in Execs |-> Null] /\ h = [e \in Execs |-> Null]
  /\ tl = [e \in Execs |-> Null] /\ pn = [e \in Execs |-> Null]
  /\ pnx = [e \in Execs |-> Null] /\ walk = [e \in Execs |-> Null]
  /\ snap = [e \in Execs |-> {}] /\ sIdx = [e \in Execs |-> 0]
  /\ sawE = [e \in Execs |-> FALSE]
  /\ nops = 0 /\ faults = {}

\* lf_thread_queue_node_alloc_push (lines 192-218): node->next = head, then
\* CAS the shared head from head to node, retried until it succeeds.
PushShared(e, n, l) ==
  /\ next' = [next EXCEPT ![n] = shared]
  /\ shared' = n
  /\ Goto(e, l)

(***************************************************************************)
(* lf_thread_queue_node_alloc_balance (lines 273-299): with more nodes     *)
(* than the upper bound, push the head of the local list onto the shared  *)
(* stack and then set the local list to that node's lfn_next (line 284),  *)
(* which the push has just overwritten with the old shared head; with     *)
(* fewer than the lower bound, pull a node (PullRead .. PullLink).        *)
(* Neither changes nl_count.  The push and the read after it are one      *)
(* step.  Balance returns to ret[e].                                      *)
(***************************************************************************)
Balance(e) ==
  LET l == nlList[e] IN
  /\ pc[e] = "bal"
  /\ CASE PoolUpper < nlCount[e] /\ l = Null ->
            Crash("null_push") /\ UNCHANGED <<next, shared, nlList>>
       [] PoolUpper < nlCount[e] ->
            /\ PushShared(e, l, ret[e])
            /\ nlList' = [nlList EXCEPT ![e] = shared] /\ UNCHANGED faults
       [] PoolLower > nlCount[e] ->
            Goto(e, "p_read") /\ UNCHANGED <<next, shared, nlList, faults>>
       [] OTHER ->
            Goto(e, ret[e]) /\ UNCHANGED <<next, shared, nlList, faults>>
  /\ UNCHANGED <<head, tail, data, nlCount, hp, rlist, rcount, ret, val, node,
                 t, nx, h, tl, pn, pnx, walk, snap, sIdx, sawE, nops>>

\* lf_thread_queue_node_alloc_pull (lines 241-269): read the shared head,
\* read its lfn_next, CAS the head from the first to the second.  An empty
\* stack returns NULL.
PullRead(e) ==
  /\ pc[e] = "p_read"
  /\ pn' = [pn EXCEPT ![e] = shared]
  /\ Goto(e, IF shared = Null THEN "p_link" ELSE "p_next")
  /\ UNCHANGED <<head, tail, next, data, shared, nlList, nlCount, hp, rlist, rcount,
                 ret, val, node, t, nx, h, tl, pnx, walk, snap, sIdx, sawE, nops, faults>>

PullNext(e) ==
  /\ pc[e] = "p_next"
  /\ pnx' = [pnx EXCEPT ![e] = next[pn[e]]]
  /\ Goto(e, "p_cas")
  /\ UNCHANGED <<head, tail, next, data, shared, nlList, nlCount, hp, rlist, rcount,
                 ret, val, node, t, nx, h, tl, pn, walk, snap, sIdx, sawE, nops, faults>>

PullCas(e) ==
  /\ pc[e] = "p_cas"
  /\ IF shared = pn[e]
       THEN shared' = pnx[e] /\ Goto(e, "p_link")
       ELSE Goto(e, "p_read") /\ UNCHANGED shared
  /\ UNCHANGED <<head, tail, next, data, nlList, nlCount, hp, rlist, rcount, ret,
                 val, node, t, nx, h, tl, pn, pnx, walk, snap, sIdx, sawE, nops, faults>>

\* Lines 294-295: node->lfn_next = nl_list; nl_list = node, on a node that
\* may be NULL.
PullLink(e) ==
  /\ pc[e] = "p_link"
  /\ IF pn[e] = Null
       THEN Crash("null_pull") /\ UNCHANGED <<next, nlList>>
       ELSE /\ next' = [next EXCEPT ![pn[e]] = nlList[e]]
            /\ nlList' = [nlList EXCEPT ![e] = pn[e]]
            /\ Goto(e, ret[e]) /\ UNCHANGED faults
  /\ UNCHANGED <<head, tail, data, shared, nlCount, hp, rlist, rcount, ret, val,
                 node, t, nx, h, tl, pn, pnx, walk, snap, sIdx, sawE, nops>>

(***************************************************************************)
(* lf_thread_queue_enqueue (lines 560-596) with lf_thread_queue_node_alloc *)
(* (lines 303-321) and lf_thread_queue_try_enqueue (lines 515-557).       *)
(***************************************************************************)
CallEnqueue(e, x) ==
  /\ pc[e] = "idle" /\ nops < MaxOps
  /\ val' = [val EXCEPT ![e] = x]
  /\ ret' = [ret EXCEPT ![e] = "a_pop"]
  /\ Goto(e, "bal")
  /\ nops' = nops + 1
  /\ UNCHANGED <<head, tail, next, data, shared, nlList, nlCount, hp, rlist, rcount,
                 node, t, nx, h, tl, pn, pnx, walk, snap, sIdx, sawE, faults>>

\* Take the head of the local list (nl_count--), fill in the node; with an
\* empty local list the enqueue returns false.
AllocPop(e) ==
  LET n == nlList[e] IN
  /\ pc[e] = "a_pop"
  /\ IF n # Null
       THEN /\ nlList' = [nlList EXCEPT ![e] = next[n]]
            /\ nlCount' = [nlCount EXCEPT ![e] = @ - 1]
            /\ data' = [data EXCEPT ![n] = val[e]]
            /\ next' = [next EXCEPT ![n] = Null]
            /\ node' = [node EXCEPT ![e] = n]
            /\ Goto(e, "e_tail")
            /\ UNCHANGED <<ret, val, t, nx, h, tl, pn, pnx, walk, snap, sIdx, sawE>>
       ELSE Return(e) /\ UNCHANGED <<nlList, nlCount, data, next>>
  /\ UNCHANGED <<head, tail, shared, hp, rlist, rcount, nops, faults>>

EnqReadTail(e) ==
  /\ pc[e] = "e_tail"
  /\ t' = [t EXCEPT ![e] = tail]
  /\ Goto(e, "e_hp")
  /\ UNCHANGED <<head, tail, next, data, shared, nlList, nlCount, hp, rlist, rcount,
                 ret, val, node, nx, h, tl, pn, pnx, walk, snap, sIdx, sawE, nops, faults>>

EnqHazard(e) ==
  /\ pc[e] = "e_hp"
  /\ SetHp(e, 0, t[e])
  /\ Goto(e, "e_chk1")
  /\ UNCHANGED <<head, tail, next, data, shared, nlList, nlCount, rlist, rcount, ret,
                 val, node, t, nx, h, tl, pn, pnx, walk, snap, sIdx, sawE, nops, faults>>

EnqCheck1(e) ==
  /\ pc[e] = "e_chk1"
  /\ Goto(e, IF tail = t[e] THEN "e_next" ELSE "e_tail")
  /\ UNCHANGED <<head, tail, next, data, shared, nlList, nlCount, hp, rlist, rcount,
                 ret, val, node, t, nx, h, tl, pn, pnx, walk, snap, sIdx, sawE, nops, faults>>

EnqReadNext(e) ==
  /\ pc[e] = "e_next"
  /\ nx' = [nx EXCEPT ![e] = next[t[e]]]
  /\ Goto(e, "e_chk2")
  /\ UNCHANGED <<head, tail, next, data, shared, nlList, nlCount, hp, rlist, rcount,
                 ret, val, node, t, h, tl, pn, pnx, walk, snap, sIdx, sawE, nops, faults>>

EnqCheck2(e) ==
  /\ pc[e] = "e_chk2"
  /\ Goto(e, CASE tail # t[e]   -> "e_tail"
               [] nx[e] # Null -> "e_swing"
               [] OTHER        -> "e_link")
  /\ UNCHANGED <<head, tail, next, data, shared, nlList, nlCount, hp, rlist, rcount,
                 ret, val, node, t, nx, h, tl, pn, pnx, walk, snap, sIdx, sawE, nops, faults>>

\* The tail lags: help swing it, then retry.
EnqSwing(e) ==
  /\ pc[e] = "e_swing"
  /\ tail' = IF tail = t[e] THEN nx[e] ELSE tail
  /\ Goto(e, "e_tail")
  /\ UNCHANGED <<head, next, data, shared, nlList, nlCount, hp, rlist, rcount, ret,
                 val, node, t, nx, h, tl, pn, pnx, walk, snap, sIdx, sawE, nops, faults>>

\* CAS tail->lfn_next from NULL to the node: the enqueue's linearisation.
EnqLink(e) ==
  /\ pc[e] = "e_link"
  /\ IF next[t[e]] = Null
       THEN next' = [next EXCEPT ![t[e]] = node[e]] /\ Goto(e, "e_fix")
       ELSE Goto(e, "e_tail") /\ UNCHANGED next
  /\ UNCHANGED <<head, tail, data, shared, nlList, nlCount, hp, rlist, rcount, ret,
                 val, node, t, nx, h, tl, pn, pnx, walk, snap, sIdx, sawE, nops, faults>>

\* CAS lf_tail from the old tail to the node, clear the hazard pointer.
EnqFinish(e) ==
  /\ pc[e] = "e_fix"
  /\ tail' = IF tail = t[e] THEN node[e] ELSE tail
  /\ SetHp(e, 0, Null)
  /\ Return(e)
  /\ UNCHANGED <<head, next, data, shared, nlList, nlCount, rlist, rcount, nops, faults>>

(***************************************************************************)
(* lf_thread_queue_dequeue (lines 663-681) and lf_thread_queue_try_dequeue *)
(* (lines 599-660).                                                        *)
(***************************************************************************)
DeqPcs == {"d_head", "d_hp0", "d_chk1", "d_tail", "d_next", "d_hp1", "d_chk2",
           "d_swing", "d_cas"}

CallDequeue(e) ==
  /\ pc[e] = "idle" /\ nops < MaxOps
  /\ sawE' = [sawE EXCEPT ![e] = Queue = <<>>]
  /\ Goto(e, "d_head")
  /\ nops' = nops + 1
  /\ UNCHANGED <<head, tail, next, data, shared, nlList, nlCount, hp, rlist, rcount,
                 ret, val, node, t, nx, h, tl, pn, pnx, walk, snap, sIdx, faults>>

DeqReadHead(e) ==
  /\ pc[e] = "d_head"
  /\ h' = [h EXCEPT ![e] = head]
  /\ Goto(e, "d_hp0")
  /\ UNCHANGED <<head, tail, next, data, shared, nlList, nlCount, hp, rlist, rcount,
                 ret, val, node, t, nx, tl, pn, pnx, walk, snap, sIdx, sawE, nops, faults>>

DeqHazard0(e) ==
  /\ pc[e] = "d_hp0"
  /\ SetHp(e, 0, h[e])
  /\ Goto(e, "d_chk1")
  /\ UNCHANGED <<head, tail, next, data, shared, nlList, nlCount, rlist, rcount, ret,
                 val, node, t, nx, h, tl, pn, pnx, walk, snap, sIdx, sawE, nops, faults>>

DeqCheck1(e) ==
  /\ pc[e] = "d_chk1"
  /\ Goto(e, IF head = h[e] THEN "d_tail" ELSE "d_head")
  /\ UNCHANGED <<head, tail, next, data, shared, nlList, nlCount, hp, rlist, rcount,
                 ret, val, node, t, nx, h, tl, pn, pnx, walk, snap, sIdx, sawE, nops, faults>>

DeqReadTail(e) ==
  /\ pc[e] = "d_tail"
  /\ tl' = [tl EXCEPT ![e] = tail]
  /\ Goto(e, "d_next")
  /\ UNCHANGED <<head, tail, next, data, shared, nlList, nlCount, hp, rlist, rcount,
                 ret, val, node, t, nx, h, pn, pnx, walk, snap, sIdx, sawE, nops, faults>>

DeqReadNext(e) ==
  /\ pc[e] = "d_next"
  /\ nx' = [nx EXCEPT ![e] = next[h[e]]]
  /\ Goto(e, "d_hp1")
  /\ UNCHANGED <<head, tail, next, data, shared, nlList, nlCount, hp, rlist, rcount,
                 ret, val, node, t, h, tl, pn, pnx, walk, snap, sIdx, sawE, nops, faults>>

DeqHazard1(e) ==
  /\ pc[e] = "d_hp1"
  /\ SetHp(e, 1, nx[e])
  /\ Goto(e, "d_chk2")
  /\ UNCHANGED <<head, tail, next, data, shared, nlList, nlCount, rlist, rcount, ret,
                 val, node, t, nx, h, tl, pn, pnx, walk, snap, sIdx, sawE, nops, faults>>

\* Head unchanged: an empty queue returns NULL with both hazard pointers
\* cleared; a lagging tail is swung; otherwise the head is CASed.
\* Mutant: the empty-queue test is dropped, so a NULL successor is CASed in.
DeqCheck2NoEmpty(e) ==
  /\ pc[e] = "d_chk2"
  /\ Goto(e, CASE head # h[e]   -> "d_head"
               [] h[e] # tl[e] -> "d_cas"
               [] OTHER        -> "d_swing")
  /\ UNCHANGED <<hp, ret, val, node, t, nx, h, tl, pn, pnx, walk, snap, sIdx, sawE>>
  /\ UNCHANGED <<head, tail, next, data, shared, nlList, nlCount, rlist, rcount,
                 nops, faults>>

\* Mutant: an empty queue is waited on, the dequeue rereading the head,
\* instead of returning NULL.
DeqCheck2Wait(e) ==
  /\ pc[e] = "d_chk2"
  /\ Goto(e, CASE head # h[e] \/ nx[e] = Null -> "d_head"
               [] h[e] # tl[e]                -> "d_cas"
               [] OTHER                       -> "d_swing")
  /\ UNCHANGED <<hp, ret, val, node, t, nx, h, tl, pn, pnx, walk, snap, sIdx, sawE>>
  /\ UNCHANGED <<head, tail, next, data, shared, nlList, nlCount, rlist, rcount,
                 nops, faults>>

DeqCheck2(e) ==
  /\ pc[e] = "d_chk2"
  /\ IF head = h[e] /\ nx[e] = Null
       THEN Return(e) /\ hp' = [hp EXCEPT ![e] = [s \in Slots |-> Null]]
       ELSE /\ Goto(e, CASE head # h[e]   -> "d_head"
                          [] h[e] # tl[e] -> "d_cas"
                          [] OTHER        -> "d_swing")
            /\ UNCHANGED <<hp, ret, val, node, t, nx, h, tl, pn, pnx, walk, snap, sIdx, sawE>>
  /\ UNCHANGED <<head, tail, next, data, shared, nlList, nlCount, rlist, rcount,
                 nops, faults>>

DeqSwing(e) ==
  /\ pc[e] = "d_swing"
  /\ tail' = IF tail = tl[e] THEN nx[e] ELSE tail
  /\ Goto(e, "d_head")
  /\ UNCHANGED <<head, next, data, shared, nlList, nlCount, hp, rlist, rcount, ret,
                 val, node, t, nx, h, tl, pn, pnx, walk, snap, sIdx, sawE, nops, faults>>

\* CAS lf_head from the dummy to its successor: the dequeue's
\* linearisation.  Other pending dequeues record an emptied queue.
DeqCas(e) ==
  /\ pc[e] = "d_cas"
  /\ IF head = h[e]
       THEN /\ head' = nx[e]
            /\ sawE' = [x \in Execs |->
                          sawE[x] \/ (pc[x] \in DeqPcs /\ next[nx[e]] = Null)]
            /\ Goto(e, "d_data")
       ELSE Goto(e, "d_head") /\ UNCHANGED <<head, sawE>>
  /\ UNCHANGED <<tail, next, data, shared, nlList, nlCount, hp, rlist, rcount, ret,
                 val, node, t, nx, h, tl, pn, pnx, walk, snap, sIdx, nops, faults>>

\* Read the thread out of the new dummy and clear hazard pointer 1.
DeqData(e) ==
  /\ pc[e] = "d_data"
  /\ val' = [val EXCEPT ![e] = data[nx[e]]]
  /\ SetHp(e, 1, Null)
  /\ Goto(e, "d_retire")
  /\ UNCHANGED <<head, tail, next, data, shared, nlList, nlCount, rlist, rcount, ret,
                 node, t, nx, h, tl, pn, pnx, walk, snap, sIdx, sawE, nops, faults>>

(***************************************************************************)
(* lf_thread_queue_node_retire (lines 473-494): the old dummy is pushed on *)
(* the executor's retired list through its own lfn_next, and once more    *)
(* than Threshold nodes are retired the hazard pointers are scanned.      *)
(* Hazard pointer 0 is cleared after it (line 631).                       *)
(***************************************************************************)
DeqRetire(e) ==
  /\ pc[e] = "d_retire"
  /\ next' = [next EXCEPT ![h[e]] = rlist[e]]
  /\ rlist' = [rlist EXCEPT ![e] = h[e]]
  /\ rcount' = [rcount EXCEPT ![e] = @ + 1]
  /\ IF rcount[e] >= Threshold
       THEN /\ Goto(e, "s_read")
            /\ UNCHANGED <<hp, ret, val, node, t, nx, h, tl, pn, pnx, walk, snap, sIdx, sawE>>
       ELSE Return(e) /\ SetHp(e, 0, Null)
  /\ UNCHANGED <<head, tail, data, shared, nlList, nlCount, nops, faults>>

\* lf_thread_queue_scan_build_ptab (lines 398-416): read every executor's
\* two hazard pointers, one at a time; then the retired list is taken over
\* and emptied (lines 426-430).
ScanRead(e) ==
  LET x == sIdx[e] \div 2
      s == sIdx[e] % 2
      last == sIdx[e] = 2 * NExec - 1
  IN /\ pc[e] = "s_read"
     /\ snap' = [snap EXCEPT ![e] = IF hp[x][s] = Null THEN @ ELSE @ \cup {hp[x][s]}]
     /\ IF last
          THEN /\ walk' = [walk EXCEPT ![e] = rlist[e]]
               /\ rlist' = [rlist EXCEPT ![e] = Null]
               /\ rcount' = [rcount EXCEPT ![e] = 0]
               /\ Goto(e, "s_walk") /\ UNCHANGED sIdx
          ELSE /\ sIdx' = [sIdx EXCEPT ![e] = @ + 1]
               /\ UNCHANGED <<walk, rlist, rcount, pc>>
     /\ UNCHANGED <<head, tail, next, data, shared, nlList, nlCount, hp, ret, val,
                    node, t, nx, h, tl, pn, pnx, sawE, nops, faults>>

(***************************************************************************)
(* lf_thread_queue_scan_free_rlist (lines 419-453): a retired node still  *)
(* named by a hazard pointer goes back on the retired list, any other is  *)
(* freed by lf_thread_queue_node_free (lines 325-346): onto the local     *)
(* list (nl_count++) when nl_count is above the lower bound, otherwise    *)
(* onto the shared stack; the allocator is then balanced.  At the end of  *)
(* the list the dequeue clears hazard pointer 0 and returns.              *)
(***************************************************************************)
\* Mutant: the hazard table is not consulted; every retired node is freed.
ScanWalkIgnoresHazards(e) ==
  LET c == walk[e] IN
  /\ pc[e] = "s_walk"
  /\ IF c = Null
       THEN /\ Return(e) /\ SetHp(e, 0, Null)
            /\ UNCHANGED <<next, rlist, rcount, nlList, nlCount>>
       ELSE /\ walk' = [walk EXCEPT ![e] = next[c]]
            /\ UNCHANGED <<hp, val, node, t, nx, h, tl, pnx, snap, sIdx, sawE>>
            /\ CASE FALSE ->
                      /\ next' = [next EXCEPT ![c] = rlist[e]]
                      /\ rlist' = [rlist EXCEPT ![e] = c]
                      /\ rcount' = [rcount EXCEPT ![e] = @ + 1]
                      /\ UNCHANGED <<nlList, nlCount, pn, ret, pc>>
                 [] PoolLower < nlCount[e] ->
                      /\ next' = [next EXCEPT ![c] = nlList[e]]
                      /\ nlList' = [nlList EXCEPT ![e] = c]
                      /\ nlCount' = [nlCount EXCEPT ![e] = @ + 1]
                      /\ ret' = [ret EXCEPT ![e] = "s_walk"]
                      /\ Goto(e, "bal")
                      /\ UNCHANGED <<rlist, rcount, pn>>
                 [] OTHER ->
                      /\ pn' = [pn EXCEPT ![e] = c]
                      /\ ret' = [ret EXCEPT ![e] = "s_walk"]
                      /\ Goto(e, "f_push")
                      /\ UNCHANGED <<next, rlist, rcount, nlList, nlCount>>
  /\ UNCHANGED <<head, tail, data, shared, nops, faults>>

ScanWalk(e) ==
  LET c == walk[e] IN
  /\ pc[e] = "s_walk"
  /\ IF c = Null
       THEN /\ Return(e) /\ SetHp(e, 0, Null)
            /\ UNCHANGED <<next, rlist, rcount, nlList, nlCount>>
       ELSE /\ walk' = [walk EXCEPT ![e] = next[c]]
            /\ UNCHANGED <<hp, val, node, t, nx, h, tl, pnx, snap, sIdx, sawE>>
            /\ CASE c \in snap[e] ->
                      /\ next' = [next EXCEPT ![c] = rlist[e]]
                      /\ rlist' = [rlist EXCEPT ![e] = c]
                      /\ rcount' = [rcount EXCEPT ![e] = @ + 1]
                      /\ UNCHANGED <<nlList, nlCount, pn, ret, pc>>
                 [] PoolLower < nlCount[e] ->
                      /\ next' = [next EXCEPT ![c] = nlList[e]]
                      /\ nlList' = [nlList EXCEPT ![e] = c]
                      /\ nlCount' = [nlCount EXCEPT ![e] = @ + 1]
                      /\ ret' = [ret EXCEPT ![e] = "s_walk"]
                      /\ Goto(e, "bal")
                      /\ UNCHANGED <<rlist, rcount, pn>>
                 [] OTHER ->
                      /\ pn' = [pn EXCEPT ![e] = c]
                      /\ ret' = [ret EXCEPT ![e] = "s_walk"]
                      /\ Goto(e, "f_push")
                      /\ UNCHANGED <<next, rlist, rcount, nlList, nlCount>>
  /\ UNCHANGED <<head, tail, data, shared, nops, faults>>

FreePush(e) ==
  /\ pc[e] = "f_push"
  /\ PushShared(e, pn[e], "bal")
  /\ UNCHANGED <<head, tail, data, nlList, nlCount, hp, rlist, rcount, ret, val,
                 node, t, nx, h, tl, pn, pnx, walk, snap, sIdx, sawE, nops, faults>>

-----------------------------------------------------------------------------
Step(e) ==
  \/ Balance(e)
  \/ PullRead(e) \/ PullNext(e) \/ PullCas(e) \/ PullLink(e)
  \/ AllocPop(e) \/ EnqReadTail(e) \/ EnqHazard(e) \/ EnqCheck1(e)
  \/ EnqReadNext(e) \/ EnqCheck2(e) \/ EnqSwing(e) \/ EnqLink(e) \/ EnqFinish(e)
  \/ DeqReadHead(e) \/ DeqHazard0(e) \/ DeqCheck1(e) \/ DeqReadTail(e)
  \/ DeqReadNext(e) \/ DeqHazard1(e) \/ DeqCheck2(e) \/ DeqSwing(e) \/ DeqCas(e)
  \/ DeqData(e) \/ DeqRetire(e) \/ ScanRead(e) \/ ScanWalk(e) \/ FreePush(e)

Call(e) == CallDequeue(e) \/ \E x \in Data : CallEnqueue(e, x)

Next == \E e \in Execs : Step(e) \/ Call(e)

\* The executors are OS threads; once called, an operation's steps are
\* taken.  Calls are the scheduler's choice.
Spec == Init /\ [][Next]_vars /\ \A e \in Execs : WF_vars(Step(e))

-----------------------------------------------------------------------------
(***************************************************************************)
(* Refinement: the queue behaves as AtomicFIFO.  Each operation takes     *)
(* effect at its CAS (EnqLink, DeqCas) or, for an empty dequeue, where    *)
(* DeqCheck2 finds no successor.                                          *)
(***************************************************************************)
AllocPcs == {"bal", "p_read", "p_next", "p_cas", "p_link", "a_pop"}
EnqPcs   == {"e_tail", "e_hp", "e_chk1", "e_next", "e_chk2", "e_swing", "e_link"}

OpOf(e) ==
  CASE pc[e] \in AllocPcs /\ ret[e] = "a_pop" -> [k |-> "enq", v |-> val[e]]
    [] pc[e] \in EnqPcs                       -> [k |-> "enq", v |-> val[e]]
    [] pc[e] = "e_fix"                        -> [k |-> "enqd"]
    [] pc[e] \in DeqPcs                       -> [k |-> "deq", saw |-> sawE[e]]
    [] pc[e] = "d_data"                       -> [k |-> "deqd", v |-> data[nx[e]]]
    [] pc[e] \in AllocPcs \cup {"d_retire", "s_read", "s_walk", "f_push"}
                                              -> [k |-> "deqd", v |-> val[e]]
    [] OTHER                                  -> [k |-> "idle"]

FIFO == INSTANCE AtomicFIFO WITH q <- Queue, op <- [e \in Execs |-> OpOf(e)]

\* lf_thread_queue_enqueue/_dequeue are linearisable: every thread
\* enqueued is dequeued once, in order, and a NULL result means the queue
\* was empty during the call.
Linearizable == FIFO!Spec

Pcs == {"idle", "crashed", "d_data", "d_retire", "s_read", "s_walk", "f_push", "e_fix"}
       \cup AllocPcs \cup EnqPcs \cup DeqPcs
NodeOrNull == Nodes \cup {Null}

TypeOK ==
  /\ head \in Nodes /\ tail \in Nodes
  /\ next \in [Nodes -> NodeOrNull] /\ data \in [Nodes -> Data \cup {Empty}]
  /\ shared \in NodeOrNull
  /\ nlList \in [Execs -> NodeOrNull] /\ nlCount \in [Execs -> Int]
  /\ hp \in [Execs -> [Slots -> NodeOrNull]]
  /\ rlist \in [Execs -> NodeOrNull] /\ rcount \in [Execs -> Nat]
  /\ pc \in [Execs -> Pcs] /\ nops \in 0 .. MaxOps

\* No NULL dereference: the allocator never pushes from an empty local
\* list nor links a NULL pulled from an empty shared stack.
NoCrash == faults = {}

\* The nodes on a list that starts at n and is linked through lfn_next.
RECURSIVE Chain(_, _)
Chain(n, k) == IF n = Null \/ k = 0 THEN {} ELSE {n} \cup Chain(next[n], k - 1)

\* The nodes the allocator may hand out.
FreeNodes == Chain(shared, Total) \cup UNION {Chain(nlList[x], Total) : x \in Execs}

\* The nodes executor e dereferences after validating its hazard pointers.
Protected(e) ==
  CASE pc[e] \in {"e_next", "e_chk2", "e_swing", "e_link"} -> {t[e]}
    [] pc[e] \in {"d_tail", "d_next", "d_hp1", "d_chk2"}    -> {h[e]}
    [] pc[e] \in {"d_cas", "d_swing"}                       -> {h[e], nx[e]}
    [] pc[e] = "d_data"                                     -> {h[e], nx[e]}
    [] pc[e] = "d_retire"                                   -> {h[e]}
    [] OTHER                                                -> {}

\* Hazard pointers work: a node an executor has validated (the tail for
\* lf_thread_queue_try_enqueue, the head and its successor for _dequeue) is
\* never on an allocator list while the executor still uses it, however
\* other executors dequeue, retire, scan and free.
HazardSafe == \A e \in Execs : Protected(e) \cap FreeNodes = {}

(***************************************************************************)
(* Every call an executor makes, lf_thread_queue_enqueue or _dequeue with *)
(* the node allocation, balance, pull, retirement and scan it runs,        *)
(* returns, or ends in the crash of a NULL pull from the empty pool       *)
(* (NoCrash): no retry loop of the queue, the allocator or the shared     *)
(* stack spins forever, whatever the other executor is doing.             *)
(***************************************************************************)
CallsReturn == \A e \in Execs : pc[e] # "idle" ~> pc[e] \in {"idle", "crashed"}

=============================================================================
