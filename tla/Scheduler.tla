------------------------------ MODULE Scheduler ------------------------------
(***************************************************************************)
(* The non-interactive M:N scheduler of the cc runtime                     *)
(* (src/cc/noninteract_scheduler.c), with the parts of the executor        *)
(* (src/cc/thread_executor.c) and of the runtime entry points              *)
(* (src/cc/cc.c, src/cc/thread.c) that drive it.                           *)
(*                                                                         *)
(* Every user thread carries one atomic word t_sched_stat_ref: a status    *)
(* and the reference flag T_REF, which says that a queue or an executor    *)
(* holds the thread.  Each executor owns a private local queue and shares  *)
(* the lock-free workshare queue, here an atomic FIFO (LFQueue models its  *)
(* implementation).  An executor is a process with program counter pc[e]; *)
(* a step is one atomic access of the code.  A CAS that fails is retried  *)
(* from a fresh read, so only its successful attempt is a step.            *)
(***************************************************************************)
EXTENDS Integers, SequencesExt, FiniteSets

CONSTANTS
  NExec,        \* executor_num; executors are 0 .. NExec-1
  Threads,      \* the thread_t structures the program may create
  Main,         \* the start thread made by executor_start_prog
  NoThread,     \* NULL in sch_curr_thread
  UpdateStats,  \* statuses the program may pass to cc_thread_update
  MaxReq,       \* bound on the runtime calls user threads make
  Started       \* threads the start thread has created RUNNABLE before
                \* the first state: they wait in the workshare

ASSUME /\ NExec >= 2 /\ Main \in Threads /\ NoThread \notin Threads
       /\ Started \subseteq Threads \ {Main}
       /\ UpdateStats \subseteq {"RUNNABLE", "SUSPEND", "TERM", "GC_WAIT"}

Execs    == 0 .. NExec - 1
NullExec == -1                \* thread_mbox_null_executor
Unborn   == "UNBORN"          \* a thread_t not yet given to cc_thread_create
Stats    == {"NONE", "RUNNABLE", "RUNNING", "SUSPEND", "SUSPENDED", "TERM",
             "DEAD", "DESTROY", "GC_WAIT"}

\* Statuses that try_take/try_put keep in a queue (lines 273-275, 354-356).
Runnable == {"RUNNABLE", "RUNNING", "GC_WAIT"}

VARIABLES
  st, ref, freed,   \* per thread: status, T_REF, thread_destroy has run
  mboxExec,         \* per thread: executor field of the thread's mailbox
  ws,               \* sched_workshare
  lq, nthreads,     \* per executor: local queue, sch_num_threads
  curr,             \* per executor: sch_curr_thread
  active,           \* sched_active_threads
  sig, osSig,       \* per executor: SCHEDULE bit of ex_signal_mbox, pending SIGUSR1
  gcActive,         \* the phase of gc_state is not INACTIVE
  pc, ret, runs,    \* per executor: program counter, balance return, what it runs
  tgt, rst, rexec, rref, widx,  \* per executor: locals of a runtime call
  nreq, faults      \* runtime calls made; INVARIANTs and panics reached

vars == <<st, ref, freed, mboxExec, ws, lq, nthreads, curr, active, sig, osSig,
          gcActive, pc, ret, runs, tgt, rst, rexec, rref, widx, nreq, faults>>

\* faults' records the named INVARIANT/panic conditions that hold in this step.
Check(c) == faults' = faults \cup {f \in DOMAIN c : c[f]}

\* thread_destroy (thread.c:60-74), run when c holds.
Destroy(t, c) == freed' = [freed EXCEPT ![t] = @ \/ c]

Goto(e, l) == pc' = [pc EXCEPT ![e] = l]

(***************************************************************************)
(* sched_set_running_status (lines 460-598): the action_t it returns and   *)
(* the acknowledgement it writes into the thread's word.                   *)
(***************************************************************************)
AckResult(t) ==
  CASE st[t] \in {"RUNNING", "RUNNABLE"}       -> "EXECUTE"
    [] st[t] = "GC_WAIT" /\ ~gcActive          -> "EXECUTE"
    [] st[t] = "GC_WAIT"                       -> "SKIP"
    [] st[t] \in {"SUSPEND", "TERM", "DESTROY"} -> "DISCARD"
    [] OTHER                                   -> "PANIC"

Acknowledge(t) ==
  LET s == st[t]
      r == AckResult(t)
  IN /\ st'  = [st EXCEPT ![t] = CASE r = "EXECUTE" -> "RUNNING"
                                   [] s = "SUSPEND" -> "SUSPENDED"
                                   [] s = "TERM"    -> "DEAD"
                                   [] OTHER         -> s]
     /\ ref' = [ref EXCEPT ![t] = r = "EXECUTE" \/ (@ /\ s \notin {"SUSPEND", "TERM"})]
     /\ Destroy(t, s = "DESTROY")
     /\ Check([unreferenced |-> ~ref[t], panic |-> r = "PANIC",
               double_destroy |-> s = "DESTROY" /\ freed[t]])

(***************************************************************************)
(* scheduler_try_take_thread / scheduler_try_put_thread on a thread just   *)
(* dequeued: a runnable one is kept, a destroyed one is freed, any other   *)
(* has T_REF cleared and is dropped.                                       *)
(***************************************************************************)
\* Mutant: the CAS that clears T_REF of a dropped thread is left out.
ReleaseKeepsRef(t) ==
  /\ UNCHANGED ref
  /\ Destroy(t, st[t] = "DESTROY")
  /\ Check([unreferenced |-> ~ref[t], double_destroy |-> st[t] = "DESTROY" /\ freed[t]])
  /\ UNCHANGED <<st, mboxExec>>

Release(t) ==
  /\ ref' = [ref EXCEPT ![t] = @ /\ st[t] \in Runnable \cup {"DESTROY"}]
  /\ Destroy(t, st[t] = "DESTROY")
  /\ Check([unreferenced |-> ~ref[t], double_destroy |-> st[t] = "DESTROY" /\ freed[t]])
  /\ UNCHANGED <<st, mboxExec>>

\* sched_upper_bound / sched_lower_bound (lines 17-41) for a count n >= 0.
UpperBound(n) == LET b == (n + n \div 4) \div NExec IN IF b # 0 THEN b ELSE 1
LowerBound(n) == LET f == n \div 4
                     b == (IF f < n THEN n - f ELSE 0) \div NExec
                 IN IF b # 0 THEN b ELSE 1

(***************************************************************************)
(* scheduler_balance_threads (lines 422-445).  Both counters are unsigned: *)
(* a negative value here stands for a wrapped one, larger than any bound   *)
(* computed from a value that has not wrapped.                             *)
(***************************************************************************)
BalanceChoice(e) ==
  LET n == active
      k == nthreads[e]
  IN CASE n < 0 -> IF k < 0 THEN "put" ELSE "take"
       [] n > NExec -> CASE k < 0              -> "put"
                         [] k < LowerBound(n)  -> "take"
                         [] k > UpperBound(n)  -> "put"
                         [] OTHER              -> "none"
       [] OTHER -> IF k = 0 THEN "take" ELSE "none"

(***************************************************************************)
(* executor_start_prog (thread_executor.c:470-533) makes the start thread  *)
(* RUNNING|T_REF and current on executor 0 with sch_num_threads 1, after   *)
(* scheduler_start set sched_active_threads to 1; the other executors      *)
(* begin with a scheduling cycle.  The Started threads were then created   *)
(* and activated: each is in the workshare and counted, and the first      *)
(* activation woke executor 1, the first with no current thread.           *)
(***************************************************************************)
Init ==
  /\ st = [t \in Threads |-> CASE t = Main -> "RUNNING"
                                [] t \in Started -> "RUNNABLE"
                                [] OTHER -> Unborn]
  /\ ref = [t \in Threads |-> t = Main \/ t \in Started]
  /\ freed = [t \in Threads |-> FALSE]
  /\ mboxExec = [t \in Threads |-> IF t = Main THEN 0 ELSE NullExec]
  /\ ws \in {s \in [1 .. Cardinality(Started) -> Started] : ToSet(s) = Started}
  /\ lq = [e \in Execs |-> <<>>]
  /\ nthreads = [e \in Execs |-> IF e = 0 THEN 1 ELSE 0]
  /\ curr = [e \in Execs |-> IF e = 0 THEN Main ELSE NoThread]
  /\ active = 1 + Cardinality(Started)
  /\ sig = [e \in Execs |-> e = 1 /\ Started # {}]
  /\ osSig = sig
  /\ gcActive = FALSE
  /\ pc = [e \in Execs |-> IF e = 0 THEN "run" ELSE "cycle"]
  /\ ret = [e \in Execs |-> "load"]
  /\ runs = [e \in Execs |-> IF e = 0 THEN "user" ELSE "idle"]
  /\ tgt = [e \in Execs |-> Main]
  /\ rst = [e \in Execs |-> "NONE"]
  /\ rexec = [e \in Execs |-> NullExec]
  /\ rref = [e \in Execs |-> FALSE]
  /\ widx = [e \in Execs |-> 0]
  /\ nreq = 0
  /\ faults = {}

(***************************************************************************)
(* Runtime calls made by the user thread an executor runs.  The program    *)
(* names only threads it created and has not destroyed (the INVARIANTs of  *)
(* cc.c:163,181,224), and does not destroy a thread while another call on  *)
(* it has not yet written its word.                                        *)
(***************************************************************************)
PreCas == {"act_cas", "deact_read", "deact_cas"}

UserCall(e) == pc[e] = "run" /\ runs[e] = "user" /\ nreq < MaxReq

Callable(e, t) ==
  /\ st[t] \notin {Unborn, "DESTROY"}
  /\ ~\E x \in Execs \ {e} : pc[x] \in PreCas /\ tgt[x] = t /\ rst[x] = "DESTROY"

StartCall(e, t, s, l) ==
  /\ tgt' = [tgt EXCEPT ![e] = t]
  /\ rst' = [rst EXCEPT ![e] = s]
  /\ Goto(e, l)
  /\ nreq' = nreq + 1
  /\ UNCHANGED <<ref, freed, mboxExec, ws, lq, nthreads, curr, active, sig,
                 osSig, gcActive, ret, runs, rexec, rref, widx, faults>>

\* cc_thread_create (cc.c:107-155) with thread_init (thread.c:17-57): a
\* thread asked to be RUNNABLE starts as NONE and is then activated.
ThreadCreate(e, t, s) ==
  /\ UserCall(e) /\ st[t] = Unborn
  /\ st' = [st EXCEPT ![t] = IF s = "RUNNABLE" THEN "NONE" ELSE s]
  /\ StartCall(e, t, s, IF s = "RUNNABLE" THEN "act_cas" ELSE "run")

\* cc_thread_update_immediate (cc.c:217-277): RUNNABLE activates,
\* SUSPEND and TERM deactivate.
Activate(e, t) ==
  /\ UserCall(e) /\ Callable(e, t)
  /\ StartCall(e, t, "RUNNABLE", "act_cas") /\ UNCHANGED st

Deactivate(e, t, s) ==
  /\ UserCall(e) /\ Callable(e, t)
  /\ StartCall(e, t, s, "deact_read") /\ UNCHANGED st

\* cc_thread_destroy (cc.c:158-171): deactivation to DESTROY.
ThreadDestroy(e, t) ==
  /\ UserCall(e) /\ Callable(e, t)
  /\ ~\E x \in Execs : pc[x] \in PreCas /\ tgt[x] = t
  /\ StartCall(e, t, "DESTROY", "deact_read") /\ UNCHANGED st

\* cc_thread_update (cc.c:174-214) with scheduler_update_thread and
\* scheduler_try_update_thread (lines 932-979): the status is written, the
\* reference flag kept, no counter changed and no executor told.  RUNNABLE
\* is accepted by cc.c and breaks the INVARIANT at line 936.
ThreadUpdate(e, t, s) ==
  /\ UserCall(e) /\ Callable(e, t)
  /\ st' = [st EXCEPT ![t] = IF @ \notin {"DEAD", "TERM", "DESTROY"} THEN s ELSE @]
  /\ nreq' = nreq + 1
  /\ Check([update_status |-> s = "RUNNABLE"])
  /\ UNCHANGED <<ref, freed, mboxExec, ws, lq, nthreads, curr, active, sig,
                 osSig, gcActive, pc, ret, runs, tgt, rst, rexec, rref, widx>>

\* cc_sched_cycle (cc.c:97-102): the thread yields its executor.
Yield(e) ==
  /\ UserCall(e)
  /\ Goto(e, "cycle")
  /\ nreq' = nreq + 1
  /\ UNCHANGED <<st, ref, freed, mboxExec, ws, lq, nthreads, curr, active, sig,
                 osSig, gcActive, ret, runs, tgt, rst, rexec, rref, widx, faults>>

\* cc_safepoint with no signals (executor_check_mbox_sigs, thread_executor.c
\* 157-196): the mailbox is swapped with 0 and a SCHEDULE found starts a cycle.
Safepoint(e) ==
  /\ pc[e] = "run" /\ runs[e] = "user" /\ sig[e]
  /\ sig' = [sig EXCEPT ![e] = FALSE]
  /\ Goto(e, "cycle")
  /\ UNCHANGED <<st, ref, freed, mboxExec, ws, lq, nthreads, curr, active,
                 osSig, gcActive, ret, runs, tgt, rst, rexec, rref, widx, nreq, faults>>

(***************************************************************************)
(* scheduler_try_activate_thread (lines 762-819), one step per atomic      *)
(* access: the CAS to RUNNABLE|T_REF, the increment of the active count,   *)
(* the enqueue on the workshare and executor_restart_idle.  A thread whose *)
(* T_REF was already set is only marked; its holder will find it.          *)
(***************************************************************************)
\* Mutant: the T_REF test is dropped, so a referenced thread is enqueued too.
ActCasAlwaysEnqueue(e) ==
  LET t == tgt[e] IN
  /\ pc[e] = "act_cas"
  /\ IF st[t] \in {"TERM", "DEAD", "DESTROY"}
       THEN Goto(e, "run") /\ UNCHANGED <<st, ref, rref>>
       ELSE /\ st' = [st EXCEPT ![t] = "RUNNABLE"]
            /\ ref' = [ref EXCEPT ![t] = TRUE]
            /\ rref' = [rref EXCEPT ![e] = FALSE]
            /\ Goto(e, IF st[t] \notin Runnable THEN "act_inc" ELSE "act_enq")
  /\ UNCHANGED <<freed, mboxExec, ws, lq, nthreads, curr, active, sig, osSig,
                 gcActive, ret, runs, tgt, rst, rexec, widx, nreq, faults>>

\* Mutant: RUNNABLE is missing from the statuses that are already counted.
ActCasCountsRunnable(e) ==
  LET t == tgt[e] IN
  /\ pc[e] = "act_cas"
  /\ IF st[t] \in {"TERM", "DEAD", "DESTROY"}
       THEN Goto(e, "run") /\ UNCHANGED <<st, ref, rref>>
       ELSE /\ st' = [st EXCEPT ![t] = "RUNNABLE"]
            /\ ref' = [ref EXCEPT ![t] = TRUE]
            /\ rref' = [rref EXCEPT ![e] = ref[t]]
            /\ Goto(e, CASE st[t] \notin {"RUNNING", "GC_WAIT"} -> "act_inc"
                         [] ~ref[t]                           -> "act_enq"
                         [] OTHER                             -> "run")
  /\ UNCHANGED <<freed, mboxExec, ws, lq, nthreads, curr, active, sig, osSig,
                 gcActive, ret, runs, tgt, rst, rexec, widx, nreq, faults>>

ActCas(e) ==
  LET t == tgt[e] IN
  /\ pc[e] = "act_cas"
  /\ IF st[t] \in {"TERM", "DEAD", "DESTROY"}
       THEN Goto(e, "run") /\ UNCHANGED <<st, ref, rref>>
       ELSE /\ st' = [st EXCEPT ![t] = "RUNNABLE"]
            /\ ref' = [ref EXCEPT ![t] = TRUE]
            /\ rref' = [rref EXCEPT ![e] = ref[t]]
            /\ Goto(e, CASE st[t] \notin Runnable -> "act_inc"
                         [] ~ref[t]              -> "act_enq"
                         [] OTHER                -> "run")
  /\ UNCHANGED <<freed, mboxExec, ws, lq, nthreads, curr, active, sig, osSig,
                 gcActive, ret, runs, tgt, rst, rexec, widx, nreq, faults>>

ActInc(e) ==
  /\ pc[e] = "act_inc"
  /\ active' = active + 1
  /\ Goto(e, IF rref[e] THEN "run" ELSE "act_enq")
  /\ UNCHANGED <<st, ref, freed, mboxExec, ws, lq, nthreads, curr, sig, osSig,
                 gcActive, ret, runs, tgt, rst, rexec, rref, widx, nreq, faults>>

ActEnq(e) ==
  /\ pc[e] = "act_enq"
  /\ ws' = Append(ws, tgt[e])
  /\ widx' = [widx EXCEPT ![e] = 0]
  /\ Goto(e, "act_wake")
  /\ UNCHANGED <<st, ref, freed, mboxExec, lq, nthreads, curr, active, sig, osSig,
                 gcActive, ret, runs, tgt, rst, rexec, rref, nreq, faults>>

\* executor_restart_idle / executor_try_wakeup (thread_executor.c:773-821):
\* executor widx[e] is woken if it has no current thread and no SCHEDULE
\* pending; otherwise the next one is tried.
\* Mutant: the wakeup loop runs one executor past the end (i <= executor_num).
ActWakePastEnd(e) ==
  LET x == widx[e] IN
  /\ pc[e] = "act_wake"
  /\ IF curr[x] = NoThread /\ ~sig[x]
       THEN /\ sig' = [sig EXCEPT ![x] = TRUE]
            /\ osSig' = [osSig EXCEPT ![x] = TRUE]
            /\ Goto(e, "run") /\ UNCHANGED widx
       ELSE /\ UNCHANGED <<sig, osSig>>
            /\ IF x + 1 <= NExec THEN widx' = [widx EXCEPT ![e] = x + 1] /\ UNCHANGED pc
                                 ELSE Goto(e, "run") /\ UNCHANGED widx
  /\ UNCHANGED <<st, ref, freed, mboxExec, ws, lq, nthreads, curr, active,
                 gcActive, ret, runs, tgt, rst, rexec, rref, nreq, faults>>

ActWake(e) ==
  LET x == widx[e] IN
  /\ pc[e] = "act_wake"
  /\ IF curr[x] = NoThread /\ ~sig[x]
       THEN /\ sig' = [sig EXCEPT ![x] = TRUE]
            /\ osSig' = [osSig EXCEPT ![x] = TRUE]
            /\ Goto(e, "run") /\ UNCHANGED widx
       ELSE /\ UNCHANGED <<sig, osSig>>
            /\ IF x + 1 < NExec THEN widx' = [widx EXCEPT ![e] = x + 1] /\ UNCHANGED pc
                                ELSE Goto(e, "run") /\ UNCHANGED widx
  /\ UNCHANGED <<st, ref, freed, mboxExec, ws, lq, nthreads, curr, active,
                 gcActive, ret, runs, tgt, rst, rexec, rref, nreq, faults>>

(***************************************************************************)
(* scheduler_try_deactivate_thread (lines 841-907): the executor field of  *)
(* the thread's mailbox is read first, then the status is CASed keeping    *)
(* T_REF; an unreferenced thread marked DESTROY is freed at once, the      *)
(* active count drops if the thread was runnable, and the executor read    *)
(* first is told: another one by executor_raise, this one by a cycle.      *)
(***************************************************************************)
DeactRead(e) ==
  /\ pc[e] = "deact_read"
  /\ rexec' = [rexec EXCEPT ![e] = mboxExec[tgt[e]]]
  /\ Goto(e, "deact_cas")
  /\ UNCHANGED <<st, ref, freed, mboxExec, ws, lq, nthreads, curr, active, sig,
                 osSig, gcActive, ret, runs, tgt, rst, rref, widx, nreq, faults>>

DeactCas(e) ==
  LET t == tgt[e]
      s == st[t]
  IN /\ pc[e] = "deact_cas"
     /\ IF s \notin {"DEAD", "TERM"} \/ rst[e] = "DESTROY"
          THEN /\ st' = [st EXCEPT ![t] = rst[e]]
               /\ Destroy(t, rst[e] = "DESTROY" /\ ~ref[t])
               /\ Goto(e, IF s \in {"RUNNABLE", "RUNNING"} THEN "deact_dec" ELSE "deact_sig")
          ELSE Goto(e, "run") /\ UNCHANGED <<st, freed>>
     /\ UNCHANGED <<ref, mboxExec, ws, lq, nthreads, curr, active, sig, osSig,
                    gcActive, ret, runs, tgt, rst, rexec, rref, widx, nreq, faults>>

DeactDec(e) ==
  /\ pc[e] = "deact_dec"
  /\ active' = active - 1
  /\ Goto(e, "deact_sig")
  /\ UNCHANGED <<st, ref, freed, mboxExec, ws, lq, nthreads, curr, sig, osSig,
                 gcActive, ret, runs, tgt, rst, rexec, rref, widx, nreq, faults>>

\* executor_raise (thread_executor.c:744-761) sends SIGUSR1 only when
\* sch_curr_thread equals sch_idle_thread, which never holds: an idle
\* executor's current thread is NULL.  So it only sets the mailbox bit.
DeactSig(e) ==
  LET x == rexec[e] IN
  /\ pc[e] = "deact_sig"
  /\ CASE x = NullExec -> Goto(e, "run") /\ UNCHANGED sig
       [] x # e        -> Goto(e, "run") /\ sig' = [sig EXCEPT ![x] = TRUE]
       [] OTHER        -> Goto(e, "cycle") /\ UNCHANGED sig
  /\ UNCHANGED <<st, ref, freed, mboxExec, ws, lq, nthreads, curr, active, osSig,
                 gcActive, ret, runs, tgt, rst, rexec, rref, widx, nreq, faults>>

(***************************************************************************)
(* do_executor_sched_cycle (thread_executor.c:681-700): retire the current *)
(* thread (its mailbox executor becomes null), run scheduler_cycle (lines  *)
(* 664-720) and load its result (executor_get_new_thread, 643-678).        *)
(***************************************************************************)
CycRetire(e) ==
  /\ pc[e] = "cycle"
  /\ mboxExec' = IF curr[e] # NoThread
                   THEN [mboxExec EXCEPT ![curr[e]] = NullExec] ELSE mboxExec
  /\ Goto(e, IF curr[e] # NoThread THEN "ack" ELSE "ws2")
  /\ UNCHANGED <<st, ref, freed, ws, lq, nthreads, curr, active, sig, osSig,
                 gcActive, ret, runs, tgt, rst, rexec, rref, widx, nreq, faults>>

\* The current thread is acknowledged: EXECUTE keeps it and balances,
\* otherwise scheduler_replace (lines 723-759) drops it.
CycAck(e) ==
  /\ pc[e] = "ack"
  /\ Acknowledge(curr[e])
  /\ IF AckResult(curr[e]) = "EXECUTE"
       THEN /\ Goto(e, "bal") /\ ret' = [ret EXCEPT ![e] = "ws2"]
            /\ UNCHANGED <<curr, nthreads>>
       ELSE /\ Goto(e, "rep") /\ UNCHANGED ret
            /\ curr' = [curr EXCEPT ![e] = NoThread]
            /\ nthreads' = [nthreads EXCEPT ![e] = @ - 1]
  /\ UNCHANGED <<mboxExec, ws, lq, active, sig, osSig, gcActive, runs, tgt, rst,
                 rexec, rref, widx, nreq>>

\* The local-queue loop of scheduler_replace: the head is dequeued
\* (sch_num_threads--) and kept as current only on EXECUTE.
Replace(e) ==
  /\ pc[e] = "rep"
  /\ IF lq[e] # <<>> /\ curr[e] = NoThread
       THEN LET t == Head(lq[e]) IN
            /\ lq' = [lq EXCEPT ![e] = Tail(@)]
            /\ nthreads' = [nthreads EXCEPT ![e] = @ - 1]
            /\ Acknowledge(t)
            /\ IF AckResult(t) = "EXECUTE"
                 THEN /\ curr' = [curr EXCEPT ![e] = t]
                      /\ Goto(e, "bal") /\ ret' = [ret EXCEPT ![e] = "rep"]
                 ELSE UNCHANGED <<curr, pc, ret>>
       ELSE Goto(e, "ws1") /\ UNCHANGED <<st, ref, freed, lq, nthreads, curr, ret, faults>>
  /\ UNCHANGED <<mboxExec, ws, active, sig, osSig, gcActive, runs, tgt, rst,
                 rexec, rref, widx, nreq>>

\* sched_try_workshare (lines 601-639), called at the end of
\* scheduler_replace (label ws1) and of scheduler_cycle (label ws2): while
\* there is no current thread, dequeue and keep any thread not DISCARDed.
TryWorkshare(e, l, next) ==
  /\ pc[e] = l
  /\ IF curr[e] = NoThread /\ ws # <<>>
       THEN LET t == Head(ws) IN
            /\ ws' = Tail(ws)
            /\ Acknowledge(t)
            /\ IF AckResult(t) \in {"EXECUTE", "SKIP"}
                 THEN /\ curr' = [curr EXCEPT ![e] = t]
                      /\ nthreads' = [nthreads EXCEPT ![e] = @ + 1]
                      /\ Goto(e, "bal") /\ ret' = [ret EXCEPT ![e] = l]
                 ELSE UNCHANGED <<curr, nthreads, pc, ret>>
       ELSE Goto(e, next) /\ UNCHANGED <<st, ref, freed, ws, curr, nthreads, ret, faults>>
  /\ UNCHANGED <<mboxExec, lq, active, sig, osSig, gcActive, runs, tgt, rst,
                 rexec, rref, widx, nreq>>

Balance(e) ==
  /\ pc[e] = "bal"
  /\ Goto(e, CASE BalanceChoice(e) = "take" -> "take"
               [] BalanceChoice(e) = "put"  -> "put"
               [] OTHER                     -> ret[e])
  /\ UNCHANGED <<st, ref, freed, mboxExec, ws, lq, nthreads, curr, active, sig,
                 osSig, gcActive, ret, runs, tgt, rst, rexec, rref, widx, nreq, faults>>

\* scheduler_take_thread (lines 311-336).  try_take returns a bool, so its
\* -1 is read as 1 and the loop always stops after the first thread.
TakeThread(e) ==
  /\ pc[e] = "take"
  /\ Goto(e, ret[e])
  /\ IF ws = <<>>
       THEN UNCHANGED <<st, ref, freed, ws, lq, nthreads, faults>>
       ELSE LET t == Head(ws) IN
            /\ ws' = Tail(ws)
            /\ IF st[t] \in Runnable
                 THEN /\ lq' = [lq EXCEPT ![e] = Append(@, t)]
                      /\ nthreads' = [nthreads EXCEPT ![e] = @ + 1]
                      /\ Check([unreferenced |-> ~ref[t]])
                      /\ UNCHANGED <<st, ref, freed>>
                 ELSE Release(t) /\ UNCHANGED <<lq, nthreads>>
  /\ UNCHANGED <<mboxExec, curr, active, sig, osSig, gcActive, ret, runs, tgt,
                 rst, rexec, rref, widx, nreq>>

\* scheduler_put_thread (lines 390-417).  sched_queue_dequeue on an empty
\* local queue breaks its INVARIANTs; compiled without them it returns
\* NULL after decrementing sch_num_threads.
PutThread(e) ==
  /\ pc[e] = "put"
  /\ Goto(e, ret[e])
  /\ nthreads' = [nthreads EXCEPT ![e] = @ - 1]
  /\ IF lq[e] = <<>>
       THEN Check([empty_dequeue |-> TRUE]) /\ UNCHANGED <<st, ref, freed, ws, lq>>
       ELSE LET t == Head(lq[e]) IN
            /\ lq' = [lq EXCEPT ![e] = Tail(@)]
            /\ IF st[t] \in Runnable
                 THEN /\ ws' = Append(ws, t)
                      /\ Check([unreferenced |-> ~ref[t]])
                      /\ UNCHANGED <<st, ref, freed>>
                 ELSE Release(t) /\ UNCHANGED ws
  /\ UNCHANGED <<mboxExec, curr, active, sig, osSig, gcActive, ret, runs, tgt,
                 rst, rexec, rref, widx, nreq>>

\* scheduler_result and executor_get_new_thread: with no current thread
\* the executor runs its idle thread, or its GC thread during a collection.
LoadThread(e) ==
  /\ pc[e] = "load"
  /\ Goto(e, "run")
  /\ IF curr[e] # NoThread
       THEN mboxExec' = [mboxExec EXCEPT ![curr[e]] = e] /\ runs' = [runs EXCEPT ![e] = "user"]
       ELSE UNCHANGED mboxExec /\ runs' = [runs EXCEPT ![e] = IF gcActive THEN "gc" ELSE "idle"]
  /\ UNCHANGED <<st, ref, freed, ws, lq, nthreads, curr, active, sig, osSig,
                 gcActive, ret, tgt, rst, rexec, rref, widx, nreq, faults>>

(***************************************************************************)
(* executor_idle_thread (thread_executor.c:199-225): check the mailbox,    *)
(* then sigsuspend until SIGUSR1.  The normal mask blocks SIGUSR1, so a    *)
(* signal sent while the executor is busy stays pending until then.       *)
(***************************************************************************)
IdleCheck(e) ==
  /\ pc[e] = "run" /\ runs[e] = "idle"
  /\ sig' = [sig EXCEPT ![e] = FALSE]
  /\ Goto(e, IF sig[e] THEN "cycle" ELSE "sleep")
  /\ UNCHANGED <<st, ref, freed, mboxExec, ws, lq, nthreads, curr, active, osSig,
                 gcActive, ret, runs, tgt, rst, rexec, rref, widx, nreq, faults>>

IdleWake(e) ==
  /\ pc[e] = "sleep" /\ osSig[e]
  /\ osSig' = [osSig EXCEPT ![e] = FALSE]
  /\ Goto(e, "run")
  /\ UNCHANGED <<st, ref, freed, mboxExec, ws, lq, nthreads, curr, active, sig,
                 gcActive, ret, runs, tgt, rst, rexec, rref, widx, nreq, faults>>

(***************************************************************************)
(* The executor's GC thread (gc_thread.c:1992-2119) checks its mailbox at  *)
(* gc_safepoint, and once the collection is over yields with               *)
(* cc_safepoint(exec, EX_SIGNAL_SCHEDULE).  The collection itself is in    *)
(* GCPhases; here it only starts and ends.                                 *)
(***************************************************************************)
GcSafepoint(e) ==
  /\ pc[e] = "run" /\ runs[e] = "gc"
  /\ sig[e] \/ ~gcActive
  /\ sig' = [sig EXCEPT ![e] = FALSE]
  /\ Goto(e, "cycle")
  /\ UNCHANGED <<st, ref, freed, mboxExec, ws, lq, nthreads, curr, active, osSig,
                 gcActive, ret, runs, tgt, rst, rexec, rref, widx, nreq, faults>>

\* check_activate_collector (gc_alloc.c:214-232) and the final barrier
\* (gc_thread.c:1807-1841) move gc_state out of and back into INACTIVE.
GcStart ==
  /\ ~gcActive /\ gcActive' = TRUE
  /\ UNCHANGED <<st, ref, freed, mboxExec, ws, lq, nthreads, curr, active, sig,
                 osSig, pc, ret, runs, tgt, rst, rexec, rref, widx, nreq, faults>>

GcFinish ==
  /\ gcActive /\ gcActive' = FALSE
  /\ UNCHANGED <<st, ref, freed, mboxExec, ws, lq, nthreads, curr, active, sig,
                 osSig, pc, ret, runs, tgt, rst, rexec, rref, widx, nreq, faults>>

\* The steps an executor takes on its own, without a call from user code.
Step(e) ==
  \/ ActCas(e) \/ ActInc(e) \/ ActEnq(e) \/ ActWake(e)
  \/ DeactRead(e) \/ DeactCas(e) \/ DeactDec(e) \/ DeactSig(e)
  \/ CycRetire(e) \/ CycAck(e) \/ Replace(e)
  \/ TryWorkshare(e, "ws1", "ws2") \/ TryWorkshare(e, "ws2", "load")
  \/ Balance(e) \/ TakeThread(e) \/ PutThread(e) \/ LoadThread(e)
  \/ IdleCheck(e) \/ IdleWake(e) \/ GcSafepoint(e) \/ Safepoint(e)

UserStep(e) ==
  \/ Yield(e)
  \/ \E t \in Threads :
       \/ \E s \in {"RUNNABLE", "SUSPEND"} : ThreadCreate(e, t, s)
       \/ Activate(e, t)
       \/ \E s \in {"SUSPEND", "TERM"} : Deactivate(e, t, s)
       \/ ThreadDestroy(e, t)
       \/ \E s \in UpdateStats : ThreadUpdate(e, t, s)

Next ==
  \/ \E e \in Execs : Step(e) \/ UserStep(e)
  \/ GcStart \/ GcFinish

(***************************************************************************)
(* Executors are OS threads the kernel keeps running, and user code polls  *)
(* safepoints, so every step an executor can take on its own is weakly     *)
(* fair.  Runtime calls and collections are the program's choice.          *)
(***************************************************************************)
Spec == Init /\ [][Next]_vars /\ \A e \in Execs : WF_vars(Step(e))

-----------------------------------------------------------------------------
Pcs == {"run", "sleep", "cycle", "ack", "rep", "ws1", "ws2", "bal", "take",
        "put", "load", "act_cas", "act_inc", "act_enq", "act_wake",
        "deact_read", "deact_cas", "deact_dec", "deact_sig"}

TypeOK ==
  /\ st \in [Threads -> Stats \cup {Unborn}]
  /\ ref \in [Threads -> BOOLEAN] /\ freed \in [Threads -> BOOLEAN]
  /\ mboxExec \in [Threads -> Execs \cup {NullExec}]
  /\ ws \in Seq(Threads) /\ lq \in [Execs -> Seq(Threads)]
  /\ nthreads \in [Execs -> Int] /\ active \in Int
  /\ curr \in [Execs -> Threads \cup {NoThread}]
  /\ sig \in [Execs -> BOOLEAN] /\ osSig \in [Execs -> BOOLEAN]
  /\ gcActive \in BOOLEAN
  /\ pc \in [Execs -> Pcs] /\ ret \in [Execs -> {"ws1", "ws2", "rep", "load"}]
  /\ runs \in [Execs -> {"user", "idle", "gc"}]
  /\ tgt \in [Execs -> Threads] /\ rexec \in [Execs -> Execs \cup {NullExec}]
  /\ widx \in [Execs -> Execs]
  /\ nreq \in 0 .. MaxReq

\* How many places hold thread t: the workshare, local queues, current
\* slots, and activators between their CAS and their enqueue.
Occurrences(s, t) == Cardinality({i \in 1 .. Len(s) : s[i] = t})
HeldCount(t) ==
  Occurrences(ws, t)
  + Cardinality({e \in Execs : curr[e] = t})
  + Cardinality({e \in Execs : pc[e] \in {"act_inc", "act_enq"} /\ ~rref[e] /\ tgt[e] = t})
  + LET RECURSIVE InLocal(_)
        InLocal(S) == IF S = {} THEN 0
                      ELSE LET x == CHOOSE x \in S : TRUE
                           IN Occurrences(lq[x], t) + InLocal(S \ {x})
    IN InLocal(Execs)

\* T_REF is ownership: a live thread with T_REF set is held in exactly one
\* place, and an unreferenced or destroyed one in none.  Breaking it means
\* a thread queued twice, a runnable thread lost, or a freed one reused.
RefIsOwnership ==
  \A t \in Threads : HeldCount(t) = IF ref[t] /\ ~freed[t] THEN 1 ELSE 0

\* sched_active_threads counts the RUNNABLE and RUNNING threads, up to the
\* activations and deactivations that have CASed but not yet counted.
ActiveCountExact ==
  active + Cardinality({e \in Execs : pc[e] = "act_inc"})
         - Cardinality({e \in Execs : pc[e] = "deact_dec"})
    = Cardinality({t \in Threads : st[t] \in {"RUNNABLE", "RUNNING"}})

\* sch_num_threads counts the local queue and the current thread.
LocalCountExact ==
  \A e \in Execs : nthreads[e] = Len(lq[e]) + IF curr[e] # NoThread THEN 1 ELSE 0

\* No INVARIANT of the scheduler fails and no panic is reached.  Not checked
\* by a run: with threads started in the workshare the sch_num_threads drift
\* of scheduler_replace (line 745) reaches sched_queue_dequeue's INVARIANT.
NoFault == faults = {}

\* A thread told to SUSPEND, TERM or DESTROY while its executor runs it has
\* that executor signalled, or a deactivation on the way to signal it.
StopIsSignalled ==
  \A e \in Execs :
    (runs[e] = "user" /\ pc[e] \in {"run"} \cup PreCas
       /\ st[curr[e]] \in {"SUSPEND", "TERM", "DESTROY"})
      => \/ sig[e]
         \/ \E x \in Execs : pc[x] \in {"deact_dec", "deact_sig"} /\ rexec[x] = e
                             /\ tgt[x] = curr[e]

\* An executor asleep in its idle thread is woken when there is work: while
\* the workshare holds a thread and some executor sleeps, eventually the
\* workshare drains or no executor sleeps (executor_restart_idle,
\* executor_raise).
SleepersServeWorkshare ==
  (ws # <<>> /\ \E e \in Execs : pc[e] = "sleep")
    ~> (ws = <<>> \/ \A e \in Execs : pc[e] # "sleep")
=============================================================================
