----------------------------- MODULE MC_LFQueue -----------------------------
(* Instantiates LFQueue for TLC: two executors and the queue capacity     *)
(* scheduler_start passes for them (16 per executor).                     *)
EXTENDS LFQueue, TLC

CONSTANTS d1, d2, WarmCalls

OneThread  == {d1}
TwoThreads == {d1, d2}
WorkshareCap == NExec * (IF NExec > 16 THEN NExec ELSE 16)

\* Executor 1 makes no call until executor 0 has made WarmCalls calls on
\* its own: the runs start with one executor filling and draining the
\* queue, which brings its retired list to a scan and its node list to
\* the allocator's bounds, and continue with both executors interleaved.
WarmUp == (pc[1] = "idle" /\ pc'[1] # "idle") => nops >= WarmCalls
=============================================================================
