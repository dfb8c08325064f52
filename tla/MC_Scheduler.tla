---------------------------- MODULE MC_Scheduler ----------------------------
(* Model-checking instances of Scheduler on two executors.                 *)
EXTENDS Scheduler, TLC

CONSTANTS m, a, b, c, d

\* The start thread and the threads it creates while the model runs.
ThreeThreads == {m, a, b}
\* Five threads, four already started, so that sched_active_threads exceeds
\* the executor count enough for the balance bounds to move threads.
FiveThreads == {m, a, b, c, d}
FourStarted == {a, b, c, d}

Symm == Permutations({a, b, c, d})
=============================================================================
