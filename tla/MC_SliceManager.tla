-------------------------- MODULE MC_SliceManager --------------------------
(* Instantiates SliceManager for TLC: two executors, the tail of the      *)
(* descriptor table, and the sizes the callers use (in 4 KiB units: the   *)
(* 16-unit blocks lf_block_queue.c and lf_malloc.c request, and a minimum *)
(* slice).                                                                 *)
EXTENDS SliceManager, TLC

CONSTANTS p1, p2

Callers == {p1, p2}
=============================================================================
