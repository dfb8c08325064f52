--------------------------- MODULE MC_LFBlockQueue ---------------------------
(* Instantiates LFBlockQueue for TLC: two executors, one descriptor.      *)
EXTENDS LFBlockQueue, TLC

CONSTANTS b1

OneBlock == {b1}
==============================================================================
