----------------------------- MODULE MC_LfMalloc -----------------------------
(* Model-checking instances of LfMalloc.                                   *)
EXTENDS LfMalloc, TLC

CONSTANTS p1, p2, s1, s2, s3, s4

Execs == {p1, p2}
ThreeSlices == {s1, s2, s3}
FourSlices == {s1, s2, s3, s4}

\* Executors are alike, and so are slice table entries.
Symm == Permutations(Execs) \cup Permutations(ThreeSlices)
=============================================================================
