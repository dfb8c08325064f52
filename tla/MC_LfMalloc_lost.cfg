\* remove_empty_desc drops the live descriptors it dequeues while looking
\* for the EMPTY one: a PARTIAL superblock falls out of every list.
CONSTANTS
  p1 = p1  p2 = p2  s1 = s1  s2 = s2  s3 = s3  s4 = s4
  Null = Null
  Procs <- Execs
  Slices <- ThreeSlices
  MaxCount = 4
  MaxCredits = 64
  DescCount = 6
  MaxOps = 14
SPECIFICATION Spec
SYMMETRY Symm
INVARIANT NoLostPartial
CHECK_DEADLOCK FALSE
