\* try_desc_alloc's carve returns a descriptor that is also on the list it
\* publishes (not in the run set: six steps suffice, see README).
CONSTANTS
  p1 = p1  p2 = p2  s1 = s1  s2 = s2  s3 = s3  s4 = s4
  Null = Null
  Procs <- Execs
  Slices <- ThreeSlices
  MaxCount = 4
  MaxCredits = 64
  DescCount = 6
  MaxOps = 2
SPECIFICATION Spec
INVARIANT DescFresh
CHECK_DEADLOCK FALSE
