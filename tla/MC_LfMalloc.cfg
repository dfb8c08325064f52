\* Two executors, the largest size class (four blocks a superblock), three
\* slice table entries, and 14 malloc and free calls: enough for
\* superblocks to fill, go partial, be displaced to the shared queue,
\* empty, and for remove_empty_desc to drain the queue and enqueue an
\* EMPTY descriptor again.  Executors and slice entries are symmetric.
\* The run ends when the calls are used up, so deadlock is not checked.
CONSTANTS
  p1 = p1  p2 = p2  s1 = s1  s2 = s2  s3 = s3  s4 = s4
  Null = Null
  Procs <- Execs
  Slices <- ThreeSlices
  MaxCount = 4
  MaxCredits = 64
  DescCount = 6
  MaxOps = 14
SPECIFICATION Spec
SYMMETRY Symm
INVARIANTS TypeOK BlocksPartitioned EmptyMeansFree
CHECK_DEADLOCK FALSE
