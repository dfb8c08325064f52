\* malloc_lf retries try_alloc forever once no slice is left (not in the
\* run set, see README).  No symmetry: the property is temporal.
CONSTANTS
  p1 = p1  p2 = p2  s1 = s1  s2 = s2  s3 = s3  s4 = s4
  Null = Null
  Procs <- Execs
  Slices <- ThreeSlices
  MaxCount = 4
  MaxCredits = 64
  DescCount = 6
  MaxOps = 10
SPECIFICATION Spec
PROPERTY MallocReturns
CHECK_DEADLOCK FALSE
