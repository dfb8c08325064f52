\* Every size malloc_size_class's INVARIANT admits, and two sizes past
\* find_heap's bound with a slice to map them, from both executors.
CONSTANTS
  s1 = s1
  NExec = 2
  Requests <- FitRequests
  CallocArgs = {}
  Slices = {s1}
  MaxHeld = 1
  Null = Null
SPECIFICATION Spec
INVARIANT BlockHoldsRequest
CHECK_DEADLOCK FALSE
