\* Sizes find_heap refuses, one slice to map them, and calloc's product
\* near 2^32.
CONSTANTS
  s1 = s1
  NExec = 2
  Requests <- LargeRequests
  CallocArgs <- LargeCallocArgs
  Slices = {s1}
  MaxHeld = 2
  Null = Null
SPECIFICATION Spec
INVARIANT BlockHoldsRequest
CHECK_DEADLOCK FALSE
