\* A small block grown by realloc.
CONSTANTS
  s1 = s1
  NExec = 2
  Requests <- SmallRequests
  CallocArgs = {}
  Slices = {}
  MaxHeld = 2
  Null = Null
SPECIFICATION Spec
INVARIANT ReallocCopiesWithin
CHECK_DEADLOCK FALSE
