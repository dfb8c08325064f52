\* A large block freed.
CONSTANTS
  s1 = s1
  NExec = 2
  Requests <- LargeRequests
  CallocArgs = {}
  Slices = {s1}
  MaxHeld = 1
  Null = Null
SPECIFICATION Spec
INVARIANT FreeUnmapsSlice
CHECK_DEADLOCK FALSE
