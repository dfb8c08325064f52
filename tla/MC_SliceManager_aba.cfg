\* The default limits (0, as the launcher sets them), so every reservation
\* succeeds; three free descriptors and two callers allocating and freeing.
CONSTANTS
  p1 = p1
  p2 = p2
  Null = Null
  Procs <- Callers
  TabSize = 3
  Sizes = {1}
  Kinds = {"malloc"}
  TotalLimit = 0
  MallocLimit = 0
  GcLimit = 0
  MaxCalls = 4
SPECIFICATION Spec
INVARIANT EntryOwnership
CHECK_DEADLOCK FALSE
