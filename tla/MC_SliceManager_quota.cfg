\* A user-set total and malloc limit of 16 units (64 KiB) and callers that
\* request the 16-unit slices of lf_block_queue.c.
CONSTANTS
  p1 = p1
  p2 = p2
  Null = Null
  Procs <- Callers
  TabSize = 2
  Sizes = {16}
  Kinds = {"malloc"}
  TotalLimit = 16
  MallocLimit = 16
  GcLimit = 16
  MaxCalls = 2
SPECIFICATION Spec
INVARIANT WithinQuota
CHECK_DEADLOCK FALSE
