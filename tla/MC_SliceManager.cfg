\* Limits as a user sets them (mm_total_limit, mm_gc_limit,
\* mm_malloc_limit), reached and passed within a few slices.
CONSTANTS
  p1 = p1
  p2 = p2
  Null = Null
  Procs <- Callers
  TabSize = 2
  Sizes = {1, 16}
  Kinds = {"gc", "malloc", "static"}
  TotalLimit = 16
  MallocLimit = 16
  GcLimit = 16
  MaxCalls = 3
SPECIFICATION Spec
INVARIANTS TypeOK QuotaCoversHeld
PROPERTY AllocReturns
CHECK_DEADLOCK FALSE
