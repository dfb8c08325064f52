CONSTANTS
  d1 = d1  d2 = d2  Null = Null  Empty = Empty
  NExec = 2
  Num <- WorkshareCap
  Data <- OneThread
  MaxOps = 7
  WarmCalls = 7
SPECIFICATION Spec
ACTION_CONSTRAINT WarmUp
INVARIANT NoCrash
CHECK_DEADLOCK FALSE
