CONSTANTS
  d1 = d1  d2 = d2  Null = Null  Empty = Empty
  NExec = 2
  Num <- WorkshareCap
  Data <- OneThread
  MaxOps = 11
  WarmCalls = 9
SPECIFICATION Spec
ACTION_CONSTRAINT WarmUp
INVARIANTS
  TypeOK
  HazardSafe
PROPERTY CallsReturn
CHECK_DEADLOCK FALSE
