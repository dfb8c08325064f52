CONSTANTS
  d1 = d1  d2 = d2  Null = Null  Empty = Empty
  NExec = 2
  Num <- WorkshareCap
  Data <- OneThread
  MaxOps = 3
  WarmCalls = 0
SPECIFICATION Spec
PROPERTY Linearizable
CHECK_DEADLOCK FALSE
