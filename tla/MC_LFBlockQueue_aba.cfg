CONSTANTS
  b1 = b1  Null = Null
  NExec = 2
  NSlices = 2
  PerSlice = 3
  Blocks <- OneBlock
  MaxOps = 12
SPECIFICATION Spec
INVARIANTS
  NodesOwnedOnce
CHECK_DEADLOCK FALSE
