CONSTANTS
  m = m  a = a  b = b  c = c  d = d
  NoThread = NoThread
  NExec = 2
  Main = m
  Threads <- ThreeThreads
  Started = {}
  UpdateStats = {"SUSPEND", "TERM"}
  MaxReq = 3
SYMMETRY Symm
SPECIFICATION Spec
INVARIANTS
  TypeOK
  RefIsOwnership
