CONSTANTS
  m = m  a = a  b = b  c = c  d = d
  NoThread = NoThread
  NExec = 2
  Main = m
  Threads <- FiveThreads
  Started <- FourStarted
  UpdateStats = {}
  MaxReq = 2
SYMMETRY Symm
SPECIFICATION Spec
INVARIANTS
  RefIsOwnership
  ActiveCountExact
