CONSTANTS
  m = m  a = a  b = b  c = c  d = d
  NoThread = NoThread
  NExec = 2
  Main = m
  Threads <- FiveThreads
  Started <- FourStarted
  UpdateStats = {}
  MaxReq = 1
SYMMETRY Symm
SPECIFICATION Spec
INVARIANT LocalCountExact
