CONSTANTS
  m = m  a = a  b = b  c = c  d = d
  NoThread = NoThread
  NExec = 2
  Main = m
  Threads <- ThreeThreads
  Started = {}
  UpdateStats = {}
  MaxReq = 3
SPECIFICATION Spec
PROPERTY SleepersServeWorkshare
