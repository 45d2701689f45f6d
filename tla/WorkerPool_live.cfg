\* Fair scheduling, unbuffered workerChans (GOMAXPROCS = 1), more connections than
\* workers, one Start and at most one Stop.
CONSTANTS
  Conns = {c1, c2, c3}
  Chans = {w1, w2, w3}
  MaxWorkersCount = 2
  ChanCap = 0
  MaxIdle = 1
  MaxTime = 2
  MaxStarts = 1
  Nil = Nil
  None = None
SPECIFICATION FairSpec
PROPERTIES
  StopDrains
  ImplementsDispatch
