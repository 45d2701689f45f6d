\* Two workers may run, a third workerChan lets the sync.Pool hand out another
\* one than was returned; the pool is stopped and started again.
CONSTANTS
  Conns = {c1, c2}
  Chans = {w1, w2, w3}
  MaxWorkersCount = 2
  ChanCap = 1
  MaxIdle = 1
  MaxTime = 3
  MaxStarts = 2
  Nil = Nil
  None = None
SPECIFICATION Spec
SYMMETRY Symmetry
INVARIANTS
  TypeOK
  NoWorkerStranded
  OneSender
  SendsNeverBlock
  CountExact
  NoneParkedAfterStop
  SearchExact
PROPERTY NoConnDropped
