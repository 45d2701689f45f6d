\* Half days; the window is smaller than the code's, and outlived.
CONSTANTS
  MaxIterations = 3
  MaxCounter = 4
  BitsOffered = {20, 22}
  ParserBits = 20
  ZeroBits = {19, 20, 23}
  Day = 2
  Past = 3
  Future = 4
  Zones <- MCZones
  MaxTime = 6
  None = None
SPECIFICATION Spec
INVARIANTS
  FirstSolution
  OwnProofAccepted
  NoneFromFuture
CHECK_DEADLOCK FALSE
