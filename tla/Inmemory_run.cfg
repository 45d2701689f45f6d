\* Two dials, one of a pipe that is used: two Writes of two bytes through a channel of
\* one buffer, Reads of one byte and of more than a Write, with deadlines.
CONSTANTS
  p1 = p1
  p2 = p2
  Pipes = {p1, p2}
  Buffers = {b1, b2}
  ChanCap = 1
  MsgSize = 2
  ReadSizes <- MCReadSizes
  Writes <- MCWrites
  DeadlineEnds <- MCDeadlineEnds
  Closers = {c1}
  None = None
SPECIFICATION Spec
INVARIANTS
  StreamIntact
  EOFAfterAll
  DialMeansAccepted
PROPERTIES
  WaitsEnd
  ListenerCloses
CHECK_DEADLOCK FALSE
