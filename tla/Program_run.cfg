\* Three connections for a pool of two, and an interrupt at any moment.
CONSTANTS
  Conns = {c1, c2, c3}
  Concurrency = 2
  ReadTimeout = FALSE
  Deadline = FALSE
  MaxShutdowns = 1
SPECIFICATION ProgramSpec
INVARIANTS
  ExitsGracefully
PROPERTY InterruptEnds
CHECK_DEADLOCK FALSE
