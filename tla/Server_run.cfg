\* Three connections for a pool of two, a context that may expire, two Shutdown
\* calls, and a ReadTimeout, so that silent clients are not waited for.
CONSTANTS
  Conns = {c1, c2, c3}
  Concurrency = 2
  ReadTimeout = TRUE
  Deadline = TRUE
  MaxShutdowns = 2
SPECIFICATION FairSpec
INVARIANTS
  CountsExact
  NothingInterrupted
PROPERTIES
  ShutdownReturns
  ServeReturns
  AcceptedNotForgotten
CHECK_DEADLOCK FALSE
