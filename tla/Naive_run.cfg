\* Three connections wait for a semaphore of one; the difficulty is a number of bytes.
CONSTANTS
  Conns = {c1, c2, c3}
  MaxConn = 1
  Burst = 2
  Difficulty = 8
  Bytes = {0, 128}
  None = None
SPECIFICATION FairSpec
INVARIANT SemExact
PROPERTY AcceptsGoOn
CHECK_DEADLOCK FALSE
