\* Two addresses that are counted and one that is not, four connections, and a
\* wrapper for each, so that a recycled one may go to another address.
CONSTANTS
  Conns = {c1, c2, c3, c4}
  Addresses = {0, 1, 2}
  Wrappers = {w1, w2, w3, w4}
  MaxConnsPerIP = 2
SPECIFICATION Spec
SYMMETRY Symmetry
INVARIANTS
  CountersExact
  LimitKept
  WrappersPrivate
CHECK_DEADLOCK FALSE
