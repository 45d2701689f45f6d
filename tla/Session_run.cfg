\* Two handlers, two nonces, the headers of this client and of another, valid or not,
\* and a restart.
CONSTANTS
  Handlers = {h1, h2}
  Nonces = {n1, n2}
  MaxRestarts = 1
  Makers = {me, other}
  Client = me
  None = None
SPECIFICATION SessionSpec
SYMMETRY Symmetry
CONSTRAINT NotFailed
INVARIANTS
  QuotesEarned
  ReplayRefused
  SolversServed
CHECK_DEADLOCK FALSE
