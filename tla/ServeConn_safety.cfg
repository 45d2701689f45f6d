\* Two connections share readers, writers and contexts; the client of one does not
\* wait for its responses.  Bodies arrive in pieces, an empty one too.  The reader's
\* buffer is larger than ReadBody's, so bytes stay in it (kept) as well as in
\* ReadBody's (lost).
CONSTANTS
  Conns = {c1, c2}
  Readers = {r1, r2}
  Writers = {w1, w2}
  Contexts = {x1, x2}
  ReadBufferSize = 3
  InnerSize = 2
  MaxRequestBodySize = 4
  ReadTimeout = TRUE
  IdleTimeout = FALSE
  BodySizes = {0, 2}
  MaxRequests = 2
  Pipelining = {c1}
  None = None
SPECIFICATION Spec
SYMMETRY Symmetry
INVARIANTS
  PooledPrivate
  ResponsesOwn
  BodiesIntact
  BodiesAreTails
CHECK_DEADLOCK FALSE
