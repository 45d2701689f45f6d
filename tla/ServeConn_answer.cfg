\* No timeouts: what is sent is answered, and a hangup ends the connection.  Bodies
\* just below the limit, of it and beyond it, with a buffer of one byte in ReadBody.
\* One connection: what connections share is private to one at a time (PooledPrivate).
CONSTANTS
  Conns = {c1}
  Readers = {r1}
  Writers = {w1}
  Contexts = {x1}
  ReadBufferSize = 2
  InnerSize = 1
  MaxRequestBodySize = 3
  ReadTimeout = FALSE
  IdleTimeout = FALSE
  BodySizes = {0, 2, 3, 4}
  MaxRequests = 3
  Pipelining = {}
  None = None
SPECIFICATION FairSpec
PROPERTIES
  RequestsAnswered
  HangupEnds
CHECK_DEADLOCK FALSE
