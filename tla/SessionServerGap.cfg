SPECIFICATION Spec
CONSTANTS
  Sessions = {s1}
  Clients = {k1}
  Conns = {c1, c2}
  None = none
  BufferSize = 2
  MaxEvents = 4
  MaxRequests = 2
PROPERTY Lossless
\* The model stops when its connections and requests are used up.
CHECK_DEADLOCK FALSE
