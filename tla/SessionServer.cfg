SPECIFICATION Spec
CONSTANTS
  Sessions = {s1}
  Clients = {k1, k2}
  Conns = {c1, c2, c3}
  None = none
  BufferSize = 2
  MaxEvents = 4
  MaxRequests = 2
INVARIANTS TypeOK SlotMatchesRole BufferIsTail  InOrder
PROPERTY ReplayExact
SYMMETRY Symmetry
\* The model stops when its connections and requests are used up.
CHECK_DEADLOCK FALSE
