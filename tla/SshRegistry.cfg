CONSTANTS
  Client = {c1, c2}
  MaxConnections = 3
SPECIFICATION Spec
\* Clients and links may all be at rest.
CHECK_DEADLOCK FALSE
INVARIANTS Inv
PROPERTIES OnlyNewOverGone RequestsEnd
