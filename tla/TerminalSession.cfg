SPECIFICATION SessionSpec
CONSTANTS
  EmitterCap = 2
  ActorCap = 1
  MaxPieces = 3
  MaxItems = 2
INVARIANTS SessionInv
PROPERTIES HearsTheEnd 
\* A session that is over does nothing.
CHECK_DEADLOCK FALSE
