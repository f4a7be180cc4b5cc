SPECIFICATION CallerSpec
CONSTANTS
  Host = {h1, h2, h3}
  MaxConcurrent = 2
  NoHost = NoHost
INVARIANTS
  Inv
  HistoryTellsTruth
  CallerInv
PROPERTIES
  AtMostOneLateStart
  Ends
\* A batch may be over, refused or gone with the process.
CHECK_DEADLOCK FALSE
