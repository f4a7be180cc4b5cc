SPECIFICATION WindowSpec
CONSTANTS
  Host = {h1, h2}
  MaxConcurrent = 1
  NoHost = NoHost
  MaxTasks = 3
INVARIANTS
  WindowInv
PROPERTIES
  NoLateEvent
  SuccessIsKept
  ExecutionEnds
CHECK_DEADLOCK FALSE
