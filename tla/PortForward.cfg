SPECIFICATION Spec
CONSTANTS
  Forward = {f1, f2}
  Job = {j1, j2}
  None = None
  Cap = 1
INVARIANTS
  ForwardInv
PROPERTIES
  JobsEnd
CHECK_DEADLOCK FALSE
