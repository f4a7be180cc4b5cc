SPECIFICATION AttendedRunSpec
CONSTANTS
  a = a
  b = b
  c = c
  Node = {a, b, c}
  Case = {"case-0"}
  NoNode = NoNode
  MaxRuns = 2
  Workflows <- Confirms
INVARIANTS RunInv
PROPERTIES RunsEnd
CHECK_DEADLOCK FALSE
