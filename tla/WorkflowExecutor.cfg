SPECIFICATION FairSpec
CONSTANTS
  a = a
  b = b
  c = c
  d = d
  Node = {a, b, c, d}
  Case = {"case-0", "case-1"}
  NoNode = NoNode
  MaxConnections = 4
  Workflows <- Both
INVARIANTS Inv NothingLeftBehind
PROPERTIES Terminates ImplementsDependencyRun
CHECK_DEADLOCK FALSE
