SPECIFICATION BridgeSpec
CONSTANTS
  Fixed = {f1, f2}
  AnyPort = {a1}
  Absent = Absent
  MaxStarts = 4
INVARIANTS
  BridgeInv
PROPERTIES
  OffCloses
CHECK_DEADLOCK FALSE
