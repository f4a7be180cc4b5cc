SPECIFICATION CallsSpec
CONSTANTS
  None = None
  Call = {c1, c2}
  Risks = {"safe", "low", "high", "block"}
  MaxChanges = 1
INVARIANTS
  CallsInv
PROPERTIES
  NothingUnapproved
  CallsEnd
CHECK_DEADLOCK FALSE
