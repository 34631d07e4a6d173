SPECIFICATION Spec
CONSTANTS
  Apps = {"a", "b"}
  Requests = {"r1", "r2"}
  MaxEdits = 1
  Broken = {}
  Empty = {}
INVARIANT NewRunSeesTheChange
CHECK_DEADLOCK FALSE
