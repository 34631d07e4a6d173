SPECIFICATION Spec
CONSTANTS
  Absent = Absent
  Refused = Refused
  Copies = {c1, c2}
  MaxEvents = 3
  MaxTime = 3
  MaxDeletes = 2
SYMMETRY Symmetry
INVARIANTS
  RowIsTheFold
  OrderedClocksMissNothing
  DeletedSessionLeavesNothing
CHECK_DEADLOCK FALSE
