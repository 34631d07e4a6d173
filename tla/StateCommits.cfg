SPECIFICATION Spec
CONSTANTS
  StateWriter = {w1, w2}
  EventWriter = {w3}
  StateKey = {x}
  EventKey = {y}
  AppKey = {y}
  MaxWrites = 4
  MaxTurns = 2
INVARIANTS
  StoredCatchesUp
PROPERTIES
  CommitsNeverRollBack
