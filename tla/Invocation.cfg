SPECIFICATION Spec
CONSTANTS
  MaxEvents = 3
INVARIANTS
  SeenIsStoredIsEmitted
  LastOutputIsTheResult
  NoBodyOutlivesTheRun
  FailureIsSeenLast
PROPERTIES
  Ends
