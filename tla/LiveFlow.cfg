SPECIFICATION FairSpec
CONSTANTS
  MaxRequests = 2
  MaxMessages = 2
  MaxConnections = 3
  MaxDepth = 2
  MaxAttempts = 1
INVARIANTS
  HandedOverInOrder
  ResumesItsOwnSession
  NothingOutlivesTheFlow
PROPERTIES
  CutConnectionTakesNothing
  CloseEndsTheFlow
