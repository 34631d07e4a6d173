SPECIFICATION Spec
CONSTANTS
  MaxAttempts = 3
  RetriesOn = {"node", "timeout", "reported"}
  HasSignal = TRUE
  Obedient = TRUE
  MaxActs = 2
INVARIANTS
  OnlyThisAttemptCounts
  WaitingIsResumable
PROPERTIES
  NoRetryAfterAbort
  Settles
