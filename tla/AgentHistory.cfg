SPECIFICATION Spec
CONSTANTS
  a1 = a1
  a2 = a2
  Chain <- MCChain
  MaxCalls = 1
  Prompt = FALSE
INVARIANTS
  RequestIsOwnTurn
