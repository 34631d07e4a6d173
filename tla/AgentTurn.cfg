SPECIFICATION Spec
CONSTANTS
  MaxTurns = 3
  MaxCalls = 2
  MaxResponses = 2
  MaxLlmCalls = 2
  PlainText = TRUE
  Thrown = Thrown
  Missing = Missing
  Opening = Opening
  Closing = Closing
INVARIANTS
  DecisionsAreCarriedOut
  ToolsAreHeard
PROPERTIES
  ApprovalBinds
  GateHoldsTheTurn
CHECK_DEADLOCK FALSE
