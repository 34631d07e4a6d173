SPECIFICATION TreeSpec
CONSTANTS
  Root = "root"
  SubAgents <- MCSubAgents
  Kind <- MCKind
  MaxIterations = 2
  MaxEvents = 2
  NoAgent = NoAgent
  Fails = Fails
INVARIANTS
  NoRunAhead
  NothingIsLost
PROPERTIES
  EscalationLeavesTheLoop
CHECK_DEADLOCK FALSE
