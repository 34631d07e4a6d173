SPECIFICATION FairSpec
CONSTANTS
  START = START
  a = a
  b = b
  j = j
  w = w
  ok = ok
  again = again
  Default = Default
  q = q
  Throws = Throws
  Nothing = Nothing
  Node <- MCNode
  Route <- MCRoute
  Interrupt = {q}
  StartTargets <- MCStartTargets
  Targets <- MCTargets
  Preds <- MCPreds
  Terminal <- MCTerminal
  JoinNode = {j}
  WaitsForOutput = {w}
  RerunsOnResume = {}
  MaxConcurrency = 2
  Behaviour <- MCBehaviour
  History <- MCHistory
  MaxExecs = 2
INVARIANTS
  NoRunnableTriggerLost
  JoinMissesNoOutput
  AsksInsteadOfAnswering
PROPERTIES
  KeepsActivationContract
  Terminates
