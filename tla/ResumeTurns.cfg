SPECIFICATION SessionSpec
CONSTANTS
  START = START
  work = work
  ask1 = ask1
  ask2 = ask2
  join = join
  ask3 = ask3
  report = report
  Default = Default
  Thrown = Thrown
  Missing = Missing
  Node <- MCNode
  Route = {}
  Interrupt <- MCInterrupt
  Generated <- MCGenerated
  StartTargets <- MCStartTargets
  Targets <- MCTargets
  Preds <- MCPreds
  Terminal <- MCTerminal
  JoinNode = {join}
  WaitsForOutput = {}
  RerunsOnResume = {}
  MaxConcurrency = 0
  Behaviour <- MCBehaviour
  History <- MCHistory
  MaxExecs = 0
  MaxTurns = 3
  Dispersed = {}
  CarefulClient = TRUE
INVARIANTS
  AnswerSettlesTheQuestion
  FinishedRunIsNotReplayed
  RecordedWorkIsReused
PROPERTIES
  CompletedRunsAreNotRepeated
