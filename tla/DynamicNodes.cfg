SPECIFICATION Spec
CONSTANTS
  Items = 3
  Pool = 2
  Loops = TRUE
  Careful = TRUE
  MaxTurns = 3
  MaxInputs = 3
INVARIANTS
  ListIsOfThisRun
  RecordedItemsRunOnce
  AsksWhatIsOpen
PROPERTIES
  AnsweredIsNotAskedAgain
  TurnEnds
