CONSTANTS
  Phases = {1, 2}
  SwitchingSteps = 3
  NumSwitches = 2
  MaxCommands = 3
  Setups <- MCSetups
SPECIFICATION FairSpec
INVARIANTS CommandsFollowed ExtractedFromSolvedMatrix
PROPERTIES PolesOpenAtCurrentZero SolvedWithPresentStamps TransitionsEnd
