CONSTANTS
  Phases = {1}
  SwitchingSteps = 2
  NumSwitches = 2
  MaxCommands = 3
  Setups <- StaleSetups
SPECIFICATION Spec
PROPERTY EverySolveWithPresentStamps
