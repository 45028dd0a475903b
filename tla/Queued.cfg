CONSTANTS
  Imports = {0, 1}
  Exports = {0, 1}
  Setups <- MCSetups
SPECIFICATION FairSpec
INVARIANTS
  StepsOnNewValues
  ExportsMoveForward
  SamplesContainWaited
  NoCallsAfterClose
  LastExportsSent
PROPERTIES
  ImportsMoveForward
  WaitsReturn
  
