CONSTANTS
  Imports = {0, 1}
  Exports = {0}
  Setups <- MCSyncSetups
SPECIFICATION FairSpec
PROPERTY WaitsReturn
