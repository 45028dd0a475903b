SPECIFICATION MCSpec
CONSTANTS
  NumNodes = 3
  StrictTolerance = 1
  LooseTolerance = 10
  Systems <- MCSystems
  VSet <- MCVSet
  Limits <- MCLimits
  NoLimit = NoLimit
  Loads <- MCLoads
  Solution <- LinearSolution
  Diverged = Diverged
  OuterIterations = {1, 10}
  MaxSwitches = 2
  MaxSolves = 3
  slackBranch1 = 1
  slackBranch2 = 1
  tieBranch = 1
INVARIANTS
  ClassificationConsistent
  PinnedAtLimit
  SettledMeansComplementary
  SameLoadSameSolution
  BaseVoltagesVerified
