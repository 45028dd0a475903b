CONSTANTS
  Tasks = {1, 2, 3, 4}
  Attributes = {1, 2, 3, 4}
  Root = 0
  External = 0
  NumThreads = 2
  Declarations <- MCDeclarations
SPECIFICATION MCSpec
INVARIANTS
  WritersBeforeReaders
  NeededTasksKept
  FailsOnlyOnCycle
  LevelsFit
  DealtOnce
  Executable
