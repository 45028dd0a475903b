CONSTANTS
  Threads = {0, 1}
  Schedules <- MCSchedules
  NumTasks = 2
  MaxSteps = 1
SPECIFICATION FairSpec
PROPERTIES
  StopReturns
\* The state in which stop() waits for ever is a deadlock.
CHECK_DEADLOCK FALSE
