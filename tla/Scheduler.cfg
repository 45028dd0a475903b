CONSTANTS
  Threads = {0, 1, 2}
  Schedules <- MCSchedules
  NumTasks = 3
  MaxSteps = 2
SPECIFICATION FairSpec
INVARIANTS
  DependencyOrder
  StepComplete
  NoRaceOnJoining
  NeverStuck
PROPERTIES
  ExecutionSpec
  StepReturns
  StopReturnsIfBusy
\* A helper thread without entries can miss the barrier of stop(), which then
\* never returns: SchedulerStopHang.cfg shows it.
CHECK_DEADLOCK FALSE
