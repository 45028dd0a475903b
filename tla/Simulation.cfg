CONSTANTS
  Events = {e1, e2}
  EventTimes = {0, 7, 8, 14, 16}
  FinalTimes = {6, 15, 16, 18}
  LoggerLists <- MCLoggerLists
  DT = 8
  Epsilon = 1
  EventTolerance = 2
  Rounding = 1
  Downsampling = 2
SPECIFICATION FairSpec
INVARIANTS
  EventsInTheirStep
  EventsInOrder
  RowsFollowTime
  LastStepAtFinalTime
PROPERTIES
  RunEnds
