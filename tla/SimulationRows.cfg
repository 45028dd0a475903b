CONSTANTS
  Events = {}
  EventTimes = {}
  FinalTimes = {16, 18}
  LoggerLists <- MemoryOnly
  DT = 8
  Epsilon = 1
  EventTolerance = 2
  Rounding = 1
  Downsampling = 1
SPECIFICATION Spec
INVARIANTS
  LogIsWritten
