SPECIFICATION Spec
CONSTANTS
  Visit = {v1}
  Worker = {w1}
  QueueSize = 2
  Window = 2
  HourLen = 1
  MinCount = 2
  Inactive = 1
  Interval = 1
  ReadsFail = TRUE
  MaxClock = 2
  MaxBreaks = 0
  None = None
INVARIANT SparesSettled
CHECK_DEADLOCK FALSE
