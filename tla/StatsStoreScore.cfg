SPECIFICATION Spec
CONSTANTS
  Visit = {v1, v2}
  Worker = {w1, w2}
  QueueSize = 2
  Window = 2
  HourLen = 1
  MinCount = 0
  Inactive = 1
  Interval = 1
  ReadsFail = FALSE
  MaxClock = 2
  MaxBreaks = 0
  None = None
INVARIANT ScoreIsLast
CHECK_DEADLOCK FALSE
