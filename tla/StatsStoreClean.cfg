SPECIFICATION Spec
CONSTANTS
  Visit = {v1, v2}
  Worker = {w1, w2}
  QueueSize = 2
  Window = 1
  HourLen = 2
  MinCount = 3
  Inactive = 1
  Interval = 4
  ReadsFail = FALSE
  MaxClock = 3
  MaxBreaks = 0
  None = None
SYMMETRY Symmetry
INVARIANTS KeysExpire SparesButAnHour
CHECK_DEADLOCK FALSE
