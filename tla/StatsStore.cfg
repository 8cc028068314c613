SPECIFICATION Spec
CONSTANTS
  Visit = {v1, v2}
  Worker = {w1}
  QueueSize = 2
  Window = 2
  HourLen = 1
  MinCount = 0
  Inactive = 1
  Interval = 2
  ReadsFail = FALSE
  MaxClock = 2
  MaxBreaks = 1
  None = None
SYMMETRY Symmetry
INVARIANTS TypeOK WindowExact PanelWindow
CHECK_DEADLOCK FALSE
