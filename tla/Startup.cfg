SPECIFICATION Spec
CONSTANTS
  Paths = 4
  Raw <- MCRaw
  Half = 8
  HourLen = 2
  MaxChan = 5
  None = None
  Bad = Bad
INVARIANTS TypeOK UsersFindTheirParts CrashExplained
PROPERTY StartSettles
CHECK_DEADLOCK FALSE
