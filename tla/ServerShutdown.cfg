SPECIFICATION FairSpec
CONSTANTS
  Count = 2
  Request = {r1, r2, r3}
  None = None
INVARIANTS TypeOK CutIsReported EndsForAReason
PROPERTY ServiceEnds
CHECK_DEADLOCK FALSE
