SPECIFICATION RequestFairSpec
CONSTANTS
  Visit = {v1, v2, v3, v4}
  Worker = {w1, w2}
  QueueSize = 2
  None = None
INVARIANTS TypeOK Accounted
PROPERTY NeverBlocks QueuedIsTaken WorkersReturn
CHECK_DEADLOCK FALSE
