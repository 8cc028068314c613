SPECIFICATION FairSpec
CONSTANTS
  Request = {r1, r2, r3, r4}
  Token = {t1, t2}
  MaxPending = 1
  Delay = 1
  None = None
INVARIANTS TypeOK TrackedTimersLive PendingBounded NilMapUntouched LostTimersExplained
PROPERTY UsedTokenDeleted
CHECK_DEADLOCK FALSE
