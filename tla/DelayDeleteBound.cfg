SPECIFICATION Spec
CONSTANTS
  Request = {r1, r2, r3, r4}
  Token = {t1, t2}
  MaxPending = 1
  Delay = 1
  None = None
INVARIANTS DelayedDeletesBounded
CHECK_DEADLOCK FALSE
