SPECIFICATION Spec
CONSTANTS
  Request = {r1, r2}
  Token = {t1, t2}
  MaxPending = 1
  Delay = 1
  None = None
  Session = {s1, s2}
  MaxRegister = 1
SYMMETRY Symmetry
INVARIANTS TypeOK AdmissionJustified DeletionEarned
CHECK_DEADLOCK FALSE
