SPECIFICATION Spec
CONSTANTS
  Status = {200, 399, 400, 499, 500}
  MaxBody = 2
  MaxTotal = 3
  MaxWrite = 2
INVARIANTS
  TypeOK StoredIsServed 
  LogTellsWire CountedIsServed
CHECK_DEADLOCK FALSE
