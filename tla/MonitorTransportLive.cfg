CONSTANTS
  Req = {r1, r2, r3}
  MaxPending = 2
  MaxEvents = 1
  IdSpace = 2
  MaxConn = 1
  MaxEmitted = 0
  None = None
SPECIFICATION FairSpec
INVARIANTS
  IdsDistinct
PROPERTIES
  CallsEnd
