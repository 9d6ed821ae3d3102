CONSTANTS
  Req = {r1, r2, r3}
  MaxPending = 2
  MaxEvents = 2
  IdSpace = 3
  MaxConn = 2
  MaxEmitted = 3
  None = None
SPECIFICATION Spec
INVARIANTS
  TypeOK
  Correlated
  SlotsAccounted
  OpenFutureServed
  EventsAccounted
PROPERTIES
  UnexpectedWasAbandoned
SYMMETRY Symmetry
