CONSTANTS
  Run = {r1, r2}
  Count = 2
  Workers = 2
  MaxPort = 4
  Based = {r1}
  MaxTaken = 1
  Other = Other
  None = None
SPECIFICATION MCSpec
INVARIANTS
  TypeOK
  PortsIsolated
  PortsReturned
  ResultsComplete
  StuckOnlyExhausted
PROPERTIES
  FailFastStops
CHECK_DEADLOCK FALSE
