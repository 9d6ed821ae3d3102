CONSTANTS
  MaxRecord = 4
  MaxCapture = 2
  Limit = {0, 1, 2}
SPECIFICATION FairSpec
INVARIANTS
  TypeOK
  Accounted
PROPERTIES
  CompleteMeansAll
  CatchesUp
  ImplementsWindow
