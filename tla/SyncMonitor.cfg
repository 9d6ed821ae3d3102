CONSTANTS
  Thread = {t1, t2}
  IdSpace = 5
  MaxCount = 2
  MaxSent = 7
  MaxLost = 3
  MaxEmitted = 1
  None = None
SPECIFICATION FairSpec
INVARIANTS
  Correlated
  InStep
PROPERTIES
  OperationsEnd
CHECK_DEADLOCK FALSE
