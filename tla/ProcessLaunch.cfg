CONSTANTS
  Task = {t1, t2, t3}
  Key = {k1, k2}
  Port = {q1, q2}
  MaxCancel = 1
  None = None
SPECIFICATION FairSpec
INVARIANTS
  FailureLeavesNothing
  
PROPERTIES
  CallsEnd
CHECK_DEADLOCK FALSE
