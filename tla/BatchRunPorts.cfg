CONSTANTS
  Run = {r1}
  Count = 2
  Workers = 1
  MaxPort = 2
  Based = {r1}
  MaxTaken = 1
  Other = Other
  None = None
SPECIFICATION FairSpec
PROPERTIES
  RunsEnd

CHECK_DEADLOCK FALSE

