CONSTANTS
  Thread = {t1}
  Ident = {x1}
  MaxObject = 1
  Port = {q1}
  Token = {k1}
  Request = {r1}
  MaxCalls = 1
  SlowKill = FALSE
  None = None
SPECIFICATION LiveSpec
PROPERTIES
  MutationsLeased
