CONSTANTS
  Thread = {t1}
  Ident = {x1}
  MaxObject = 1
  Port = {q1}
  Token = {}
  Request = {r1, r2}
  MaxCalls = 2
  SlowKill = FALSE
  None = None
SPECIFICATION LiveSpec
PROPERTIES
  AddressedIsAdmitted

