CONSTANTS
  Thread = {t1, t2}
  Ident = {x1, x2}
  MaxObject = 3
  Port = {q1, q2}
  Token = {k1}
  SlowKill = TRUE
  None = None
SPECIFICATION Spec
INVARIANTS
  TypeOK
  PortLeasedWhileRunning
  StoppedIsDown
SYMMETRY Symmetry
