CONSTANTS
  a1 = a1
  a2 = a2
  a3 = a3
  p1 = p1
  p2 = p2
  Proc = {p1, p2}
  Allocator <- MCAllocator
  ProcOf <- MCProcOf
  MaxPort = 2
  Token = {t1, t2}
  Other = Other
  None = None
SPECIFICATION Spec
INVARIANTS
  TypeOK
  LeaseBacksReservation
  MutualExclusion
PROPERTIES
  ImplementsRegistry
SYMMETRY MCSymmetry
