CONSTANTS
  Thread = {t1}
  Ident = {x1, x2}
  MaxObject = 2
  Port = {q1, q2}
  Token = {}
  Request = {r1}
  MaxCalls = 2
  SlowKill = FALSE
  None = None
SPECIFICATION FairLiveSpec
INVARIANTS
  LiveTypeOK
  EffectNotHidden
  OkWasPerformed
  ProcessesOwned
  ClaimsReachable
PROPERTIES
  RequestsAnswered
  GenerationGrows
  CloseStopsAll
