SPECIFICATION Spec
CONSTANTS
  Agents = {a1, b1}
  Builtin = {b1}
  Proxyable = {}
  Endpoints = {e1}
  Texts = {t1, t2}
  Requests = {r1, r2}
  Sweeps = {}
  AdminStatuses = {}
  EmbedMayFail = TRUE
  MaxRestarts = 0
  NoEndpoint = NoEndpoint
  NoText = NoText
  Keep = Keep
  a1 = a1
  b1 = b1
  e1 = e1
  r1 = r1
  r2 = r2
  t1 = t1
  t2 = t2
SYMMETRY Interchangeable
INVARIANTS
  AuditOwedOnlyInFlight
  IndexJoins
  CardStored
