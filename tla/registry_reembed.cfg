SPECIFICATION Spec
CONSTANTS
  Agents = {a1}
  Builtin = {}
  Proxyable = {a1}
  Endpoints = {e1}
  Texts = {t1, t2}
  Requests = {r1, r2}
  Sweeps = {}
  AdminStatuses = {}
  EmbedMayFail = FALSE
  MaxRestarts = 0
  NoEndpoint = NoEndpoint
  NoText = NoText
  Keep = Keep
  a1 = a1
  e1 = e1
  r1 = r1
  r2 = r2
  t1 = t1
  t2 = t2
INVARIANTS
  IndexFresh
