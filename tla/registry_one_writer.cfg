SPECIFICATION Spec
CONSTANTS
  Agents = {a1, a2}
  Builtin = {}
  Proxyable = {a1}
  Endpoints = {e1}
  Texts = {t1, t2}
  Requests = {r1}
  Sweeps = {}
  AdminStatuses = {"inactive"}
  EmbedMayFail = FALSE
  MaxRestarts = 0
  NoEndpoint = NoEndpoint
  NoText = NoText
  Keep = Keep
  a1 = a1
  a2 = a2
  e1 = e1
  r1 = r1
  t1 = t1
  t2 = t2
INVARIANTS
  IndexFresh
