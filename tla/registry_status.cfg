SPECIFICATION Spec
CONSTANTS
  Agents = {a1}
  Builtin = {}
  Proxyable = {a1}
  Endpoints = {e1, e2}
  Texts = {t1}
  Requests = {r1, r2}
  Sweeps = {s1, s2}
  AdminStatuses = {"inactive", "degraded"}
  EmbedMayFail = FALSE
  MaxRestarts = 1
  NoEndpoint = NoEndpoint
  NoText = NoText
  Keep = Keep
  a1 = a1
  e1 = e1
  e2 = e2
  r1 = r1
  r2 = r2
  s1 = s1
  s2 = s2
  t1 = t1
SYMMETRY Interchangeable
INVARIANTS
  TypeOK
PROPERTIES
  NoSilentReturn
  StatusImplements
