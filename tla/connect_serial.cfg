SPECIFICATION Spec
CONSTANTS
  Sessions = {s1, s2}
  Requests = {r1}
  HasLLM = FALSE
  StatementsMayFail = FALSE
  ProcessMayStop = FALSE
  MaxAgents = 2
  r1 = r1
  s1 = s1
  s2 = s2
SYMMETRY Interchangeable
INVARIANTS
  RegisteredOnce
PROPERTIES
  NothingCreated
