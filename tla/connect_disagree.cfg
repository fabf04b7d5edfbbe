SPECIFICATION Spec
CONSTANTS
  Sessions = {s1}
  Requests = {r1, r2}
  HasLLM = FALSE
  StatementsMayFail = FALSE
  ProcessMayStop = FALSE
  MaxAgents = 2
  r1 = r1
  r2 = r2
  s1 = s1
\* TLC stops at the first violation: take out what was seen.
INVARIANTS
  RegisteredOnce
PROPERTIES
  NothingCreated
  SameGates
