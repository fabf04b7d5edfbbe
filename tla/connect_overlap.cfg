SPECIFICATION Spec
CONSTANTS
  Sessions = {s1, s2}
  Requests = {r1, r2}
  HasLLM = FALSE
  StatementsMayFail = FALSE
  ProcessMayStop = TRUE
  MaxAgents = 3
  r1 = r1
  r2 = r2
  s1 = s1
  s2 = s2
SYMMETRY Interchangeable
INVARIANTS
  TypeOK
  ReviewIsComplete
  DoneIsExplained
  SubmissionsAreCurrent
PROPERTIES
  DoneIsFinal
