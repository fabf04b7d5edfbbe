SPECIFICATION Spec
CONSTANTS
  Sessions = {s1}
  Requests = {r1}
  HasLLM = TRUE
  StatementsMayFail = FALSE
  ProcessMayStop = FALSE
  MaxAgents = 2
  r1 = r1
  s1 = s1
PROPERTIES
  FieldsAccumulate
