SPECIFICATION Spec
CONSTANTS
  Hooks = {h1}
  Requests = {r1, r2}
  Filters = {{"*"}, {"webhook.test"}, {"webhook.pause", "webhook.resume"}, {"other", "webhook.delete"}}
  StatementsMayFail = FALSE
  ProcessMayStop = FALSE
  MaxAttempts = 3
  h1 = h1
  r1 = r1
  r2 = r2
\* TLC stops at the first violation: take out what was seen.
PROPERTIES
  TestFiresOnce
  PutTakesEffect
