SPECIFICATION FairSpec
CONSTANTS
  Hooks = {h1}
  Requests = {r1, r2}
  Filters = {{"*"}, {"webhook.pause", "webhook.resume"}, {"other", "webhook.delete"}}
  StatementsMayFail = TRUE
  ProcessMayStop = TRUE
  MaxAttempts = 3
  h1 = h1
  r1 = r1
  r2 = r2
PROPERTIES
  EveryAttemptCounted
