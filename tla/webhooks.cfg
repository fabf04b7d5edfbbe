SPECIFICATION Spec
CONSTANTS
  Hooks = {h1, h2}
  Requests = {r1, r2}
  Filters = {{"*"}, {"webhook.pause", "webhook.resume"}, {"other", "webhook.delete"}}
  StatementsMayFail = TRUE
  ProcessMayStop = TRUE
  MaxAttempts = 2
  h1 = h1
  h2 = h2
  r1 = r1
  r2 = r2
SYMMETRY Interchangeable
INVARIANTS
  TypeOK
  NothingCountedTwice
  AttemptsAccounted
  LogTellsState
PROPERTIES
  PausedIsQuiet
  DeletedForGood
