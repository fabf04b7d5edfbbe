SPECIFICATION Spec
CONSTANTS
  Table = "agents"
  Items = {i1, i2}
  Tokens = {t1, t2}
  ScopeOf <- OneAdmin
  Slots = {r1, r2}
  MaxClicks = 4
  Failures = FALSE
  Others = FALSE
  None = None
  i1 = i1
  i2 = i2
  t1 = t1
  t2 = t2
  r1 = r1
  r2 = r2
\* TLC stops at the first violation: take out what was seen.  DetailIsWhole and
\* SparklineAgrees are invariants too, violated with Failures = TRUE.
SYMMETRY Interchangeable
INVARIANTS
  OffersReflectIdentity
  ShownIsCurrent
  RepliesOfSession
PROPERTIES
  SavesUndoNothing
CHECK_DEADLOCK FALSE
