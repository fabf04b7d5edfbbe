SPECIFICATION FairSpec
CONSTANTS
  Table = "agents"
  Items = {i1, i2}
  Tokens = {t1}
  ScopeOf <- OneAdmin
  Slots = {r1, r2}
  MaxClicks = 3
  Failures = TRUE
  Others = TRUE
  None = None
  i1 = i1
  i2 = i2
  t1 = t1
  r1 = r1
  r2 = r2
INVARIANTS
  SavesWhatWasShown
  DetailAgrees
PROPERTIES
  PageSettles
CHECK_DEADLOCK FALSE
