SPECIFICATION Spec
CONSTANTS
  Servers = {s1, s2}
  Users = {u1}
  Texts = {t1, t2}
  Requests = {r1, r2}
  PageSize = 1
  StatementsMayFail = FALSE
  s1 = s1
  s2 = s2
  u1 = u1
  t1 = t1
  t2 = t2
  r1 = r1
  r2 = r2
SYMMETRY Interchangeable
\* TLC stops at the first violation: take out what was seen.
INVARIANTS
  WalkNeverSkips
PROPERTIES
  BeforeIsLastAfter
