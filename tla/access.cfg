SPECIFICATION Spec
CONSTANTS
  Users = {u1}
  AdminEmails = {u1}
  Tokens = {boot, k1, k2}
  Boot = boot
  Resources = {x1}
  Requests = {r1, r2}
  StatementsMayFail = TRUE
  NoUser = NoUser
  System = System
  boot = boot
  k1 = k1
  k2 = k2
  r1 = r1
  r2 = r2
  u1 = u1
  x1 = x1
SYMMETRY Interchangeable
INVARIANTS
  TypeOK
  SessionsMirrorUsers
  AuditExplainsTokens
PROPERTIES
  RevocationIsFinal
  AdminScopeFromAdmins
