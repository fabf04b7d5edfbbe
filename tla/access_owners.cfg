SPECIFICATION Spec
CONSTANTS
  Users = {u1}
  AdminEmails = {}
  Tokens = {boot, k1, k2}
  Boot = boot
  Resources = {x1}
  Requests = {r1}
  StatementsMayFail = FALSE
  NoUser = NoUser
  System = System
  boot = boot
  k1 = k1
  k2 = k2
  r1 = r1
  u1 = u1
  x1 = x1
INVARIANTS
  OwnersMayEdit
