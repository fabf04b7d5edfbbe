SPECIFICATION Spec
CONSTANTS
  Users = {u1}
  AdminEmails = {u1}
  Tokens = {boot, k1, k2}
  Boot = boot
  Resources = {}
  Requests = {r1, r2}
  StatementsMayFail = FALSE
  NoUser = NoUser
  System = System
  boot = boot
  k1 = k1
  k2 = k2
  r1 = r1
  r2 = r2
  u1 = u1
\* TLC stops at the first violation: take out what was seen.
PROPERTIES
  NoSelfLockout
  DisableTakesEffect
