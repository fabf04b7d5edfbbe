SPECIFICATION Spec
CONSTANTS
  Users = {u1}
  AdminEmails = {u1}
  Tokens = {boot, k1, k2}
  Boot = boot
  Resources = {}
  Requests = {r1}
  StatementsMayFail = TRUE
  NoUser = NoUser
  System = System
  boot = boot
  k1 = k1
  k2 = k2
  r1 = r1
  u1 = u1
PROPERTIES
  DisableEndsSessions
