SPECIFICATION Spec
CONSTANTS
  t1 = t1
  Tenants = {t1}
  NoTenant = NoTenant
  Invitations = {i1}
  NoInvitation = NoInvitation
  Users = {u1}
  NoUser = NoUser
  Requests = {r1, r2}
  Principals <- MCOneTenant
  NoHolder = NoHolder
  HasLocker = TRUE
  OnlyShown = FALSE
  MaxVersion = 3
PROPERTIES EndIsFinal
