SPECIFICATION Spec
CONSTANTS
  t1 = t1
  Tenants = {t1}
  NoTenant = NoTenant
  Invitations = {i1, i2}
  NoInvitation = NoInvitation
  Users = {u1, u2}
  NoUser = NoUser
  Requests = {r1, r2}
  Principals <- MCOneTenant
  NoHolder = NoHolder
  HasLocker = TRUE
  OnlyShown = TRUE
  MaxVersion = 3
SYMMETRY MCSymmetry
INVARIANTS EventsTellRow AnswersHold AcceptedIffJoined
PROPERTIES EndIsFinal
