CONSTANTS
  t1 = t1
  Tenants = {t1}
  NoTenant = NoTenant
  Units = {a, b, c}
  NoUnit = NoUnit
  Requests = {r1}
  Principals <- MCUsers
  NoHolder = NoHolder
  HasLocker = TRUE
  SlowHolders = FALSE
  MaxVersion = 2
  Reader <- MCUser
  MemberTenant = t1
SPECIFICATION ReadsSpec
SYMMETRY MCUnitSymmetry
INVARIANT ScopeNeverTooWide  ListsLoseLittle SearchKeepsPromises
