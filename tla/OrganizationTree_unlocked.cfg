SPECIFICATION Spec
CONSTANTS
  t1 = t1
  t2 = t2
  Tenants = {t1, t2}
  NoTenant = NoTenant
  Units = {a, b, c}
  NoUnit = NoUnit
  Requests = {r1, r2}
  Principals <- MCTwoTenants
  NoHolder = NoHolder
  HasLocker = FALSE
  SlowHolders = FALSE
  MaxVersion = 2
SYMMETRY MCTenantSymmetry
INVARIANTS VersionCoversPath EventsTrackRows ParentsInTenant
PROPERTIES WritesStayInTenant
