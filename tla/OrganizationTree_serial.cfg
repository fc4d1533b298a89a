SPECIFICATION SerialSpec
CONSTANTS
  t1 = t1
  t2 = t2
  Tenants = {t1}
  NoTenant = NoTenant
  Units = {a, b, c}
  NoUnit = NoUnit
  Requests = {r1, r2}
  Principals <- MCOneTenant
  NoHolder = NoHolder
  HasLocker = TRUE
  SlowHolders = FALSE
  MaxVersion = 3
SYMMETRY MCSymmetry
INVARIANTS PathsMatchParents NoCycle ScopeIsActiveSubtree
