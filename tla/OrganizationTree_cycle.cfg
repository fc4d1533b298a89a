SPECIFICATION SerialSpec
CONSTANTS
  t1 = t1
  t2 = t2
  Tenants = {t1}
  NoTenant = NoTenant
  Units = {a, b}
  NoUnit = NoUnit
  Requests = {r1, r2}
  Principals <- MCOneTenant
  NoHolder = NoHolder
  HasLocker = TRUE
  SlowHolders = TRUE
  MaxVersion = 3
INVARIANTS NoCycle
