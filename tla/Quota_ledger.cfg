SPECIFICATION MCSpec
CONSTANTS
  t1 = t1
  a1 = a1
  a2 = a2
  a3 = a3
  k1 = k1
  Tenants = {t1}
  NoTenant = NoTenant
  Names = {n1}
  Limits = {0, 2, 3}
  Amounts = {1, 2, 3}
  MaxInt = 3
  Requests = {r1, r2}
  Principals <- MCPrincipals
  NoHolder = NoHolder
  HasLocker = TRUE
  MaxVersion = 3
  Attempts = {a1, a2, a3}
  NoAttempt = NoAttempt
  ClientKeys = {k1}
  NoKey = NoKey
  KeyOf <- MCKeyOf
  InputOf <- MCInputOf
INVARIANTS UsageAddsUp AnswersMatchWrites OneEffectPerKey SuccessIsOriginal
PROPERTIES ImplementsLedger
