CONSTANTS
  u1 = u1
  u2 = u2
  q1 = q1
  q2 = q2
  q3 = q3
  c1 = c1
  c2 = c2
  c3 = c3
  Requests = {q1, q2, q3}
  Inputs <- MCInputs
  Configs <- MCConfigs
  Users = {u1, u2}
  PskRoutes = {"GetQuota"}
  SkipRoutes = {"GetQuota", "Version"}
  KeyedRoutes = {"CreateGroup"}
  Burst <- MCBurst
  Calls = {i1, i2}
  Subjects = {u1, u2}
  CallInputs <- MCCallInputs
  PskMethods = {"GetQuota"}
  SkipMethods = {"GetQuota", "ValidateMembership"}
  KeyedMethods = {"CreateTenant"}
  Outgoing = {c1, c2, c3}
  Plain = {c1}
  Absolute = {c3}
  MaxAttempts = 2
  Thresholds = {1, 2}
  Tenants = {t1}
  Selections = {i1, i2}
  MaxChanges = 2
SPECIFICATION MixedSpec
SYMMETRY RequestSymmetry
INVARIANT NothingUngated RequestsEnd RetryableMeansNotDone
INVARIANT PlainSentOnce ResponsesOwned TokensForMembers
