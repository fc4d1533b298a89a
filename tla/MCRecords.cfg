SPECIFICATION MCSpec
CONSTANTS
  t1 = t1
  t2 = t2
  n1 = n1
  n2 = n2
  g1 = g1
  m1 = m1
  m2 = m2
  Tenants = {t1, t2}
  NoTenant = NoTenant
  Users = {u1, u2}
  Units = {n1, n2}
  NoUnit = NoUnit
  UnitTenant <- MCUnitTenant
  Requests = {r1, r2}
  Principals <- MCPrincipals
  TenantStatuses <- MCTenantStatuses
  MembershipStatuses <- MCMembershipStatuses
  OnlyShown = TRUE
  MaxVersion = 2
  GroupIds = {g1}
  Memberships = {m1, m2}
  TenantOf <- MCTenantOf
  GroupRequests = {r1, r2}
  GroupCallers <- MCPrincipals
  ShownGroups = FALSE
  MaxEdits = 2
  MaxJoined = 3
SYMMETRY RequestSymmetry
INVARIANTS StatusEventsChain OneWinner UnitOfOwnTenant
INVARIANTS TenantsKeptApart GroupEventsTellRows
