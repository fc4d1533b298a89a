--------------------------- MODULE Authorization ---------------------------
(***************************************************************************)
(* The tenant binding every domain method of internal/tenant applies to    *)
(* the authenticated principal of the request.                             *)
(*                                                                         *)
(* A principal is a record with its type, the tenant its token is bound to *)
(* (NoTenant when it is bound to none) and whether the transport recorded  *)
(* a platform administration decision for it.                              *)
(***************************************************************************)
CONSTANT Tenants, NoTenant

ASSUME NoTenantAssumption == NoTenant \notin Tenants

PrincipalTypes == {"user", "service_account", "system", "anonymous"}

Principal == [type : PrincipalTypes, tenant : Tenants \cup {NoTenant}, platform : BOOLEAN]

(* authorizePlatformAdministration *)
PlatformAdministrator(p) ==
  \/ p.type \in {"service_account", "system"}
  \/ p.type = "user" /\ p.platform

(* authorizeTenant *)
AuthorizedFor(p, tenant) ==
  \/ PlatformAdministrator(p)
  \/ p.type = "user" /\ p.tenant # NoTenant /\ p.tenant = tenant
=============================================================================
