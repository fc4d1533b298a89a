------------------------------- MODULE Routes -------------------------------
(***************************************************************************)
(* The tables of the two transports: which operation of tenant.Service a   *)
(* handler calls, what its request must hold, and which permission the     *)
(* route or method asks for. A route is named by its handler: server.go    *)
(* registers each handler under one path.                                  *)
(*                                                                         *)
(* An operator D_Variant that stands before D is D with one mistake in it. *)
(***************************************************************************)

(* The entries of two tables.                                              *)
Joined(f, g) == [x \in DOMAIN f \cup DOMAIN g |-> IF x \in DOMAIN f THEN f[x] ELSE g[x]]

(* The handlers of handler.go that answer through the tenant service, with *)
(* the method each of them calls.                                          *)
TenantHandlers ==
  [CreateTenant |-> "Create", CreateManagedTenant |-> "Create", SelectTenant |-> "ValidateMembership",
   GetTenant |-> "Get", UpdateTenant |-> "Update"]

MembershipHandlers ==
  [AddMembership |-> "AddMembership", GetMembership |-> "GetMembership",
   UpdateMembership |-> "UpdateMembership", ListMemberships |-> "ListMemberships",
   BatchGetMemberships |-> "BatchGetMemberships",
   SearchMembershipDirectory |-> "FindMembershipsByUserIDs"]

ListHandlers == [ListUserTenants |-> "ListUserTenants", ListTenants |-> "ListTenants"]

UnitHandlers ==
  [CreateOrganizationUnit |-> "CreateOrganizationUnit", GetOrganizationUnit |-> "GetOrganizationUnit",
   BatchGetOrganizationUnits |-> "BatchGetOrganizationUnits",
   UpdateOrganizationUnit |-> "UpdateOrganizationUnit",
   ListOrganizationUnits |-> "ListOrganizationUnits", TreeOrganizationUnits |-> "TreeOrganizationUnits"]

InvitationHandlers ==
  [CreateInvitation |-> "CreateInvitation", AcceptInvitation |-> "AcceptInvitation",
   RevokeInvitation |-> "RevokeInvitation", GetInvitation |-> "GetInvitation",
   ListInvitations |-> "ListInvitations"]

GroupHandlers ==
  [CreateGroup |-> "CreateGroup", GetGroup |-> "GetGroup", UpdateGroup |-> "UpdateGroup",
   AddGroupMember |-> "AddGroupMember", RemoveGroupMember |-> "RemoveGroupMember",
   GetGroupMember |-> "GetGroupMember"]

GroupListHandlers ==
  [ListGroupMembers |-> "ListGroupMembers", BatchGetGroupMembers |-> "BatchGetGroupMembers",
   ListGroups |-> "ListGroups", SearchGroups |-> "SearchGroups"]

QuotaHandlers ==
  [GetQuota |-> "GetQuota", ListQuotas |-> "ListQuotas", SetQuota |-> "SetQuota",
   ConsumeQuota |-> "ConsumeQuota"]

(* Version and Me answer without the service.                              *)
PlainHandlers == {"Version", "Me"}

HttpCalls ==
  Joined(Joined(Joined(TenantHandlers, MembershipHandlers), Joined(ListHandlers, UnitHandlers)),
         Joined(Joined(InvitationHandlers, GroupHandlers), Joined(GroupListHandlers, QuotaHandlers)))

(* binding:"required" of the request bodies, where a zero value is refused.*)
TenantFields ==
  [CreateTenant |-> {"code", "name", "owner_user_id"}, CreateManagedTenant |-> {"code", "name", "owner_user_id"},
   SelectTenant |-> {"tenant_id"}, GetTenant |-> {"tenant_id"},
   UpdateTenant |-> {"tenant_id", "name", "status", "version"},
   AddMembership |-> {"tenant_id", "user_id"}, GetMembership |-> {"membership_id"},
   UpdateMembership |-> {"membership_id", "status", "version"},
   ListMemberships |-> {"tenant_id"}, BatchGetMemberships |-> {"tenant_id", "membership_ids"},
   SearchMembershipDirectory |-> {"tenant_id"}, ListUserTenants |-> {"user_id"}, ListTenants |-> {}]

UnitFields ==
  [CreateOrganizationUnit |-> {"tenant_id", "code", "name"}, GetOrganizationUnit |-> {"organization_unit_id"},
   BatchGetOrganizationUnits |-> {"tenant_id", "organization_unit_ids"},
   UpdateOrganizationUnit |-> {"organization_unit_id", "name", "status", "version"},
   ListOrganizationUnits |-> {"tenant_id"}, TreeOrganizationUnits |-> {"tenant_id", "mode"}]

CollaborationFields ==
  [CreateInvitation |-> {"tenant_id", "email", "expires_in_seconds"}, AcceptInvitation |-> {"token"},
   RevokeInvitation |-> {"invitation_id", "version"}, GetInvitation |-> {"invitation_id"},
   ListInvitations |-> {"tenant_id"}, CreateGroup |-> {"tenant_id", "code", "name"},
   GetGroup |-> {"group_id"}, UpdateGroup |-> {"group_id", "name", "status", "version"},
   AddGroupMember |-> {"group_id", "membership_id"}, GetGroupMember |-> {"group_id", "membership_id"},
   RemoveGroupMember |-> {"group_id", "membership_id", "version"}, ListGroupMembers |-> {"group_id"},
   BatchGetGroupMembers |-> {"group_id", "membership_ids"}, ListGroups |-> {"tenant_id"},
   SearchGroups |-> {"tenant_id"}, GetQuota |-> {"tenant_id", "key"}, ListQuotas |-> {"tenant_id"},
   SetQuota |-> {"tenant_id", "key"}, ConsumeQuota |-> {"tenant_id", "key", "amount"}]

RequiredFields == Joined(TenantFields, Joined(UnitFields, CollaborationFields))

(* The operations that end in a statement that compares a version.         *)
Versioned == {"Update", "UpdateMembership", "UpdateOrganizationUnit", "AcceptInvitation",
              "RevokeInvitation", "UpdateGroup", "AddGroupMember", "RemoveGroupMember", "SetQuota"}
-----------------------------------------------------------------------------
(* The tenantServer of the gRPC transport *)

GrpcTenantMethods ==
  [CreateTenant |-> "Create", GetTenant |-> "Get", ListTenants |-> "ListTenants", UpdateTenant |-> "Update",
   AddMembership |-> "AddMembership", UpdateMembership |-> "UpdateMembership",
   ListMemberships |-> "ListMemberships", SearchMembershipDirectory |-> "FindMembershipsByUserIDs"]

GrpcUnitMethods ==
  [CreateOrganizationUnit |-> "CreateOrganizationUnit", GetOrganizationUnit |-> "GetOrganizationUnit",
   UpdateOrganizationUnit |-> "UpdateOrganizationUnit", ListOrganizationUnits |-> "ListOrganizationUnits",
   CreateInvitation |-> "CreateInvitation", AcceptInvitation |-> "AcceptInvitation",
   RevokeInvitation |-> "RevokeInvitation", GetInvitation |-> "GetInvitation",
   ListInvitations |-> "ListInvitations"]

GrpcGroupMethods ==
  [CreateGroup |-> "CreateGroup", UpdateGroup |-> "UpdateGroup", GetGroup |-> "GetGroup",
   AddGroupMember |-> "AddGroupMember", RemoveGroupMember |-> "RemoveGroupMember",
   GetGroupMember |-> "GetGroupMember", ListGroupMembers |-> "ListGroupMembers", ListGroups |-> "ListGroups"]

GrpcQuotaMethods ==
  [GetQuota |-> "GetQuota", ListQuotas |-> "ListQuotas", SetQuota |-> "SetQuota", ConsumeQuota |-> "ConsumeQuota"]

GrpcScopeMethods ==
  [ValidateMembership |-> "ValidateMembership", GetMembership |-> "GetMembership",
   ListUserTenants |-> "ListUserTenants", ResolveOrganizationScope |-> "ResolveOrganizationScope"]

GrpcCalls ==
  Joined(Joined(GrpcTenantMethods, GrpcUnitMethods), Joined(Joined(GrpcGroupMethods, GrpcQuotaMethods), GrpcScopeMethods))
-----------------------------------------------------------------------------
(* The permissions *)

Rule(resource, scope, action) == [resource |-> resource, scope |-> scope, action |-> action]
Profile(scope, action) == Rule("tenant.profile", scope, action)
Membership(action) == Rule("tenant.membership", "principal", action)
Unit(action) == Rule("tenant.organization-unit", "principal", action)
Invitation(action) == Rule("tenant.invitation", "principal", action)
Group(action) == Rule("tenant.group", "principal", action)
Quota(action) == Rule("tenant.quota", "principal", action)

tenantHTTPRequirement ==
  [CreateManagedTenant |-> Profile("platform", "create"), GetTenant |-> Profile("platform", "read"),
   UpdateTenant |-> Profile("platform", "update"), ListTenants |-> Profile("platform", "list"),
   GetMembership |-> Membership("read"), AddMembership |-> Membership("create"),
   UpdateMembership |-> Membership("update"), ListMemberships |-> Membership("list"),
   BatchGetMemberships |-> Membership("list"), SearchMembershipDirectory |-> Membership("list"),
   CreateOrganizationUnit |-> Unit("create"), GetOrganizationUnit |-> Unit("read"),
   BatchGetOrganizationUnits |-> Unit("read"), UpdateOrganizationUnit |-> Unit("update"),
   ListOrganizationUnits |-> Unit("list"), TreeOrganizationUnits |-> Unit("list"),
   CreateInvitation |-> Invitation("create"), GetInvitation |-> Invitation("read"),
   RevokeInvitation |-> Invitation("revoke"), ListInvitations |-> Invitation("list"),
   GetGroup |-> Group("read"), CreateGroup |-> Group("create"), UpdateGroup |-> Group("update"),
   AddGroupMember |-> Group("add-member"), RemoveGroupMember |-> Group("remove-member"),
   GetGroupMember |-> Group("read-member"), ListGroupMembers |-> Group("list-members"),
   BatchGetGroupMembers |-> Group("list-members"), ListGroups |-> Group("list"), SearchGroups |-> Group("list"),
   GetQuota |-> Quota("read"), ListQuotas |-> Quota("list"), SetQuota |-> Quota("update"),
   ConsumeQuota |-> Quota("consume")]

GrpcRules(profile) ==
  [GetTenant |-> Profile(profile, "read"), ListTenants |-> Profile(profile, "list"),
   UpdateTenant |-> Profile(profile, "update"),
   GetMembership |-> Membership("read"), AddMembership |-> Membership("create"),
   UpdateMembership |-> Membership("update"), ListMemberships |-> Membership("list"),
   SearchMembershipDirectory |-> Membership("list"),
   CreateOrganizationUnit |-> Unit("create"), GetOrganizationUnit |-> Unit("read"),
   UpdateOrganizationUnit |-> Unit("update"), ListOrganizationUnits |-> Unit("list"),
   CreateInvitation |-> Invitation("create"), GetInvitation |-> Invitation("read"),
   RevokeInvitation |-> Invitation("revoke"), ListInvitations |-> Invitation("list"),
   GetGroup |-> Group("read"), CreateGroup |-> Group("create"), UpdateGroup |-> Group("update"),
   AddGroupMember |-> Group("add-member"), GetGroupMember |-> Group("read-member"),
   RemoveGroupMember |-> Group("remove-member"), ListGroupMembers |-> Group("list-members"),
   ListGroups |-> Group("list"),
   GetQuota |-> Quota("read"), ListQuotas |-> Quota("list"), SetQuota |-> Quota("update"),
   ConsumeQuota |-> Quota("consume")]

tenantGRPCRequirement_Narrow == GrpcRules("principal")
tenantGRPCRequirement == GrpcRules("platform")
=============================================================================
