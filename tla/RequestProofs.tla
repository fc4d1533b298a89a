---------------------------- MODULE RequestProofs ---------------------------
(***************************************************************************)
(* Proofs about the calls into the process and out of it, for every value  *)
(* of the constants of Requests: GrpcServer; OutboundClient, for every     *)
(* policy; and TenantSelection.                                            *)
(***************************************************************************)
EXTENDS Requests, TLAPS
-----------------------------------------------------------------------------
(* The tables. The operation of the service that a route or a method with  *)
(* a permission of its own calls: its own name, with four exceptions.      *)
OperationOf(h) ==
  IF h = "GetTenant" THEN "Get" ELSE IF h = "UpdateTenant" THEN "Update"
  ELSE IF h = "CreateManagedTenant" THEN "Create"
    ELSE IF h = "SearchMembershipDirectory" THEN "FindMembershipsByUserIDs"
  ELSE h

LEMMA OperationTellsName ==
  ASSUME NEW h, NEW m, OperationOf(h) = OperationOf(m),
         {h, m} \cap {"Get", "Update", "Create", "FindMembershipsByUserIDs"} = {}
  PROVE  h = m
  BY Zenon DEF OperationOf

(* The names the permissions are asked under, by what they protect.        *)
ForTenants == {"CreateManagedTenant", "GetTenant", "UpdateTenant"}
ForMemberships == {"GetMembership", "AddMembership", "UpdateMembership", "ListMemberships", "BatchGetMemberships",
                   "SearchMembershipDirectory", "ListTenants"}
ForUnits == {"CreateOrganizationUnit", "GetOrganizationUnit", "BatchGetOrganizationUnits", "UpdateOrganizationUnit",
             "ListOrganizationUnits", "TreeOrganizationUnits"}
ForInvitations == {"CreateInvitation", "GetInvitation", "RevokeInvitation", "ListInvitations"}
ForGroups == {"GetGroup", "CreateGroup", "UpdateGroup", "AddGroupMember", "RemoveGroupMember", "GetGroupMember",
              "ListGroupMembers", "ListGroups"}
ForGroupLists == {"BatchGetGroupMembers", "SearchGroups"}
ForQuotas == {"GetQuota", "ListQuotas", "SetQuota", "ConsumeQuota"}

LEMMA RoutesWithRules ==
  DOMAIN Grpc!tenantHTTPRequirement
    = ForTenants \cup ForMemberships \cup ForUnits \cup ForInvitations \cup ForGroups \cup ForGroupLists \cup ForQuotas
  BY DEF Grpc!tenantHTTPRequirement, ForTenants, ForMemberships, ForUnits, ForInvitations, ForGroups, ForGroupLists,
     ForQuotas

LEMMA MethodsWithRules ==
  DOMAIN Grpc!tenantGRPCRequirement
    = (ForTenants \cup ForMemberships \cup ForUnits \cup ForInvitations \cup ForGroups \cup ForQuotas)
        \ {"CreateManagedTenant", "BatchGetMemberships", "BatchGetOrganizationUnits", "TreeOrganizationUnits"}
  BY DEF Grpc!tenantGRPCRequirement, Grpc!GrpcRules, ForTenants, ForMemberships, ForUnits, ForInvitations, ForGroups,
     ForQuotas

(* A route that names a permission calls that operation.                   *)
LEMMA OperationOverHttp == \A h \in DOMAIN Grpc!tenantHTTPRequirement : Grpc!HttpCalls[h] = OperationOf(h)
  <1>1. \A h \in DOMAIN Grpc!TenantHandlers : Grpc!HttpCalls[h] = Grpc!TenantHandlers[h]
    BY Zenon DEF Grpc!HttpCalls, Grpc!Joined
  <1>2. \A h \in DOMAIN Grpc!MembershipHandlers : Grpc!HttpCalls[h] = Grpc!MembershipHandlers[h]
    <2>1. \A h \in DOMAIN Grpc!MembershipHandlers : h \notin DOMAIN Grpc!TenantHandlers
      BY Zenon DEF Grpc!TenantHandlers, Grpc!MembershipHandlers
    <2> QED
      BY <2>1, Zenon DEF Grpc!HttpCalls, Grpc!Joined
  <1>3. \A h \in DOMAIN Grpc!ListHandlers : Grpc!HttpCalls[h] = Grpc!ListHandlers[h]
    <2>1. \A h \in DOMAIN Grpc!ListHandlers : h \notin DOMAIN Grpc!TenantHandlers \cup DOMAIN Grpc!MembershipHandlers
      BY Zenon DEF Grpc!TenantHandlers, Grpc!MembershipHandlers, Grpc!ListHandlers
    <2> QED
      BY <2>1, Zenon DEF Grpc!HttpCalls, Grpc!Joined
  <1>4. \A h \in DOMAIN Grpc!UnitHandlers : Grpc!HttpCalls[h] = Grpc!UnitHandlers[h]
    <2>1. \A h \in DOMAIN Grpc!UnitHandlers : h \notin DOMAIN Grpc!TenantHandlers
            \cup DOMAIN Grpc!MembershipHandlers \cup DOMAIN Grpc!ListHandlers
      BY DEF Grpc!TenantHandlers, Grpc!MembershipHandlers, Grpc!ListHandlers, Grpc!UnitHandlers
    <2> QED
      BY <2>1, Zenon DEF Grpc!HttpCalls, Grpc!Joined
  <1> DEFINE Front == Grpc!Joined(Grpc!Joined(Grpc!TenantHandlers, Grpc!MembershipHandlers),
                        Grpc!Joined(Grpc!ListHandlers, Grpc!UnitHandlers))
             Back == Grpc!Joined(Grpc!Joined(Grpc!InvitationHandlers, Grpc!GroupHandlers),
                       Grpc!Joined(Grpc!GroupListHandlers, Grpc!QuotaHandlers))
  <1>5. \A h \in DOMAIN Back : h \notin DOMAIN Front
    <2>1. DOMAIN Front = DOMAIN Grpc!TenantHandlers \cup DOMAIN Grpc!MembershipHandlers
            \cup DOMAIN Grpc!ListHandlers \cup DOMAIN Grpc!UnitHandlers
      BY Zenon DEF Grpc!Joined
    <2>2. DOMAIN Back = DOMAIN Grpc!InvitationHandlers \cup DOMAIN Grpc!GroupHandlers
            \cup DOMAIN Grpc!GroupListHandlers \cup DOMAIN Grpc!QuotaHandlers
      BY Zenon DEF Grpc!Joined
    <2> HIDE DEF Front, Back
    <2> QED
      BY <2>1, <2>2 DEF Grpc!TenantHandlers, Grpc!MembershipHandlers, Grpc!ListHandlers, Grpc!UnitHandlers,
         Grpc!InvitationHandlers, Grpc!GroupHandlers, Grpc!GroupListHandlers, Grpc!QuotaHandlers
  <1>6. \A h \in DOMAIN Back : Grpc!HttpCalls[h] = Back[h]
    <2> HIDE DEF Front, Back
    <2>1. Grpc!HttpCalls = Grpc!Joined(Front, Back)
      BY Zenon DEF Grpc!HttpCalls, Front, Back
    <2> QED BY <1>5, <2>1, Zenon DEF Grpc!Joined
  <1>7. \A h \in DOMAIN Grpc!InvitationHandlers : Grpc!HttpCalls[h] = Grpc!InvitationHandlers[h]
    BY <1>6, Zenon DEF Grpc!Joined
  <1>8. \A h \in DOMAIN Grpc!GroupHandlers : Grpc!HttpCalls[h] = Grpc!GroupHandlers[h]
    <2>1. \A h \in DOMAIN Grpc!GroupHandlers : h \notin DOMAIN Grpc!InvitationHandlers
      BY Zenon DEF Grpc!InvitationHandlers, Grpc!GroupHandlers
    <2> QED
      BY <1>6, <2>1, Zenon DEF Grpc!Joined
  <1>9. \A h \in DOMAIN Grpc!GroupListHandlers : Grpc!HttpCalls[h] = Grpc!GroupListHandlers[h]
    <2>1. \A h \in DOMAIN Grpc!GroupListHandlers : h \notin DOMAIN Grpc!InvitationHandlers
            \cup DOMAIN Grpc!GroupHandlers
      BY Zenon DEF Grpc!InvitationHandlers, Grpc!GroupHandlers, Grpc!GroupListHandlers
    <2> QED
      BY <1>6, <2>1, Zenon DEF Grpc!Joined
  <1>10. \A h \in DOMAIN Grpc!QuotaHandlers : Grpc!HttpCalls[h] = Grpc!QuotaHandlers[h]
    <2>1. \A h \in DOMAIN Grpc!QuotaHandlers :
            h \notin DOMAIN Grpc!InvitationHandlers \cup DOMAIN Grpc!GroupHandlers \cup DOMAIN Grpc!GroupListHandlers
      BY Zenon DEF Grpc!InvitationHandlers, Grpc!GroupHandlers, Grpc!GroupListHandlers, Grpc!QuotaHandlers
    <2> QED
      BY <1>6, <2>1, Zenon DEF Grpc!Joined
  <1> HIDE DEF Front, Back
  <1>11. \A h \in ForTenants : Grpc!HttpCalls[h] = OperationOf(h)
    BY <1>1, Zenon DEF Grpc!TenantHandlers, ForTenants, OperationOf
  <1>12. \A h \in ForMemberships : Grpc!HttpCalls[h] = OperationOf(h)
    BY <1>2, <1>3 DEF Grpc!MembershipHandlers, Grpc!ListHandlers, ForMemberships, OperationOf
  <1>13. \A h \in ForUnits : Grpc!HttpCalls[h] = OperationOf(h)
    BY <1>4 DEF Grpc!UnitHandlers, ForUnits, OperationOf
  <1>14. \A h \in ForInvitations : Grpc!HttpCalls[h] = OperationOf(h)
    BY <1>7, Zenon DEF Grpc!InvitationHandlers, ForInvitations, OperationOf
  <1>15. \A h \in ForGroups \cup ForGroupLists : Grpc!HttpCalls[h] = OperationOf(h)
    BY <1>8, <1>9 DEF Grpc!GroupHandlers, Grpc!GroupListHandlers, ForGroups, ForGroupLists, OperationOf
  <1>16. \A h \in ForQuotas : Grpc!HttpCalls[h] = OperationOf(h)
    BY <1>10, Zenon DEF Grpc!QuotaHandlers, ForQuotas, OperationOf
  <1> QED
    BY <1>11, <1>12, <1>13, <1>14, <1>15, <1>16, RoutesWithRules, Zenon

(* So does a method.                                                       *)
LEMMA OperationOverGrpc == \A m \in DOMAIN Grpc!tenantGRPCRequirement : Grpc!GrpcCalls[m] = OperationOf(m)
  <1> DEFINE Front == Grpc!Joined(Grpc!GrpcTenantMethods, Grpc!GrpcUnitMethods)
             Back == Grpc!Joined(Grpc!Joined(Grpc!GrpcGroupMethods, Grpc!GrpcQuotaMethods), Grpc!GrpcScopeMethods)
  <1>1. \A m \in DOMAIN Back : m \notin DOMAIN Front
    <2>1. DOMAIN Front = DOMAIN Grpc!GrpcTenantMethods \cup DOMAIN Grpc!GrpcUnitMethods
      BY Zenon DEF Grpc!Joined
    <2>2. DOMAIN Back = DOMAIN Grpc!GrpcGroupMethods \cup DOMAIN Grpc!GrpcQuotaMethods
            \cup DOMAIN Grpc!GrpcScopeMethods
      BY Zenon DEF Grpc!Joined
    <2> HIDE DEF Front, Back
    <2> QED
      BY <2>1, <2>2, Zenon DEF Grpc!GrpcTenantMethods, Grpc!GrpcUnitMethods, Grpc!GrpcGroupMethods, Grpc!GrpcQuotaMethods,
         Grpc!GrpcScopeMethods
  <1>2. (\A m \in DOMAIN Front : Grpc!GrpcCalls[m] = Front[m]) /\ (\A m \in DOMAIN Back : Grpc!GrpcCalls[m] = Back[m])
    <2> HIDE DEF Front, Back
    <2>1. Grpc!GrpcCalls = Grpc!Joined(Front, Back)
      BY Zenon DEF Grpc!GrpcCalls, Front, Back
    <2> QED
      BY <1>1, <2>1 DEF Grpc!Joined
  <1>3. \A m \in DOMAIN Grpc!GrpcTenantMethods : Grpc!GrpcCalls[m] = Grpc!GrpcTenantMethods[m]
    BY <1>2, Zenon DEF Grpc!Joined
  <1>4. \A m \in DOMAIN Grpc!GrpcUnitMethods : Grpc!GrpcCalls[m] = Grpc!GrpcUnitMethods[m]
    <2>1. \A m \in DOMAIN Grpc!GrpcUnitMethods : m \notin DOMAIN Grpc!GrpcTenantMethods
      BY DEF Grpc!GrpcTenantMethods, Grpc!GrpcUnitMethods
    <2> QED
      BY <1>2, <2>1, Zenon DEF Grpc!Joined
  <1>5. \A m \in DOMAIN Grpc!GrpcGroupMethods : Grpc!GrpcCalls[m] = Grpc!GrpcGroupMethods[m]
    BY <1>2, Zenon DEF Grpc!Joined
  <1>6. \A m \in DOMAIN Grpc!GrpcQuotaMethods : Grpc!GrpcCalls[m] = Grpc!GrpcQuotaMethods[m]
    <2>1. \A m \in DOMAIN Grpc!GrpcQuotaMethods : m \notin DOMAIN Grpc!GrpcGroupMethods
      BY Zenon DEF Grpc!GrpcGroupMethods, Grpc!GrpcQuotaMethods
    <2> QED
      BY <1>2, <2>1, Zenon DEF Grpc!Joined
  <1>7. \A m \in DOMAIN Grpc!GrpcScopeMethods : Grpc!GrpcCalls[m] = Grpc!GrpcScopeMethods[m]
    <2>1. \A m \in DOMAIN Grpc!GrpcScopeMethods : m \notin DOMAIN Grpc!GrpcGroupMethods
            \cup DOMAIN Grpc!GrpcQuotaMethods
      BY Zenon DEF Grpc!GrpcGroupMethods, Grpc!GrpcQuotaMethods, Grpc!GrpcScopeMethods
    <2> QED
      BY <1>2, <2>1, Zenon DEF Grpc!Joined
  <1> HIDE DEF Front, Back
  <1>8. \A m \in ForTenants \ {"CreateManagedTenant"} : Grpc!GrpcCalls[m] = OperationOf(m)
    BY <1>3 DEF Grpc!GrpcTenantMethods, ForTenants, OperationOf
  <1>9. \A m \in ForMemberships \ {"BatchGetMemberships"} : Grpc!GrpcCalls[m] = OperationOf(m)
    BY <1>3, <1>7 DEF Grpc!GrpcTenantMethods, Grpc!GrpcScopeMethods, ForMemberships, OperationOf
  <1>10. \A m \in (ForUnits \ {"BatchGetOrganizationUnits", "TreeOrganizationUnits"}) \cup ForInvitations :
           Grpc!GrpcCalls[m] = OperationOf(m)
    BY <1>4 DEF Grpc!GrpcUnitMethods, ForUnits, ForInvitations, OperationOf
  <1>11. \A m \in ForGroups : Grpc!GrpcCalls[m] = OperationOf(m)
    BY <1>5 DEF Grpc!GrpcGroupMethods, ForGroups, OperationOf
  <1>12. \A m \in ForQuotas : Grpc!GrpcCalls[m] = OperationOf(m)
    BY <1>6, Zenon DEF Grpc!GrpcQuotaMethods, ForQuotas, OperationOf
  <1> QED
    BY <1>8, <1>9, <1>10, <1>11, <1>12, MethodsWithRules, Zenon

(* The tables of the two transports ask the same permission for one        *)
(* operation.                                                              *)
LEMMA TransportsAgree ==
  ASSUME NEW m \in DOMAIN Grpc!tenantGRPCRequirement, NEW h \in DOMAIN Grpc!tenantHTTPRequirement,
         Grpc!HttpCalls[h] = Grpc!GrpcCalls[m]
  PROVE  Grpc!tenantGRPCRequirement[m] = Grpc!tenantHTTPRequirement[h]
  <1>1. OperationOf(h) = OperationOf(m)
    BY OperationOverHttp, OperationOverGrpc, Zenon
  <1>2. h \notin {"Get", "Update", "Create", "FindMembershipsByUserIDs"}
    BY RoutesWithRules, Zenon DEF ForTenants, ForMemberships, ForUnits, ForInvitations, ForGroups, ForGroupLists, ForQuotas
  <1>3. m \notin {"Get", "Update", "Create", "FindMembershipsByUserIDs"}
    BY MethodsWithRules, Zenon DEF ForTenants, ForMemberships, ForUnits, ForInvitations, ForGroups, ForQuotas
  <1>4. h = m
    BY <1>1, <1>2, <1>3, OperationTellsName, Zenon
  <1>5. Grpc!tenantGRPCRequirement[m] = Grpc!tenantHTTPRequirement[m]
    BY DEF Grpc!tenantGRPCRequirement, Grpc!tenantHTTPRequirement, Grpc!GrpcRules
  <1> QED
    BY <1>4, <1>5, Zenon
-----------------------------------------------------------------------------
(* GrpcServer. Where a call stands tells which interceptors let it pass.   *)
Places == {"key", "auth", "authz", "idem", "method", "done"}
Results == Grpc!Outcomes \cup {"", "panic"}
Statuses == {"", "OK", "InvalidArgument", "Unauthenticated", "PermissionDenied", "Unavailable", "Aborted",
             "NotFound", "Internal", "Unknown"}
Permissions == {{}} \cup {{Grpc!tenantGRPCRequirement[m]} : m \in DOMAIN Grpc!tenantGRPCRequirement}

GrpcTypes ==
  /\ stage \in [Calls -> Places] /\ asked \in [Calls -> Permissions]
  /\ told \in [Calls -> Results] /\ answer \in [Calls -> Statuses]

Admitted(c) ==
  /\ call[c].method \in PskMethods => call[c].cred = "psk"
  /\ call[c].method \notin PskMethods \cup SkipMethods => call[c].cred \in Subjects

Passed(c) ==
  /\ stage[c] \in {"authz", "idem", "method"} \/ told[c] # "" => Admitted(c)
  /\ stage[c] \in {"idem", "method"} \/ told[c] # "" => (Grpc!Needs(c) => asked[c] # {})
  /\ stage[c] # "done" => told[c] = "" /\ answer[c] = ""
  /\ answer[c] = "Unavailable" => told[c] \in {"", "unavailable"}
  /\ asked[c] # {} => /\ call[c].method \in DOMAIN Grpc!tenantGRPCRequirement
                      /\ asked[c] = {Grpc!tenantGRPCRequirement[call[c].method]}

GrpcInv == GrpcTypes /\ \A c \in Calls : Passed(c)

(* A step of one call leaves the others where they are.                    *)
LEMMA CallAlone ==
  ASSUME GrpcInv, NEW c \in Calls, GrpcTypes', Passed(c)', authz' = authz, call' = call,
         \A d \in Calls \ {c} : stage'[d] = stage[d] /\ asked'[d] = asked[d] /\ told'[d] = told[d] /\ answer'[d] = answer[d]
  PROVE  GrpcInv'
  <1>1. ASSUME NEW d \in Calls, d # c PROVE Passed(d)'
    <2>1. Passed(d)
      BY Zenon DEF GrpcInv
    <2>2. (Grpc!Needs(d)' <=> Grpc!Needs(d)) /\ (Admitted(d)' <=> Admitted(d))
      BY Zenon DEF Grpc!Needs, Admitted
    <2>3. stage'[d] = stage[d] /\ asked'[d] = asked[d] /\ told'[d] = told[d] /\ answer'[d] = answer[d]
      BY <1>1, Zenon
    <2> QED
      BY <2>1, <2>2, <2>3, Zenon DEF Passed
  <1> QED
    BY <1>1, Zenon DEF GrpcInv

(* The status Unavailable is made of that error alone.                     *)
LEMMA StatusOfError ==
  ASSUME NEW c, NEW o \in Grpc!Outcomes
  PROVE  Grpc!Status(c, o) \in Statuses /\ (Grpc!Status(c, o) = "Unavailable" => o = "unavailable")
  <1>1. Grpc!grpcError(o) \in Statuses /\ (Grpc!grpcError(o) = "Unavailable" => o = "unavailable")
    BY Zenon DEF Grpc!grpcError, Grpc!Outcomes, Statuses
  <1> QED
    BY <1>1, Zenon DEF Grpc!Status, Statuses

(* Every interceptor and the method keep it.                               *)
LEMMA CallStep == ASSUME GrpcInv, NEW c \in Calls, Grpc!Step(c) PROVE GrpcInv'
  <1>0. GrpcTypes /\ Passed(c)
    BY DEF GrpcInv
  <1>1. CASE Grpc!CheckKey(c)
    <2> USE <1>0, <1>1 DEF Grpc!CheckKey, Grpc!Return, Grpc!Goto, GrpcTypes
    <2>1. GrpcTypes'
      BY Zenon DEF Places, Statuses
    <2>2. Passed(c)'
      BY Zenon DEF Passed
    <2> QED
      BY <2>1, <2>2, CallAlone, Zenon
  <1>2. CASE Grpc!Authenticate(c)
    <2> USE <1>0, <1>2 DEF Grpc!Authenticate, Grpc!Return, Grpc!Goto, GrpcTypes
    <2>1. GrpcTypes'
      BY DEF Places, Statuses
    <2>2. Grpc!Caller(c) # "refused" => Admitted(c)
      BY Zenon DEF Grpc!Caller, Admitted
    <2>3. Passed(c)'
      BY <2>2, Zenon DEF Passed, Admitted
    <2> QED
      BY <2>1, <2>3, CallAlone, Zenon
  <1>3. CASE Grpc!Unprotected(c)
    <2> USE <1>0, <1>3 DEF Grpc!Unprotected, Grpc!Goto, GrpcTypes
    <2>1. GrpcTypes'
      BY Zenon DEF Places
    <2>2. Passed(c)'
      BY Zenon DEF Passed, Admitted, Grpc!Needs
    <2> QED
      BY <2>1, <2>2, CallAlone, Zenon
  <1>4. CASE Grpc!Granted(c)
    <2> USE <1>0, <1>4 DEF Grpc!Granted, Grpc!Goto, GrpcTypes
    <2>1. {Grpc!tenantGRPCRequirement[call[c].method]} \in Permissions
      BY Zenon DEF Grpc!Needs, Permissions
    <2>2. GrpcTypes'
      BY <2>1, Zenon DEF Places
    <2>3. Passed(c)'
      BY Zenon DEF Passed, Admitted, Grpc!Needs
    <2> QED
      BY <2>2, <2>3, CallAlone, Zenon
  <1>5. CASE Grpc!Denied(c)
    <2> USE <1>0, <1>5 DEF Grpc!Denied, Grpc!Return, GrpcTypes
    <2>1. GrpcTypes'
      BY Zenon DEF Places, Statuses
    <2>2. Passed(c)'
      BY Zenon DEF Passed
    <2> QED
      BY <2>1, <2>2, CallAlone, Zenon
  <1>6. CASE Grpc!Begin(c)
    <2> USE <1>0, <1>6 DEF Grpc!Begin, Grpc!Goto, GrpcTypes
    <2>1. GrpcTypes'
      BY Zenon DEF Places
    <2>2. Passed(c)'
      BY DEF Passed, Admitted, Grpc!Needs
    <2> QED
      BY <2>1, <2>2, CallAlone
  <1>7. CASE Grpc!Repeat(c)
    <2> USE <1>0, <1>7 DEF Grpc!Repeat, Grpc!Return, GrpcTypes
    <2>1. GrpcTypes'
      BY Zenon DEF Places, Statuses
    <2>2. Passed(c)'
      BY Zenon DEF Passed
    <2> QED
      BY <2>1, <2>2, CallAlone, Zenon
  <1>8. CASE Grpc!Call(c)
    <2> USE <1>0, <1>8 DEF GrpcTypes
    <2>1. PICK o \in Grpc!Possible(c) : told' = [told EXCEPT ![c] = o] /\ Grpc!Return(c, Grpc!Status(c, o))
      BY Zenon DEF Grpc!Call
    <2>2. stage[c] = "method" /\ UNCHANGED <<authz, call, principal, asked, holder>>
      BY Zenon DEF Grpc!Call
    <2>3. o \in Grpc!Outcomes
      BY Zenon DEF Grpc!Possible
    <2> DEFINE code == Grpc!Status(c, o)
    <2>4. code \in Statuses /\ (code = "Unavailable" => o = "unavailable")
      BY <2>3, StatusOfError, Zenon
    <2>5. answer' = [answer EXCEPT ![c] = code] /\ stage' = [stage EXCEPT ![c] = "done"]
      BY <2>1, Zenon DEF Grpc!Return
    <2> HIDE DEF code
    <2>6. GrpcTypes'
      BY <2>1, <2>2, <2>3, <2>4, <2>5 DEF Places, Results
    <2>7. Passed(c)'
      BY <2>1, <2>2, <2>4, <2>5, Zenon DEF Passed, Admitted, Grpc!Needs
    <2> QED
      BY <2>1, <2>2, <2>5, <2>6, <2>7, CallAlone
  <1>9. CASE Grpc!Panic(c)
    <2> USE <1>0, <1>9 DEF Grpc!Panic, Grpc!Return, GrpcTypes
    <2>1. GrpcTypes'
      BY Zenon DEF Places, Statuses, Results
    <2>2. Passed(c)'
      BY Zenon DEF Passed, Admitted, Grpc!Needs
    <2> QED
      BY <2>1, <2>2, CallAlone
  <1> QED
    BY <1>1, <1>2, <1>3, <1>4, <1>5, <1>6, <1>7, <1>8, <1>9, Zenon DEF Grpc!Step

(* It holds of the calls that wait at the first interceptor.               *)
LEMMA GrpcInduction == Grpc!Spec => []GrpcInv
  <1>1. Grpc!Init => GrpcInv
    <2> SUFFICES ASSUME Grpc!Init PROVE GrpcInv
      BY Zenon
    <2>1. GrpcTypes
      BY Zenon DEF Grpc!Init, GrpcTypes, Places, Permissions, Results, Statuses
    <2>2. ASSUME NEW c \in Calls PROVE stage[c] = "key" /\ told[c] = "" /\ answer[c] = "" /\ asked[c] = {}
      BY Zenon DEF Grpc!Init
    <2> QED
      BY <2>1, <2>2, Zenon DEF GrpcInv, Passed
  <1>2. GrpcInv /\ [Grpc!Next]_(Grpc!vars) => GrpcInv'
    <2> SUFFICES ASSUME GrpcInv, [Grpc!Next]_(Grpc!vars) PROVE GrpcInv'
      BY Zenon
    <2>1. CASE UNCHANGED Grpc!vars
      BY <2>1 DEF GrpcInv, GrpcTypes, Passed, Admitted, Grpc!Needs, Grpc!vars
    <2> QED
      BY <2>1, CallStep, Zenon DEF Grpc!Next, Grpc!AllDone
  <1> QED
    BY <1>1, <1>2, PTL DEF Grpc!Spec

(* The permission that was asked for a call is the one its operation needs *)
(* over HTTP.                                                              *)
LEMMA PermissionsAgree == GrpcInv => Grpc!SamePermission
  <1> SUFFICES ASSUME GrpcInv, NEW c \in Calls, NEW r \in asked[c], NEW h \in DOMAIN Grpc!tenantHTTPRequirement,
                      Grpc!HttpCalls[h] = Grpc!GrpcCalls[call[c].method]
               PROVE  r = Grpc!tenantHTTPRequirement[h]
    BY Zenon DEF Grpc!SamePermission
  <1> DEFINE m == call[c].method
  <1>1. m \in DOMAIN Grpc!tenantGRPCRequirement /\ r = Grpc!tenantGRPCRequirement[m]
    BY DEF GrpcInv, Passed
  <1> HIDE DEF m
  <1>2. Grpc!HttpCalls[h] = Grpc!GrpcCalls[m]
    BY Zenon DEF m
  <1> QED
    BY <1>1, <1>2, TransportsAgree, Zenon

(* RetryableMeansNotDone, GatesBeforeMethod and SamePermission: a method   *)
(* runs only behind every interceptor, with the permission that HTTP asks  *)
(* for the same operation, and Unavailable, the status on which clients    *)
(* repeat a call, is never given for a call that took effect or panicked.  *)
THEOREM RetriesAreSafe == Grpc!Spec => []RetryableMeansNotDone
  <1>1. GrpcInv => Grpc!GatesBeforeMethod /\ Grpc!RetryableMeansNotDone
    BY Zenon DEF GrpcInv, Passed, Admitted, Grpc!GatesBeforeMethod, Grpc!RetryableMeansNotDone
  <1> QED
    BY <1>1, PermissionsAgree, GrpcInduction, PTL DEF RetryableMeansNotDone
-----------------------------------------------------------------------------
(* OutboundClient. The variables' domains, the counter of the breaker, and *)
(* what a call may have sent and holds at each place.                      *)
CallAnswers == {"none", "ok", "busy", "broken", "late", "cancelled", "denied", "open", "badpath", "gaveup"}

BreakerStates == {"closed", "open", "halfopen"}
BreakerOK(b) ==
  /\ b \in [state : BreakerStates, generation : Nat, failures : Nat, due : BOOLEAN]
  /\ b.failures < client.threshold

CallTypes ==
  /\ client \in [protocol : {"http", "grpc"}, guarded : BOOLEAN, asksOnSuccess : BOOLEAN, threshold : Thresholds]
  /\ BreakerOK(breaker)
  /\ place \in [Outgoing -> {"idle", "sending", "waiting", "done"}]
  /\ ctx \in [Outgoing -> {"live", "cancelled", "late"}]
  /\ attempt \in [Outgoing -> Nat] /\ entered \in [Outgoing -> Nat]
  /\ body \in [Outgoing -> {"none", "open", "closed"}]
  /\ got \in [Outgoing -> CallAnswers]

Sent(c) ==
  /\ attempt[c] <= Client!Budget(c)
  /\ place[c] \in {"sending", "waiting"} => attempt[c] < Client!Budget(c)
  /\ place[c] = "idle" => attempt[c] = 0
  /\ got[c] = "open" => attempt[c] = 0

Owned(c) ==
  /\ place[c] # "done" => got[c] = "none" /\ body[c] # "open"
  /\ place[c] = "done" => (Client!HasResponse(got[c]) <=> body[c] = "open")

CallInv == CallTypes /\ \A c \in Outgoing : Sent(c) /\ Owned(c)

(* The budget of a call is at most what the retry policy says, and one for *)
(* a call that may not be repeated.                                        *)
LEMMA BudgetBounds ==
  ASSUME Client!ClientAssumption, NEW c \in Outgoing
  PROVE  /\ Client!Budget(c) \in 1..MaxAttempts /\ MaxAttempts \in Nat
         /\ c \in Plain => Client!Budget(c) = 1
  BY DEF Client!ClientAssumption, Client!Budget, Client!Repeatable

(* A threshold is positive.                                                *)
LEMMA PositiveThresholds ==
  ASSUME Client!ClientAssumption, NEW n \in Thresholds
  PROVE  n \in Nat /\ n > 0
  <1>1. n \in Nat \ {0}
    BY Zenon DEF Client!ClientAssumption
  <1> QED
    BY <1>1

(* The breaker opens at its threshold: it never counts that far.           *)
LEMMA CountedTypes ==
  ASSUME Client!ClientAssumption, CallTypes, NEW c \in Outgoing, NEW o
  PROVE  BreakerOK(Client!Counted(c, o)) /\ BreakerOK(Client!AfterTimeout)
  <1>0. client.threshold \in Thresholds /\ BreakerOK(breaker)
    BY Zenon DEF CallTypes
  <1>1. client.threshold \in Nat /\ client.threshold > 0 /\ BreakerOK(breaker)
    BY <1>0, PositiveThresholds, Zenon
  <1>2. \A s \in BreakerStates : BreakerOK(Client!InState(s))
    BY <1>1 DEF BreakerOK, Client!InState
  <1>3. ASSUME NEW n \in Nat, n < client.threshold PROVE BreakerOK([breaker EXCEPT !.failures = n])
    BY <1>1, <1>3, Zenon DEF BreakerOK
  <1>4. breaker.failures \in Nat
    BY <1>1, Zenon DEF BreakerOK
  <1>5. BreakerOK(Client!AfterTimeout)
    BY <1>1, <1>2, Zenon DEF Client!AfterTimeout, BreakerStates
  <1>6. \/ Client!Counted(c, o) = breaker
        \/ \E s \in BreakerStates : Client!Counted(c, o) = Client!InState(s)
        \/ \E n \in Nat : n < client.threshold /\ Client!Counted(c, o) = [breaker EXCEPT !.failures = n]
    <2>1. CASE breaker.failures + 1 < client.threshold
      BY <1>1, <1>4, <2>1 DEF Client!Counted, BreakerStates
    <2>2. CASE ~(breaker.failures + 1 < client.threshold)
      BY <1>1, <1>4, <2>2 DEF Client!Counted, BreakerStates
    <2> QED
      BY <2>1, <2>2, Zenon
  <1> QED
    BY <1>1, <1>2, <1>3, <1>5, <1>6, Zenon

(* No call has been made at the start.                                     *)
LEMMA CallInit == Client!ClientAssumption /\ Client!Init => CallInv
  <1> SUFFICES ASSUME Client!ClientAssumption, Client!Init PROVE CallInv
    BY Zenon
  <1>1. CallTypes
    <2>0. client.threshold \in Thresholds
      BY Zenon DEF Client!Init
    <2>1. client.threshold \in Nat /\ client.threshold > 0
      BY <2>0, PositiveThresholds, Zenon
    <2>2. BreakerOK(breaker)
      BY <2>1, Zenon DEF Client!Init, Client!Closed, BreakerOK, BreakerStates
    <2> QED
      BY <2>2, Zenon DEF Client!Init, CallTypes, CallAnswers
  <1>2. \A c \in Outgoing : Sent(c) /\ Owned(c)
    BY BudgetBounds DEF Client!Init, Sent, Owned
  <1> QED
    BY <1>1, <1>2, Zenon DEF CallInv

(* What a call does is of no concern to the others.                        *)
Others(c) ==
  /\ client' = client
  /\ \A d \in Outgoing \ {c} :
       place'[d] = place[d] /\ attempt'[d] = attempt[d] /\ body'[d] = body[d] /\ got'[d] = got[d]

LEMMA SendAlone ==
  ASSUME CallInv, NEW c \in Outgoing, Others(c), CallTypes', Sent(c)', Owned(c)'
  PROVE  CallInv'
  <1>1. ASSUME NEW d \in Outgoing, d # c PROVE Sent(d)'
    BY <1>1, Zenon DEF CallInv, Others, Sent, Client!Budget, Client!Repeatable
  <1>2. ASSUME NEW d \in Outgoing, d # c PROVE Owned(d)'
    BY <1>2, Zenon DEF CallInv, Others, Owned, Client!HasResponse, Client!Http
  <1> QED
    BY <1>1, <1>2, Zenon DEF CallInv

(* Every step of a call keeps CallInv: it is sent only while it has an     *)
(* attempt left, and it keeps a response only when that is its answer.     *)
LEMMA SendStep ==
  ASSUME Client!ClientAssumption, CallInv, NEW c \in Outgoing, Client!Step(c)
  PROVE  CallInv'
  <1>0. /\ CallTypes /\ Sent(c) /\ Owned(c)
        /\ Client!Budget(c) \in Nat /\ Client!Budget(c) > 0
    BY BudgetBounds DEF CallInv
  <1>b. Client!Budget(c)' = Client!Budget(c)
    BY Zenon DEF Client!Budget, Client!Repeatable
  <1>1. CASE Client!Enter(c)
    <2>1. BreakerOK(breaker)'
      BY <1>0, <1>1, CountedTypes, Zenon DEF Client!Enter, CallTypes, BreakerOK
    <2>2. breaker'.generation \in Nat
      BY <2>1, Zenon DEF BreakerOK
    <2>3. CallTypes'
      BY <1>0, <1>1, <2>1, <2>2 DEF Client!Enter, CallTypes
    <2>4. Others(c) /\ place[c] = "idle" /\ place'[c] = "sending" /\ attempt' = attempt /\ body' = body /\ got' = got
      BY <1>0, <1>1 DEF Client!Enter, CallTypes, Others
    <2>5. Sent(c)' /\ Owned(c)'
      BY <1>0, <1>b, <2>4, Zenon DEF Sent, Owned
    <2> QED
      BY <2>3, <2>4, <2>5, SendAlone, Zenon
  <1>2. CASE Client!Refused(c)
    <2>1. CallTypes'
      BY <1>0, <1>2 DEF Client!Refused, Client!End, CallTypes, CallAnswers, BreakerOK
    <2>2. /\ Others(c) /\ place[c] = "idle" /\ place'[c] = "done" /\ got'[c] = "open"
          /\ attempt' = attempt /\ body' = body
      BY <1>0, <1>2 DEF Client!Refused, Client!End, CallTypes, Others
    <2>3. Sent(c)' /\ Owned(c)'
      BY <1>0, <1>b, <2>2, Zenon DEF Sent, Owned, Client!HasResponse
    <2> QED
      BY <2>1, <2>2, <2>3, SendAlone, Zenon
  <1>3. CASE Client!BadPath(c)
    <2>1. BreakerOK(breaker)'
      BY <1>0, <1>3, CountedTypes, Zenon DEF Client!BadPath, CallTypes, BreakerOK
    <2>2. CallTypes'
      BY <1>0, <1>3, <2>1, Zenon DEF Client!BadPath, Client!End, CallTypes, CallAnswers
    <2>3. /\ Others(c) /\ place[c] = "sending" /\ place'[c] = "done" /\ got'[c] = "badpath"
          /\ attempt' = attempt /\ body' = body
      BY <1>0, <1>3 DEF Client!BadPath, Client!End, CallTypes, Others
    <2>4. Sent(c)' /\ Owned(c)'
      BY <1>0, <1>b, <2>3, Zenon DEF Sent, Owned, Client!HasResponse
    <2> QED
      BY <2>2, <2>3, <2>4, SendAlone, Zenon
  <1>4. CASE Client!Resume(c)
    <2>1. CallTypes'
      BY <1>0, <1>4, Zenon DEF Client!Resume, CallTypes, BreakerOK
    <2>2. /\ Others(c) /\ place[c] = "waiting" /\ place'[c] = "sending"
          /\ attempt' = attempt /\ body' = body /\ got' = got
      BY <1>0, <1>4, Zenon DEF Client!Resume, CallTypes, Others
    <2>3. Sent(c)' /\ Owned(c)'
      BY <1>0, <1>b, <2>2, Zenon DEF Sent, Owned
    <2> QED
      BY <2>1, <2>2, <2>3, SendAlone, Zenon
  <1>5. CASE Client!GivesUp(c)
    <2> DEFINE o == IF Client!Http THEN ctx[c] ELSE "gaveup"
    <2>1. BreakerOK(breaker)'
      BY <1>0, <1>5, CountedTypes, Zenon DEF Client!GivesUp, CallTypes, BreakerOK
    <2>2. o \in {"late", "cancelled", "gaveup"}
      BY <1>0, <1>5, Zenon DEF Client!GivesUp, CallTypes
    <2> HIDE DEF o
    <2>3. /\ place' = [place EXCEPT ![c] = "done"] /\ got' = [got EXCEPT ![c] = o]
          /\ UNCHANGED <<client, ctx, attempt, entered, body>> /\ place[c] = "waiting"
      BY <1>5, Zenon DEF Client!GivesUp, Client!End, o
    <2>4. CallTypes'
      BY <1>0, <2>1, <2>2, <2>3, Zenon DEF CallTypes, CallAnswers
    <2>5. Others(c) /\ place'[c] = "done" /\ got'[c] = o
      BY <1>0, <2>3 DEF CallTypes, Others
    <2>6. Sent(c)' /\ Owned(c)'
      BY <1>0, <1>b, <2>2, <2>3, <2>5, Zenon DEF Sent, Owned, Client!HasResponse
    <2> QED
      BY <2>4, <2>5, <2>6, SendAlone, Zenon
  <1>6. ASSUME NEW o \in Client!Outcomes, Client!LastAttempt(c, o) PROVE CallInv'
    <2>1. BreakerOK(breaker)'
      BY <1>0, <1>6, CountedTypes, Zenon DEF Client!LastAttempt, CallTypes, BreakerOK
    <2>2. o \in {"ok", "busy", "broken", "late", "cancelled", "denied"}
      BY Zenon DEF Client!Outcomes
    <2>3. CallTypes'
      BY <1>0, <1>6, <2>1, <2>2 DEF Client!LastAttempt, Client!End, CallTypes, CallAnswers
    <2>4. /\ Others(c) /\ place[c] = "sending" /\ place'[c] = "done" /\ got'[c] = o
          /\ attempt'[c] = attempt[c] + 1 /\ attempt[c] \in Nat
          /\ body'[c] = IF Client!HasResponse(o) THEN "open" ELSE "none"
      BY <1>0, <1>6 DEF Client!LastAttempt, Client!End, CallTypes, Others
    <2>5. Sent(c)'
      <3>1. attempt[c] + 1 <= Client!Budget(c)
        BY <1>0, <2>4 DEF Sent
      <3>2. o # "open"
        BY <2>2, Zenon
      <3> QED
        BY <1>b, <2>4, <3>1, <3>2, Zenon DEF Sent
    <2>6. Owned(c)'
      BY <2>4, Zenon DEF Owned, Others, Client!HasResponse, Client!Http
    <2> QED
      BY <2>3, <2>4, <2>5, <2>6, SendAlone
  <1>7. ASSUME NEW o \in Client!Outcomes, Client!Attempt(c, o) PROVE CallInv'
    <2>1. Client!Drained(o) \in {"none", "closed"}
      BY Zenon DEF Client!Drained
    <2>2. CallTypes'
      BY <1>0, <1>7, <2>1 DEF Client!Attempt, CallTypes, BreakerOK
    <2>3. /\ Others(c) /\ place[c] = "sending" /\ place'[c] = "waiting" /\ got' = got
          /\ attempt'[c] = attempt[c] + 1 /\ attempt[c] \in Nat /\ attempt[c] + 1 < Client!Budget(c)
          /\ body'[c] = Client!Drained(o)
      BY <1>0, <1>7 DEF Client!Attempt, Client!Final, CallTypes, Others
    <2>4. Sent(c)'
      <3>1. got[c] = "none" /\ attempt[c] + 1 <= Client!Budget(c)
        BY <1>0, <2>3 DEF Owned
      <3> QED
        BY <1>b, <2>3, <3>1, Zenon DEF Sent
    <2>5. Owned(c)'
      BY <1>0, <2>1, <2>3 DEF Owned
    <2> QED
      BY <2>2, <2>3, <2>4, <2>5, SendAlone
  <1> QED
    BY <1>1, <1>2, <1>3, <1>4, <1>5, <1>6, <1>7, Zenon DEF Client!Step

(* CallInv is inductive.                                                   *)
LEMMA CallNext ==
  ASSUME Client!ClientAssumption, CallInv, [Client!Next]_(Client!vars)
  PROVE  CallInv'
  <1>1. CASE UNCHANGED Client!vars
    BY <1>1, Zenon DEF CallInv, CallTypes, BreakerOK, Sent, Owned, Client!vars, Client!Budget, Client!HasResponse,
       Client!Http
  <1>2. CASE Client!OpenTimeout
    <2>1. BreakerOK(breaker)'
      BY <1>2, Zenon DEF CallInv, CallTypes, BreakerOK, Client!OpenTimeout
    <2> QED
      BY <1>2, <2>1 DEF CallInv, CallTypes, Sent, Owned, Client!OpenTimeout, Client!Budget, Client!HasResponse,
         Client!Http
  <1>3. ASSUME NEW c \in Outgoing, Client!ContextEnds(c) PROVE CallInv'
    <2>1. UNCHANGED <<client, breaker, place, attempt, entered, body, got>>
      BY <1>3, Zenon DEF Client!ContextEnds
    <2>a. ctx \in [Outgoing -> {"live", "cancelled", "late"}]
      BY Zenon DEF CallInv, CallTypes
    <2>b. ctx' \in [Outgoing -> {"live", "cancelled", "late"}]
      BY <1>3, <2>a, Zenon DEF Client!ContextEnds
    <2>c. BreakerOK(breaker)'
      BY <2>1, Zenon DEF CallInv, CallTypes, BreakerOK
    <2>d. CallTypes'
      BY <2>1, <2>b, <2>c, Zenon DEF CallInv, CallTypes
    <2>2. \A d \in Outgoing : Sent(d)'
      BY <2>1, Zenon DEF CallInv, Sent, Client!Budget
    <2>3. \A d \in Outgoing : Owned(d)'
      BY <2>1, Zenon DEF CallInv, Owned, Client!Budget, Client!HasResponse, Client!Http
    <2> QED
      BY <2>d, <2>2, <2>3, Zenon DEF CallInv
  <1> QED
    BY <1>1, <1>2, <1>3, SendStep DEF Client!Next, Client!AllDone

(* PlainSentOnce: whatever the upstream answers, whoever leaves and what-  *)
(* ever the breaker does in between, a call that may not be repeated is    *)
(* sent at most once, and one that the breaker refuses is never sent; no   *)
(* call is sent more often than the policy says.                           *)
THEOREM SentAsOftenAsAllowed == Client!Spec => []PlainSentOnce
  <1> USE SendingAssumption
  <1>1. Client!Init => CallInv
    BY CallInit, Zenon
  <1>2. CallInv /\ [Client!Next]_(Client!vars) => CallInv'
    BY CallNext, Zenon
  <1>3. CallInv => PlainSentOnce
    <2> SUFFICES ASSUME CallInv PROVE Client!TypeOK /\ Client!PlainSentOnce
      BY Zenon DEF PlainSentOnce
    <2>1. client.threshold \in Thresholds /\ BreakerOK(breaker)
      BY Zenon DEF CallInv, CallTypes
    <2>2. client.threshold \in Nat
      BY <2>1, PositiveThresholds, Zenon
    <2>3. breaker.state \in BreakerStates /\ breaker.failures \in 0..(client.threshold - 1)
      BY <2>1, <2>2 DEF BreakerOK
    <2>4. \A c \in Outgoing : attempt[c] \in 0..MaxAttempts /\ (c \in Plain => attempt[c] <= 1)
      BY BudgetBounds DEF CallInv, CallTypes, Sent
    <2>5. attempt \in [Outgoing -> 0..MaxAttempts]
      BY <2>4, Zenon DEF CallInv, CallTypes
    <2> QED
      BY <2>3, <2>4, <2>5 DEF CallInv, CallTypes, Sent, BreakerStates, Client!TypeOK, Client!PlainSentOnce
  <1> QED
    BY <1>1, <1>2, <1>3, PTL DEF Client!Spec

(* ResponsesOwned: through retries, refusals and the detour of a busy      *)
(* answer through the breaker, a response is either the caller's, open, or *)
(* was closed.                                                             *)
THEOREM EveryResponseHasAnOwner == Client!Spec => []ResponsesOwned
  <1> USE SendingAssumption
  <1>1. Client!Init => CallInv
    BY CallInit, Zenon
  <1>2. CallInv /\ [Client!Next]_(Client!vars) => CallInv'
    BY CallNext, Zenon
  <1>3. CallInv => ResponsesOwned
    BY Zenon DEF CallInv, Owned, ResponsesOwned, Client!ResponsesOwned
  <1> QED
    BY <1>1, <1>2, <1>3, PTL DEF Client!Spec
-----------------------------------------------------------------------------
(* TenantSelection. From the read of the membership on, the request holds  *)
(* one that was active since it began; a token is out only for a request   *)
(* that is over.                                                           *)
SelectTypes ==
  /\ status \in [Selection!Members -> {"absent", "active", "suspended"}]
  /\ turn \in [Selections -> {"idle", "reading", "joining", "issuing", "done"}]
  /\ caller \in [Selections -> Selection!Callers] /\ wanted \in [Selections -> Tenants]
  /\ found \in [Selections -> Selection!Members \cup {Selection!NoRow}]
  /\ was \in [Selections -> SUBSET Selection!Members]

Held(r) ==
  /\ turn[r] \in {"reading", "joining", "issuing"} => Selection!Interactive(caller[r])
  /\ turn[r] # "idle" => Selection!Active \subseteq was[r]
  /\ turn[r] \in {"joining", "issuing"} => found[r] = <<caller[r].id, wanted[r]>> /\ found[r] \in was[r]

Rightful(t) ==
  /\ t[1] \in Selections /\ turn[t[1]] = "done"
  /\ t[4] = <<t[2], t[3]>> /\ t[4] \in was[t[1]]
  /\ t[5] # "" /\ caller[t[1]].type = "user" /\ caller[t[1]].id = t[2]

SelectInv == SelectTypes /\ (\A r \in Selections : Held(r)) /\ (\A t \in issued : Rightful(t))

(* The start has no token and no request under way.                        *)
LEMMA SelectInit == Selection!Init => SelectInv
  <1> SUFFICES ASSUME Selection!Init PROVE SelectInv
    BY Zenon
  <1>1. SelectTypes
    BY Zenon DEF Selection!Init, SelectTypes
  <1>2. issued = {} /\ \A r \in Selections : turn[r] = "idle"
    BY Zenon DEF Selection!Init
  <1> QED
    BY <1>1, <1>2, Zenon DEF SelectInv, Held

(* A change of a membership adds to what was active, and takes nothing.    *)
LEMMA ChangeStep ==
  ASSUME SelectInv, NEW m \in Selection!Members, NEW s \in {"active", "suspended"}, Selection!Change(m, s)
  PROVE  SelectInv'
  <1>1. /\ status' = [status EXCEPT ![m] = s] /\ UNCHANGED <<turn, caller, wanted, found, reply, issued>>
        /\ was' = [r \in Selections |-> IF s = "active" /\ turn[r] # "idle" THEN was[r] \cup {m} ELSE was[r]]
    BY Zenon DEF Selection!Change
  <1>2. SelectTypes'
    BY <1>1, Zenon DEF SelectInv, SelectTypes
  <1>3. ASSUME NEW r \in Selections PROVE was[r] \subseteq was'[r]
    BY <1>1, Zenon
  <1>4. ASSUME NEW r \in Selections PROVE Held(r)'
    <2>1. Held(r)
      BY Zenon DEF SelectInv
    <2>2. turn[r] # "idle" => Selection!Active' \subseteq was'[r]
      BY <1>1, <2>1, Zenon DEF SelectInv, SelectTypes, Held, Selection!Active
    <2> QED
      BY <1>1, <1>3, <2>1, <2>2 DEF Held
  <1>5. ASSUME NEW t \in issued PROVE Rightful(t)'
    <2>1. Rightful(t)
      BY Zenon DEF SelectInv
    <2> QED
      BY <1>1, <1>3, <2>1, Zenon DEF Rightful
  <1> QED
    BY <1>1, <1>2, <1>4, <1>5, Zenon DEF SelectInv

(* A step of one request, without a token, leaves the others as they are.  *)
LEMMA HandleAlone ==
  ASSUME SelectInv, NEW r \in Selections, SelectTypes', Held(r)', turn[r] # "done", UNCHANGED <<status, caller,
    wanted>>,
         \A q \in Selections \ {r} : turn'[q] = turn[q] /\ found'[q] = found[q] /\ was'[q] = was[q],
         \A t \in issued' : t \in issued \/ Rightful(t)'
  PROVE  SelectInv'
  <1>1. ASSUME NEW q \in Selections, q # r PROVE Held(q)'
    <2>1. Held(q) /\ turn'[q] = turn[q] /\ found'[q] = found[q] /\ was'[q] = was[q]
      BY <1>1, Zenon DEF SelectInv
    <2> QED
      BY <2>1, Zenon DEF Held, Selection!Active
  <1>2. ASSUME NEW t \in issued PROVE Rightful(t)'
    <2>1. Rightful(t)
      BY Zenon DEF SelectInv
    <2>2. t[1] \in Selections \ {r}
      BY <2>1, Zenon DEF Rightful
    <2> QED
      BY <2>1, <2>2, Zenon DEF Rightful
  <1> QED
    BY <1>1, <1>2, Zenon DEF SelectInv

(* Every step of the handler keeps it.                                     *)
LEMMA HandleStep == ASSUME SelectInv, NEW r \in Selections, Selection!Handle(r) PROVE SelectInv'
  <1>0. SelectTypes /\ Held(r)
    BY Zenon DEF SelectInv
  <1>1. CASE Selection!SelectTenant(r)
    <2> USE <1>0, <1>1 DEF Selection!SelectTenant, Selection!Goto, Selection!Answer
    <2>1. SelectTypes'
      BY Zenon DEF SelectTypes, Selection!Active
    <2>2. Held(r)'
      BY DEF SelectTypes, Held, Selection!Active
    <2> QED
      BY <2>1, <2>2, HandleAlone DEF SelectTypes
  <1>2. CASE Selection!ValidateMembership(r)
    <2> DEFINE m == <<caller[r].id, wanted[r]>>
    <2>1. m \in Selection!Members
      BY <1>0, Zenon DEF SelectTypes, Selection!Members, Selection!Callers
    <2>2. /\ turn[r] = "reading" /\ UNCHANGED <<status, changes, caller, wanted, issued, was>>
          /\ \/ /\ Selection!Valid(m) /\ found' = [found EXCEPT ![r] = m] /\ turn' = [turn EXCEPT ![r] = "joining"]
             \/ turn' = [turn EXCEPT ![r] = "done"] /\ found' = found
      BY <1>2, Zenon DEF Selection!ValidateMembership, Selection!Goto, Selection!Answer
    <2>3. Selection!Valid(m) => m \in was[r]
      BY <1>0, <2>1, <2>2, Zenon DEF Held, Selection!Valid, Selection!Active
    <2> HIDE DEF m
    <2>4. SelectTypes'
      BY <1>0, <2>1, <2>2 DEF SelectTypes
    <2>5. Held(r)'
      BY <1>0, <2>2, <2>3, Zenon DEF SelectTypes, Held, Selection!Active, m
    <2> QED
      BY <1>0, <2>2, <2>4, <2>5, HandleAlone DEF SelectTypes
  <1>3. CASE Selection!GetTenant(r) \/ Selection!ReadFails(r)
    <2> USE <1>0, <1>3 DEF Selection!GetTenant, Selection!ReadFails, Selection!Goto, Selection!Answer
    <2>1. SelectTypes'
      BY Zenon DEF SelectTypes
    <2>2. Held(r)'
      BY Zenon DEF SelectTypes, Held, Selection!Active
    <2> QED
      BY <2>1, <2>2, HandleAlone, Zenon DEF SelectTypes
  <1>4. CASE Selection!IssueTenantToken(r) \/ Selection!IssueFails(r)
    <2> DEFINE token == <<r, caller[r].id, wanted[r], found[r], caller[r].session>>
    <2>1. /\ turn[r] = "issuing" /\ turn' = [turn EXCEPT ![r] = "done"] /\ UNCHANGED <<status, changes, caller,
            wanted, found, was>>
          /\ issued' \subseteq issued \cup {token}
      BY <1>4, Zenon DEF Selection!IssueTenantToken, Selection!IssueFails, Selection!Goto, Selection!Answer
    <2>2. /\ found[r] = <<caller[r].id, wanted[r]>> /\ found[r] \in was[r]
          /\ caller[r].type = "user" /\ caller[r].session # ""
      BY <1>0, <2>1, Zenon DEF Held, Selection!Interactive
    <2>3. turn'[r] = "done"
      BY <1>0, <2>1, Zenon DEF SelectTypes
    <2>5. ASSUME NEW t, t = token PROVE Rightful(t)'
      <3>1. t[1] = r /\ t[2] = caller[r].id /\ t[3] = wanted[r] /\ t[4] = found[r] /\ t[5] = caller[r].session
        BY <2>5, Zenon
      <3> HIDE DEF token
      <3> QED
        BY <2>1, <2>2, <2>3, <3>1 DEF Rightful
    <2> HIDE DEF token
    <2>6. SelectTypes'
      BY <1>0, <2>1, Zenon DEF SelectTypes
    <2>7. Held(r)'
      BY <1>0, <2>1, <2>3, Zenon DEF Held, Selection!Active
    <2>8. \A t \in issued' : t \in issued \/ Rightful(t)'
      BY <2>1, <2>5, Zenon
    <2> QED
      BY <1>0, <2>1, <2>6, <2>7, <2>8, HandleAlone DEF SelectTypes
  <1> QED
    BY <1>1, <1>2, <1>3, <1>4, Zenon DEF Selection!Handle

(* TokensForMembers: a token is issued to a user in a session, for a       *)
(* membership of that user in that tenant which was active at some moment  *)
(* since the request began, however memberships change meanwhile.          *)
THEOREM TokensAreForMembers == Selection!Spec => []TokensForMembers
  <1>1. SelectInv /\ [Selection!Next]_(Selection!vars) => SelectInv'
    <2> SUFFICES ASSUME SelectInv, [Selection!Next]_(Selection!vars) PROVE SelectInv'
      BY Zenon
    <2>1. CASE UNCHANGED Selection!vars
      BY <2>1, Zenon DEF SelectInv, SelectTypes, Held, Rightful, Selection!Active, Selection!vars
    <2> QED
      BY <2>1, ChangeStep, HandleStep, Zenon DEF Selection!Next, Selection!AllDone
  <1>2. SelectInv => TokensForMembers
    BY Zenon DEF SelectInv, Rightful, TokensForMembers, Selection!TokensForMembers
  <1> QED
    BY SelectInit, <1>1, <1>2, PTL DEF Selection!Spec
=============================================================================
