------------------------------ MODULE MCRecords ------------------------------
(* Tenants, and Groups by way of Records: two tenants, their units and     *)
(* users, and a group with one membership of its own tenant and one of the *)
(* other.  They have no variable in common, so a behaviour follows one of  *)
(* them and the other stays in its initial state.                          *)
EXTENDS Tenants, Records, TLC

CONSTANTS t1, t2, n1, n2, g1, m1, m2

VARIABLE part

MCUser(t) == [type |-> "user", tenant |-> t, platform |-> FALSE]
MCPrincipals == {MCUser(t1)}
MCUnitTenant == n1 :> t1 @@ n2 :> t2
MCTenantStatuses == {"active", "suspended"}
MCMembershipStatuses == {"active"}
MCTenantOf == g1 :> t1 @@ m1 :> t1 @@ m2 :> t2

groups == <<group, joined, active, seen, groupLog, groupPc, groupReq, groupAns>>

MCInit == part \in {"tenants", "groups"} /\ Init /\ Grp!Init

MCNext ==
  /\ UNCHANGED part
  /\ \/ part = "tenants" /\ Next /\ UNCHANGED groups
     \/ part = "groups" /\ Grp!Next /\ UNCHANGED vars

MCSpec == MCInit /\ [][MCNext]_<<part, vars, groups>>

RequestSymmetry == Permutations(Requests)
=============================================================================
