------------------------- MODULE MCOrganizationTree -------------------------
(* Small instances of OrganizationTree.                                    *)
EXTENDS OrganizationTree, TLC

CONSTANTS t1, t2

MCUser(t) == [type |-> "user", tenant |-> t, platform |-> FALSE]
MCOneTenant == {MCUser(t1)}
MCTwoTenants == {MCUser(t1), MCUser(t2)}

MCSymmetry == Permutations(Units) \cup Permutations(Requests)
MCTenantSymmetry == MCSymmetry \cup Permutations(Tenants)
=============================================================================
