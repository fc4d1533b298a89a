------------------------- MODULE OrganizationScope -------------------------
(***************************************************************************)
(* ResolveOrganizationScope beside the requests that change the tree: it   *)
(* reads the membership, then the path of its primary unit, then the units *)
(* below that path, in three statements and without the tree lock. The     *)
(* membership may get another primary unit, and units may move, between    *)
(* them.                                                                   *)
(***************************************************************************)
EXTENDS OrganizationTree

CONSTANTS
  Reader,          \* the authenticated caller
  MemberTenant     \* the tenant of the membership

VARIABLES
  primary,   \* primary_organization_unit_id of the membership
  at,        \* where the request is
  root       \* the unit it read from the membership, and its path

reader == <<at, root>>
scopeVars == <<vars, primary, reader>>

NoRoot == [unit |-> NoUnit, path |-> <<>>]

ScopeInit ==
  /\ Init
  /\ primary = NoUnit
  /\ at = "membership" /\ root = NoRoot

(* UpdateMembership, after validateMembershipOrganization.                 *)
Reassign ==
  /\ \E u \in Parents :
       /\ u # NoUnit => ActiveIn(u, MemberTenant)
       /\ primary' = u
  /\ UNCHANGED <<vars, reader>>

(* A membership without a unit has an empty scope: nothing more is read.   *)
ReadMembership ==
  /\ at = "membership" /\ AuthorizedFor(Reader, MemberTenant)
  /\ primary # NoUnit
  /\ root' = [NoRoot EXCEPT !.unit = primary]
  /\ at' = "path"
  /\ UNCHANGED <<vars, primary>>

ReadPath ==
  /\ at = "path"
  /\ root' = [root EXCEPT !.path = path[root.unit]]
  /\ at' = "query"
  /\ UNCHANGED <<vars, primary>>

(* tenant_id = ? AND path LIKE ? AND status = 'active'                     *)
UnderPath(p) ==
  {v \in rows : tenantOf[v] = MemberTenant /\ IsPrefix(p, path[v]) /\ status[v] = "active"}

(* The answer goes out, or a statement failed: the request is over.        *)
Answer ==
  /\ at \in {"path", "query"}
  /\ at' = "membership" /\ root' = NoRoot
  /\ UNCHANGED <<vars, primary>>

ScopeNext ==
  \/ SerialNext /\ UNCHANGED <<primary, reader>>
  \/ Reassign \/ ReadMembership \/ ReadPath \/ Answer

ScopeSpec == ScopeInit /\ [][ScopeNext]_scopeVars
-----------------------------------------------------------------------------
(* A scope is never too wide, however stale the path was when it was used: *)
(* what the query returns is the active part of the subtree at that time,  *)
(* or nothing because the unit has moved away from the path.               *)
ScopeNeverTooWide ==
  at = "query" =>
    \/ UnderPath(root.path) = {v \in Subtree(root.unit) : status[v] = "active"}
    \/ UnderPath(root.path) = {} /\ path[root.unit] # root.path
=============================================================================
