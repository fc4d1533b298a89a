------------------------------ MODULE Tenants ------------------------------
(***************************************************************************)
(* Tenants and their memberships: Create (its createOnce), Update,         *)
(* AddMembership and UpdateMembership of internal/tenant/service.go.       *)
(*                                                                         *)
(* No lock is taken.  An update reads its row, and the organisation unit   *)
(* it names, in statements of their own; its transaction then compares the *)
(* version of the row with the version the client sent, not with the one   *)
(* that was read.  The status the event calls the previous one is that of  *)
(* the early read.                                                         *)
(*                                                                         *)
(* A tenant is named by its code and a membership by its tenant and user,  *)
(* as the unique keys of the tables allow.                                 *)
(*                                                                         *)
(* An operator D_Variant that stands before D is D with one mistake in it. *)
(***************************************************************************)
EXTENDS Integers, Sequences, Authorization

CONSTANTS
  Users,
  Units, NoUnit,    \* the organisation units
  UnitTenant,       \* the tenant of each unit, which never changes
  Requests,         \* the requests being served at one time
  Principals,       \* the authenticated callers
  TenantStatuses, MembershipStatuses,
  OnlyShown,        \* clients send no version that no row had yet
  MaxVersion        \* bound on the version of a row: at the bound, no more updates

ASSUME TenantsAssumption ==
  /\ NoUnit \notin Units
  /\ Tenants \cap (Tenants \X Users) = {}
  /\ UnitTenant \in [Units -> Tenants]
  /\ Principals \subseteq Principal
  /\ TenantStatuses \subseteq {"pending", "active", "suspended", "closing", "closed"}
  /\ MembershipStatuses \subseteq {"invited", "active", "disabled", "removed"}
  /\ "active" \in TenantStatuses \cap MembershipStatuses
  /\ OnlyShown \in BOOLEAN /\ MaxVersion \in Nat \ {0}

Members == Tenants \X Users

VARIABLES
  tenant,      \* the row of each tenant; version 0 for no row
  member,      \* the row of each membership; version 0 for no row
  usable,      \* the organisation units that are active
  log,         \* the status events of each tenant and membership, in commit order
  pc, req,     \* where each request is, and its input
  cur,         \* the status it read
  ans          \* its answer

table == <<tenant, member, log>>
vars == <<table, usable, pc, req, cur, ans>>

Rows == Tenants \cup Members
Statuses == TenantStatuses \cup MembershipStatuses \cup {"none"}
NoTenantRow == [status |-> "none", version |-> 0]
NoMemberRow == [status |-> "none", unit |-> NoUnit, version |-> 0]

VersionOf(row) == IF row \in Tenants THEN tenant[row].version ELSE member[row].version
StatusOf(row) == IF row \in Tenants THEN tenant[row].status ELSE member[row].status
OwnerTenant(row) == IF row \in Tenants THEN row ELSE row[1]

NoRequest == [op |-> "none"]
Request ==
  [op : {"tenant"}, row : Tenants, status : TenantStatuses, unit : {NoUnit}, version : 1..MaxVersion]
  \cup [op : {"member"}, row : Members, status : MembershipStatuses, unit : Units \cup {NoUnit}, version : 1..MaxVersion]
  \cup [op : {"add"}, row : Members, status : {"active"}, unit : Units \cup {NoUnit}, version : {0}]

Init ==
  /\ tenant = [t \in Tenants |-> NoTenantRow]
  /\ member = [m \in Members |-> NoMemberRow]
  /\ usable = Units
  /\ log = [row \in Rows |-> <<>>]
  /\ pc = [r \in Requests |-> "idle"]
  /\ req = [r \in Requests |-> NoRequest]
  /\ cur = [r \in Requests |-> "none"]
  /\ ans = [r \in Requests |-> "none"]

Goto(r, place, answer) ==
  /\ pc' = [pc EXCEPT ![r] = place]
  /\ ans' = [ans EXCEPT ![r] = answer]

(* AddOutbox in the transaction of the change.                             *)
Tell(row, previous, current) ==
  log' = [log EXCEPT ![row] = Append(@, [previous |-> previous, current |-> current])]
-----------------------------------------------------------------------------
(* A user may own only a tenant it creates, unless the platform allowed    *)
(* it; a service may create for anyone.                                    *)
MayCreate(c) == c.type \in {"user", "service_account", "system"}

(* createOnce: the tenant, the membership of its owner and one event.      *)
CreateOnce(t, u) ==
  /\ tenant' = [tenant EXCEPT ![t] = [status |-> "active", version |-> 1]]
  /\ member' = [member EXCEPT ![<<t, u>>] = [status |-> "active", unit |-> NoUnit, version |-> 1]]
  /\ Tell(t, "none", "active")

Create(t, u) ==
  /\ \E c \in Principals : MayCreate(c)
  /\ tenant[t].version = 0
  /\ CreateOnce(t, u)
  /\ UNCHANGED <<usable, pc, req, cur, ans>>

(* UpdateOrganizationUnit gives a unit another status.                     *)
ToggleUnit(n) ==
  /\ usable' = IF n \in usable THEN usable \ {n} ELSE usable \cup {n}
  /\ UNCHANGED <<table, pc, req, cur, ans>>
-----------------------------------------------------------------------------
(* The versions a client may send for a row.                               *)
Sendable(row) == {v \in 1..(MaxVersion - 1) : OnlyShown => v <= VersionOf(row)}

(* Update and UpdateMembership up to the read of the row.                  *)
UpdateRead(r) ==
  /\ pc[r] = "idle"
  /\ \E c \in Principals, q \in Request :
       /\ q.op \in {"tenant", "member"}
       /\ VersionOf(q.row) > 0 /\ q.version \in Sendable(q.row)
       /\ AuthorizedFor(c, OwnerTenant(q.row))
       /\ req' = [req EXCEPT ![r] = q]
       /\ cur' = [cur EXCEPT ![r] = StatusOf(q.row)]
       /\ Goto(r, IF q.op = "tenant" THEN "commit" ELSE "unit", "none")
  /\ UNCHANGED <<table, usable>>

(* AddMembership reads no row but the unit.                                *)
AddStart(r) ==
  /\ pc[r] = "idle"
  /\ \E c \in Principals, q \in Request :
       /\ q.op = "add" /\ tenant[q.row[1]].version > 0
       /\ AuthorizedFor(c, q.row[1])
       /\ req' = [req EXCEPT ![r] = q]
  /\ Goto(r, "unit", "none")
  /\ UNCHANGED <<table, usable, cur>>

(* validateMembershipOrganization: a unit that is named is active and of   *)
(* the tenant of the membership.                                           *)
UnitFits_AnyTenant(row, unit) == unit = NoUnit \/ unit \in usable
UnitFits(row, unit) == unit = NoUnit \/ (unit \in usable /\ UnitTenant[unit] = row[1])

ValidateUnit(r) ==
  /\ pc[r] = "unit"
  /\ IF UnitFits(req[r].row, req[r].unit) THEN Goto(r, "commit", "none") ELSE Goto(r, "reply", "error")
  /\ UNCHANGED <<table, usable, req, cur>>

(* WHERE id = ? AND version = ?                                            *)
Expected(r) == VersionOf(req[r].row) = req[r].version

Fresh(r) == VersionOf(req[r].row) = 0

(* version = version + 1                                                   *)
NextVersion_Same(v) == v
NextVersion(v) == v + 1

(* The status the event names as the previous one.                         *)
Previous_Sent(r) == req[r].status
Previous(r) == cur[r]

CommitTenant(r) ==
  /\ pc[r] = "commit" /\ req[r].op = "tenant"
  /\ Expected(r) /\ VersionOf(req[r].row) < MaxVersion
  /\ tenant' = [tenant EXCEPT ![req[r].row] = [status |-> req[r].status, version |-> NextVersion(@.version)]]
  /\ Tell(req[r].row, Previous(r), req[r].status)
  /\ \E a \in {"ok", "error"} : Goto(r, "reply", a)
  /\ UNCHANGED <<member, usable, req, cur>>

CommitMember(r) ==
  /\ pc[r] = "commit" /\ req[r].op = "member"
  /\ Expected(r) /\ VersionOf(req[r].row) < MaxVersion
  /\ member' = [member EXCEPT ![req[r].row] =
                  [status |-> req[r].status, unit |-> req[r].unit, version |-> NextVersion(@.version)]]
  /\ Tell(req[r].row, Previous(r), req[r].status)
  /\ \E a \in {"ok", "error"} : Goto(r, "reply", a)
  /\ UNCHANGED <<tenant, usable, req, cur>>

(* The status AddMembership gives the row and its event.                   *)
AddedStatus == "active"

(* The insert of AddMembership: the unique key refuses a second row.       *)
CommitAdd(r) ==
  /\ pc[r] = "commit" /\ req[r].op = "add"
  /\ Fresh(r)
  /\ member' = [member EXCEPT ![req[r].row] = [status |-> AddedStatus, unit |-> req[r].unit, version |-> 1]]
  /\ Tell(req[r].row, "none", AddedStatus)
  /\ \E a \in {"ok", "error"} : Goto(r, "reply", a)
  /\ UNCHANGED <<tenant, usable, req, cur>>

(* The version or the key refuses, or the database fails: nothing stays.   *)
Fails(r) ==
  /\ pc[r] \in {"unit", "commit"}
  /\ Goto(r, "reply", "error")
  /\ UNCHANGED <<table, usable, req, cur>>

(* The client has its answer, or the replica died before it could send it. *)
End(r) ==
  /\ pc[r] # "idle"
  /\ pc' = [pc EXCEPT ![r] = "idle"]
  /\ req' = [req EXCEPT ![r] = NoRequest]
  /\ cur' = [cur EXCEPT ![r] = "none"]
  /\ ans' = [ans EXCEPT ![r] = "none"]
  /\ UNCHANGED <<table, usable>>

Serve(r) ==
  UpdateRead(r) \/ AddStart(r) \/ ValidateUnit(r) \/ CommitTenant(r) \/ CommitMember(r) \/ CommitAdd(r) \/ Fails(r) \/ End(r)

Next ==
  \/ \E t \in Tenants, u \in Users : Create(t, u)
  \/ \E n \in Units : ToggleUnit(n)
  \/ \E r \in Requests : Serve(r)

Spec == Init /\ [][Next]_vars
-----------------------------------------------------------------------------
(* Every variable stays in its domain.                                     *)
TypeOK ==
  /\ tenant \in [Tenants -> [status : TenantStatuses \cup {"none"}, version : 0..MaxVersion]]
  /\ member \in [Members -> [status : MembershipStatuses \cup {"none"}, unit : Units \cup {NoUnit}, version : 0..MaxVersion]]
  /\ usable \subseteq Units
  /\ log \in [Rows -> Seq([previous : Statuses, current : Statuses])]
  /\ cur \in [Requests -> Statuses]
  /\ pc \in [Requests -> {"idle", "unit", "commit", "reply"}]
  /\ req \in [Requests -> Request \cup {NoRequest}]
  /\ ans \in [Requests -> {"none", "ok", "error"}]

(* The primary organisation unit of a membership belongs to the tenant of  *)
(* the membership, although the unit is checked in one statement and       *)
(* written in another, possibly under a row somebody else changed.         *)
UnitOfOwnTenant ==
  \A m \in Members : member[m].unit # NoUnit => UnitTenant[member[m].unit] = m[1]

(* A tenant is never without a membership, and no membership is without    *)
(* its tenant: createOnce writes both in one transaction.                  *)
TenantsHaveMembers ==
  \A t \in Tenants : (tenant[t].version > 0) <=> (\E u \in Users : member[<<t, u>>].version > 0)

(* The status events of a tenant or membership are a chain: the previous   *)
(* status of each is the current status of the one before, and the last    *)
(* one tells the status of the row; there is one for every version.  (The  *)
(* membership of an owner begins active without an event.)                 *)
StatusEventsChain ==
  \A row \in Rows :
    /\ \A n \in 2..Len(log[row]) : log[row][n].previous = log[row][n - 1].current
    /\ IF log[row] = <<>> THEN StatusOf(row) \in {"none", "active"} ELSE StatusOf(row) = log[row][Len(log[row])].current
    /\ log[row] # <<>> => log[row][1].previous \in {"none", "active"}
    /\ Len(log[row]) \in {VersionOf(row), IF row \in Tenants THEN VersionOf(row) ELSE VersionOf(row) - 1}

(* Two updates of a row sent with one version are never both answered with *)
(* success.                                                                *)
OneWinner ==
  \A r, s \in Requests :
    (r # s /\ ans[r] = "ok" /\ ans[s] = "ok" /\ req[r].row = req[s].row) => req[r].version # req[s].version
=============================================================================
