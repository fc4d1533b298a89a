------------------------------ MODULE Groups ------------------------------
(***************************************************************************)
(* Member groups: CreateGroup, UpdateGroup, AddGroupMember and             *)
(* RemoveGroupMember of internal/tenant/collaboration_service.go.          *)
(*                                                                         *)
(* AddGroupMember reads the group, the membership and the row that may     *)
(* already join them in three statements, and commits in a fourth.  A row  *)
(* of group_members is never deleted: a member that left has a row with    *)
(* status "removed", which a later AddGroupMember makes active again.      *)
(*                                                                         *)
(* A group is named by its code in its tenant, which the table keeps       *)
(* unique; memberships change as module Tenants describes, of which only   *)
(* the status matters here.                                                *)
(*                                                                         *)
(* An operator D_Variant that stands before D is D with one mistake in it. *)
(***************************************************************************)
EXTENDS Integers, Sequences, FiniteSets, Authorization

CONSTANTS
  GroupIds, Memberships,
  TenantOf,      \* the tenant of each group and of each membership
  Requests, Principals,
  OnlyShown,     \* clients send no version that no row had yet
  MaxVersion,    \* bound on the version of a group: at the bound, no more updates
  MaxJoined      \* bound on the version of a group member

GroupsAssumption ==
  /\ TenantOf \in [GroupIds \cup Memberships -> Tenants]
  /\ Principals \subseteq Principal
  /\ OnlyShown \in BOOLEAN /\ {MaxVersion, MaxJoined} \subseteq Nat \ {0}

Pairs == GroupIds \X Memberships

VARIABLES
  group,      \* the row of each group; version 0 for no row
  joined,     \* the row of group_members of each pair; version 0 for no row
  active,     \* the memberships with status "active"
  log,        \* the GroupChanged events of each group, in commit order
  pc, req,    \* where each request is, and its input
  seen,       \* the rows it read: of the group and of the pair
  ans         \* its answer

table == <<group, joined, active, log>>
vars == <<table, pc, req, seen, ans>>

NoRow == [status |-> "none", version |-> 0]
Row == [status : {"none", "active", "disabled", "removed"}, version : 0..MaxVersion \cup 0..MaxJoined]
NoRequest == [op |-> "none"]
NothingSeen == [group |-> NoRow, pair |-> NoRow]

UpdateRequest == [op : {"update"}, group : GroupIds, status : {"active", "disabled"}, version : 1..MaxVersion]
AddRequest == [op : {"add"}, group : GroupIds, member : Memberships]
RemoveRequest == [op : {"remove"}, group : GroupIds, member : Memberships, version : 0..MaxJoined]

Pair(r) == <<req[r].group, req[r].member>>

Init ==
  /\ group = [g \in GroupIds |-> NoRow]
  /\ joined = [p \in Pairs |-> NoRow]
  /\ active = Memberships
  /\ log = [g \in GroupIds |-> <<>>]
  /\ pc = [r \in Requests |-> "idle"]
  /\ req = [r \in Requests |-> NoRequest]
  /\ seen = [r \in Requests |-> NothingSeen]
  /\ ans = [r \in Requests |-> "none"]

(* version = version + 1                                                   *)
NextVersion(v) == v + 1

Goto(r, place, answer) ==
  /\ pc' = [pc EXCEPT ![r] = place]
  /\ ans' = [ans EXCEPT ![r] = answer]

(* AddOutbox: the event carries the group as the request knows it.         *)
Tell(g, change, row, members) ==
  log' = [log EXCEPT ![g] = Append(@, [change |-> change, group |-> row, members |-> members])]
-----------------------------------------------------------------------------
CreateGroup(g) ==
  /\ group[g].version = 0
  /\ \E c \in Principals : AuthorizedFor(c, TenantOf[g])
  /\ group' = [group EXCEPT ![g] = [status |-> "active", version |-> 1]]
  /\ Tell(g, "created", group'[g], {})
  /\ UNCHANGED <<joined, active, pc, req, seen, ans>>

(* UpdateMembership gives a membership another status.                     *)
ToggleMembership(m) ==
  /\ active' = IF m \in active THEN active \ {m} ELSE active \cup {m}
  /\ UNCHANGED <<group, joined, log, pc, req, seen, ans>>
-----------------------------------------------------------------------------
(* UpdateGroup *)

UpdateRead(r) ==
  /\ pc[r] = "idle"
  /\ \E c \in Principals, q \in UpdateRequest :
       /\ group[q.group].version > 0 /\ AuthorizedFor(c, TenantOf[q.group])
       /\ q.version < MaxVersion /\ (OnlyShown => q.version <= group[q.group].version)
       /\ req' = [req EXCEPT ![r] = q]
       /\ seen' = [seen EXCEPT ![r].group = group[q.group]]
  /\ Goto(r, "update", "none")
  /\ UNCHANGED table

(* WHERE id = ? AND version = ? with the version the client sent.          *)
Expected(r) == group[req[r].group].version = req[r].version

(* The version the event tells: that of the row after the change.          *)
EventVersion_Sent(r) == req[r].version
EventVersion(r) == req[r].version + 1

CommitUpdate(r) ==
  /\ pc[r] = "update"
  /\ Expected(r) /\ group[req[r].group].version < MaxVersion
  /\ group' = [group EXCEPT ![req[r].group] = [status |-> req[r].status, version |-> NextVersion(@.version)]]
  /\ Tell(req[r].group, "updated", [status |-> req[r].status, version |-> EventVersion(r)], {})
  /\ \E a \in {"ok", "error"} : Goto(r, "reply", a)
  /\ UNCHANGED <<joined, active, req, seen>>
-----------------------------------------------------------------------------
(* AddGroupMember *)

AddReadGroup(r) ==
  /\ pc[r] = "idle"
  /\ \E c \in Principals, q \in AddRequest :
       /\ group[q.group].version > 0 /\ AuthorizedFor(c, TenantOf[q.group])
       /\ req' = [req EXCEPT ![r] = q]
       /\ seen' = [seen EXCEPT ![r].group = group[q.group]]
  /\ Goto(r, "membership", "none")
  /\ UNCHANGED table

(* group and membership must be active in the same tenant                  *)
Eligible_AnyTenant(r) == seen[r].group.status = "active" /\ req[r].member \in active
Eligible(r) ==
  /\ TenantOf[req[r].group] = TenantOf[req[r].member]
  /\ seen[r].group.status = "active"
  /\ req[r].member \in active

AddReadMembership(r) ==
  /\ pc[r] = "membership"
  /\ IF Eligible(r) THEN Goto(r, "existing", "none") ELSE Goto(r, "reply", "error")
  /\ UNCHANGED <<table, req, seen>>

(* A member that is already active is left alone.                          *)
AddReadExisting(r) ==
  /\ pc[r] = "existing"
  /\ seen' = [seen EXCEPT ![r].pair = joined[Pair(r)]]
  /\ IF joined[Pair(r)].status = "active" THEN Goto(r, "reply", "ok") ELSE Goto(r, "add", "none")
  /\ UNCHANGED <<table, req>>

(* No row yet and the unique key still free, or the row of a former member *)
(* still at the version that was read.                                     *)
PairUnmoved_Any(r) == TRUE
PairUnmoved(r) == joined[Pair(r)].version = seen[r].pair.version

CommitAdd(r) ==
  /\ pc[r] = "add"
  /\ PairUnmoved(r) /\ joined[Pair(r)].version < MaxJoined
  /\ joined' = [joined EXCEPT ![Pair(r)] = [status |-> "active", version |-> NextVersion(@.version)]]
  /\ Tell(req[r].group, "member_added", seen[r].group, {req[r].member})
  /\ \E a \in {"ok", "error"} : Goto(r, "reply", a)
  /\ UNCHANGED <<group, active, req, seen>>
-----------------------------------------------------------------------------
(* RemoveGroupMember *)

RemoveReadMember(r) ==
  /\ pc[r] = "idle"
  /\ \E c \in Principals, q \in RemoveRequest :
       LET row == joined[<<q.group, q.member>>]
       IN /\ row.version > 0 /\ AuthorizedFor(c, TenantOf[q.group])
          /\ q.version < MaxJoined /\ (OnlyShown => q.version <= row.version)
          /\ req' = [req EXCEPT ![r] = q]
          /\ seen' = [seen EXCEPT ![r].pair = row]
  /\ Goto(r, "group", "none")
  /\ UNCHANGED table

RemoveReadGroup(r) ==
  /\ pc[r] = "group"
  /\ seen' = [seen EXCEPT ![r].group = group[req[r].group]]
  /\ Goto(r, "remove", "none")
  /\ UNCHANGED <<table, req>>

CommitRemove(r) ==
  /\ pc[r] = "remove"
  /\ joined[Pair(r)].version = req[r].version /\ joined[Pair(r)].version < MaxJoined
  /\ joined' = [joined EXCEPT ![Pair(r)] = [status |-> "removed", version |-> NextVersion(@.version)]]
  /\ Tell(req[r].group, "member_removed", seen[r].group, {req[r].member})
  /\ \E a \in {"ok", "error"} : Goto(r, "reply", a)
  /\ UNCHANGED <<group, active, req, seen>>
-----------------------------------------------------------------------------
(* A statement or the commit fails, or the version or the unique key       *)
(* refuses: nothing of the transaction stays.                              *)
Fails(r) ==
  /\ pc[r] \notin {"idle", "reply"}
  /\ Goto(r, "reply", "error")
  /\ UNCHANGED <<table, req, seen>>

(* The client has its answer, or the replica died before it could send it. *)
End(r) ==
  /\ pc[r] # "idle"
  /\ pc' = [pc EXCEPT ![r] = "idle"]
  /\ req' = [req EXCEPT ![r] = NoRequest]
  /\ seen' = [seen EXCEPT ![r] = NothingSeen]
  /\ ans' = [ans EXCEPT ![r] = "none"]
  /\ UNCHANGED table

Serve(r) ==
  \/ UpdateRead(r) \/ CommitUpdate(r)
  \/ AddReadGroup(r) \/ AddReadMembership(r) \/ AddReadExisting(r) \/ CommitAdd(r)
  \/ RemoveReadMember(r) \/ RemoveReadGroup(r) \/ CommitRemove(r)
  \/ Fails(r) \/ End(r)

Next ==
  \/ \E g \in GroupIds : CreateGroup(g)
  \/ \E m \in Memberships : ToggleMembership(m)
  \/ \E r \in Requests : Serve(r)

Spec == Init /\ [][Next]_vars
-----------------------------------------------------------------------------
(* Every variable stays in its domain.                                     *)
TypeOK ==
  /\ group \in [GroupIds -> Row] /\ joined \in [Pairs -> Row]
  /\ active \subseteq Memberships
  /\ log \in [GroupIds -> Seq([change : {"created", "updated", "member_added", "member_removed"},
                               group : Row, members : SUBSET Memberships])]
  /\ pc \in [Requests -> {"idle", "update", "membership", "existing", "add", "group", "remove", "reply"}]
  /\ req \in [Requests -> UpdateRequest \cup AddRequest \cup RemoveRequest \cup {NoRequest}]
  /\ seen \in [Requests -> [group : Row, pair : Row]]
  /\ ans \in [Requests -> {"none", "ok", "error"}]

(* A row of group_members joins a group and a membership of one tenant,    *)
(* whoever adds, removes and adds again, and from however old a read.      *)
TenantsKeptApart ==
  \A p \in Pairs : joined[p].version > 0 => TenantOf[p[1]] = TenantOf[p[2]]

(* The places in the log of the events about a group and about a pair.     *)
ToldOf(g) == {n \in 1..Len(log[g]) : log[g][n].change \in {"created", "updated"}}
ToldOfPair(p) == {n \in 1..Len(log[p[1]]) : log[p[1]][n].members = {p[2]}}

(* The created and updated events of a group number its versions in order  *)
(* and without a gap, and the last of them tells the row.                  *)
GroupEventsTellRow ==
  \A g \in GroupIds :
    /\ {log[g][n].group.version : n \in ToldOf(g)} = 1..group[g].version
    /\ \A m, n \in ToldOf(g) : m < n => log[g][m].group.version < log[g][n].group.version
    /\ \A n \in ToldOf(g) : log[g][n].group.version = group[g].version => log[g][n].group = group[g]

(* For each pair there is one event per version of its row, and the last   *)
(* of them tells whether the member is in the group: a subscriber that     *)
(* applies member_added and member_removed in commit order ends with the   *)
(* table.  Nobody is added twice without having been removed in between.   *)
MemberEventsTellRow ==
  \A p \in Pairs :
    LET change(n) == log[p[1]][n].change
    IN /\ Cardinality(ToldOfPair(p)) = joined[p].version
       /\ \A m, n \in ToldOfPair(p) : m < n /\ change(m) = "member_added" /\ change(n) = "member_added"
            => \E k \in ToldOfPair(p) : m < k /\ k < n /\ change(k) = "member_removed"
       /\ \A n \in ToldOfPair(p) : (\A m \in ToldOfPair(p) : m <= n)
            => (joined[p].status = "active" <=> change(n) = "member_added")

(* The events of groups tell the rows, whatever versions clients send and  *)
(* however adds and removes race.                                          *)
GroupEventsTellRows == GroupEventsTellRow /\ MemberEventsTellRow
=============================================================================
