------------------------------ MODULE Listing -------------------------------
(***************************************************************************)
(* Reading lists while others write. A reader walks the pages of one of    *)
(* the six paged lists, or asks for a batch of rows by identifier; between *)
(* its statements rows are added and change their status.                  *)
(*                                                                         *)
(* rows is the table in the order of the list's ORDER BY. A new row may    *)
(* come anywhere in it: most lists are ordered by a time the writing       *)
(* replica took before its commit, quotas by their key. No operation       *)
(* deletes a row. The reader is a caller of the service, who asks for page *)
(* after page until one is not full. The total that every page carries is  *)
(* counted by a statement before the page is read; nothing depends on it.  *)
(*                                                                         *)
(* An operator D_Variant that stands before D is D with one mistake in it. *)
(***************************************************************************)
EXTENDS Integers, Sequences, SequencesExt, FiniteSets

CONSTANTS
  Ids,           \* of the rows
  Tables,        \* the tables the reader may find
  Asks,          \* the requests: kind, tenant, status, keyword, size, ids
  DefaultSize,   \* 20
  MaxPageSize,   \* 100
  MaxBatch,      \* 100
  MaxMoves       \* bound: the rows that enter or leave the list during a walk

VARIABLES
  rows,      \* the table: id, tenant, status, hit (the keyword matches)
  ask,       \* the reader's request
  step,      \* ask, select, done or refused
  page,      \* the page it is about to read
  seen,      \* the rows of all pages, or of the batch
  repeated,  \* how often a page had a row of an earlier one
  present,   \* the rows that were in the list when it began and stayed in it
  left,      \* how often a row left the list since
  entered    \* how often a row entered the list since

vars == <<rows, ask, step, page, seen, repeated, present, left, entered>>

Home == "t1"   \* the tenant the reader is bound to
Me == "t1"     \* as a user, in the list of a user's tenants

Init ==
  /\ rows \in Tables
  /\ ask \in Asks
  /\ step = "ask" /\ page = 1 /\ seen = {} /\ repeated = 0
  /\ present = {} /\ left = 0 /\ entered = 0
-----------------------------------------------------------------------------
(* The WHERE clauses. For the tenants of a user, tenant names the user of  *)
(* the membership and the status that of both rows of the join.            *)

UserTenantRow(r) == r.tenant = ask.tenant /\ r.status = "active"
MembershipRow(r) == r.tenant = ask.tenant /\ (ask.status # "" => r.status = ask.status)
TenantRow(r) == (ask.status # "" => r.status = ask.status) /\ (ask.keyword => r.hit)
InvitationRow(r) == r.tenant = ask.tenant
QuotaRow(r) == r.tenant = ask.tenant /\ (ask.keyword => r.hit)
GroupRow_AnyTenant(r) == (ask.status # "" => r.status = ask.status) /\ (ask.keyword => r.hit)
GroupRow(r) ==
  r.tenant = ask.tenant /\ (ask.status # "" => r.status = ask.status) /\ (ask.keyword => r.hit)

Selected(r) ==
  CASE ask.kind = "ListUserTenants" -> UserTenantRow(r)
    [] ask.kind = "ListMemberships" -> MembershipRow(r)
    [] ask.kind = "ListTenants" -> TenantRow(r)
    [] ask.kind = "ListInvitations" -> InvitationRow(r)
    [] ask.kind = "ListQuotas" -> QuotaRow(r)
    [] OTHER -> GroupRow(r)

List == SelectSeq(rows, Selected)
IdsOf(list) == {list[i].id : i \in DOMAIN list}
-----------------------------------------------------------------------------
(* The checks of the service. Only the platform lists tenants; a user      *)
(* lists the tenants of nobody else; the rest belongs to one tenant.       *)

ListUserTenantsAllowed == ask.tenant = Me
ListTenantsAllowed == ask.admin
authorizeTenant == ask.tenant = Home

Allowed ==
  CASE ask.kind = "ListUserTenants" -> ListUserTenantsAllowed
    [] ask.kind = "ListTenants" -> ListTenantsAllowed
    [] OTHER -> authorizeTenant

PageSize == IF ask.size <= 0 THEN DefaultSize ELSE ask.size
Paged == ask.kind \in {"ListUserTenants", "ListMemberships", "ListTenants", "ListInvitations", "ListQuotas", "SearchGroups"}

Refuse ==
  /\ step = "ask" /\ Paged /\ (~Allowed \/ PageSize > MaxPageSize)
  /\ step' = "refused"
  /\ UNCHANGED <<rows, ask, page, seen, repeated, present, left, entered>>

Begin ==
  /\ step = "ask" /\ Paged /\ Allowed /\ PageSize <= MaxPageSize
  /\ present' = IdsOf(List) /\ step' = "select"
  /\ UNCHANGED <<rows, ask, page, seen, repeated, left, entered>>

Offset_None == 0
Offset_Late == (page - 1) * PageSize + 1
Offset == (page - 1) * PageSize

Select ==
  /\ step = "select"
  /\ LET items == SubSeq(List, Offset + 1, IF Offset + PageSize < Len(List) THEN Offset + PageSize ELSE Len(List)) IN
       /\ seen' = seen \cup IdsOf(items)
       /\ repeated' = repeated + Cardinality(seen \cap IdsOf(items))
       /\ IF Len(items) < PageSize THEN step' = "done" /\ UNCHANGED page
          ELSE step' = "select" /\ page' = page + 1
  /\ UNCHANGED <<rows, ask, present, left, entered>>
-----------------------------------------------------------------------------
(* The batch reads: identifiers are taken once each, and counted after.    *)

TooMany_Raw(ids) == Len(ids) > MaxBatch
TooMany(ids) == Cardinality(ToSet(ids)) > MaxBatch

BatchGetMembershipsAnswer == SelectSeq(rows, LAMBDA r : r.tenant = ask.tenant /\ r.id \in ToSet(ask.ids))
BatchGetOrganizationUnitsAnswer == BatchGetMembershipsAnswer
FindMembershipsByUserIDsAnswer ==
  SelectSeq(rows, LAMBDA r : r.tenant = ask.tenant /\ r.id \in ToSet(ask.ids) /\ (ask.status # "" => r.status = ask.status))
BatchGetGroupMembersAnswer == BatchGetMembershipsAnswer

BatchGet ==
  /\ step = "ask" /\ ~Paged
  /\ IF ~authorizeTenant \/ "" \in ToSet(ask.ids) \/ TooMany(ask.ids)
     THEN step' = "refused" /\ UNCHANGED seen
     ELSE /\ step' = "done"
          /\ seen' = IdsOf(CASE ask.kind = "BatchGetMemberships" -> BatchGetMembershipsAnswer
                             [] ask.kind = "BatchGetOrganizationUnits" -> BatchGetOrganizationUnitsAnswer
                             [] ask.kind = "BatchGetGroupMembers" -> BatchGetGroupMembersAnswer
                             [] OTHER -> FindMembershipsByUserIDsAnswer)
  /\ UNCHANGED <<rows, ask, page, repeated, present, left, entered>>
-----------------------------------------------------------------------------
(* The writers: every create, and every update of a status.                *)

Walking == step = "select" /\ left + entered < MaxMoves
Moved(from, to) == IF from > to THEN 1 ELSE 0

Insert(id, t) ==
  /\ Walking /\ id \notin IdsOf(rows)
  /\ UNCHANGED <<ask, step, page, seen, repeated, present, left>>
  /\ \E i \in 1..(Len(rows) + 1) :
       rows' = InsertAt(rows, i, [id |-> id, tenant |-> t, status |-> "active", hit |-> TRUE])
  /\ entered' = entered + Moved(Len(List'), Len(List))

Update(i) ==
  /\ Walking
  /\ UNCHANGED <<ask, step, page, seen, repeated>>
  /\ rows' = [rows EXCEPT ![i].status = IF @ = "active" THEN "disabled" ELSE "active"]
  /\ present' = present \cap IdsOf(List')
  /\ left' = left + Moved(Len(List), Len(List'))
  /\ entered' = entered + Moved(Len(List'), Len(List))

Ended == step \in {"done", "refused"} /\ UNCHANGED vars

Next ==
  \/ Refuse \/ Begin \/ Select \/ BatchGet \/ Ended
  \/ \E id \in Ids, t \in {"t1", "t2"} : Insert(id, t)
  \/ \E i \in DOMAIN rows : Update(i)

Spec == Init /\ [][Next]_vars
-----------------------------------------------------------------------------
(* A reader that walks to the end misses no more of the rows that were in  *)
(* the list all the while than rows left it: a row that leaves moves one   *)
(* other to a page already read, an added row moves others to later pages  *)
(* only. While none leaves, nothing that stayed is missed.                 *)
SkippedAreFew == step = "done" /\ Paged => Cardinality(present \ seen) <= left

(* A page repeats no more rows of earlier ones than rows entered the list, *)
(* whatever leaves it.                                                     *)
RepeatedAreFew == repeated <= entered

(* No list and no batch shows a row of another tenant than the reader's;   *)
(* only the platform's list of tenants is not bound to one.                *)
OwnRowsOnly ==
  ask.kind # "ListTenants" => \A i \in DOMAIN rows : rows[i].id \in seen => rows[i].tenant = Home

(* A batch that repeats identifiers is answered like one that does not: it *)
(* is refused only for more distinct identifiers than allowed, or an empty *)
(* one, and its answer has every row of the tenant that was asked for.     *)
BatchExact ==
  ~Paged /\ ask.tenant = Home /\ ask.status = "" =>
    /\ step = "refused" => "" \in ToSet(ask.ids) \/ Cardinality(ToSet(ask.ids)) > MaxBatch
    /\ step = "done" => seen = {id \in ToSet(ask.ids) : \E i \in DOMAIN rows : rows[i].id = id /\ rows[i].tenant = Home}
=============================================================================
