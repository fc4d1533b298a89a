-------------------------- MODULE OrganizationTree --------------------------
(***************************************************************************)
(* The organisation units of a tenant: a forest stored with a materialised *)
(* path (internal/tenant/service.go, CreateOrganizationUnit and            *)
(* UpdateOrganizationUnit, over the table organization_units).             *)
(*                                                                         *)
(* The table is one function per column.  A path such as "/a/b/" is the    *)
(* sequence <<a, b>> of the identifiers in it: identifiers are UUIDs, so   *)
(* they contain neither '/' nor a LIKE wildcard and a string prefix ending *)
(* in '/' is a sequence prefix.  Every read of the table, and every        *)
(* transaction, is one step; between two steps of one request any other    *)
(* request may run.                                                        *)
(*                                                                         *)
(* An operator D_Variant that stands before D is D with one mistake in it; *)
(* D_Variant in the place of D makes a property of this module fail.       *)
(***************************************************************************)
EXTENDS Integers, Sequences, Authorization, Locker

CONSTANTS
  Units,        \* identifiers, of the units stored and of those to come
  NoUnit,       \* the empty parent_id of a root
  Requests,     \* the requests being served at one time, by all replicas
  Principals,   \* the authenticated callers
  HasLocker,    \* a Redis locker is configured
  SlowHolders,  \* a request may outlive the 15 seconds of its lock
  MaxVersion    \* bound on the version of a row: at the bound, no more updates

ASSUME OrganizationAssumption ==
  /\ NoUnit \notin Units
  /\ NoHolder \notin Requests
  /\ Principals \subseteq Principal
  /\ HasLocker \in BOOLEAN
  /\ SlowHolders \in BOOLEAN
  /\ MaxVersion \in Nat \ {0}

VARIABLES
  rows,       \* the units in the table
  tenantOf,   \* tenant_id
  parentOf,   \* parent_id
  path,       \* path
  status,     \* status
  version,    \* version
  announced,  \* the latest OrganizationUnitChanged in the outbox, per unit
  lock,       \* the Redis key tenant:organization-tree:<tenant>
  pc,         \* where each request is
  req,        \* its input
  cur,        \* path and version of the unit as read under the lock
  par         \* the path read from the parent, <<>> for a root

table == <<rows, tenantOf, parentOf, path, status, version, announced>>
vars == <<table, lock, pc, req, cur, par>>

Statuses == {"active", "disabled"}
Parents == Units \cup {NoUnit}
Request == [caller : Principals, tenant : Tenants, unit : Parents,
            parent : Parents, status : Statuses, version : 0..MaxVersion]
NoRequest == [unit |-> NoUnit]
NoRow == [path |-> <<>>, version |-> 0]
NoEvent == [parent |-> NoUnit, path |-> <<>>, status |-> "disabled", version |-> 0]

Locking == {"current", "parent", "commit", "unlock"}   \* inside withOrganizationLock

Init ==
  /\ rows = {}
  /\ tenantOf = [u \in Units |-> NoTenant]
  /\ parentOf = [u \in Units |-> NoUnit]
  /\ path = [u \in Units |-> <<>>]
  /\ status = [u \in Units |-> "disabled"]
  /\ version = [u \in Units |-> 0]
  /\ announced = [u \in Units |-> NoEvent]
  /\ lock = [t \in Tenants |-> NoHolder]
  /\ pc = [r \in Requests |-> "idle"]
  /\ req = [r \in Requests |-> NoRequest]
  /\ cur = [r \in Requests |-> NoRow]
  /\ par = [r \in Requests |-> <<>>]

(* The request is over, whatever its answer.                               *)
End(r) ==
  /\ pc' = [pc EXCEPT ![r] = "idle"]
  /\ req' = [req EXCEPT ![r] = NoRequest]
  /\ cur' = [cur EXCEPT ![r] = NoRow]
  /\ par' = [par EXCEPT ![r] = <<>>]

(* The operation run under the lock has returned.                          *)
Leave(r) ==
  /\ pc' = [pc EXCEPT ![r] = "unlock"]
  /\ cur' = [cur EXCEPT ![r] = NoRow]
  /\ par' = [par EXCEPT ![r] = <<>>]
  /\ UNCHANGED req
-----------------------------------------------------------------------------
(* CreateOrganizationUnit *)

ActiveIn_AnyTenant(p, tenant) == p \in rows /\ status[p] = "active"
ActiveIn(p, tenant) == p \in rows /\ tenantOf[p] = tenant /\ status[p] = "active"

CreateReadParent_Unchecked(r) ==
  /\ pc[r] = "idle"
  /\ \E c \in Principals, t \in Tenants, p \in Parents :
       /\ p = NoUnit \/ ActiveIn(p, t)
       /\ req' = [req EXCEPT ![r] = [caller |-> c, tenant |-> t, unit |-> NoUnit,
                                     parent |-> p, status |-> "active", version |-> 0]]
       /\ par' = [par EXCEPT ![r] = IF p = NoUnit THEN <<>> ELSE path[p]]
  /\ pc' = [pc EXCEPT ![r] = "insert"]
  /\ UNCHANGED <<table, lock, cur>>

(* Up to the read of the parent: its path is kept for the insert.          *)
CreateReadParent(r) ==
  /\ pc[r] = "idle"
  /\ \E c \in Principals, t \in Tenants, p \in Parents :
       /\ AuthorizedFor(c, t)
       /\ p = NoUnit \/ ActiveIn(p, t)
       /\ req' = [req EXCEPT ![r] = [caller |-> c, tenant |-> t, unit |-> NoUnit,
                                     parent |-> p, status |-> "active", version |-> 0]]
       /\ par' = [par EXCEPT ![r] = IF p = NoUnit THEN <<>> ELSE path[p]]
  /\ pc' = [pc EXCEPT ![r] = "insert"]
  /\ UNCHANGED <<table, lock, cur>>

(* OrganizationUnitChanged, as newOutboxEvent stores it.                   *)
ChangedEvent_FixedStatus(parent, newPath, newStatus, v) ==
  [parent |-> parent, path |-> newPath, status |-> "active", version |-> v]
ChangedEvent(parent, newPath, newStatus, v) ==
  [parent |-> parent, path |-> newPath, status |-> newStatus, version |-> v]

(* The transaction: the row, under a new identifier, and its event.        *)
Insert(r) ==
  /\ pc[r] = "insert"
  /\ \E u \in Units \ rows :
       /\ rows' = rows \cup {u}
       /\ tenantOf' = [tenantOf EXCEPT ![u] = req[r].tenant]
       /\ parentOf' = [parentOf EXCEPT ![u] = req[r].parent]
       /\ path' = [path EXCEPT ![u] = Append(par[r], u)]
       /\ status' = [status EXCEPT ![u] = "active"]
       /\ version' = [version EXCEPT ![u] = 1]
       /\ announced' = [announced EXCEPT ![u] =
            ChangedEvent(req[r].parent, Append(par[r], u), "active", 1)]
  /\ End(r)
  /\ UNCHANGED lock
-----------------------------------------------------------------------------
(* UpdateOrganizationUnit *)

(* Up to the call of the operation: the unit is read for its tenant, the   *)
(* caller is checked against it, and withOrganizationLock gets the lock.   *)
(* The tenant of a unit never changes, so the wait for the lock needs no   *)
(* state of its own; a request that does not get it has no effect.         *)
UpdateStart(r) ==
  /\ pc[r] = "idle"
  /\ \E c \in Principals, u \in rows, p \in Parents, s \in Statuses, v \in 1..MaxVersion :
       /\ AuthorizedFor(c, tenantOf[u]) /\ v < MaxVersion
       /\ req' = [req EXCEPT ![r] = [caller |-> c, tenant |-> tenantOf[u], unit |-> u,
                                     parent |-> p, status |-> s, version |-> v]]
       /\ IF HasLocker
          THEN LockFree(lock, tenantOf[u]) /\ lock' = Locked(lock, tenantOf[u], r)
          ELSE UNCHANGED lock
  /\ pc' = [pc EXCEPT ![r] = "current"]
  /\ UNCHANGED <<table, cur, par>>

(* The unit is read again under the lock; its version must be the one the  *)
(* client sent.                                                            *)
ReadCurrent(r) ==
  /\ pc[r] = "current"
  /\ version[req[r].unit] = req[r].version
  /\ cur' = [cur EXCEPT ![r] = [path |-> path[req[r].unit], version |-> version[req[r].unit]]]
  /\ pc' = [pc EXCEPT ![r] = "parent"]
  /\ UNCHANGED <<table, lock, req, par>>

(* path LIKE CONCAT(prefix, '%'), and strings.HasPrefix.                   *)
IsPrefix(prefix, p) == Len(prefix) <= Len(p) /\ SubSeq(p, 1, Len(prefix)) = prefix

(* The new parent is neither the unit that moves nor below it.             *)
Outside_NotSelf(p, u, old) == p # u
Outside(p, u, old) == p # u /\ ~ IsPrefix(old, path[p])

(* The new parent is read: active in the same tenant, and outside.         *)
ReadParent(r) ==
  /\ pc[r] = "parent"
  /\ LET p == req[r].parent IN
       /\ \/ p = NoUnit
          \/ /\ ActiveIn(p, req[r].tenant)
             /\ Outside(p, req[r].unit, cur[r].path)
       /\ par' = [par EXCEPT ![r] = IF p = NoUnit THEN <<>> ELSE path[p]]
  /\ pc' = [pc EXCEPT ![r] = "commit"]
  /\ UNCHANGED <<table, lock, req, cur>>

(* The rows of the statement descendantMoveSQL: those of the tenant whose  *)
(* path starts with the old path of the unit.                              *)
Descendants_None(u, old) == {}
Descendants(u, old) ==
  {d \in rows \ {u} : tenantOf[d] = tenantOf[u] /\ IsPrefix(old, path[d])}

(* CONCAT(new, SUBSTRING(path, Len(old) + 1)) *)
Rebased_OffByOne(old, new, p) == new \o SubSeq(p, Len(old) + 2, Len(p))
Rebased(old, new, p) == new \o SubSeq(p, Len(old) + 1, Len(p))

(* SET version = version + 1, in the statement on the unit and in the one  *)
(* on its descendants.                                                     *)
Bumped_UnitOnly(u, moved) == {u}
Bumped(u, moved) == moved \cup {u}
NextVersion(v) == v + 1

(* The transaction: the unit under compare-and-set on its version, its     *)
(* descendants when its path changes, and the event.                       *)
CommitUpdate(r) ==
  /\ pc[r] = "commit"
  /\ LET u == req[r].unit
         old == cur[r].path
         new == Append(par[r], u)
         moved == IF new = old THEN {} ELSE Descendants(u, old)
     IN /\ version[u] = cur[r].version
        /\ \A d \in Bumped(u, moved) : version[d] < MaxVersion
        /\ parentOf' = [parentOf EXCEPT ![u] = req[r].parent]
        /\ status' = [status EXCEPT ![u] = req[r].status]
        /\ path' = [d \in Units |-> IF d = u THEN new
                                    ELSE IF d \in moved THEN Rebased(old, new, path[d])
                                    ELSE path[d]]
        /\ version' = [d \in Units |-> IF d \in Bumped(u, moved) THEN NextVersion(version[d])
                                       ELSE version[d]]
        /\ announced' = [announced EXCEPT ![u] =
             ChangedEvent(req[r].parent, new, req[r].status, cur[r].version)]
  /\ UNCHANGED <<rows, tenantOf, lock>>
  /\ Leave(r)

(* An early return of the operation: a stale version, a missing or unfit   *)
(* parent, a failed statement.                                             *)
Reject(r) ==
  /\ pc[r] \in {"current", "parent", "commit"}
  /\ Leave(r)
  /\ UNCHANGED <<table, lock>>

(* The end of withOrganizationLock.  A lock lost meanwhile turns the       *)
(* answer into an error; what was committed stays.                         *)
Unlock(r) ==
  /\ pc[r] = "unlock"
  /\ lock' = Unlocked(lock, req[r].tenant, r)
  /\ End(r)
  /\ UNCHANGED table
-----------------------------------------------------------------------------
(* The insert fails, or the replica dies before it.                        *)
InsertFails(r) ==
  /\ pc[r] = "insert"
  /\ End(r)
  /\ UNCHANGED <<table, lock>>

(* The replica dies, or Redis does not answer Unlock: the key stays.       *)
Crash(r) ==
  /\ pc[r] \in Locking
  /\ End(r)
  /\ UNCHANGED <<table, lock>>

(* The time to live of a key passes, for a holder that is gone or, with    *)
(* SlowHolders, for one still at work: nothing calls Extend.               *)
Expire(t) ==
  /\ ~ LockFree(lock, t)
  /\ \/ SlowHolders
     \/ LET h == lock[t] IN ~ (pc[h] \in Locking /\ req[h].tenant = t)
  /\ lock' = Lapsed(lock, t)
  /\ UNCHANGED <<table, pc, req, cur, par>>

Serve(r) ==
  \/ ReadCurrent(r) \/ ReadParent(r) \/ CommitUpdate(r)
  \/ Reject(r) \/ Unlock(r) \/ Insert(r) \/ InsertFails(r)

Next ==
  \/ \E r \in Requests :
       CreateReadParent(r) \/ UpdateStart(r) \/ Serve(r) \/ Crash(r)
  \/ \E t \in Tenants : Expire(t)

Spec == Init /\ [][Next]_vars
-----------------------------------------------------------------------------
ParentPath(p) == IF p = NoUnit THEN <<>> ELSE path[p]

(* The behaviours in which the parent does not move between the read of    *)
(* CreateOrganizationUnit, which takes no lock, and its insert.            *)
FreshInsert(r) == Insert(r) /\ par[r] = ParentPath(req[r].parent)

SerialNext ==
  \/ \E r \in Requests :
       \/ CreateReadParent(r) \/ UpdateStart(r) \/ ReadCurrent(r) \/ ReadParent(r) \/ CommitUpdate(r)
       \/ Reject(r) \/ Unlock(r) \/ FreshInsert(r) \/ InsertFails(r) \/ Crash(r)
  \/ \E t \in Tenants : Expire(t)

SerialSpec == Init /\ [][SerialNext]_vars

(* A replica keeps serving the requests it took, and Redis keeps time.     *)
Fairness ==
  /\ \A r \in Requests : WF_vars(Serve(r))
  /\ \A t \in Tenants : WF_vars(Expire(t))

FairSpec == Spec /\ Fairness
-----------------------------------------------------------------------------
(* Every variable stays in its domain.                                     *)
TypeOK ==
  /\ rows \subseteq Units
  /\ tenantOf \in [Units -> Tenants \cup {NoTenant}]
  /\ parentOf \in [Units -> Parents]
  /\ path \in [Units -> Seq(Units)]
  /\ status \in [Units -> Statuses]
  /\ version \in [Units -> 0..MaxVersion]
  /\ announced \in [Units -> [parent : Parents, path : Seq(Units),
                               status : Statuses, version : 0..MaxVersion]]
  /\ lock \in [Tenants -> Requests \cup {NoHolder}]
  /\ pc \in [Requests -> Locking \cup {"idle", "insert"}]
  /\ req \in [Requests -> Request \cup {NoRequest}]
  /\ cur \in [Requests -> [path : Seq(Units), version : 0..MaxVersion]]
  /\ par \in [Requests -> Seq(Units)]

(* The parent of a unit is a unit of the same tenant: the tenant check on  *)
(* the parent, made outside the transaction, cannot go stale.              *)
ParentsInTenant ==
  \A u \in rows : parentOf[u] # NoUnit =>
    parentOf[u] \in rows /\ tenantOf[parentOf[u]] = tenantOf[u]

(* The stored path of a unit is the path of its parent followed by its own *)
(* identifier, as CreateOrganizationUnit and UpdateOrganizationUnit mean   *)
(* to keep it.                                                             *)
PathsMatchParents ==
  \A u \in rows : path[u] = Append(ParentPath(parentOf[u]), u)

(* Following parent_id never leads back: a non-empty set of units always   *)
(* has a member whose parent is outside.  UpdateOrganizationUnit refuses   *)
(* to move a unit below itself.                                            *)
NoCycle ==
  \A S \in SUBSET rows : S # {} => \E u \in S : parentOf[u] \notin S

(* ResolveOrganizationScope for a membership whose primary unit is u.      *)
PathScope(u) ==
  {v \in rows : tenantOf[v] = tenantOf[u] /\ IsPrefix(path[u], path[v]) /\ status[v] = "active"}

(* The unit and all units below it, by parent_id alone: the least set that *)
(* has the unit and the children of its members.                           *)
Subtree(u) ==
  {v \in rows : \A S \in SUBSET rows :
     u \in S /\ (\A w \in rows : parentOf[w] \in S => w \in S) => v \in S}

(* The prefix query of ResolveOrganizationScope returns the active units   *)
(* of the subtree, and nothing else.                                       *)
ScopeIsActiveSubtree ==
  \A u \in rows : PathScope(u) = {v \in Subtree(u) : status[v] = "active"}

(* The optimistic lock covers the path: a row whose version is still the   *)
(* one a request read still has the path it read, so the descendants it is *)
(* about to rewrite are selected by the right prefix.  A move bumps the    *)
(* version of every descendant for this.                                   *)
VersionCoversPath ==
  \A r \in Requests :
    pc[r] \in {"parent", "commit"} /\ version[req[r].unit] = cur[r].version
      => path[req[r].unit] = cur[r].path

(* The outbox and the table are written together: the latest event of a    *)
(* unit carries the parent and the status of its row.                      *)
EventsTrackRows ==
  \A u \in rows : announced[u].parent = parentOf[u] /\ announced[u].status = status[u]

(* withOrganizationLock keeps the updates of one tenant apart, as long as  *)
(* no holder outlives its lock.                                            *)
OneHolder ==
  \A r, s \in Requests :
    pc[r] \in Locking /\ pc[s] \in Locking /\ req[r].tenant = req[s].tenant => r = s

Row(u) == <<tenantOf[u], parentOf[u], path[u], status[u], version[u]>>

(* A row is written only by a request of a caller authorised for its       *)
(* tenant, the descendants an update rewrites included.                    *)
WritesStayInTenant ==
  [][\A u \in Units : Row(u)' # Row(u) =>
       \E r \in Requests : /\ pc[r] \in {"insert", "commit"} /\ pc'[r] # pc[r]
                           /\ AuthorizedFor(req[r].caller, tenantOf'[u])]_vars

(* The lock of a tenant is free again and again: neither an early return   *)
(* nor the death of a holder blocks the tree for good.                     *)
LockComesFree == \A t \in Tenants : []<>(LockFree(lock, t))
=============================================================================
