---------------------------- MODULE Invitations ----------------------------
(***************************************************************************)
(* Invitations and the memberships they make: CreateInvitation,            *)
(* AcceptInvitation and RevokeInvitation of                                *)
(* internal/tenant/collaboration_service.go, beside AddMembership of       *)
(* service.go, which inserts in the same table.                            *)
(*                                                                         *)
(* AcceptInvitation holds the Redis lock of the token, which may lapse;    *)
(* RevokeInvitation takes no lock.  Both read the row first and commit     *)
(* under compare-and-set, the one with the version it read, the other with *)
(* the version the client sent.                                            *)
(*                                                                         *)
(* An operator D_Variant that stands before D is D with one mistake in it; *)
(* D_Variant in the place of D makes a property of this module fail.       *)
(***************************************************************************)
EXTENDS Integers, Sequences, Authorization, Locker

CONSTANTS
  Invitations, NoInvitation,
  Users, NoUser,
  Requests,     \* the accepts and revokes being served at one time
  Principals,   \* the authenticated callers
  HasLocker,    \* a Redis locker is configured
  OnlyShown,    \* clients send no version that no row had yet
  MaxVersion    \* bound on the version of a row: at the bound, no more updates

ASSUME InvitationsAssumption ==
  /\ NoInvitation \notin Invitations /\ NoUser \notin Users
  /\ NoHolder \notin Requests
  /\ Principals \subseteq Principal
  /\ HasLocker \in BOOLEAN /\ OnlyShown \in BOOLEAN
  /\ MaxVersion \in Nat \ {0}

VARIABLES
  status, tenantOf, acceptedBy, version,  \* the row of each invitation; version 0 for no row
  late,       \* the invitations whose expires_at has passed
  told,       \* the invitations whose token reached the client: only its hash is stored
  members,    \* the memberships, unique by tenant and user
  joinedBy,   \* the invitation that made a membership, for the properties
  log,        \* the InvitationChanged events in the outbox, in commit order
  lock,       \* the Redis key tenant:invitation:<hash of the token>
  pc, req,    \* where each request is, and its input
  cur,        \* the row it read
  ans         \* its answer

table == <<status, tenantOf, acceptedBy, version, late, told, members, joinedBy, log>>
vars == <<table, lock, pc, req, cur, ans>>

Request == [op : {"accept"}, inv : Invitations, user : Users, version : {0}]
           \cup [op : {"revoke"}, inv : Invitations, user : {NoUser}, version : 1..MaxVersion]
NoRequest == [op |-> "none"]
NoRow == [status |-> "none", by |-> NoUser, version |-> 0]
Event == [status : {"pending", "accepted", "revoked"}, by : Users \cup {NoUser}, version : 1..MaxVersion]

Row(i) == [status |-> status[i], by |-> acceptedBy[i], version |-> version[i]]

Init ==
  /\ status = [i \in Invitations |-> "none"]
  /\ tenantOf = [i \in Invitations |-> NoTenant]
  /\ acceptedBy = [i \in Invitations |-> NoUser]
  /\ version = [i \in Invitations |-> 0]
  /\ late = {} /\ told = {}
  /\ members = {}
  /\ joinedBy = [m \in Tenants \X Users |-> NoInvitation]
  /\ log = [i \in Invitations |-> <<>>]
  /\ lock = [i \in Invitations |-> NoHolder]
  /\ pc = [r \in Requests |-> "idle"]
  /\ req = [r \in Requests |-> NoRequest]
  /\ cur = [r \in Requests |-> NoRow]
  /\ ans = [r \in Requests |-> "none"]

(* The request goes on to the given place with the given answer in hand.   *)
Goto(r, place, answer) ==
  /\ pc' = [pc EXCEPT ![r] = place]
  /\ ans' = [ans EXCEPT ![r] = answer]

(* UpdateInvitation and AddOutbox in one transaction: the new status, user *)
(* and version of the row, and the event told of it.                       *)
Store(i, s, u, v) ==
  /\ status' = [status EXCEPT ![i] = s]
  /\ acceptedBy' = [acceptedBy EXCEPT ![i] = u]
  /\ version' = [version EXCEPT ![i] = version[i] + 1]
  /\ log' = [log EXCEPT ![i] = Append(log[i], [status |-> s, by |-> u, version |-> v])]
-----------------------------------------------------------------------------
(* The version the event of a new row tells.                               *)
FirstVersion == 1

(* CreateInvitation.  The tenant it looks up is never deleted, so it is    *)
(* one step.  Without the answer the token is lost.                        *)
CreateInvitation(i) ==
  /\ version[i] = 0
  /\ \E c \in Principals, t \in Tenants :
       /\ AuthorizedFor(c, t)
       /\ tenantOf' = [tenantOf EXCEPT ![i] = t]
  /\ Store(i, "pending", NoUser, FirstVersion)
  /\ told' \in {told, told \cup {i}}
  /\ UNCHANGED <<late, members, joinedBy, lock, pc, req, cur, ans>>

(* AddMembership: the unique key refuses a second membership.              *)
AddMembership(t, u) ==
  /\ \E c \in Principals : AuthorizedFor(c, t)
  /\ <<t, u>> \notin members
  /\ members' = members \cup {<<t, u>>}
  /\ UNCHANGED <<status, tenantOf, acceptedBy, version, late, told, joinedBy, log, lock, pc, req, cur, ans>>

(* Time passes expires_at.                                                 *)
PassExpiry(i) ==
  /\ version[i] > 0 /\ i \notin late
  /\ late' = late \cup {i}
  /\ UNCHANGED <<status, tenantOf, acceptedBy, version, told, members, joinedBy, log, lock, pc, req, cur, ans>>
-----------------------------------------------------------------------------
(* AcceptInvitation *)

(* A user accepts for itself, a service for anyone.                        *)
AcceptStart(r) ==
  /\ pc[r] = "idle"
  /\ \E i \in told, u \in Users :
       /\ req' = [req EXCEPT ![r] = [op |-> "accept", inv |-> i, user |-> u, version |-> 0]]
       /\ IF HasLocker THEN LockFree(lock, i) /\ lock' = Locked(lock, i, r) ELSE UNCHANGED lock
  /\ Goto(r, "read", "none")
  /\ UNCHANGED <<table, cur>>

AcceptRead(r) ==
  /\ pc[r] = "read"
  /\ LET i == req[r].inv
     IN /\ cur' = [cur EXCEPT ![r] = Row(i)]
        /\ IF status[i] = "pending" /\ i \notin late
           THEN Goto(r, "accept", "none")
           ELSE Goto(r, "unlock", "error")
  /\ UNCHANGED <<table, lock, req>>

(* The row still has the version that was read.                            *)
Unmoved_Any(r) == TRUE
Unmoved(r) == version[req[r].inv] = cur[r].version

(* CreateMembership in the same transaction.                               *)
Join(t, u, i) ==
  /\ <<t, u>> \notin members
  /\ members' = members \cup {<<t, u>>}
  /\ joinedBy' = [joinedBy EXCEPT ![<<t, u>>] = i]

(* The answer is an error when the commit's acknowledgement or the read    *)
(* after it fails.                                                         *)
CommitAccept(r) ==
  /\ pc[r] = "accept"
  /\ Unmoved(r)
  /\ version[req[r].inv] < MaxVersion
  /\ Store(req[r].inv, "accepted", req[r].user, cur[r].version + 1)
  /\ Join(tenantOf[req[r].inv], req[r].user, req[r].inv)
  /\ \E a \in {"ok", "error"} : Goto(r, "unlock", a)
  /\ UNCHANGED <<tenantOf, late, told, lock, req, cur>>

(* The version or the unique key refuses, or the database fails: nothing   *)
(* of the transaction stays.                                               *)
AcceptFails(r) ==
  /\ pc[r] \in {"read", "accept"}
  /\ Goto(r, "unlock", "error")
  /\ UNCHANGED <<table, lock, req, cur>>

(* withResourceLock joins the error of Unlock to that of the operation.    *)
Unlock(r) ==
  /\ pc[r] = "unlock"
  /\ lock' = Unlocked(lock, req[r].inv, r)
  /\ Goto(r, "reply", IF HasLocker /\ lock[req[r].inv] # r THEN "error" ELSE ans[r])
  /\ UNCHANGED <<table, req, cur>>

UnlockFails(r) ==
  /\ HasLocker /\ pc[r] = "unlock"
  /\ Goto(r, "reply", "error")
  /\ UNCHANGED <<table, lock, req, cur>>
-----------------------------------------------------------------------------
(* RevokeInvitation *)

RevokeRead(r) ==
  /\ pc[r] = "idle"
  /\ \E c \in Principals, i \in Invitations, v \in 1..MaxVersion :
       /\ version[i] > 0 /\ AuthorizedFor(c, tenantOf[i])
       /\ v < MaxVersion /\ (OnlyShown => v <= version[i])
       /\ req' = [req EXCEPT ![r] = [op |-> "revoke", inv |-> i, user |-> NoUser, version |-> v]]
       /\ cur' = [cur EXCEPT ![r] = Row(i)]
       /\ IF status[i] = "pending" THEN Goto(r, "revoke", "none") ELSE Goto(r, "reply", "error")
  /\ UNCHANGED <<table, lock>>

(* The row has the version the client sent.                                *)
Expected_Any(r) == TRUE
Expected(r) == version[req[r].inv] = req[r].version

(* The event is made before the transaction, from the client's version.    *)
RevokedVersion_Same(r) == req[r].version
RevokedVersion(r) == req[r].version + 1

CommitRevoke(r) ==
  /\ pc[r] = "revoke"
  /\ Expected(r)
  /\ version[req[r].inv] < MaxVersion
  /\ Store(req[r].inv, "revoked", cur[r].by, RevokedVersion(r))
  /\ \E a \in {"ok", "error"} : Goto(r, "reply", a)
  /\ UNCHANGED <<tenantOf, late, told, members, joinedBy, lock, req, cur>>

RevokeFails_Unnoticed(r) ==
  /\ pc[r] = "revoke"
  /\ Goto(r, "reply", "ok")
  /\ UNCHANGED <<table, lock, req, cur>>
RevokeFails(r) ==
  /\ pc[r] = "revoke"
  /\ Goto(r, "reply", "error")
  /\ UNCHANGED <<table, lock, req, cur>>
-----------------------------------------------------------------------------
End(r) ==
  /\ pc' = [pc EXCEPT ![r] = "idle"]
  /\ req' = [req EXCEPT ![r] = NoRequest]
  /\ cur' = [cur EXCEPT ![r] = NoRow]
  /\ ans' = [ans EXCEPT ![r] = "none"]
  /\ UNCHANGED <<table, lock>>

Reply(r) == pc[r] = "reply" /\ End(r)

(* The replica dies, or the client gives up: nobody gets the answer.       *)
Crash(r) == pc[r] \notin {"idle", "reply"} /\ End(r)

(* The time to live of a lock passes, whoever holds it.                    *)
Expire(i) ==
  /\ ~ LockFree(lock, i)
  /\ lock' = Lapsed(lock, i)
  /\ UNCHANGED <<table, pc, req, cur, ans>>

Serve(r) ==
  \/ AcceptRead(r) \/ CommitAccept(r) \/ AcceptFails(r) \/ Unlock(r) \/ UnlockFails(r)
  \/ CommitRevoke(r) \/ RevokeFails(r) \/ Reply(r)

Next ==
  \/ \E i \in Invitations : CreateInvitation(i) \/ PassExpiry(i) \/ Expire(i)
  \/ \E t \in Tenants, u \in Users : AddMembership(t, u)
  \/ \E r \in Requests : AcceptStart(r) \/ RevokeRead(r) \/ Serve(r) \/ Crash(r)

Spec == Init /\ [][Next]_vars
-----------------------------------------------------------------------------
(* Every variable stays in its domain.                                     *)
TypeOK ==
  /\ status \in [Invitations -> {"none", "pending", "accepted", "revoked"}]
  /\ tenantOf \in [Invitations -> Tenants \cup {NoTenant}]
  /\ acceptedBy \in [Invitations -> Users \cup {NoUser}]
  /\ version \in [Invitations -> 0..MaxVersion]
  /\ late \subseteq Invitations /\ told \subseteq Invitations
  /\ members \subseteq Tenants \X Users
  /\ joinedBy \in [Tenants \X Users -> Invitations \cup {NoInvitation}]
  /\ log \in [Invitations -> Seq(Event)]
  /\ lock \in [Invitations -> Requests \cup {NoHolder}]
  /\ pc \in [Requests -> {"idle", "read", "accept", "unlock", "revoke", "reply"}]
  /\ req \in [Requests -> Request \cup {NoRequest}]
  /\ cur \in [Requests -> [status : {"none", "pending", "accepted", "revoked"},
                           by : Users \cup {NoUser}, version : 0..MaxVersion]]
  /\ ans \in [Requests -> {"none", "ok", "error"}]

(* An accepted invitation and the membership it made stand or fall         *)
(* together: the invitation is accepted for the user if and only if the    *)
(* user's membership of its tenant came from it.  So one token makes one   *)
(* member, whichever requests race and whether or not the lock holds.      *)
AcceptedIffJoined ==
  \A t \in Tenants, u \in Users, i \in Invitations :
    (joinedBy[<<t, u>>] = i /\ <<t, u>> \in members)
      <=> (status[i] = "accepted" /\ acceptedBy[i] = u /\ tenantOf[i] = t)

(* Acceptance and revocation are final: RevokeInvitation says "only        *)
(* pending invitations can be revoked", AcceptInvitation "invitation is no *)
(* longer valid".                                                          *)
EndIsFinal ==
  [][\A i \in Invitations : status[i] \in {"accepted", "revoked"} =>
       status'[i] = status[i] /\ acceptedBy'[i] = acceptedBy[i]]_vars

(* The events of an invitation number its versions without a gap and the   *)
(* last one tells the row as it is.                                        *)
EventsTellRow ==
  \A i \in Invitations :
    /\ Len(log[i]) = version[i]
    /\ \A n \in 1..Len(log[i]) : log[i][n].version = n
    /\ version[i] > 0 => log[i][version[i]] = Row(i)

(* What the client is told stays true: "ok" of an acceptance means the     *)
(* user has the membership of that invitation, "ok" of a revocation that   *)
(* the invitation is and stays revoked.                                    *)
AnswersHold ==
  \A r \in Requests : pc[r] = "reply" /\ ans[r] = "ok" =>
    LET i == req[r].inv
    IN IF req[r].op = "accept" THEN joinedBy[<<tenantOf[i], req[r].user>>] = i ELSE status[i] = "revoked"
=============================================================================
