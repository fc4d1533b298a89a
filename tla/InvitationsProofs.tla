-------------------------- MODULE InvitationsProofs -------------------------
(* Theorems about Invitations and, after them, about the configuration and *)
(* the probes of Readiness, for every value of their constants.            *)
EXTENDS Readiness, Invitations, SequenceTheorems, TLAPS

Statuses == {"none", "pending", "accepted", "revoked"}
RowType == [status : Statuses, by : Users \cup {NoUser}, version : 0..MaxVersion]

TableTypes ==
  /\ status \in [Invitations -> Statuses]
  /\ tenantOf \in [Invitations -> Tenants \cup {NoTenant}]
  /\ acceptedBy \in [Invitations -> Users \cup {NoUser}]
  /\ version \in [Invitations -> 0..MaxVersion]
  /\ late \subseteq Invitations /\ told \subseteq Invitations
  /\ members \subseteq Tenants \X Users
  /\ joinedBy \in [Tenants \X Users -> Invitations \cup {NoInvitation}]
LogType == log \in [Invitations -> Seq(Event)]
LocalTypes ==
  /\ lock \in [Invitations -> Requests \cup {NoHolder}]
  /\ pc \in [Requests -> {"idle", "read", "accept", "unlock", "revoke", "reply"}]
  /\ req \in [Requests -> Request \cup {NoRequest}]
  /\ cur \in [Requests -> RowType]
  /\ ans \in [Requests -> {"none", "ok", "error"}]

LEMMA TypeParts == TypeOK <=> TableTypes /\ LogType /\ LocalTypes
BY Zenon DEF TypeOK, TableTypes, LogType, LocalTypes, Statuses, RowType

(* What the columns of a row say of each other.                            *)
RowInv ==
  \A i \in Invitations :
    /\ version[i] = 0 <=> status[i] = "none"
    /\ version[i] = 0 <=> tenantOf[i] = NoTenant
    /\ status[i] = "accepted" <=> acceptedBy[i] \in Users
    /\ i \in told => version[i] > 0

(* A request in progress has its input, and the row it read was pending;   *)
(* while the version it will compare with is current, the row still is.    *)
(* For a revocation this needs clients that send only versions they saw.   *)
RequestInv ==
  \A r \in Requests :
    /\ pc[r] \in {"read", "accept", "unlock"} =>
         req[r].op = "accept" /\ req[r].inv \in Invitations /\ req[r].user \in Users /\ version[req[r].inv] > 0
    /\ pc[r] = "accept" =>
         /\ cur[r].version <= version[req[r].inv]
         /\ cur[r].version = version[req[r].inv] => status[req[r].inv] = "pending"
    /\ pc[r] = "revoke" =>
         /\ req[r].op = "revoke" /\ req[r].inv \in Invitations /\ req[r].version \in 1..MaxVersion
         /\ version[req[r].inv] > 0 /\ cur[r].by = NoUser
         /\ OnlyShown => /\ req[r].version <= version[req[r].inv]
                         /\ req[r].version = version[req[r].inv] => status[req[r].inv] = "pending"

InvitationsInv == TableTypes /\ LogType /\ LocalTypes /\ RowInv /\ RequestInv

LEMMA EmptyRow == NoRow \in RowType
BY InvitationsAssumption DEF NoRow, RowType, Statuses

LEMMA InvitationsInit == Init => InvitationsInv
<1> SUFFICES ASSUME Init PROVE InvitationsInv
  BY Zenon
<1>1. TableTypes
  BY InvitationsAssumption DEF Init, TableTypes, Statuses
<1>2. LocalTypes
  BY EmptyRow, Zenon DEF Init, LocalTypes
<1>3. LogType
  BY EmptySeq, Zenon DEF Init, LogType
<1>4. RowInv
  BY InvitationsAssumption, Zenon DEF Init, RowInv
<1> QED
  BY <1>1, <1>2, <1>3, <1>4, Zenon DEF Init, InvitationsInv, RequestInv
-----------------------------------------------------------------------------
rows == <<status, tenantOf, acceptedBy, version>>

(* Only the three transactions write invitations.                          *)
LEMMA Writers ==
  ASSUME [Next]_vars
  PROVE  \/ UNCHANGED <<rows, joinedBy, log>> /\ (UNCHANGED members \/ \E t \in Tenants, u \in Users : AddMembership(t, u))
         \/ \E i \in Invitations : CreateInvitation(i)
         \/ \E r \in Requests : CommitAccept(r) \/ CommitRevoke(r)
<1>1. ASSUME NEW r \in Requests, AcceptStart(r) \/ RevokeRead(r) \/ Serve(r) \/ Crash(r)
      PROVE  UNCHANGED table \/ CommitAccept(r) \/ CommitRevoke(r)
  BY <1>1, Zenon DEF Serve, AcceptStart, AcceptRead, AcceptFails, Unlock, UnlockFails, RevokeRead, RevokeFails,
              Reply, Crash, End
<1>2. ASSUME NEW i \in Invitations, PassExpiry(i) \/ Expire(i) PROVE UNCHANGED <<rows, joinedBy, log, members>>
  BY <1>2, Zenon DEF PassExpiry, Expire, table, rows
<1>3. ASSUME NEW t \in Tenants, NEW u \in Users, AddMembership(t, u) PROVE UNCHANGED <<rows, joinedBy, log>>
  BY <1>3, Zenon DEF AddMembership, rows
<1>4. ASSUME UNCHANGED table PROVE UNCHANGED <<rows, joinedBy, log, members>>
  BY <1>4, Zenon DEF table, rows
<1>5. ASSUME UNCHANGED vars PROVE UNCHANGED table
  BY <1>5, Zenon DEF vars
<1> QED
  BY <1>1, <1>2, <1>3, <1>4, <1>5, Zenon DEF Next

(* What the three do to the row, whatever else they change.                *)
LEMMA AcceptEffect ==
  ASSUME InvitationsInv, NEW r \in Requests, CommitAccept(r)
  PROVE  /\ req[r].inv \in Invitations /\ req[r].user \in Users
         /\ status[req[r].inv] = "pending" /\ tenantOf[req[r].inv] \in Tenants
         /\ version[req[r].inv] < MaxVersion /\ cur[r].version = version[req[r].inv]
<1>1. /\ req[r].inv \in Invitations /\ req[r].user \in Users /\ version[req[r].inv] > 0
      /\ cur[r].version = version[req[r].inv] /\ status[req[r].inv] = "pending"
  BY Zenon DEF CommitAccept, Unmoved, InvitationsInv, RequestInv
<1>2. tenantOf[req[r].inv] \in Tenants
  BY <1>1, InvitationsAssumption DEF InvitationsInv, RowInv, TableTypes
<1> QED
  BY <1>1, <1>2, Zenon DEF CommitAccept

LEMMA RevokeEffect ==
  ASSUME InvitationsInv, NEW r \in Requests, CommitRevoke(r)
  PROVE  /\ req[r].inv \in Invitations /\ cur[r].by = NoUser
         /\ version[req[r].inv] > 0 /\ version[req[r].inv] < MaxVersion
         /\ req[r].version = version[req[r].inv]
         /\ OnlyShown => status[req[r].inv] = "pending"
BY Zenon DEF CommitRevoke, Expected, InvitationsInv, RequestInv

LEMMA TableStep ==
  ASSUME InvitationsInv, [Next]_vars
  PROVE  TableTypes' /\ RowInv'
<1> USE DEF InvitationsInv
<1>0. NoUser \notin Users /\ NoTenant \notin Tenants /\ NoInvitation \notin Invitations
  BY InvitationsAssumption, NoTenantAssumption, Zenon
<1>1. ASSUME NEW i \in Invitations, CreateInvitation(i) PROVE TableTypes' /\ RowInv'
  <2>1. PICK t \in Tenants : tenantOf' = [tenantOf EXCEPT ![i] = t]
    BY <1>1, Zenon DEF CreateInvitation
  <2>2. /\ status' = [status EXCEPT ![i] = "pending"] /\ acceptedBy' = [acceptedBy EXCEPT ![i] = NoUser]
        /\ version' = [version EXCEPT ![i] = version[i] + 1] /\ version[i] = 0
        /\ told' \in {told, told \cup {i}} /\ UNCHANGED <<late, members, joinedBy>>
    BY <1>1, Zenon DEF CreateInvitation, Store
  <2>3. TableTypes'
    BY <2>1, <2>2, InvitationsAssumption DEF TableTypes, Statuses
  <2>4. RowInv'
    BY <1>0, <2>1, <2>2 DEF TableTypes, RowInv
  <2> QED
    BY <2>3, <2>4, Zenon
<1>2. ASSUME NEW r \in Requests, CommitAccept(r) PROVE TableTypes' /\ RowInv'
  <2> DEFINE i == req[r].inv
  <2>1. /\ status' = [status EXCEPT ![i] = "accepted"] /\ acceptedBy' = [acceptedBy EXCEPT ![i] = req[r].user]
        /\ version' = [version EXCEPT ![i] = version[i] + 1]
        /\ UNCHANGED <<tenantOf, late, told>>
        /\ members' = members \cup {<<tenantOf[i], req[r].user>>}
        /\ joinedBy' = [joinedBy EXCEPT ![<<tenantOf[i], req[r].user>>] = i]
    BY <1>2, Zenon DEF CommitAccept, Store, Join
  <2>2. /\ i \in Invitations /\ req[r].user \in Users /\ tenantOf[i] \in Tenants
        /\ version[i] < MaxVersion /\ status[i] = "pending"
    BY <1>2, AcceptEffect, Zenon
  <2> HIDE DEF i
  <2>3. TableTypes'
    BY <2>1, <2>2, InvitationsAssumption DEF TableTypes, Statuses
  <2>4. RowInv'
    BY <1>0, <2>1, <2>2 DEF TableTypes, RowInv
  <2> QED
    BY <2>3, <2>4, Zenon
<1>3. ASSUME NEW r \in Requests, CommitRevoke(r) PROVE TableTypes' /\ RowInv'
  <2> DEFINE i == req[r].inv
  <2>1. /\ status' = [status EXCEPT ![i] = "revoked"] /\ acceptedBy' = [acceptedBy EXCEPT ![i] = NoUser]
        /\ version' = [version EXCEPT ![i] = version[i] + 1]
        /\ UNCHANGED <<tenantOf, late, told, members, joinedBy>>
    BY <1>3, RevokeEffect, Zenon DEF CommitRevoke, Store
  <2>2. i \in Invitations /\ version[i] > 0 /\ version[i] < MaxVersion
    BY <1>3, RevokeEffect, Zenon
  <2> HIDE DEF i
  <2>3. TableTypes'
    BY <2>1, <2>2, InvitationsAssumption DEF TableTypes, Statuses
  <2>4. RowInv'
    BY <1>0, <2>1, <2>2 DEF TableTypes, RowInv
  <2> QED
    BY <2>3, <2>4, Zenon
<1>4. CASE UNCHANGED <<rows, joinedBy>> /\ (UNCHANGED members \/ \E t \in Tenants, u \in Users : AddMembership(t, u))
  <2>1. late' \subseteq Invitations /\ told' = told
    <3>1. \/ late' = late /\ told' = told
          \/ \E i \in Invitations : PassExpiry(i) \/ CreateInvitation(i)
      BY Zenon DEF Next, Serve, vars, table, AddMembership, Expire, AcceptStart, AcceptRead, CommitAccept, CommitRevoke,
             AcceptFails, Unlock, UnlockFails, RevokeRead, RevokeFails, Reply, Crash, End
    <3>2. ASSUME NEW i \in Invitations, CreateInvitation(i) PROVE FALSE
      BY <1>4, <3>2 DEF CreateInvitation, Store, TableTypes, rows
    <3> QED
      BY <3>1, <3>2, Zenon DEF PassExpiry, TableTypes
  <2>2. members' \subseteq Tenants \X Users
    <3>1. ASSUME NEW t \in Tenants, NEW u \in Users, AddMembership(t, u)
          PROVE  members' \subseteq Tenants \X Users
      <4>1. members' = members \cup {<<t, u>>} /\ <<t, u>> \in Tenants \X Users
        BY <3>1, Zenon DEF AddMembership
      <4> QED
        BY <4>1, Zenon DEF TableTypes
    <3> QED
      BY <1>4, <3>1, Zenon DEF TableTypes
  <2> QED
    BY <1>4, <2>1, <2>2, Zenon DEF rows, TableTypes, RowInv
<1> QED
  BY <1>1, <1>2, <1>3, <1>4, Writers, Zenon
-----------------------------------------------------------------------------
(* One transaction appends the row it leaves behind to the events.         *)
LEMMA LogWrite ==
  ASSUME TableTypes, LogType, EventsTellRow, NEW i \in Invitations, NEW e \in Event,
         version' = [version EXCEPT ![i] = version[i] + 1],
         log' = [log EXCEPT ![i] = Append(log[i], e)],
         e.version = version[i] + 1, e = Row(i)',
         \A j \in Invitations \ {i} : Row(j)' = Row(j)
  PROVE  LogType' /\ EventsTellRow'
<1> DEFINE l == Append(log[i], e)
<1>0. log \in [Invitations -> Seq(Event)] /\ version \in [Invitations -> 0..MaxVersion]
  BY Zenon DEF LogType, TableTypes
<1>1. /\ l \in Seq(Event) /\ Len(l) = Len(log[i]) + 1
      /\ l[Len(log[i]) + 1] = e
      /\ \A n \in 1..Len(log[i]) : l[n] = log[i][n]
  BY <1>0, AppendProperties
<1>2. Len(log[i]) = version[i] /\ \A n \in 1..Len(log[i]) : log[i][n].version = n
  BY Zenon DEF EventsTellRow
<1>3. log' = [log EXCEPT ![i] = l]
  BY Zenon
<1> HIDE DEF l
<1>4. LogType'
  BY <1>0, <1>1, <1>3, Zenon DEF LogType
<1>5. ASSUME NEW j \in Invitations
      PROVE  /\ Len(log'[j]) = version'[j]
             /\ \A n \in 1..Len(log'[j]) : log'[j][n].version = n
             /\ version'[j] > 0 => log'[j][version'[j]] = Row(j)'
  <2>1. CASE j = i
    <3>1. log'[i] = l /\ version'[i] = version[i] + 1 /\ Len(l) = version[i] + 1 /\ version[i] \in Nat
      BY <1>0, <1>1, <1>2, <1>3
    <3>2. ASSUME NEW n \in 1..Len(l) PROVE l[n].version = n
      <4>1. CASE n = version[i] + 1
        BY <1>1, <1>2, <4>1, Zenon
      <4>2. CASE n # version[i] + 1
        <5>1. n \in 1..Len(log[i])
          BY <1>2, <3>1, <4>2
        <5> QED
          BY <1>1, <1>2, <5>1, Zenon
      <4> QED
        BY <4>1, <4>2, Zenon
    <3>3. l[version[i] + 1] = Row(i)'
      BY <1>1, <1>2, Zenon
    <3> QED
      BY <2>1, <3>1, <3>2, <3>3, Zenon
  <2>2. CASE j # i
    <3>1. log'[j] = log[j] /\ version'[j] = version[j] /\ Row(j)' = Row(j)
      BY <1>0, <1>3, <2>2, Zenon
    <3> QED
      BY <3>1, Zenon DEF EventsTellRow
  <2> QED
    BY <2>1, <2>2, Zenon
<1> QED
  BY <1>4, <1>5, Zenon DEF EventsTellRow

LEMMA LogStep ==
  ASSUME InvitationsInv, EventsTellRow, [Next]_vars
  PROVE  LogType' /\ EventsTellRow'
<1> USE DEF InvitationsInv
<1>0. /\ status \in [Invitations -> Statuses] /\ acceptedBy \in [Invitations -> Users \cup {NoUser}]
      /\ version \in [Invitations -> 0..MaxVersion] /\ MaxVersion \in Nat \ {0}
  BY InvitationsAssumption, Zenon DEF TableTypes
<1>1. ASSUME NEW i \in Invitations, NEW s \in {"pending", "accepted", "revoked"}, NEW u \in Users \cup {NoUser},
             NEW v \in Nat, v = version[i] + 1, version[i] < MaxVersion, Store(i, s, u, v)
      PROVE  LogType' /\ EventsTellRow'
  <2> DEFINE e == [status |-> s, by |-> u, version |-> v]
  <2>1. e \in Event
    BY <1>0, <1>1 DEF Event
  <2>2. /\ version' = [version EXCEPT ![i] = version[i] + 1]
        /\ log' = [log EXCEPT ![i] = Append(log[i], e)] /\ e.version = version[i] + 1
    BY <1>1, Zenon DEF Store
  <2>3. e = Row(i)' /\ \A j \in Invitations \ {i} : Row(j)' = Row(j)
    BY <1>0, <1>1, Zenon DEF Store, Row
  <2> HIDE DEF e
  <2> QED
    BY <2>1, <2>2, <2>3, LogWrite, Zenon
<1>2. ASSUME NEW i \in Invitations, CreateInvitation(i) PROVE LogType' /\ EventsTellRow'
  <2>1. version[i] = 0 /\ Store(i, "pending", NoUser, 1)
    BY <1>2, Zenon DEF CreateInvitation, FirstVersion
  <2> QED
    BY <1>0, <1>1, <2>1
<1>3. ASSUME NEW r \in Requests, CommitAccept(r) PROVE LogType' /\ EventsTellRow'
  <2>1. Store(req[r].inv, "accepted", req[r].user, cur[r].version + 1)
    BY <1>3, Zenon DEF CommitAccept
  <2>2. /\ req[r].inv \in Invitations /\ req[r].user \in Users
        /\ version[req[r].inv] < MaxVersion /\ cur[r].version = version[req[r].inv]
    BY <1>3, AcceptEffect, Zenon
  <2> QED
    BY <1>0, <1>1, <2>1, <2>2
<1>4. ASSUME NEW r \in Requests, CommitRevoke(r) PROVE LogType' /\ EventsTellRow'
  <2>1. Store(req[r].inv, "revoked", NoUser, req[r].version + 1)
    BY <1>4, RevokeEffect, Zenon DEF CommitRevoke, RevokedVersion
  <2>2. /\ req[r].inv \in Invitations /\ version[req[r].inv] < MaxVersion
        /\ req[r].version = version[req[r].inv]
    BY <1>4, RevokeEffect, Zenon
  <2>3. req[r].version + 1 \in Nat /\ req[r].version + 1 = version[req[r].inv] + 1
    BY <1>0, <2>2
  <2> HIDE DEF InvitationsInv
  <2> QED
    BY <1>1, <2>1, <2>2, <2>3, Zenon
<1>5. CASE UNCHANGED <<rows, log>>
  BY <1>5, Zenon DEF rows, LogType, EventsTellRow, Row
<1> QED
  BY <1>2, <1>3, <1>4, <1>5, Writers, Zenon
-----------------------------------------------------------------------------
(* The requests.  A step of one leaves the others alone.                   *)
LEMMA OthersWait ==
  ASSUME LocalTypes, [Next]_vars, NEW s \in Requests
  PROVE  \/ pc'[s] = pc[s] /\ req'[s] = req[s] /\ cur'[s] = cur[s] /\ ans'[s] = ans[s]
         \/ AcceptStart(s) \/ RevokeRead(s) \/ Serve(s) \/ Crash(s)
<1>1. ASSUME NEW r \in Requests \ {s}, AcceptStart(r) \/ RevokeRead(r) \/ Serve(r) \/ Crash(r)
      PROVE  pc'[s] = pc[s] /\ req'[s] = req[s] /\ cur'[s] = cur[s] /\ ans'[s] = ans[s]
  BY <1>1 DEF AcceptStart, RevokeRead, Serve, AcceptRead, CommitAccept, AcceptFails, Unlock, UnlockFails,
              CommitRevoke, RevokeFails, Reply, Crash, End, Goto, LocalTypes
<1>2. ASSUME \/ UNCHANGED vars \/ \E t \in Tenants, u \in Users : AddMembership(t, u)
             \/ \E i \in Invitations : CreateInvitation(i) \/ PassExpiry(i) \/ Expire(i)
      PROVE  pc'[s] = pc[s] /\ req'[s] = req[s] /\ cur'[s] = cur[s] /\ ans'[s] = ans[s]
  BY <1>2, Zenon DEF vars, AddMembership, CreateInvitation, PassExpiry, Expire
<1> QED
  BY <1>1, <1>2, Zenon DEF Next

(* A version never falls, and a row with the version it had is as it was.  *)
LEMMA RowsAge ==
  ASSUME InvitationsInv, [Next]_vars, NEW i \in Invitations
  PROVE  /\ version[i] <= version'[i]
         /\ version[i] = version'[i] => status'[i] = status[i]
         /\ version[i] \in Nat /\ version'[i] \in Nat
<1> USE DEF InvitationsInv
<1>0. version \in [Invitations -> 0..MaxVersion] /\ status \in [Invitations -> Statuses]
  BY Zenon DEF TableTypes
<1>1. ASSUME NEW j, NEW s, NEW u, NEW v, Store(j, s, u, v)
      PROVE  version[i] <= version'[i] /\ (version[i] = version'[i] => status'[i] = status[i])
  BY <1>0, <1>1 DEF Store
<1>2. \/ UNCHANGED rows \/ \E j, s, u, v : Store(j, s, u, v)
  BY Writers, Zenon DEF CreateInvitation, CommitAccept, CommitRevoke
<1>3. version[i] <= version'[i] /\ (version[i] = version'[i] => status'[i] = status[i])
  BY <1>0, <1>1, <1>2 DEF rows
<1>4. version' \in [Invitations -> 0..MaxVersion]
  BY TableStep, Zenon DEF TableTypes
<1> QED
  BY <1>0, <1>3, <1>4

LEMMA LocalStep ==
  ASSUME InvitationsInv, [Next]_vars
  PROVE  LocalTypes'
<1> USE DEF InvitationsInv
<1>1. ASSUME NEW r \in Requests, AcceptStart(r) PROVE LocalTypes'
  <2>1. PICK i \in told, u \in Users :
          /\ req' = [req EXCEPT ![r] = [op |-> "accept", inv |-> i, user |-> u, version |-> 0]]
          /\ IF HasLocker THEN LockFree(lock, i) /\ lock' = Locked(lock, i, r) ELSE UNCHANGED lock
    BY <1>1, Zenon DEF AcceptStart
  <2>2. i \in Invitations
    BY Zenon DEF TableTypes
  <2>3. [op |-> "accept", inv |-> i, user |-> u, version |-> 0] \in Request
    BY <2>2, Zenon DEF Request
  <2>4. Goto(r, "read", "none") /\ cur' = cur
    BY <1>1, Zenon DEF AcceptStart
  <2> QED
    BY <2>1, <2>2, <2>3, <2>4, Zenon DEF LocalTypes, Goto, Locked
<1>2. ASSUME NEW i \in Invitations PROVE Row(i) \in RowType
  BY Zenon DEF Row, RowType, TableTypes
<1>3. ASSUME NEW r \in Requests, RevokeRead(r) PROVE LocalTypes'
  <2>1. PICK i \in Invitations, v \in 1..MaxVersion :
          /\ req' = [req EXCEPT ![r] = [op |-> "revoke", inv |-> i, user |-> NoUser, version |-> v]]
          /\ cur' = [cur EXCEPT ![r] = Row(i)]
          /\ IF status[i] = "pending" THEN Goto(r, "revoke", "none") ELSE Goto(r, "reply", "error")
    BY <1>3, Zenon DEF RevokeRead
  <2>2. [op |-> "revoke", inv |-> i, user |-> NoUser, version |-> v] \in Request
    BY Zenon DEF Request
  <2>3. Row(i) \in RowType /\ lock' = lock
    BY <1>2, <1>3, Zenon DEF RevokeRead
  <2> HIDE DEF InvitationsInv
  <2> QED
    BY <2>1, <2>2, <2>3, Zenon DEF LocalTypes, Goto, InvitationsInv
<1>4. ASSUME NEW r \in Requests, AcceptRead(r) PROVE LocalTypes'
  <2>1. Row(req[r].inv) \in RowType
    BY <1>2, <1>4, Zenon DEF AcceptRead, RequestInv
  <2> QED
    BY <1>4, <2>1, Zenon DEF AcceptRead, Goto, LocalTypes
<1>5. ASSUME NEW r \in Requests, CommitAccept(r) \/ CommitRevoke(r) PROVE LocalTypes'
  BY <1>5, Zenon DEF CommitAccept, CommitRevoke, Goto, LocalTypes
<1>6. ASSUME NEW r \in Requests, AcceptFails(r) \/ UnlockFails(r) \/ RevokeFails(r) PROVE LocalTypes'
  BY <1>6, Zenon DEF AcceptFails, UnlockFails, RevokeFails, Goto, LocalTypes
<1>7. ASSUME NEW r \in Requests, Unlock(r) PROVE LocalTypes'
  BY <1>7, Zenon DEF Unlock, Unlocked, Goto, LocalTypes
<1>8. ASSUME NEW r \in Requests, Reply(r) \/ Crash(r) PROVE LocalTypes'
  BY <1>8, EmptyRow DEF Reply, Crash, End, LocalTypes
<1>9. ASSUME NEW i \in Invitations, CreateInvitation(i) \/ PassExpiry(i) \/ Expire(i) PROVE LocalTypes'
  BY <1>9, Zenon DEF CreateInvitation, PassExpiry, Expire, Lapsed, LocalTypes
<1>10. CASE UNCHANGED vars \/ \E t \in Tenants, u \in Users : AddMembership(t, u)
  BY <1>10, Zenon DEF vars, AddMembership, LocalTypes
<1> QED
  BY <1>1, <1>3, <1>4, <1>5, <1>6, <1>7, <1>8, <1>9, <1>10, Zenon DEF Next, Serve

LEMMA RequestStep ==
  ASSUME InvitationsInv, [Next]_vars
  PROVE  RequestInv'
<1> USE DEF InvitationsInv
<1> DEFINE Good(p, q, c) ==
      /\ p \in {"read", "accept", "unlock"} =>
           q.op = "accept" /\ q.inv \in Invitations /\ q.user \in Users /\ version[q.inv] > 0
      /\ p = "accept" => /\ c.version <= version[q.inv]
                         /\ c.version = version[q.inv] => status[q.inv] = "pending"
      /\ p = "revoke" =>
           /\ q.op = "revoke" /\ q.inv \in Invitations /\ q.version \in 1..MaxVersion
           /\ version[q.inv] > 0 /\ c.by = NoUser
           /\ OnlyShown => /\ q.version <= version[q.inv]
                           /\ q.version = version[q.inv] => status[q.inv] = "pending"
<1>0. /\ version \in [Invitations -> 0..MaxVersion] /\ acceptedBy \in [Invitations -> Users \cup {NoUser}]
      /\ NoUser \notin Users /\ MaxVersion \in Nat
  BY InvitationsAssumption, Zenon DEF TableTypes
<1>1. ASSUME NEW s \in Requests
      PROVE  Good(pc'[s], req'[s], cur'[s])
  <2>1. CASE pc'[s] = pc[s] /\ req'[s] = req[s] /\ cur'[s] = cur[s]
    BY <2>1, Zenon DEF RequestInv
  <2>2. CASE AcceptStart(s)
    <3>1. PICK i \in told, u \in Users :
            req'[s] = [op |-> "accept", inv |-> i, user |-> u, version |-> 0]
      BY <2>2, Zenon DEF AcceptStart, LocalTypes
    <3>2. i \in Invitations /\ version[i] > 0 /\ pc'[s] = "read"
      BY <2>2, Zenon DEF AcceptStart, Goto, LocalTypes, TableTypes, RowInv
    <3>3. req'[s].op = "accept" /\ req'[s].inv = i /\ req'[s].user = u
      BY <3>1
    <3> QED
      BY <3>2, <3>3, Zenon
  <2>3. CASE AcceptRead(s)
    <3>1. /\ req'[s] = req[s] /\ cur'[s] = Row(req[s].inv) /\ pc[s] = "read"
          /\ \/ pc'[s] = "accept" /\ status[req[s].inv] = "pending"
             \/ pc'[s] = "unlock"
      BY <2>3, Zenon DEF AcceptRead, Goto, LocalTypes
    <3>2. /\ req[s].op = "accept" /\ req[s].inv \in Invitations /\ req[s].user \in Users
          /\ version[req[s].inv] > 0
      BY <3>1, Zenon DEF RequestInv
    <3> QED
      BY <1>0, <3>1, <3>2 DEF Row
  <2>4. CASE RevokeRead(s)
    <3>1. PICK i \in Invitations, v \in 1..MaxVersion :
            /\ req'[s] = [op |-> "revoke", inv |-> i, user |-> NoUser, version |-> v]
            /\ cur'[s] = Row(i) /\ version[i] > 0 /\ (OnlyShown => v <= version[i])
            /\ \/ pc'[s] = "revoke" /\ status[i] = "pending"
               \/ pc'[s] = "reply"
      BY <2>4 DEF RevokeRead, Goto, LocalTypes
    <3>2. status[i] = "pending" => acceptedBy[i] = NoUser
      BY <1>0, Zenon DEF RowInv
    <3> QED
      BY <3>1, <3>2 DEF Row
  <2>5. CASE CommitAccept(s) \/ CommitRevoke(s) \/ AcceptFails(s) \/ Unlock(s) \/ UnlockFails(s) \/ RevokeFails(s)
    <3>1. req'[s] = req[s] /\ ((pc'[s] = "unlock" /\ pc[s] \in {"read", "accept"}) \/ pc'[s] = "reply")
      BY <2>5, Zenon DEF CommitAccept, CommitRevoke, AcceptFails, Unlock, UnlockFails, RevokeFails, Goto, LocalTypes
    <3> QED
      BY <3>1, Zenon DEF RequestInv
  <2>6. CASE Reply(s) \/ Crash(s)
    BY <2>6, Zenon DEF Reply, Crash, End, LocalTypes
  <2> QED
    BY <2>1, <2>2, <2>3, <2>4, <2>5, <2>6, OthersWait, Zenon DEF Serve
<1>2. ASSUME NEW s \in Requests
      PROVE  /\ pc'[s] \in {"read", "accept", "unlock"} =>
                  /\ req'[s].op = "accept" /\ req'[s].inv \in Invitations /\ req'[s].user \in Users
                  /\ version'[req'[s].inv] > 0
             /\ pc'[s] = "accept" =>
                  /\ cur'[s].version <= version'[req'[s].inv]
                  /\ cur'[s].version = version'[req'[s].inv] => status'[req'[s].inv] = "pending"
             /\ pc'[s] = "revoke" =>
                  /\ req'[s].op = "revoke" /\ req'[s].inv \in Invitations /\ req'[s].version \in 1..MaxVersion
                  /\ version'[req'[s].inv] > 0 /\ cur'[s].by = NoUser
                  /\ OnlyShown => /\ req'[s].version <= version'[req'[s].inv]
                                  /\ req'[s].version = version'[req'[s].inv] => status'[req'[s].inv] = "pending"
  <2> DEFINE i == req'[s].inv
  <2>1. i \in Invitations => /\ version[i] <= version'[i]
                             /\ version[i] = version'[i] => status'[i] = status[i]
                             /\ version[i] \in Nat /\ version'[i] \in Nat
    BY RowsAge
  <2>2. cur'[s].version \in Nat
    BY LocalStep DEF LocalTypes, RowType
  <2>3. Good(pc'[s], req'[s], cur'[s])
    BY <1>1, Zenon
  <2> QED
    BY <2>1, <2>2, <2>3
<1> QED
  BY <1>2, Zenon DEF RequestInv

(* The invariant of the proofs, with the events it explains.               *)
FullInv == InvitationsInv /\ EventsTellRow

LEMMA FullInvariant == Spec => []FullInv
<1>1. Init => FullInv
  BY InvitationsInit DEF FullInv, Init, EventsTellRow
<1>2. FullInv /\ [Next]_vars => FullInv'
  BY TableStep, LogStep, LocalStep, RequestStep, Zenon DEF FullInv, InvitationsInv
<1> QED
  BY <1>1, <1>2, PTL DEF Spec
-----------------------------------------------------------------------------
(* TypeOK, for any number of invitations, users and requests.              *)
THEOREM TypeCorrect == Spec => []TypeOK
<1>1. FullInv => TypeOK
  BY TypeParts, Zenon DEF FullInv, InvitationsInv
<1> QED
  BY <1>1, FullInvariant, PTL

(* EventsTellRow: consumers of InvitationChanged see every version once    *)
(* and end with the row, whatever versions clients send.                   *)
THEOREM EventsAreTrue == Spec => []EventsTellRow
<1>1. FullInv => EventsTellRow
  BY Zenon DEF FullInv
<1> QED
  BY <1>1, FullInvariant, PTL

(* EndIsFinal: no accepted or revoked invitation changes again, when       *)
(* clients send only versions they have seen.                              *)
THEOREM EndsStayFinal == OnlyShown => (Spec => EndIsFinal)
<1> SUFFICES ASSUME OnlyShown PROVE Spec => EndIsFinal
  BY Zenon
<1>1. InvitationsInv /\ [Next]_vars =>
        [\A i \in Invitations : status[i] \in {"accepted", "revoked"} =>
           status'[i] = status[i] /\ acceptedBy'[i] = acceptedBy[i]]_vars
  <2> SUFFICES ASSUME InvitationsInv, [Next]_vars, NEW i \in Invitations, status[i] \in {"accepted", "revoked"}
               PROVE  status'[i] = status[i] /\ acceptedBy'[i] = acceptedBy[i]
    BY Zenon
  <2>0. status \in [Invitations -> Statuses] /\ acceptedBy \in [Invitations -> Users \cup {NoUser}]
    BY Zenon DEF InvitationsInv, TableTypes
  <2>1. ASSUME NEW j \in Invitations \ {i}, NEW s, NEW u, NEW v, Store(j, s, u, v)
        PROVE  status'[i] = status[i] /\ acceptedBy'[i] = acceptedBy[i]
    BY <2>0, <2>1, Zenon DEF Store
  <2>2. ASSUME NEW j \in Invitations, CreateInvitation(j)
        PROVE  status'[i] = status[i] /\ acceptedBy'[i] = acceptedBy[i]
    <3>1. j # i
      BY <2>2, Zenon DEF CreateInvitation, InvitationsInv, RowInv
    <3>2. Store(j, "pending", NoUser, FirstVersion)
      BY <2>2, Zenon DEF CreateInvitation
    <3> QED
      BY <2>1, <3>1, <3>2, Zenon
  <2>3. ASSUME NEW r \in Requests, CommitAccept(r)
        PROVE  status'[i] = status[i] /\ acceptedBy'[i] = acceptedBy[i]
    <3>1. req[r].inv \in Invitations /\ req[r].inv # i
      BY <2>3, AcceptEffect, Zenon
    <3>2. Store(req[r].inv, "accepted", req[r].user, cur[r].version + 1)
      BY <2>3, Zenon DEF CommitAccept
    <3> QED
      BY <2>1, <3>1, <3>2, Zenon
  <2>4. ASSUME NEW r \in Requests, CommitRevoke(r)
        PROVE  status'[i] = status[i] /\ acceptedBy'[i] = acceptedBy[i]
    <3>1. req[r].inv \in Invitations /\ req[r].inv # i
      BY <2>4, RevokeEffect, Zenon
    <3>2. Store(req[r].inv, "revoked", cur[r].by, RevokedVersion(r))
      BY <2>4, Zenon DEF CommitRevoke
    <3> QED
      BY <2>1, <3>1, <3>2, Zenon
  <2> QED
    BY <2>2, <2>3, <2>4, Writers, Zenon DEF rows
<1>2. FullInv => InvitationsInv
  BY Zenon DEF FullInv
<1> QED
  BY <1>1, <1>2, FullInvariant, PTL DEF Spec, EndIsFinal
-----------------------------------------------------------------------------
(* A membership an invitation made is there.                               *)
JoinedAreMembers == \A m \in Tenants \X Users : joinedBy[m] # NoInvitation => m \in members

(* A transaction on an invitation that neither was nor becomes accepted    *)
(* leaves the correspondence alone.                                        *)
LEMMA UnacceptedWrite ==
  ASSUME TableTypes, AcceptedIffJoined, NEW i \in Invitations, status[i] # "accepted",
         NEW s \in {"pending", "revoked"}, NEW u, NEW v, Store(i, s, u, v),
         members' = members, joinedBy' = joinedBy,
         \A j \in Invitations \ {i} : tenantOf'[j] = tenantOf[j]
  PROVE  AcceptedIffJoined'
<1> SUFFICES ASSUME NEW t \in Tenants, NEW w \in Users, NEW j \in Invitations
             PROVE  (joinedBy'[<<t, w>>] = j /\ <<t, w>> \in members')
                      <=> (status'[j] = "accepted" /\ acceptedBy'[j] = w /\ tenantOf'[j] = t)
  BY Zenon DEF AcceptedIffJoined
<1>1. (joinedBy[<<t, w>>] = j /\ <<t, w>> \in members)
        <=> (status[j] = "accepted" /\ acceptedBy[j] = w /\ tenantOf[j] = t)
  BY DEF AcceptedIffJoined
<1>2. CASE j = i
  BY <1>1, <1>2, Zenon DEF Store, TableTypes
<1>3. CASE j # i
  BY <1>1, <1>3, Zenon DEF Store, TableTypes
<1> QED
  BY <1>2, <1>3, Zenon

LEMMA JoinStep ==
  ASSUME InvitationsInv, JoinedAreMembers, [Next]_vars
  PROVE  JoinedAreMembers' /\ (OnlyShown /\ AcceptedIffJoined => AcceptedIffJoined')
<1> USE DEF InvitationsInv
<1>0. /\ joinedBy \in [Tenants \X Users -> Invitations \cup {NoInvitation}] /\ NoInvitation \notin Invitations
      /\ status \in [Invitations -> Statuses] /\ acceptedBy \in [Invitations -> Users \cup {NoUser}]
      /\ tenantOf \in [Invitations -> Tenants \cup {NoTenant}]
  BY InvitationsAssumption, Zenon DEF TableTypes
<1>1. ASSUME NEW i \in Invitations, CreateInvitation(i)
      PROVE  JoinedAreMembers' /\ (OnlyShown /\ AcceptedIffJoined => AcceptedIffJoined')
  <2>1. /\ Store(i, "pending", NoUser, FirstVersion) /\ status[i] # "accepted"
        /\ members' = members /\ joinedBy' = joinedBy
        /\ \A j \in Invitations \ {i} : tenantOf'[j] = tenantOf[j]
    BY <1>0, <1>1, Zenon DEF CreateInvitation, RowInv
  <2> QED
    BY <2>1, UnacceptedWrite, Zenon DEF JoinedAreMembers
<1>2. ASSUME NEW r \in Requests, CommitRevoke(r)
      PROVE  JoinedAreMembers' /\ (OnlyShown /\ AcceptedIffJoined => AcceptedIffJoined')
  <2>1. /\ Store(req[r].inv, "revoked", cur[r].by, RevokedVersion(r))
        /\ members' = members /\ joinedBy' = joinedBy /\ tenantOf' = tenantOf
    BY <1>2, Zenon DEF CommitRevoke
  <2>2. req[r].inv \in Invitations /\ (OnlyShown => status[req[r].inv] # "accepted")
    BY <1>2, RevokeEffect, Zenon
  <2> QED
    BY <2>1, <2>2, UnacceptedWrite, Zenon DEF JoinedAreMembers
<1>3. ASSUME NEW r \in Requests, CommitAccept(r)
      PROVE  JoinedAreMembers' /\ (OnlyShown /\ AcceptedIffJoined => AcceptedIffJoined')
  <2> DEFINE i == req[r].inv
             u == req[r].user
             t == tenantOf[i]
  <2>1. i \in Invitations /\ u \in Users /\ t \in Tenants /\ status[i] = "pending" /\ tenantOf' = tenantOf
    BY <1>3, AcceptEffect, Zenon DEF CommitAccept
  <2>2. /\ <<t, u>> \notin members /\ members' = members \cup {<<t, u>>}
        /\ joinedBy' = [joinedBy EXCEPT ![<<t, u>>] = i]
        /\ status' = [status EXCEPT ![i] = "accepted"] /\ acceptedBy' = [acceptedBy EXCEPT ![i] = u]
    BY <1>3, Zenon DEF CommitAccept, Join, Store
  <2> HIDE DEF i, u
  <2>3. JoinedAreMembers'
    BY <1>0, <2>1, <2>2, Zenon DEF JoinedAreMembers
  <2>4. ASSUME AcceptedIffJoined, NEW t2 \in Tenants, NEW w \in Users, NEW j \in Invitations
        PROVE  (joinedBy'[<<t2, w>>] = j /\ <<t2, w>> \in members')
                 <=> (status'[j] = "accepted" /\ acceptedBy'[j] = w /\ tenantOf'[j] = t2)
    <3>1. (joinedBy[<<t2, w>>] = j /\ <<t2, w>> \in members)
            <=> (status[j] = "accepted" /\ acceptedBy[j] = w /\ tenantOf[j] = t2)
      BY <2>4 DEF AcceptedIffJoined
    <3>2. <<t2, w>> \in Tenants \X Users /\ <<t, u>> \in Tenants \X Users
      BY <2>1, Zenon
    <3>3. CASE t2 = t /\ w = u
      <4>1. joinedBy'[<<t2, w>>] = i /\ <<t2, w>> \in members' /\ <<t2, w>> \notin members
        BY <1>0, <2>2, <3>2, <3>3, Zenon
      <4>2. CASE j = i
        BY <1>0, <2>1, <2>2, <3>3, <4>1, <4>2, Zenon
      <4>3. CASE j # i
        BY <1>0, <2>1, <2>2, <3>1, <4>1, <4>3, Zenon
      <4> QED
        BY <4>2, <4>3, Zenon
    <3>4. CASE ~(t2 = t /\ w = u)
      <4>1. joinedBy'[<<t2, w>>] = joinedBy[<<t2, w>>] /\ (<<t2, w>> \in members' <=> <<t2, w>> \in members)
        BY <1>0, <2>2, <3>2, <3>4, Zenon
      <4>2. CASE j = i
        BY <1>0, <2>1, <2>2, <3>1, <3>4, <4>1, <4>2, Zenon
      <4>3. CASE j # i
        BY <1>0, <2>1, <2>2, <3>1, <4>1, <4>3, Zenon
      <4> QED
        BY <4>2, <4>3, Zenon
    <3> QED
      BY <3>3, <3>4, Zenon
  <2>5. AcceptedIffJoined => AcceptedIffJoined'
    BY <2>4, Zenon DEF AcceptedIffJoined
  <2> QED
    BY <2>3, <2>5, Zenon
<1>4. ASSUME NEW t \in Tenants, NEW u \in Users, AddMembership(t, u)
      PROVE  JoinedAreMembers' /\ (OnlyShown /\ AcceptedIffJoined => AcceptedIffJoined')
  <2>1. /\ <<t, u>> \notin members /\ members' = members \cup {<<t, u>>}
        /\ UNCHANGED <<joinedBy, status, acceptedBy, tenantOf>>
    BY <1>4, Zenon DEF AddMembership
  <2>2. joinedBy[<<t, u>>] = NoInvitation
    BY <2>1, Zenon DEF JoinedAreMembers
  <2>3. ASSUME AcceptedIffJoined, NEW t2 \in Tenants, NEW w \in Users, NEW j \in Invitations
        PROVE  (joinedBy'[<<t2, w>>] = j /\ <<t2, w>> \in members')
                 <=> (status'[j] = "accepted" /\ acceptedBy'[j] = w /\ tenantOf'[j] = t2)
    <3>1. (joinedBy[<<t2, w>>] = j /\ <<t2, w>> \in members)
            <=> (status[j] = "accepted" /\ acceptedBy[j] = w /\ tenantOf[j] = t2)
      BY <2>3 DEF AcceptedIffJoined
    <3>2. <<t2, w>> = <<t, u>> \/ (<<t2, w>> \in members' <=> <<t2, w>> \in members)
      BY <2>1, Zenon
    <3>3. j # NoInvitation
      BY <1>0, Zenon
    <3> QED
      BY <2>1, <2>2, <3>1, <3>2, <3>3, Zenon
  <2>4. AcceptedIffJoined => AcceptedIffJoined'
    BY <2>3, Zenon DEF AcceptedIffJoined
  <2> QED
    BY <2>1, <2>4, Zenon DEF JoinedAreMembers
<1>5. CASE UNCHANGED <<rows, joinedBy, members>>
  BY <1>5 DEF rows, JoinedAreMembers, AcceptedIffJoined
<1> QED
  BY <1>1, <1>2, <1>3, <1>4, <1>5, Writers, Zenon

(* AcceptedIffJoined: AcceptInvitation makes exactly one membership out of *)
(* one token, and an accepted invitation keeps the membership it made,     *)
(* when clients send only versions they have seen.                         *)
THEOREM OneTokenOneMember == OnlyShown => (Spec => []AcceptedIffJoined)
<1> SUFFICES ASSUME OnlyShown PROVE Spec => []AcceptedIffJoined
  BY Zenon
<1>1. Init => JoinedAreMembers /\ AcceptedIffJoined
  BY InvitationsAssumption DEF Init, JoinedAreMembers, AcceptedIffJoined
<1>2. FullInv /\ JoinedAreMembers /\ AcceptedIffJoined /\ [Next]_vars => JoinedAreMembers' /\ AcceptedIffJoined'
  BY JoinStep, Zenon DEF FullInv
<1> QED
  BY <1>1, <1>2, FullInvariant, PTL DEF Spec
-----------------------------------------------------------------------------
(* What an "ok" promises, of the row i and the user u.                     *)
Promise(op, i, u) ==
  /\ i \in Invitations /\ version[i] > 0
  /\ \/ op = "accept" /\ u \in Users /\ joinedBy[<<tenantOf[i], u>>] = i
     \/ op = "revoke" /\ status[i] = "revoked"
PromiseAfter(op, i, u) ==
  /\ i \in Invitations /\ version'[i] > 0
  /\ \/ op = "accept" /\ u \in Users /\ joinedBy'[<<tenantOf'[i], u>>] = i
     \/ op = "revoke" /\ status'[i] = "revoked"
AnswerInv ==
  \A r \in Requests : pc[r] \in {"unlock", "reply"} /\ ans[r] = "ok" =>
    Promise(req[r].op, req[r].inv, req[r].user)

LEMMA PromiseKept ==
  ASSUME InvitationsInv, JoinedAreMembers, [Next]_vars, NEW op, NEW i, NEW u, Promise(op, i, u)
  PROVE  PromiseAfter(op, i, u)
<1> USE DEF InvitationsInv
<1>0. /\ joinedBy \in [Tenants \X Users -> Invitations \cup {NoInvitation}] /\ NoInvitation \notin Invitations
      /\ status \in [Invitations -> Statuses] /\ tenantOf \in [Invitations -> Tenants \cup {NoTenant}]
      /\ i \in Invitations /\ version[i] > 0 /\ tenantOf[i] \in Tenants
  BY InvitationsAssumption DEF TableTypes, RowInv, Promise
<1>1. version'[i] > 0
  <2>1. version[i] <= version'[i] /\ version[i] \in Nat /\ version'[i] \in Nat
    BY <1>0, RowsAge, Zenon
  <2> QED
    BY <1>0, <2>1
<1>2. tenantOf'[i] = tenantOf[i]
  <2>1. ASSUME NEW j \in Invitations, CreateInvitation(j) PROVE tenantOf'[i] = tenantOf[i]
    <3>1. j # i
      BY <1>0, <2>1 DEF CreateInvitation
    <3> QED
      BY <1>0, <2>1, <3>1, Zenon DEF CreateInvitation
  <2>2. ASSUME NEW r \in Requests, CommitAccept(r) \/ CommitRevoke(r) PROVE tenantOf' = tenantOf
    BY <2>2, Zenon DEF CommitAccept, CommitRevoke
  <2>3. CASE UNCHANGED rows
    BY <2>3, Zenon DEF rows
  <2> QED
    BY <2>1, <2>2, <2>3, Writers, Zenon
<1>3. ASSUME op = "revoke", status[i] = "revoked" PROVE status'[i] = "revoked"
  <2>1. ASSUME NEW r \in Requests, CommitAccept(r) PROVE status'[i] = "revoked"
    BY <1>0, <1>3, <2>1, AcceptEffect, Zenon DEF CommitAccept, Store
  <2>2. ASSUME NEW j \in Invitations, CreateInvitation(j) PROVE status'[i] = "revoked"
    BY <1>0, <1>3, <2>2 DEF CreateInvitation, Store
  <2>3. ASSUME NEW r \in Requests, CommitRevoke(r) PROVE status'[i] = "revoked"
    BY <1>0, <1>3, <2>3, Zenon DEF CommitRevoke, Store
  <2> QED
    BY <1>3, <2>1, <2>2, <2>3, Writers, Zenon DEF rows
<1>4. ASSUME u \in Users, joinedBy[<<tenantOf[i], u>>] = i PROVE joinedBy'[<<tenantOf[i], u>>] = i
  <2>1. <<tenantOf[i], u>> \in Tenants \X Users /\ <<tenantOf[i], u>> \in members
    BY <1>0, <1>4, Zenon DEF JoinedAreMembers
  <2>2. ASSUME NEW r \in Requests, CommitAccept(r) PROVE joinedBy'[<<tenantOf[i], u>>] = i
    <3>1. /\ joinedBy' = [joinedBy EXCEPT ![<<tenantOf[req[r].inv], req[r].user>>] = req[r].inv]
          /\ <<tenantOf[req[r].inv], req[r].user>> \notin members
      BY <2>2, Zenon DEF CommitAccept, Join
    <3> QED
      BY <1>0, <1>4, <2>1, <3>1, Zenon
  <2> QED
    BY <1>4, <2>2, Writers, Zenon DEF CreateInvitation, CommitRevoke
<1> QED
  BY <1>0, <1>1, <1>2, <1>3, <1>4, Zenon DEF Promise, PromiseAfter

LEMMA AnswerStep ==
  ASSUME InvitationsInv, JoinedAreMembers, AnswerInv, [Next]_vars
  PROVE  AnswerInv'
<1> USE DEF InvitationsInv
<1> SUFFICES ASSUME NEW s \in Requests, pc'[s] \in {"unlock", "reply"}, ans'[s] = "ok"
             PROVE  PromiseAfter(req'[s].op, req'[s].inv, req'[s].user)
  BY Zenon DEF AnswerInv, Promise, PromiseAfter
<1>1. ASSUME pc[s] \in {"unlock", "reply"}, ans[s] = "ok", req'[s] = req[s]
      PROVE  PromiseAfter(req'[s].op, req'[s].inv, req'[s].user)
  <2>1. Promise(req[s].op, req[s].inv, req[s].user)
    BY <1>1, Zenon DEF AnswerInv
  <2>2. PromiseAfter(req[s].op, req[s].inv, req[s].user)
    BY <2>1, PromiseKept, Zenon
  <2> QED
    BY <1>1, <2>2, Zenon
<1>2. CASE CommitAccept(s)
  <2>1. /\ req' = req /\ version'[req[s].inv] > 0 /\ tenantOf' = tenantOf
        /\ joinedBy'[<<tenantOf[req[s].inv], req[s].user>>] = req[s].inv
        /\ req[s].op = "accept" /\ req[s].inv \in Invitations /\ req[s].user \in Users
    <3>1. req[s].op = "accept" /\ version[req[s].inv] > 0
      BY <1>2 DEF CommitAccept, RequestInv
    <3>2. req[s].inv \in Invitations /\ req[s].user \in Users /\ tenantOf[req[s].inv] \in Tenants
      BY <1>2, AcceptEffect, Zenon
    <3>3. version[req[s].inv] <= version'[req[s].inv] /\ version[req[s].inv] \in Nat /\ version'[req[s].inv] \in Nat
      BY <3>2, RowsAge, Zenon
    <3>4. /\ joinedBy' = [joinedBy EXCEPT ![<<tenantOf[req[s].inv], req[s].user>>] = req[s].inv]
          /\ req' = req /\ tenantOf' = tenantOf
      BY <1>2, Zenon DEF CommitAccept, Join
    <3>5. <<tenantOf[req[s].inv], req[s].user>> \in Tenants \X Users
      BY <3>2, Zenon
    <3>6. joinedBy'[<<tenantOf[req[s].inv], req[s].user>>] = req[s].inv
      BY <3>4, <3>5, Zenon DEF TableTypes
    <3> QED
      BY <3>1, <3>2, <3>3, <3>4, <3>6
  <2> QED
    BY <2>1, Zenon DEF PromiseAfter
<1>3. CASE CommitRevoke(s)
  <2>1. /\ req' = req /\ version'[req[s].inv] > 0
        /\ status'[req[s].inv] = "revoked" /\ req[s].op = "revoke" /\ req[s].inv \in Invitations
    <3>1. req[s].op = "revoke" /\ version[req[s].inv] > 0 /\ req[s].inv \in Invitations
      BY <1>3, Zenon DEF CommitRevoke, RequestInv
    <3>2. version[req[s].inv] <= version'[req[s].inv] /\ version[req[s].inv] \in Nat /\ version'[req[s].inv] \in Nat
      BY <3>1, RowsAge, Zenon
    <3>3. status' = [status EXCEPT ![req[s].inv] = "revoked"] /\ req' = req
      BY <1>3, Zenon DEF CommitRevoke, Store
    <3>4. status'[req[s].inv] = "revoked"
      BY <3>1, <3>3, Zenon DEF TableTypes
    <3> QED
      BY <3>1, <3>2, <3>3, <3>4
  <2> QED
    BY <2>1, Zenon DEF PromiseAfter
<1>4. ASSUME \/ AcceptStart(s) \/ RevokeRead(s) \/ AcceptRead(s) \/ AcceptFails(s) \/ UnlockFails(s)
             \/ RevokeFails(s) \/ Reply(s) \/ Crash(s)
      PROVE  FALSE
  BY <1>4 DEF AcceptStart, RevokeRead, AcceptRead, AcceptFails, UnlockFails, RevokeFails, Reply, Crash, End,
              Goto, LocalTypes
<1>5. CASE Unlock(s)
  BY <1>1, <1>5, Zenon DEF Unlock, Goto, LocalTypes
<1> QED
  BY <1>1, <1>2, <1>3, <1>4, <1>5, OthersWait, Zenon DEF Serve

(* AnswersHold: whatever versions clients send and whichever locks lapse,  *)
(* an "ok" is true when it is given.                                       *)
THEOREM AnswersStayTrue == Spec => []AnswersHold
<1>1. Init => JoinedAreMembers /\ AnswerInv
  BY InvitationsAssumption DEF Init, JoinedAreMembers, AnswerInv
<1>2. FullInv /\ JoinedAreMembers /\ AnswerInv /\ [Next]_vars => JoinedAreMembers' /\ AnswerInv'
  BY JoinStep, AnswerStep, Zenon DEF FullInv
<1>3. AnswerInv => AnswersHold
  BY Zenon DEF AnswerInv, Promise, AnswersHold
<1> QED
  BY <1>1, <1>2, <1>3, FullInvariant, PTL DEF Spec
-----------------------------------------------------------------------------
(* Health. While a probe waits it has seen the present state of each       *)
(* dependency, and what a check came to has its cause in what was seen.    *)
Deps == Health!Dependencies
Caused(p) ==
  \A d \in Deps :
    /\ result[p][d] = "disabled" <=> d \notin switched
    /\ result[p][d] = "up" => <<d, "up">> \in observed[p]
    /\ result[p][d] = "down" => p \in ended \/ observed[p] \cap {<<d, "down">>, <<d, "hangs">>} # {}

HealthInv ==
  /\ switched \subseteq Deps
  /\ state \in [Deps -> {"up", "down", "hangs"}]
  /\ probe \in [Probes -> {"idle", "waiting", "answered"}]
  /\ result \in [Probes -> [Deps -> {"none", "disabled", "up", "down"}]]
  /\ ready \in [Probes -> BOOLEAN]
  /\ observed \in [Probes -> SUBSET (Deps \X {"up", "down", "hangs"})]
  /\ \A p \in Probes :
       /\ probe[p] # "idle" => Caused(p)
       /\ probe[p] = "waiting" => \A d \in Deps : <<d, state[d]>> \in observed[p]
       /\ probe[p] = "answered" => Health!Collected(p) /\ (ready[p] <=> Health!Usable(result[p]))

LEMMA HealthInit == Health!Init => HealthInv
  BY DEF Health!Init, HealthInv, Deps

(* A check that comes to its result with a cause.                          *)
LEMMA CheckStep ==
  ASSUME HealthInv, NEW p \in Probes, NEW d \in Deps, NEW how \in {"up", "down"},
         Health!Pinging(p, d), Health!checkResult(p, d, how),
         how = "up" => state[d] = "up", how = "down" => state[d] # "up" \/ p \in ended
  PROVE  HealthInv'
  <1> USE DEF HealthInv, Deps
  <1>1. UNCHANGED <<switched, state, probe, ended, ready, observed>> /\ probe[p] = "waiting" /\ result[p][d] = "none"
    BY Zenon DEF Health!checkResult, Health!outside, Health!Pinging
  <1>2. /\ result' \in [Probes -> [Deps -> {"none", "disabled", "up", "down"}]]
        /\ \A q \in Probes, e \in Deps : result'[q][e] = IF q = p /\ e = d THEN how ELSE result[q][e]
    BY DEF Health!checkResult
  <1>3. <<d, state[d]>> \in observed[p] /\ state[d] \in {"up", "down", "hangs"} /\ d \in switched
    BY <1>1, Zenon DEF Caused
  <1>4. ASSUME NEW q \in Probes, probe[q] # "idle", NEW e \in Deps
        PROVE  /\ result'[q][e] = "disabled" <=> e \notin switched
               /\ result'[q][e] = "up" => <<e, "up">> \in observed[q]
               /\ result'[q][e] = "down" => q \in ended \/ observed[q] \cap {<<e, "down">>, <<e, "hangs">>} # {}
    <2>1. CASE q = p /\ e = d
      BY <1>2, <1>3, <2>1, Zenon
    <2>2. CASE ~(q = p /\ e = d)
      BY <1>2, <1>4, <2>2 DEF Caused
    <2> QED
      BY <2>1, <2>2, Zenon
  <1>5. \A q \in Probes : probe[q] = "answered" => \A e \in Deps : result'[q][e] = result[q][e]
    BY <1>1, <1>2
  <1> QED
    BY <1>1, <1>2, <1>4, <1>5 DEF Caused, Health!Collected, Health!Usable

LEMMA HealthStep ==
  ASSUME HealthInv, [Health!Next]_(Health!vars)
  PROVE  HealthInv'
  <1> USE DEF HealthInv, Caused, Deps, Health!Collected, Health!Usable, Health!outside
  <1>1. CASE UNCHANGED Health!vars
    BY <1>1 DEF Health!vars
  <1>2. ASSUME NEW d \in Deps, NEW s \in {"up", "down", "hangs"}, Health!Turn(d, s) PROVE HealthInv'
    BY <1>2 DEF Health!Turn
  <1>3. ASSUME NEW p \in Probes, Health!Ready(p) PROVE HealthInv'
    BY <1>3 DEF Health!Ready, Health!Now
  <1>4. ASSUME NEW p \in Probes, Health!ContextEnds(p) PROVE HealthInv'
    BY <1>4 DEF Health!ContextEnds
  <1>5. ASSUME NEW p \in Probes, Health!Answer(p) PROVE HealthInv'
    BY <1>5 DEF Health!Answer
  <1>6. ASSUME NEW p \in Probes, NEW d \in Deps, Health!Ping(p, d) PROVE HealthInv'
    <2>1. state[d] \in {"up", "down"}
      BY <1>6 DEF Health!Ping
    <2>2. Health!Pinging(p, d) /\ Health!checkResult(p, d, state[d])
      BY <1>6, Zenon DEF Health!Ping
    <2> HIDE DEF HealthInv, Deps
    <2> QED
      BY <2>1, <2>2, CheckStep, Zenon
  <1>7. ASSUME NEW p \in Probes, NEW d \in Deps, Health!Timeout(p, d) \/ Health!Cancelled(p, d)
        PROVE  HealthInv'
    <2>1. /\ Health!Pinging(p, d) /\ Health!checkResult(p, d, "down")
          /\ state[d] # "up" \/ p \in ended
      BY <1>7, Zenon DEF Health!Timeout, Health!Cancelled
    <2> QED
      BY <2>1, CheckStep, Zenon
  <1> HIDE DEF HealthInv, Deps
  <1> QED
    BY <1>1, <1>2, <1>3, <1>4, <1>5, <1>6, <1>7, Zenon DEF Health!Next, Health!Step, Health!Done, Deps

(* ReadyIsTrue: while dependencies come, go and hang, and callers leave, a *)
(* probe answers ready only if each dependency in use was up during it,    *)
(* and not ready only with a cause.                                        *)
THEOREM ProbesAreRight == Health!Spec => []ReadyIsTrue
  <1>1. HealthInv /\ [Health!Next]_(Health!vars) => HealthInv'
    BY HealthStep, Zenon
  <1>2. ASSUME HealthInv, NEW p \in Probes, probe[p] = "answered"
        PROVE  /\ ready[p] => \A d \in switched : <<d, "up">> \in observed[p]
               /\ ~ready[p] => p \in ended \/ \E d \in switched : observed[p] \cap {<<d, "down">>, <<d, "hangs">>} # {}
    <2>1. Caused(p) /\ Health!Collected(p) /\ (ready[p] <=> Health!Usable(result[p])) /\ switched \subseteq Deps
      BY <1>2, Zenon DEF HealthInv
    <2>2. \A d \in Deps : result[p][d] \in {"none", "disabled", "up", "down"}
      BY <1>2, Zenon DEF HealthInv
    <2>3. ASSUME ready[p], NEW d \in switched PROVE <<d, "up">> \in observed[p]
      BY <2>1, <2>2, <2>3, Zenon DEF Caused, Deps, Health!Collected, Health!Usable
    <2>4. ASSUME ~ready[p], p \notin ended
          PROVE  \E d \in switched : observed[p] \cap {<<d, "down">>, <<d, "hangs">>} # {}
      BY <2>1, <2>2, <2>4, Zenon DEF Caused, Deps, Health!Collected, Health!Usable
    <2> QED
      BY <2>3, <2>4, Zenon
  <1>3. HealthInv => ReadyIsTrue
    BY <1>2, Zenon DEF ReadyIsTrue, Health!ReadyIsTrue, Health!ReadyWasUp, Health!NotReadyHasCause
  <1> QED
    BY HealthInit, <1>1, <1>3, PTL DEF Health!Spec
-----------------------------------------------------------------------------
(* Config. The profile that was chosen and the setting app.env agree from  *)
(* the load on; what the constructors get is what Validate accepted.       *)
Accepted ==
  /\ Config!ValidateUpstreams
  /\ \A r \in Config!Rules : r[1] \subseteq conf => r[2] \subseteq conf

(* The causes that AcceptedStarts admits, and "" for no cause.             *)
Admitted ==
  {c \in Config!Parsed \cup {"", "outbound.identity", "http.tls.key"} : c = "http.tls.key" => "http.tls" \notin conf}

ConfigInv ==
  /\ step \in {"load", "validate", "construct", "running", "rejected", "failed"}
  /\ step # "load" => ("production" \in conf <=> active = "production") /\ conf \subseteq Config!Settings
  /\ step \in {"construct", "running", "failed"} => Accepted
  /\ step = "failed" => cause \in Admitted /\ cause # ""

(* A rule of Validate, applied.                                            *)
LEMMA RuleHolds ==
  ASSUME Accepted, NEW a, NEW b, <<a, b>> \in Config!Rules, a \subseteq conf
  PROVE  b \subseteq conf
  BY Zenon DEF Accepted

(* The rules that the constructors and a closed production rest on.        *)
LEMMA RulesUsed ==
  ASSUME Accepted, conf \subseteq Config!Settings
  PROVE  /\ "migration.auto_up" \in conf => "migration.database_url" \in conf
         /\ "database" \in conf => "database.type" \in conf
         /\ "event_bus" \in conf => "database" \in conf
         /\ "dictionary" \in conf => "outbound.registry" \in conf
         /\ "grpc.tls" \in conf => "grpc.tls.files" \in conf
         /\ {"production", "grpc"} \subseteq conf => "grpc.tls" \in conf
         /\ "production" \in conf => "grpc.reflection" \notin conf
         /\ "production" \in conf => {"auth.jwks_url", "authorization"} \subseteq conf
         /\ "authorization" \in conf => "outbound.authorization" \in conf
  <1> USE DEF Config!Rules
  <1>1. "migration.auto_up" \in conf => "migration.database_url" \in conf
    <2>1. <<{"migration.auto_up"}, {"database", "migration.path", "migration.database_url", "migration.table"}>> \in Config!Rules
      BY Zenon DEF Config!StoreRules
    <2> QED
      BY <2>1, RuleHolds
  <1>2. "database" \in conf => "database.type" \in conf
    <2>1. <<{"database"}, {"database.dsn", "database.type"}>> \in Config!Rules
      BY Zenon DEF Config!StoreRules
    <2> QED
      BY <2>1, RuleHolds
  <1>3. "event_bus" \in conf => "database" \in conf
    <2>1. <<{"event_bus"}, {"database", "event_bus.stream", "event_bus.intervals", "event_bus.retention"}>> \in Config!Rules
      BY Zenon DEF Config!EventRules
    <2> QED
      BY <2>1, RuleHolds
  <1>4. "dictionary" \in conf => "outbound.registry" \in conf
    <2>1. <<{"dictionary"}, {"outbound.registry", "dictionary.target", "dictionary.lease"}>> \in Config!Rules
      BY Zenon DEF Config!EventRules
    <2> QED
      BY <2>1, RuleHolds
  <1>5. "grpc.tls" \in conf => "grpc.tls.files" \in conf
    <2>1. <<{"grpc.tls"}, {"grpc.tls.files"}>> \in Config!Rules
      BY Zenon DEF Config!ServerRules
    <2> QED
      BY <2>1, RuleHolds
  <1>6. {"production", "grpc"} \subseteq conf => "grpc.tls" \in conf
    <2>1. <<{"production", "grpc"}, {"grpc.tls"}>> \in Config!Rules
      BY Zenon DEF Config!ServerRules
    <2> QED
      BY <2>1, RuleHolds
  <1>7. "production" \in conf => "grpc.reflection" \notin conf
    <2>1. <<{"production", "grpc.reflection"}, {"never"}>> \in Config!Rules
      BY Zenon DEF Config!ServerRules
    <2>2. "never" \notin conf
      BY Zenon DEF Config!Settings, Config!ServerSettings, Config!StoreSettings, Config!AuthSettings, Config!EventSettings, Config!UpstreamSettings
    <2> QED
      BY <2>1, <2>2, RuleHolds
  <1>8. "production" \in conf => {"auth.jwks_url", "authorization"} \subseteq conf
    <2>1. <<{"production"}, {"auth.jwks_url", "auth.issuer", "auth.audience", "authorization"}>> \in Config!Rules
      BY Zenon DEF Config!AuthRules
    <2> QED
      BY <2>1, RuleHolds
  <1>9. "authorization" \in conf => "outbound.authorization" \in conf
    <2>1. <<{"authorization"}, {"outbound.authorization"}>> \in Config!Rules
      BY Zenon DEF Config!AuthRules
    <2> QED
      BY <2>1, RuleHolds
  <1> QED
    BY <1>1, <1>2, <1>3, <1>4, <1>5, <1>6, <1>7, <1>8, <1>9

(* What Validate asks of the clients is what their constructors ask of the *)
(* settings together, but for a certificate's key without TLS.             *)
LEMMA ClientsConstruct ==
  ASSUME Accepted
  PROVE  /\ {"outbound.http", "http.auth"} \subseteq conf => "http.tls" \in conf
         /\ {"outbound.http", "http.tls", "http.tls.cert"} \subseteq conf => "http.tls.key" \in conf
         /\ Config!RpcUpstream => {"rpc.target", "rpc.timeout"} \subseteq conf
         /\ Config!RpcUpstream /\ "rpc.auth" \in conf =>
              "rpc.tls" \in conf \/ ("rpc.insecure" \in conf /\ "production" \notin conf)
         /\ Config!RpcUpstream /\ "rpc.tls" \in conf => ("rpc.tls.cert" \in conf <=> "rpc.tls.key" \in conf)
  <1>1. "outbound.http" \in conf => Config!validateClientPolicy(Config!HttpClient, FALSE)
    BY Zenon DEF Accepted, Config!ValidateUpstreams
  <1>2. Config!RpcUpstream =>
          /\ {"rpc.target", "rpc.timeout"} \subseteq conf
          /\ Config!validateClientPolicy(Config!RpcClient, "rpc.insecure" \in conf /\ "production" \notin conf)
    BY Zenon DEF Accepted, Config!ValidateUpstreams
  <1>3. /\ Config!HttpClient.auth = "http.auth" /\ Config!HttpClient.tls = "http.tls"
        /\ Config!HttpClient.cert = "http.tls.cert" /\ Config!HttpClient.key = "http.tls.key"
    BY DEF Config!HttpClient
  <1>4. /\ Config!RpcClient.auth = "rpc.auth" /\ Config!RpcClient.tls = "rpc.tls"
        /\ Config!RpcClient.cert = "rpc.tls.cert" /\ Config!RpcClient.key = "rpc.tls.key"
    BY DEF Config!RpcClient
  <1>5. "outbound.http" \in conf =>
          /\ "http.auth" \in conf => "http.tls" \in conf
          /\ {"http.tls", "http.tls.cert"} \subseteq conf => "http.tls.key" \in conf
    BY <1>1, <1>3, Zenon DEF Config!validateClientPolicy
  <1>6. Config!RpcUpstream =>
          /\ "rpc.auth" \in conf => "rpc.tls" \in conf \/ ("rpc.insecure" \in conf /\ "production" \notin conf)
          /\ "rpc.tls" \in conf => ("rpc.tls.cert" \in conf <=> "rpc.tls.key" \in conf)
    BY <1>2, <1>4, Zenon DEF Config!validateClientPolicy
  <1> QED
    BY <1>2, <1>5, <1>6, Zenon

(* A demand that is met, or for a setting admitted, gives an admitted      *)
(* cause, and so does the first of two that do.                            *)
LEMMA MetIsAdmitted ==
  ASSUME NEW on, NEW s, on \subseteq conf => s \in conf
  PROVE  Config!Needs(on, s) \in Admitted
  BY Zenon DEF Config!Needs, Admitted

LEMMA ParsedIsAdmitted ==
  ASSUME NEW on, NEW s \in Config!Parsed
  PROVE  Config!Needs(on, s) \in Admitted
  <1>1. "http.tls.key" \notin Config!Parsed
    BY Zenon DEF Config!Parsed
  <1> QED
    BY <1>1, Zenon DEF Config!Needs, Admitted

LEMMA FirstIsAdmitted ==
  ASSUME NEW a \in Admitted, NEW b \in Admitted
  PROVE  Config!??(a, b) \in Admitted
  BY Zenon DEF Config!??

(* An accepted configuration is refused for an admitted cause only.        *)
LEMMA RefusalIsAdmitted ==
  ASSUME Accepted, conf \subseteq Config!Settings
  PROVE  Config!Refusal \in Admitted
  <1>1. Config!newLogger \in Admitted /\ Config!NewTracing \in Admitted /\ Config!NewRuntime \in Admitted /\ Config!NewServer \in Admitted
    <2>1. {"log.level", "tracing.endpoint.parses", "auth.jwks_url.parses", "http.trusted_proxies"} \subseteq Config!Parsed
      BY Zenon DEF Config!Parsed
    <2> QED
      BY <2>1, ParsedIsAdmitted, Zenon DEF Config!newLogger, Config!NewTracing, Config!NewRuntime, Config!NewServer
  <1>2. Config!schedulerNew \in Admitted /\ Config!Listen \in Admitted
    <2>1. {"cron.timezone", "cron.sample_spec", "grpc.address.parses", "http.address.parses"} \subseteq Config!Parsed
      BY Zenon DEF Config!Parsed
    <2> QED
      BY <2>1, ParsedIsAdmitted, FirstIsAdmitted, Zenon DEF Config!schedulerNew, Config!Listen
  <1>3. Config!runStartupMigration \in Admitted /\ Config!newDatabase \in Admitted
    <2>1. {"migration.database_url.parses", "database.dsn.parses"} \subseteq Config!Parsed
      BY Zenon DEF Config!Parsed
    <2>2. /\ Config!Needs({"migration.auto_up"}, "migration.database_url") \in Admitted
          /\ Config!Needs({"database"}, "database.type") \in Admitted
      BY RulesUsed, MetIsAdmitted, Zenon
    <2> QED
      BY <2>1, <2>2, ParsedIsAdmitted, FirstIsAdmitted, Zenon DEF Config!runStartupMigration, Config!newDatabase
  <1>4. Config!newDictionaryProviderRuntime \in Admitted /\ Config!eventRuntimeStart \in Admitted
    <2>1. {"dictionary.options", "event_bus.options"} \subseteq Config!Parsed
      BY Zenon DEF Config!Parsed
    <2>2. /\ Config!Needs({"dictionary"}, "outbound.registry") \in Admitted
          /\ Config!Needs({"event_bus"}, "database") \in Admitted
      BY RulesUsed, MetIsAdmitted, Zenon
    <2> QED
      BY <2>1, <2>2, ParsedIsAdmitted, FirstIsAdmitted, Zenon DEF Config!newDictionaryProviderRuntime, Config!eventRuntimeStart
  <1>5. Config!NewHTTPClient \in Admitted
    <2>1. "http.base_url.absolute" \in Config!Parsed
      BY Zenon DEF Config!Parsed
    <2>2. Config!Needs({"outbound.http", "http.auth"}, "http.tls") \in Admitted
      BY ClientsConstruct, MetIsAdmitted, Zenon
    <2>3. Config!Needs({"outbound.http", "http.tls.cert"}, "http.tls.key") \in Admitted
      BY ClientsConstruct, Zenon DEF Config!Needs, Admitted
    <2> QED
      BY <2>1, <2>2, <2>3, ParsedIsAdmitted, FirstIsAdmitted, Zenon DEF Config!NewHTTPClient
  <1>6. Config!Dial \in Admitted
    <2>1. "" \in Admitted
      BY Zenon DEF Admitted
    <2>2. ASSUME Config!RpcUpstream
          PROVE  /\ Config!Needs({}, "rpc.target") \in Admitted
                 /\ Config!Needs({}, "rpc.timeout") \in Admitted
      BY <2>2, ClientsConstruct, MetIsAdmitted, Zenon
    <2>3. ASSUME Config!RpcUpstream PROVE Config!transportCredentials \in Admitted
      <3>1. /\ Config!Needs({"rpc.tls", "rpc.tls.cert"}, "rpc.tls.key") \in Admitted
            /\ Config!Needs({"rpc.tls", "rpc.tls.key"}, "rpc.tls.cert") \in Admitted
        BY <2>3, ClientsConstruct, MetIsAdmitted, Zenon
      <3> QED
        BY <3>1, FirstIsAdmitted, Zenon DEF Config!transportCredentials
    <2>4. ASSUME Config!RpcUpstream PROVE Config!Credentials \in Admitted
      <3>1. CASE "rpc.insecure" \in conf
        BY <2>1, <3>1, Zenon DEF Config!Credentials
      <3>2. CASE "rpc.insecure" \notin conf
        BY <2>4, <3>2, ClientsConstruct, MetIsAdmitted, Zenon DEF Config!Credentials
      <3> QED
        BY <3>1, <3>2
    <2>5. Config!Needs({}, "rpc.target.parses") \in Admitted
      <3>1. "rpc.target.parses" \in Config!Parsed
        BY Zenon DEF Config!Parsed
      <3> QED
        BY <3>1, ParsedIsAdmitted, Zenon
    <2>6. CASE Config!RpcUpstream
      BY <2>2, <2>3, <2>4, <2>5, <2>6, FirstIsAdmitted, Zenon DEF Config!Dial
    <2>7. CASE ~Config!RpcUpstream
      BY <2>1, <2>7, Zenon DEF Config!Dial
    <2> QED
      BY <2>6, <2>7
  <1>7. Config!identityclientNew \in Admitted /\ Config!serverCredentials \in Admitted
    <2>1. "outbound.identity" \in Admitted /\ "" \in Admitted
      BY Zenon DEF Admitted
    <2>2. Config!serverCredentials \in Admitted
      BY RulesUsed, MetIsAdmitted, Zenon DEF Config!serverCredentials
    <2> QED
      BY <2>1, <2>2, Zenon DEF Config!identityclientNew, Config!Needs
  <1> QED
    BY <1>1, <1>2, <1>3, <1>4, <1>5, <1>6, <1>7, FirstIsAdmitted, Zenon DEF Config!Refusal

(* What Validate and the constructors say depends on the settings alone.   *)
LEMMA SettingsDecide ==
  ASSUME conf' = conf
  PROVE  (Accepted' <=> Accepted) /\ Admitted' = Admitted
  BY Zenon DEF Accepted, Admitted, Config!ValidateUpstreams, Config!validateClientPolicy, Config!RpcUpstream

(* AcceptedIsSound: whatever the file, the profile's file and the environ- *)
(* ment say, a process in production runs closed, and an accepted          *)
(* configuration is refused by no constructor or start hook, but for a     *)
(* value that does not parse, a missing identity upstream, or a client     *)
(* certificate without its key where TLS is off.                           *)
THEOREM AcceptedConfigurationsAreSound == Config!Spec => []AcceptedIsSound
  <1>1. Config!Init => ConfigInv
    BY Zenon DEF Config!Init, ConfigInv
  <1>2. ASSUME ConfigInv, [Config!Next]_(Config!vars) PROVE ConfigInv'
    <2>1. CASE Config!LoadWithProfile
      <3>1. "production" \in Config!Settings
        BY Zenon DEF Config!Settings, Config!ServerSettings
      <3>2. "production" \in Config!Merged <=> Config!Profile = "production"
        BY Zenon DEF Config!Merged
      <3>3. Config!Merged \subseteq Config!Settings
        BY <3>1, Zenon DEF Config!Merged, Config!Layered
      <3> QED
        BY <1>2, <2>1, <3>2, <3>3, Zenon DEF Config!LoadWithProfile, ConfigInv
    <2>2. CASE Config!Validate
      <3>1. step = "validate" /\ conf' = conf /\ active' = active /\ cause' = cause
            /\ step' = IF Accepted THEN "construct" ELSE "rejected"
        BY <2>2, Zenon DEF Config!Validate, Accepted
      <3>2. (Accepted' <=> Accepted) /\ Admitted' = Admitted
        BY <3>1, SettingsDecide, Zenon
      <3> QED
        BY <1>2, <3>1, <3>2, Zenon DEF ConfigInv
    <2>3. CASE Config!Construct
      <3>1. step = "construct" /\ conf' = conf /\ active' = active /\ cause' = Config!Refusal
            /\ step' = IF Config!Refusal = "" THEN "running" ELSE "failed"
        BY <2>3, Zenon DEF Config!Construct
      <3>2. (Accepted' <=> Accepted) /\ Admitted' = Admitted
        BY <3>1, SettingsDecide, Zenon
      <3>3. Config!Refusal \in Admitted
        BY <1>2, <3>1, RefusalIsAdmitted, Zenon DEF ConfigInv
      <3> QED
        BY <1>2, <3>1, <3>2, <3>3, Zenon DEF ConfigInv
    <2>4. CASE UNCHANGED Config!vars
      <3>1. step' = step /\ conf' = conf /\ active' = active /\ cause' = cause
        BY <2>4, Zenon DEF Config!vars
      <3>2. (Accepted' <=> Accepted) /\ Admitted' = Admitted
        BY <3>1, SettingsDecide, Zenon
      <3> QED
        BY <1>2, <3>1, <3>2, Zenon DEF ConfigInv
    <2> QED
      BY <1>2, <2>1, <2>2, <2>3, <2>4, Zenon DEF Config!Next, Config!Ended
  <1>3. ASSUME ConfigInv PROVE Config!ProductionIsClosed
    <2>1. SUFFICES ASSUME step = "running", active = "production"
                   PROVE  Config!ProductionIsClosed
      BY Zenon DEF Config!ProductionIsClosed
    <2>2. Accepted /\ conf \subseteq Config!Settings /\ "production" \in conf
      BY <1>3, <2>1, Zenon DEF ConfigInv
    <2>3. Config!RpcUpstream
      BY <2>2, RulesUsed, Zenon DEF Config!RpcUpstream
    <2> QED
      BY <2>2, <2>3, RulesUsed, ClientsConstruct, Zenon DEF Config!ProductionIsClosed
  <1>4. ASSUME ConfigInv PROVE Config!AcceptedStarts
    BY <1>4, Zenon DEF ConfigInv, Admitted, Config!AcceptedStarts
  <1> QED
    BY <1>1, <1>2, <1>3, <1>4, PTL DEF Config!Spec, AcceptedIsSound, Config!AcceptedIsSound
=============================================================================
