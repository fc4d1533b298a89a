------------------------- MODULE OrganizationProofs -------------------------
(***************************************************************************)
(* Theorems about OrganizationTree, about the materialised paths, and      *)
(* about OrganizationScope, for every value of their constants.            *)
(***************************************************************************)
EXTENDS OrganizationScope, SequenceTheorems, WellFoundedInduction, TLAPS

USE DEF Parents, Statuses, Locking, Outside, Bumped, NextVersion, ChangedEvent

-----------------------------------------------------------------------------
(* Sequences: what a prefix is, and how Rebased commutes with Append.      *)

(* IsPrefix, position by position.                                         *)
LEMMA PrefixPointwise ==
  ASSUME NEW S, NEW s \in Seq(S), NEW t \in Seq(S)
  PROVE  IsPrefix(s, t) <=> Len(s) <= Len(t) /\ \A i \in 1..Len(s) : s[i] = t[i]
<1>1. ASSUME Len(s) <= Len(t)
      PROVE  /\ SubSeq(t, 1, Len(s)) \in Seq(S)
             /\ Len(SubSeq(t, 1, Len(s))) = Len(s)
             /\ \A i \in 1..Len(s) : SubSeq(t, 1, Len(s))[i] = t[i]
  BY <1>1, SubSeqProperties, LenProperties
<1>2. ASSUME Len(s) <= Len(t)
      PROVE  s = SubSeq(t, 1, Len(s)) <=> \A i \in 1..Len(s) : s[i] = t[i]
  BY <1>1, <1>2, SeqEqual, Zenon
<1> QED
  BY <1>2, Zenon DEF IsPrefix

(* Appending one element adds one prefix, the whole sequence.              *)
LEMMA PrefixAppend ==
  ASSUME NEW S, NEW s \in Seq(S), NEW t \in Seq(S), NEW e \in S
  PROVE  IsPrefix(s, Append(t, e)) <=> IsPrefix(s, t) \/ s = Append(t, e)
<1> DEFINE t1 == Append(t, e)
<1>1. /\ t1 \in Seq(S)
      /\ Len(t1) = Len(t) + 1
      /\ \A i \in 1..Len(t) : t1[i] = t[i]
      /\ Len(s) \in Nat /\ Len(t) \in Nat
  BY AppendProperties, LenProperties
<1> HIDE DEF t1
<1>2. IsPrefix(s, t) <=> Len(s) <= Len(t) /\ \A i \in 1..Len(s) : s[i] = t[i]
  BY PrefixPointwise
<1>3. IsPrefix(s, t1) <=> Len(s) <= Len(t1) /\ \A i \in 1..Len(s) : s[i] = t1[i]
  BY <1>1, PrefixPointwise
<1>4. s = t1 <=> Len(s) = Len(t1) /\ \A i \in 1..Len(s) : s[i] = t1[i]
  BY <1>1, SeqEqual, Zenon
<1>5. CASE Len(s) <= Len(t)
  <2>1. \A i \in 1..Len(s) : t1[i] = t[i]
    BY <1>1, <1>5
  <2> QED
    BY <1>1, <1>2, <1>3, <1>4, <1>5, <2>1 DEF t1
<1>6. CASE ~ (Len(s) <= Len(t))
  <2>1. IsPrefix(s, t1) <=> s = t1
    BY <1>1, <1>3, <1>4, <1>6
  <2> QED
    BY <1>2, <1>6, <2>1, Zenon DEF t1
<1> QED
  BY <1>5, <1>6, Zenon

(* Rewriting the start of a path leaves its last identifier alone.         *)
LEMMA RebasedAppend ==
  ASSUME NEW S, NEW old \in Seq(S), NEW new \in Seq(S), NEW q \in Seq(S), NEW e \in S,
         Len(old) <= Len(q)
  PROVE  Rebased(old, new, Append(q, e)) = Append(Rebased(old, new, q), e)
<1> DEFINE q1 == Append(q, e)
           tail == SubSeq(q, Len(old) + 1, Len(q))
           tail1 == SubSeq(q1, Len(old) + 1, Len(q) + 1)
<1>1. /\ q1 \in Seq(S)
      /\ Len(q1) = Len(q) + 1
      /\ \A i \in 1..Len(q) : q1[i] = q[i]
      /\ q1[Len(q) + 1] = e
      /\ Len(old) \in Nat /\ Len(q) \in Nat
  BY AppendProperties, LenProperties
<1> HIDE DEF q1
<1>2. /\ tail \in Seq(S) /\ Len(tail) = Len(q) - Len(old)
      /\ \A i \in 1..(Len(q) - Len(old)) : tail[i] = q[Len(old) + i]
  BY <1>1, SubSeqProperties
<1>3. /\ tail1 \in Seq(S) /\ Len(tail1) = Len(q) - Len(old) + 1
      /\ \A i \in 1..(Len(q) - Len(old) + 1) : tail1[i] = q1[Len(old) + i]
  BY <1>1, SubSeqProperties
<1>4. /\ Append(tail, e) \in Seq(S)
      /\ Len(Append(tail, e)) = Len(q) - Len(old) + 1
      /\ \A i \in 1..(Len(q) - Len(old)) : Append(tail, e)[i] = tail[i]
      /\ Append(tail, e)[Len(q) - Len(old) + 1] = e
  BY <1>2, AppendProperties
<1> HIDE DEF tail, tail1
<1>5. \A i \in 1..(Len(q) - Len(old) + 1) : tail1[i] = Append(tail, e)[i]
  <2> TAKE i \in 1..(Len(q) - Len(old) + 1)
  <2>1. CASE i = Len(q) - Len(old) + 1
    BY <1>1, <1>3, <1>4, <2>1
  <2>2. CASE i # Len(q) - Len(old) + 1
    <3>1. i \in 1..(Len(q) - Len(old)) /\ Len(old) + i \in 1..Len(q)
      BY <1>1, <2>2
    <3> QED
      BY <1>1, <1>2, <1>3, <1>4, <3>1
  <2> QED
    BY <2>1, <2>2, Zenon
<1>6. tail1 = Append(tail, e)
  BY <1>3, <1>4, <1>5, SeqEqual, Zenon
<1>7. new \o Append(tail, e) = Append(new \o tail, e)
  BY <1>2, AppendIsConcat, ConcatAssociative, ConcatProperties
<1> QED
  BY <1>1, <1>6, <1>7, Zenon DEF Rebased, tail, tail1, q1

(* The child of a unit that moves follows it.                              *)
LEMMA RebasedChild ==
  ASSUME NEW S, NEW old \in Seq(S), NEW new \in Seq(S), NEW e \in S
  PROVE  Rebased(old, new, Append(old, e)) = Append(new, e)
<1>1. Rebased(old, new, Append(old, e)) = Append(Rebased(old, new, old), e)
  BY RebasedAppend, LenProperties
<1>2. SubSeq(old, Len(old) + 1, Len(old)) = <<>>
  BY SubSeqEmpty, LenProperties
<1>3. Rebased(old, new, old) = new
  BY <1>2, ConcatEmptySeq, Zenon DEF Rebased
<1> QED
  BY <1>1, <1>3, Zenon
-----------------------------------------------------------------------------
(* Types.  A stored unit has a tenant, a request in progress an input, and *)
(* an update under way a stored unit.                                      *)
RowsOwned == \A u \in rows : tenantOf[u] \in Tenants
RequestsTyped ==
  \A r \in Requests :
    /\ pc[r] # "idle" => req[r] \in Request
    /\ pc[r] \in Locking => req[r].unit \in rows
TypeInv == TypeOK /\ RowsOwned /\ RequestsTyped

Snapshot == [path : Seq(Units), version : 0..MaxVersion]
Event == [parent : Parents, path : Seq(Units), status : Statuses, version : 0..MaxVersion]

LEMMA EmptyValues == NoRow \in Snapshot /\ NoEvent \in Event /\ <<>> \in Seq(Units)
BY OrganizationAssumption, EmptySeq DEF NoRow, NoEvent, Snapshot, Event

LEMMA RebasedType ==
  ASSUME NEW S, NEW old \in Seq(S), NEW new \in Seq(S), NEW p \in Seq(S)
  PROVE  Rebased(old, new, p) \in Seq(S)
<1>1. SubSeq(p, Len(old) + 1, Len(p)) \in Seq(S)
  BY SubSeqProperties, LenProperties
<1> QED
  BY <1>1, ConcatProperties, Zenon DEF Rebased

(* The types of the variables of the requests, and of those of the table.  *)
LocalTypes ==
  /\ pc \in [Requests -> Locking \cup {"idle", "insert"}]
  /\ req \in [Requests -> Request \cup {NoRequest}]
  /\ cur \in [Requests -> Snapshot]
  /\ par \in [Requests -> Seq(Units)]
TableTypes ==
  /\ rows \subseteq Units
  /\ tenantOf \in [Units -> Tenants \cup {NoTenant}]
  /\ parentOf \in [Units -> Parents]
  /\ path \in [Units -> Seq(Units)]
  /\ status \in [Units -> Statuses]
  /\ version \in [Units -> 0..MaxVersion]
  /\ announced \in [Units -> Event]
LockType == lock \in [Tenants -> Requests \cup {NoHolder}]

LEMMA TypeParts == TypeOK <=> TableTypes /\ LockType /\ LocalTypes
BY Zenon DEF TypeOK, TableTypes, LockType, LocalTypes, Snapshot, Event

LEMMA TypeInit == Init => TypeInv
<1> SUFFICES ASSUME Init PROVE TableTypes /\ LockType /\ LocalTypes /\ RowsOwned /\ RequestsTyped
  BY TypeParts, Zenon DEF TypeInv
<1>1. TableTypes /\ RowsOwned
  BY EmptyValues, OrganizationAssumption DEF Init, TableTypes, RowsOwned
<1>2. LockType /\ LocalTypes /\ RequestsTyped
  BY EmptyValues, Zenon DEF Init, LockType, LocalTypes, RequestsTyped
<1> QED
  BY <1>1, <1>2, Zenon

LEMMA LocalEnd ==
  ASSUME NEW r \in Requests, LocalTypes, RequestsTyped, End(r), rows \subseteq rows'
  PROVE  LocalTypes' /\ RequestsTyped'
BY EmptyValues, Zenon DEF End, LocalTypes, RequestsTyped

LEMMA LocalLeave ==
  ASSUME NEW r \in Requests, LocalTypes, RequestsTyped, Leave(r), pc[r] \in Locking,
         rows \subseteq rows'
  PROVE  LocalTypes' /\ RequestsTyped'
BY EmptyValues, Zenon DEF Leave, LocalTypes, RequestsTyped

LEMMA TypeStep == TypeInv /\ [Next]_vars => TypeInv'
<1> SUFFICES ASSUME TableTypes, LockType, LocalTypes, RowsOwned, RequestsTyped, [Next]_vars
             PROVE  TableTypes' /\ LockType' /\ LocalTypes' /\ RowsOwned' /\ RequestsTyped'
  BY TypeParts, PTL DEF TypeInv
<1> DEFINE Goal == TableTypes' /\ LockType' /\ LocalTypes' /\ RowsOwned' /\ RequestsTyped'
<1>0. UNCHANGED table => TableTypes' /\ RowsOwned'
  BY Zenon DEF table, TableTypes, RowsOwned
<1>1. ASSUME NEW r \in Requests, CreateReadParent(r) PROVE Goal
  <2>1. PICK c \in Principals, t \in Tenants, p \in Parents :
          /\ p = NoUnit \/ ActiveIn(p, t)
          /\ req' = [req EXCEPT ![r] = [caller |-> c, tenant |-> t, unit |-> NoUnit,
                                        parent |-> p, status |-> "active", version |-> 0]]
          /\ par' = [par EXCEPT ![r] = IF p = NoUnit THEN <<>> ELSE path[p]]
    BY <1>1 DEF CreateReadParent
  <2>2. [caller |-> c, tenant |-> t, unit |-> NoUnit,
         parent |-> p, status |-> "active", version |-> 0] \in Request
    BY OrganizationAssumption DEF Request
  <2>3. LocalTypes' /\ RequestsTyped'
    BY <1>1, <2>1, <2>2, EmptyValues, Zenon
       DEF CreateReadParent, LocalTypes, RequestsTyped, TableTypes, table
  <2> QED
    BY <1>0, <1>1, <2>3, Zenon DEF CreateReadParent, LockType
<1>2. ASSUME NEW r \in Requests, UpdateStart(r) PROVE Goal
  <2>1. PICK c \in Principals, u \in rows, p \in Parents, s \in Statuses, v \in 1..MaxVersion :
          /\ AuthorizedFor(c, tenantOf[u]) /\ v < MaxVersion
          /\ req' = [req EXCEPT ![r] = [caller |-> c, tenant |-> tenantOf[u], unit |-> u,
                                        parent |-> p, status |-> s, version |-> v]]
          /\ IF HasLocker
             THEN LockFree(lock, tenantOf[u]) /\ lock' = Locked(lock, tenantOf[u], r)
             ELSE UNCHANGED lock
    BY <1>2, Zenon DEF UpdateStart
  <2>2. [caller |-> c, tenant |-> tenantOf[u], unit |-> u,
         parent |-> p, status |-> s, version |-> v] \in Request
    BY <2>1, OrganizationAssumption DEF Request, RowsOwned, TableTypes
  <2>3. LocalTypes' /\ RequestsTyped'
    BY <1>2, <2>1, <2>2, Zenon DEF UpdateStart, LocalTypes, RequestsTyped, table
  <2>4. LockType'
    BY <2>1 DEF LockType, Locked, RowsOwned
  <2> QED
    BY <1>0, <1>2, <2>3, <2>4, Zenon DEF UpdateStart
<1>3. ASSUME NEW r \in Requests, ReadCurrent(r) PROVE Goal
  <2>1. [path |-> path[req[r].unit], version |-> version[req[r].unit]] \in Snapshot
    BY <1>3, Zenon DEF ReadCurrent, RequestsTyped, TableTypes, Snapshot
  <2> QED
    BY <1>0, <1>3, <2>1, Zenon DEF ReadCurrent, LockType, LocalTypes, RequestsTyped, table
<1>4. ASSUME NEW r \in Requests, ReadParent(r) PROVE Goal
  <2>1. (IF req[r].parent = NoUnit THEN <<>> ELSE path[req[r].parent]) \in Seq(Units)
    BY <1>4, EmptyValues, Zenon DEF ReadParent, ActiveIn, TableTypes
  <2> QED
    BY <1>0, <1>4, <2>1, Zenon DEF ReadParent, LockType, LocalTypes, RequestsTyped, table
<1>5. ASSUME NEW r \in Requests, CommitUpdate(r) PROVE Goal
  <2> DEFINE u == req[r].unit
             old == cur[r].path
             new == Append(par[r], u)
             moved == IF new = old THEN {} ELSE Descendants(u, old)
  <2>1. u \in rows /\ u \in Units /\ req[r] \in Request
    BY <1>5, Zenon DEF CommitUpdate, RequestsTyped, TableTypes
  <2>2. old \in Seq(Units) /\ cur[r].version \in 0..MaxVersion /\ new \in Seq(Units)
    BY <2>1, AppendProperties, Zenon DEF LocalTypes, Snapshot
  <2>3. moved \subseteq Units
    BY Zenon DEF Descendants, TableTypes
  <2>4. /\ version[u] = cur[r].version
        /\ \A d \in moved \cup {u} : version[d] < MaxVersion
        /\ parentOf' = [parentOf EXCEPT ![u] = req[r].parent]
        /\ status' = [status EXCEPT ![u] = req[r].status]
        /\ path' = [d \in Units |-> IF d = u THEN new
                                    ELSE IF d \in moved THEN Rebased(old, new, path[d])
                                    ELSE path[d]]
        /\ version' = [d \in Units |-> IF d \in moved \cup {u} THEN version[d] + 1 ELSE version[d]]
        /\ announced' = [announced EXCEPT ![u] =
             [parent |-> req[r].parent, path |-> new, status |-> req[r].status, version |-> cur[r].version]]
        /\ UNCHANGED <<rows, tenantOf, lock>>
        /\ Leave(r) /\ pc[r] = "commit"
    BY <1>5, Zenon DEF CommitUpdate
  <2> HIDE DEF u, old, new, moved
  <2>5. path' \in [Units -> Seq(Units)]
    BY <2>2, <2>4, RebasedType, Zenon DEF TableTypes
  <2>6. version' \in [Units -> 0..MaxVersion]
    BY <2>1, <2>3, <2>4, OrganizationAssumption DEF TableTypes
  <2>7. req[r].parent \in Parents /\ req[r].status \in Statuses
    BY <2>1, Zenon DEF Request
  <2>8. announced' \in [Units -> Event]
    <3>1. [parent |-> req[r].parent, path |-> new, status |-> req[r].status,
           version |-> cur[r].version] \in Event
      BY <2>2, <2>7, Zenon DEF Event
    <3> QED
      BY <2>4, <3>1, Zenon DEF TableTypes
  <2>9. TableTypes' /\ RowsOwned' /\ LockType'
    BY <2>4, <2>5, <2>6, <2>7, <2>8, Zenon DEF TableTypes, RowsOwned, LockType
  <2> QED
    BY <2>4, <2>9, LocalLeave, Zenon
<1>6. ASSUME NEW r \in Requests, Insert(r) PROVE Goal
  <2>1. PICK u \in Units \ rows :
       /\ rows' = rows \cup {u}
       /\ tenantOf' = [tenantOf EXCEPT ![u] = req[r].tenant]
       /\ parentOf' = [parentOf EXCEPT ![u] = req[r].parent]
       /\ path' = [path EXCEPT ![u] = Append(par[r], u)]
       /\ status' = [status EXCEPT ![u] = "active"]
       /\ version' = [version EXCEPT ![u] = 1]
       /\ announced' = [announced EXCEPT ![u] =
            [parent |-> req[r].parent, path |-> Append(par[r], u), status |-> "active", version |-> 1]]
    BY <1>6, Zenon DEF Insert
  <2> DEFINE new == Append(par[r], u)
  <2>2. new \in Seq(Units)
    BY AppendProperties, Zenon DEF LocalTypes
  <2> HIDE DEF new
  <2>3. req[r].tenant \in Tenants /\ req[r].parent \in Parents
    BY <1>6, Zenon DEF Insert, RequestsTyped, Request
  <2>4. [parent |-> req[r].parent, path |-> new, status |-> "active", version |-> 1] \in Event
    BY <2>2, <2>3, OrganizationAssumption DEF Event
  <2>5. announced' \in [Units -> Event]
    BY <2>1, <2>4, Zenon DEF TableTypes, new
  <2>6. path' \in [Units -> Seq(Units)]
    BY <2>1, <2>2, Zenon DEF TableTypes, new
  <2>7. version' \in [Units -> 0..MaxVersion] /\ status' \in [Units -> Statuses]
    BY <2>1, OrganizationAssumption DEF TableTypes
  <2>8. TableTypes' /\ RowsOwned'
    BY <2>1, <2>3, <2>5, <2>6, <2>7 DEF TableTypes, RowsOwned
  <2> QED
    BY <1>6, <2>1, <2>8, LocalEnd, Zenon DEF Insert, LockType
<1>7. ASSUME NEW r \in Requests, Reject(r) \/ InsertFails(r) \/ Crash(r) PROVE Goal
  <2>1. UNCHANGED table /\ UNCHANGED lock /\ rows' = rows
    BY <1>7, Zenon DEF Reject, InsertFails, Crash, table
  <2>2. CASE Reject(r)
    BY <1>0, <2>1, <2>2, LocalLeave, Zenon DEF Reject, LockType
  <2>3. CASE InsertFails(r)
    BY <1>0, <2>1, <2>3, LocalEnd, Zenon DEF InsertFails, LockType
  <2>4. CASE Crash(r)
    BY <1>0, <2>1, <2>4, LocalEnd, Zenon DEF Crash, LockType
  <2> QED
    BY <1>7, <2>2, <2>3, <2>4, Zenon
<1>8. ASSUME NEW r \in Requests, Unlock(r) PROVE Goal
  <2>1. LockType'
    BY <1>8, Zenon DEF Unlock, Unlocked, LockType
  <2> QED
    BY <1>0, <1>8, <2>1, LocalEnd, Zenon DEF Unlock, table
<1>9. ASSUME NEW t \in Tenants, Expire(t) PROVE Goal
  BY <1>0, <1>9, Zenon DEF Expire, Lapsed, LockType, LocalTypes, RequestsTyped, table
<1>10. CASE UNCHANGED vars
  BY <1>0, <1>10, Zenon DEF vars, LockType, LocalTypes, RequestsTyped, table
<1> QED
  BY <1>1, <1>2, <1>3, <1>4, <1>5, <1>6, <1>7, <1>8, <1>9, <1>10, Zenon DEF Next, Serve

(* TypeOK: every variable of the organisation tree keeps its type, under   *)
(* every interleaving of creates and updates, with or without a locker.    *)
THEOREM TypeCorrect == Spec => []TypeOK
<1>1. Spec => []TypeInv
  BY TypeInit, TypeStep, PTL DEF Spec
<1>2. TypeInv => TypeOK
  BY Zenon DEF TypeInv
<1> QED
  BY <1>1, <1>2, PTL
-----------------------------------------------------------------------------
(* What a step does to the table.                                          *)

(* Only the two transactions write it.                                     *)
LEMMA Writers ==
  ASSUME [Next]_vars
  PROVE  UNCHANGED table \/ \E r \in Requests : Insert(r) \/ CommitUpdate(r)
BY Zenon DEF Next, Serve, vars, CreateReadParent, UpdateStart, ReadCurrent, ReadParent,
       Reject, Unlock, InsertFails, Crash, Expire

LEMMA InsertEffect ==
  ASSUME TypeInv, NEW r \in Requests, Insert(r)
  PROVE  \E u \in Units \ rows :
           /\ rows' = rows \cup {u}
           /\ \A d \in Units \ {u} :
                /\ tenantOf'[d] = tenantOf[d] /\ parentOf'[d] = parentOf[d]
                /\ path'[d] = path[d] /\ status'[d] = status[d]
                /\ version'[d] = version[d] /\ announced'[d] = announced[d]
           /\ tenantOf'[u] = req[r].tenant /\ parentOf'[u] = req[r].parent
           /\ path'[u] = Append(par[r], u) /\ status'[u] = "active"
           /\ announced'[u] = [parent |-> req[r].parent, path |-> Append(par[r], u),
                               status |-> "active", version |-> 1]
<1>1. PICK u \in Units \ rows :
        /\ rows' = rows \cup {u}
        /\ tenantOf' = [tenantOf EXCEPT ![u] = req[r].tenant]
        /\ parentOf' = [parentOf EXCEPT ![u] = req[r].parent]
        /\ path' = [path EXCEPT ![u] = Append(par[r], u)]
        /\ status' = [status EXCEPT ![u] = "active"]
        /\ version' = [version EXCEPT ![u] = 1]
        /\ announced' = [announced EXCEPT ![u] =
             [parent |-> req[r].parent, path |-> Append(par[r], u), status |-> "active", version |-> 1]]
  BY Zenon DEF Insert
<1>2. \A d \in Units \ {u} :
        /\ tenantOf'[d] = tenantOf[d] /\ parentOf'[d] = parentOf[d]
        /\ path'[d] = path[d] /\ status'[d] = status[d]
        /\ version'[d] = version[d] /\ announced'[d] = announced[d]
  BY <1>1 DEF TypeInv, TypeOK
<1>3. tenantOf'[u] = req[r].tenant /\ parentOf'[u] = req[r].parent /\ status'[u] = "active"
  BY <1>1, Zenon DEF TypeInv, TypeOK
<1>4. /\ path'[u] = Append(par[r], u)
      /\ announced'[u] = [parent |-> req[r].parent, path |-> Append(par[r], u),
                          status |-> "active", version |-> 1]
  BY <1>1, Zenon DEF TypeInv, TypeOK
<1> QED
  BY <1>1, <1>2, <1>3, <1>4, Zenon

(* The rows CommitUpdate(r) rewrites besides its unit.                     *)
Moved(r) == IF Append(par[r], req[r].unit) = cur[r].path
            THEN {} ELSE Descendants(req[r].unit, cur[r].path)

LEMMA CommitEffect ==
  ASSUME TypeInv, NEW r \in Requests, CommitUpdate(r)
  PROVE  /\ req[r].unit \in rows /\ req[r].unit \in Units
         /\ version[req[r].unit] = cur[r].version
         /\ rows' = rows /\ tenantOf' = tenantOf /\ lock' = lock
         /\ Moved(r) \subseteq rows \ {req[r].unit}
         /\ \A d \in Moved(r) : tenantOf[d] = tenantOf[req[r].unit]
         /\ \A d \in Units \ {req[r].unit} :
              /\ parentOf'[d] = parentOf[d] /\ status'[d] = status[d]
              /\ announced'[d] = announced[d]
              /\ d \notin Moved(r) => path'[d] = path[d] /\ version'[d] = version[d]
              /\ d \in Moved(r) =>
                   /\ path'[d] = Rebased(cur[r].path, Append(par[r], req[r].unit), path[d])
                   /\ version'[d] = version[d] + 1
         /\ parentOf'[req[r].unit] = req[r].parent
         /\ path'[req[r].unit] = Append(par[r], req[r].unit)
         /\ status'[req[r].unit] = req[r].status
         /\ version'[req[r].unit] = version[req[r].unit] + 1
         /\ announced'[req[r].unit] =
              [parent |-> req[r].parent, path |-> Append(par[r], req[r].unit),
               status |-> req[r].status, version |-> cur[r].version]
<1>1. req[r].unit \in rows /\ req[r].unit \in Units
  BY Zenon DEF CommitUpdate, TypeInv, TypeOK, RequestsTyped
<1>2. /\ Moved(r) \subseteq rows \ {req[r].unit}
      /\ \A d \in Moved(r) : tenantOf[d] = tenantOf[req[r].unit]
  BY Zenon DEF Moved, Descendants
<1> QED
  BY <1>1, <1>2 DEF CommitUpdate, Moved, TypeInv, TypeOK

(* A row is left alone unless it is the unit or one of the moved.          *)
LEMMA CommitFrame ==
  ASSUME TypeInv, NEW r \in Requests, CommitUpdate(r), NEW d \in Units,
         d # req[r].unit, d \notin Moved(r)
  PROVE  /\ tenantOf'[d] = tenantOf[d] /\ parentOf'[d] = parentOf[d]
         /\ path'[d] = path[d] /\ status'[d] = status[d] /\ version'[d] = version[d]
BY Zenon DEF CommitUpdate, Moved, TypeInv, TypeOK

(* A stored unit stays in its tenant, its version never falls, and its     *)
(* path changes only with its version.                                     *)
LEMMA RowsEvolve ==
  ASSUME TypeInv, [Next]_vars
  PROVE  /\ rows \subseteq rows'
         /\ \A u \in rows : /\ tenantOf'[u] = tenantOf[u]
                            /\ version[u] <= version'[u]
                            /\ version[u] = version'[u] => path'[u] = path[u]
<1>0. \A u \in rows : u \in Units /\ version[u] \in Nat
  BY DEF TypeInv, TypeOK
<1>1. ASSUME UNCHANGED table
      PROVE  /\ rows \subseteq rows'
             /\ \A u \in rows : tenantOf'[u] = tenantOf[u] /\ version[u] = version'[u] /\ path'[u] = path[u]
  BY <1>1, Zenon DEF table
<1>2. ASSUME NEW r \in Requests, Insert(r)
      PROVE  /\ rows \subseteq rows'
             /\ \A u \in rows : tenantOf'[u] = tenantOf[u] /\ version[u] = version'[u] /\ path'[u] = path[u]
  BY <1>0, <1>2, InsertEffect, Zenon
<1>3. ASSUME NEW r \in Requests, CommitUpdate(r)
      PROVE  /\ rows \subseteq rows'
             /\ \A u \in rows : /\ tenantOf'[u] = tenantOf[u]
                                /\ \/ version'[u] = version[u] + 1
                                   \/ version'[u] = version[u] /\ path'[u] = path[u]
  BY <1>0, <1>3, CommitEffect
<1>4. /\ rows \subseteq rows'
      /\ \A u \in rows : /\ tenantOf'[u] = tenantOf[u]
                         /\ \/ version'[u] = version[u] + 1
                            \/ version'[u] = version[u] /\ path'[u] = path[u]
  BY <1>1, <1>2, <1>3, Writers, Zenon
<1>5. \A u \in rows : version[u] <= version'[u] /\ (version[u] = version'[u] => path'[u] = path[u])
  <2>1. \A n \in Nat : n <= n /\ n <= n + 1 /\ n # n + 1
    OBVIOUS
  <2> QED
    BY <1>0, <1>4, <2>1, Zenon
<1> QED
  BY <1>4, <1>5, Zenon
-----------------------------------------------------------------------------
(* Tenancy.  What a request has checked stays true until it commits: its   *)
(* caller is authorised for the tenant it works in, and the unit and the   *)
(* parent it read are stored in that tenant.                               *)
Grounded ==
  \A r \in Requests :
    /\ pc[r] # "idle" => AuthorizedFor(req[r].caller, req[r].tenant)
    /\ pc[r] \in Locking => tenantOf[req[r].unit] = req[r].tenant
    /\ pc[r] \in {"insert", "commit"} /\ req[r].parent # NoUnit
         => req[r].parent \in rows /\ tenantOf[req[r].parent] = req[r].tenant

LEMMA GroundedStep ==
  ASSUME TypeInv, Grounded, [Next]_vars
  PROVE  Grounded'
<1> DEFINE G(r) == /\ pc[r] # "idle" => AuthorizedFor(req[r].caller, req[r].tenant)
                   /\ pc[r] \in Locking => tenantOf[req[r].unit] = req[r].tenant
                   /\ pc[r] \in {"insert", "commit"} /\ req[r].parent # NoUnit
                        => req[r].parent \in rows /\ tenantOf[req[r].parent] = req[r].tenant
<1>1. ASSUME NEW r \in Requests, pc'[r] \in {pc[r], "idle", "unlock"}, pc'[r] # "idle" => req'[r] = req[r],
             pc'[r] = "unlock" => pc[r] \in Locking
      PROVE  G(r)'
  <2>1. pc[r] \in Locking => req[r].unit \in rows
    BY Zenon DEF TypeInv, RequestsTyped
  <2> QED
    BY <1>1, <2>1, RowsEvolve DEF Grounded
<1>2. ASSUME NEW r \in Requests, CreateReadParent(r) PROVE G(r)'
  BY <1>2 DEF CreateReadParent, ActiveIn, TypeInv, TypeOK, table
<1>3. ASSUME NEW r \in Requests, UpdateStart(r) PROVE G(r)'
  BY <1>3 DEF UpdateStart, TypeInv, TypeOK, table
<1>4. ASSUME NEW r \in Requests, ReadCurrent(r) PROVE G(r)'
  BY <1>4, Zenon DEF ReadCurrent, TypeInv, TypeOK, table, Grounded
<1>5. ASSUME NEW r \in Requests, ReadParent(r) PROVE G(r)'
  BY <1>5, Zenon DEF ReadParent, ActiveIn, TypeInv, TypeOK, table, Grounded
<1>6. ASSUME NEW r \in Requests,
             CommitUpdate(r) \/ Insert(r) \/ Reject(r) \/ Unlock(r) \/ InsertFails(r) \/ Crash(r)
      PROVE  /\ pc'[r] \in {"idle", "unlock"}
             /\ pc'[r] # "idle" => req'[r] = req[r] /\ pc[r] \in Locking
  BY <1>6, Zenon DEF CommitUpdate, Insert, Reject, Unlock, InsertFails, Crash, End, Leave, TypeInv, TypeOK
<1>7. ASSUME NEW r \in Requests, NEW s \in Requests \ {r},
             CreateReadParent(r) \/ UpdateStart(r) \/ Serve(r) \/ Crash(r)
      PROVE  pc'[s] = pc[s] /\ req'[s] = req[s]
  BY <1>7 DEF CreateReadParent, UpdateStart, Serve, ReadCurrent, ReadParent, CommitUpdate,
              Insert, Reject, Unlock, InsertFails, Crash, End, Leave, TypeInv, TypeOK
<1>8. ASSUME NEW s \in Requests, UNCHANGED vars \/ \E t \in Tenants : Expire(t)
      PROVE  pc'[s] = pc[s] /\ req'[s] = req[s]
  BY <1>8, Zenon DEF vars, Expire
<1>9. ASSUME NEW s \in Requests PROVE G(s)'
  <2>1. CASE UNCHANGED vars \/ \E t \in Tenants : Expire(t)
    BY <1>1, <1>8, <2>1, Zenon
  <2>2. ASSUME NEW r \in Requests, r # s, CreateReadParent(r) \/ UpdateStart(r) \/ Serve(r) \/ Crash(r)
        PROVE  G(s)'
    BY <1>1, <1>7, <2>2
  <2>3. CASE CreateReadParent(s) \/ UpdateStart(s) \/ Serve(s) \/ Crash(s)
    BY <1>1, <1>2, <1>3, <1>4, <1>5, <1>6, <2>3 DEF Serve
  <2> QED
    BY <2>1, <2>2, <2>3, Zenon DEF Next
<1> QED
  BY <1>9, Zenon DEF Grounded

LEMMA ParentsInTenantStep ==
  ASSUME TypeInv, Grounded, ParentsInTenant, [Next]_vars
  PROVE  ParentsInTenant'
<1>0. \A u \in rows : u \in Units
  BY Zenon DEF TypeInv, TypeOK
<1>1. CASE UNCHANGED table
  BY <1>1, Zenon DEF table, ParentsInTenant
<1>2. ASSUME NEW r \in Requests, Insert(r) PROVE ParentsInTenant'
  <2>1. req[r].parent # NoUnit => req[r].parent \in rows /\ tenantOf[req[r].parent] = req[r].tenant
    BY <1>2, Zenon DEF Insert, Grounded
  <2>2. PICK u \in Units \ rows :
          /\ rows' = rows \cup {u}
          /\ \A d \in Units \ {u} : tenantOf'[d] = tenantOf[d] /\ parentOf'[d] = parentOf[d]
          /\ tenantOf'[u] = req[r].tenant /\ parentOf'[u] = req[r].parent
    BY <1>2, InsertEffect
  <2>3. ASSUME NEW d \in rows', parentOf'[d] # NoUnit
        PROVE  parentOf'[d] \in rows' /\ tenantOf'[parentOf'[d]] = tenantOf'[d]
    <3>1. CASE d = u
      BY <1>0, <2>1, <2>2, <2>3, <3>1, Zenon
    <3>2. CASE d # u
      <4>1. d \in rows /\ d \in Units \ {u} /\ parentOf'[d] = parentOf[d]
        BY <1>0, <2>2, <3>2, Zenon
      <4>2. parentOf[d] \in rows /\ tenantOf[parentOf[d]] = tenantOf[d]
        BY <2>3, <4>1, Zenon DEF ParentsInTenant
      <4> QED
        BY <1>0, <2>2, <4>1, <4>2, Zenon
    <3> QED
      BY <3>1, <3>2, Zenon
  <2> QED
    BY <2>3, Zenon DEF ParentsInTenant
<1>3. ASSUME NEW r \in Requests, CommitUpdate(r) PROVE ParentsInTenant'
  <2>1. /\ req[r].parent # NoUnit => req[r].parent \in rows /\ tenantOf[req[r].parent] = req[r].tenant
        /\ tenantOf[req[r].unit] = req[r].tenant
    BY <1>3, Zenon DEF CommitUpdate, Grounded
  <2>2. /\ rows' = rows /\ tenantOf' = tenantOf
        /\ \A d \in Units \ {req[r].unit} : parentOf'[d] = parentOf[d]
        /\ parentOf'[req[r].unit] = req[r].parent
    <3>1. /\ rows' = rows /\ tenantOf' = tenantOf /\ req[r].unit \in Units
          /\ parentOf' = [parentOf EXCEPT ![req[r].unit] = req[r].parent]
      BY <1>3, Zenon DEF CommitUpdate, TypeInv, TypeOK, RequestsTyped
    <3> QED
      BY <3>1, Zenon DEF TypeInv, TypeOK
  <2> QED
    BY <1>0, <2>1, <2>2 DEF ParentsInTenant
<1> QED
  BY <1>1, <1>2, <1>3, Writers, Zenon

(* ParentsInTenant: no interleaving of requests, with or without the lock, *)
(* gives a unit a parent that is missing or belongs to another tenant.     *)
THEOREM ParentsStayInTenant == Spec => []ParentsInTenant
<1> DEFINE Inv == TypeInv /\ Grounded /\ ParentsInTenant
<1>1. Init => Inv
  BY TypeInit, Zenon DEF Init, Grounded, ParentsInTenant
<1>2. Inv /\ [Next]_vars => Inv'
  BY TypeStep, GroundedStep, ParentsInTenantStep, Zenon
<1> QED
  BY <1>1, <1>2, PTL DEF Spec

(* WritesStayInTenant: a step changes a row only as the transaction of a   *)
(* request whose caller passed authorizeTenant for the tenant of the row.  *)
THEOREM WritesAreAuthorized == Spec => WritesStayInTenant
<1> DEFINE Inv == TypeInv /\ Grounded
           A == \A u \in Units : Row(u)' # Row(u) =>
                  \E r \in Requests : /\ pc[r] \in {"insert", "commit"} /\ pc'[r] # pc[r]
                                      /\ AuthorizedFor(req[r].caller, tenantOf'[u])
<1>1. Init => Inv
  BY TypeInit DEF Init, Grounded
<1>2. Inv /\ [Next]_vars => Inv'
  BY TypeStep, GroundedStep, Zenon
<1>3. ASSUME Inv, [Next]_vars PROVE A
  <2>1. CASE UNCHANGED table
    BY <2>1, Zenon DEF table, Row
  <2>2. ASSUME NEW r \in Requests, Insert(r) PROVE A
    <3>1. /\ pc[r] = "insert" /\ pc'[r] # pc[r]
          /\ AuthorizedFor(req[r].caller, req[r].tenant)
      BY <1>3, <2>2 DEF Insert, End, Grounded, TypeInv, TypeOK
    <3>2. \A u \in Units : Row(u)' # Row(u) => tenantOf'[u] = req[r].tenant
      <4>1. PICK u \in Units \ rows :
              /\ rows' = rows \cup {u}
              /\ \A d \in Units \ {u} :
                   /\ tenantOf'[d] = tenantOf[d] /\ parentOf'[d] = parentOf[d]
                   /\ path'[d] = path[d] /\ status'[d] = status[d]
                   /\ version'[d] = version[d] /\ announced'[d] = announced[d]
              /\ tenantOf'[u] = req[r].tenant /\ parentOf'[u] = req[r].parent
              /\ path'[u] = Append(par[r], u) /\ status'[u] = "active"
              /\ announced'[u] = [parent |-> req[r].parent, path |-> Append(par[r], u),
                                  status |-> "active", version |-> 1]
        BY <1>3, <2>2, InsertEffect, Zenon
      <4> QED
        BY <4>1, Zenon DEF Row
    <3> QED
      BY <3>1, <3>2, Zenon
  <2>3. ASSUME NEW r \in Requests, CommitUpdate(r) PROVE A
    <3>1. /\ pc[r] = "commit" /\ pc'[r] # pc[r]
          /\ AuthorizedFor(req[r].caller, req[r].tenant)
          /\ tenantOf[req[r].unit] = req[r].tenant
      BY <1>3, <2>3, Zenon DEF CommitUpdate, Leave, Grounded, TypeInv, TypeOK
    <3>2. \A u \in Units : Row(u)' # Row(u) => tenantOf'[u] = req[r].tenant
      <4> SUFFICES ASSUME NEW u \in Units, Row(u)' # Row(u) PROVE tenantOf'[u] = req[r].tenant
        BY Zenon
      <4>1. u = req[r].unit \/ u \in Moved(r)
        BY <1>3, <2>3, CommitFrame, Zenon DEF Row
      <4>2. \A d \in Moved(r) : tenantOf[d] = tenantOf[req[r].unit]
        BY Zenon DEF Moved, Descendants
      <4>3. tenantOf' = tenantOf
        BY <2>3, Zenon DEF CommitUpdate
      <4> QED
        BY <3>1, <4>1, <4>2, <4>3, Zenon
    <3> QED
      BY <3>1, <3>2, Zenon
  <2> QED
    BY <1>3, <2>1, <2>2, <2>3, Writers, Zenon
<1> HIDE DEF A, Inv
<1>4. Inv /\ [Next]_vars => [A]_vars
  BY <1>3, Zenon
<1>5. Spec => [][A]_vars
  BY <1>1, <1>2, <1>4, PTL DEF Spec
<1> QED
  BY <1>5, Zenon DEF WritesStayInTenant, A
(* EventsTrackRows: whoever updates a unit, and whichever move rewrites it *)
(* as a descendant, its latest event still tells its parent and status.    *)
THEOREM EventsTellRows == Spec => []EventsTrackRows
<1> DEFINE Inv == TypeInv /\ EventsTrackRows
<1>1. Init => Inv
  BY TypeInit, Zenon DEF Init, EventsTrackRows
<1>2. ASSUME Inv, [Next]_vars PROVE EventsTrackRows'
  <2>0. \A u \in rows : u \in Units
    BY <1>2, Zenon DEF TypeInv, TypeOK
  <2>1. CASE UNCHANGED table
    BY <1>2, <2>1, Zenon DEF table, EventsTrackRows
  <2>2. ASSUME NEW r \in Requests, Insert(r) PROVE EventsTrackRows'
    <3>1. PICK u \in Units \ rows :
            /\ rows' = rows \cup {u}
            /\ \A d \in Units \ {u} :
                 /\ tenantOf'[d] = tenantOf[d] /\ parentOf'[d] = parentOf[d]
                 /\ path'[d] = path[d] /\ status'[d] = status[d]
                 /\ version'[d] = version[d] /\ announced'[d] = announced[d]
            /\ tenantOf'[u] = req[r].tenant /\ parentOf'[u] = req[r].parent
            /\ path'[u] = Append(par[r], u) /\ status'[u] = "active"
            /\ announced'[u] = [parent |-> req[r].parent, path |-> Append(par[r], u),
                                status |-> "active", version |-> 1]
      BY <1>2, <2>2, InsertEffect, Zenon
    <3> QED
      BY <1>2, <2>0, <3>1 DEF EventsTrackRows
  <2>3. ASSUME NEW r \in Requests, CommitUpdate(r) PROVE EventsTrackRows'
    <3>1. /\ rows' = rows /\ req[r].unit \in Units
          /\ \A d \in Units \ {req[r].unit} :
               parentOf'[d] = parentOf[d] /\ status'[d] = status[d] /\ announced'[d] = announced[d]
          /\ parentOf'[req[r].unit] = req[r].parent /\ status'[req[r].unit] = req[r].status
          /\ announced'[req[r].unit] = [parent |-> req[r].parent, path |-> Append(par[r], req[r].unit),
                                        status |-> req[r].status, version |-> cur[r].version]
      <4>1. TypeInv /\ CommitUpdate(r)
        BY <1>2, <2>3, Zenon
      <4>2. /\ rows' = rows /\ req[r].unit \in Units
            /\ parentOf'[req[r].unit] = req[r].parent /\ status'[req[r].unit] = req[r].status
        BY <4>1, CommitEffect, Zenon
      <4>3. \A d \in Units \ {req[r].unit} :
              parentOf'[d] = parentOf[d] /\ status'[d] = status[d] /\ announced'[d] = announced[d]
        <5>1. \A d \in Units \ {req[r].unit} :
                /\ parentOf'[d] = parentOf[d] /\ status'[d] = status[d]
                /\ announced'[d] = announced[d]
                /\ d \notin Moved(r) => path'[d] = path[d] /\ version'[d] = version[d]
                /\ d \in Moved(r) =>
                     /\ path'[d] = Rebased(cur[r].path, Append(par[r], req[r].unit), path[d])
                     /\ version'[d] = version[d] + 1
          BY <4>1, CommitEffect, Zenon
        <5> QED
          BY <5>1, Zenon
      <4>4. announced'[req[r].unit] = [parent |-> req[r].parent, path |-> Append(par[r], req[r].unit),
                                       status |-> req[r].status, version |-> cur[r].version]
        BY <4>1, CommitEffect, Zenon
      <4> QED
        BY <4>2, <4>3, <4>4, Zenon
    <3>2. \A d \in rows : announced[d].parent = parentOf[d] /\ announced[d].status = status[d]
      BY <1>2, Zenon DEF EventsTrackRows
    <3>3. ASSUME NEW d \in rows
          PROVE  announced'[d].parent = parentOf'[d] /\ announced'[d].status = status'[d]
      <4>1. CASE d = req[r].unit
        <5>1. announced'[d] = [parent |-> req[r].parent, path |-> Append(par[r], req[r].unit),
                               status |-> req[r].status, version |-> cur[r].version]
          BY <3>1, <4>1, Zenon
        <5>2. announced'[d].parent = req[r].parent /\ announced'[d].status = req[r].status
          BY <5>1
        <5> QED
          BY <3>1, <4>1, <5>2, Zenon
      <4>2. CASE d # req[r].unit
        BY <2>0, <3>1, <3>2, <4>2
      <4> QED
        BY <4>1, <4>2, Zenon
    <3> QED
      BY <3>1, <3>3, Zenon DEF EventsTrackRows
  <2> QED
    BY <1>2, <2>1, <2>2, <2>3, Writers, Zenon
<1>3. Inv /\ [Next]_vars => Inv'
  BY <1>2, TypeStep, Zenon
<1> QED
  BY <1>1, <1>3, PTL DEF Spec
-----------------------------------------------------------------------------
(* What a step does to the requests that do not take it.                   *)
LEMMA OthersWait ==
  ASSUME TypeInv, [Next]_vars, NEW s \in Requests
  PROVE  \/ pc'[s] = pc[s] /\ req'[s] = req[s] /\ cur'[s] = cur[s] /\ par'[s] = par[s]
         \/ CreateReadParent(s) \/ UpdateStart(s) \/ Serve(s) \/ Crash(s)
<1>1. ASSUME NEW r \in Requests \ {s}, CreateReadParent(r) \/ UpdateStart(r) \/ Serve(r) \/ Crash(r)
      PROVE  pc'[s] = pc[s] /\ req'[s] = req[s] /\ cur'[s] = cur[s] /\ par'[s] = par[s]
  <2>1. CASE CreateReadParent(r) \/ UpdateStart(r) \/ ReadCurrent(r) \/ ReadParent(r)
    BY <2>1 DEF CreateReadParent, UpdateStart, ReadCurrent, ReadParent, TypeInv, TypeOK
  <2>2. CASE CommitUpdate(r) \/ Reject(r)
    <3>1. Leave(r)
      BY <2>2, Zenon DEF CommitUpdate, Reject
    <3> QED
      BY <3>1, Zenon DEF Leave, TypeInv, TypeOK
  <2>3. CASE Insert(r) \/ Unlock(r) \/ InsertFails(r) \/ Crash(r)
    <3>1. End(r)
      BY <2>3, Zenon DEF Insert, Unlock, InsertFails, Crash
    <3> QED
      BY <3>1, Zenon DEF End, TypeInv, TypeOK
  <2> QED
    BY <1>1, <2>1, <2>2, <2>3, Zenon DEF Serve
<1>2. ASSUME UNCHANGED vars \/ \E t \in Tenants : Expire(t)
      PROVE  pc'[s] = pc[s] /\ req'[s] = req[s] /\ cur'[s] = cur[s] /\ par'[s] = par[s]
  BY <1>2, Zenon DEF vars, Expire
<1> QED
  BY <1>1, <1>2, Zenon DEF Next

(* The steps after which a request holds a snapshot of its unit.           *)
LEMMA SnapshotSteps ==
  ASSUME TypeInv, NEW s \in Requests,
         CreateReadParent(s) \/ UpdateStart(s) \/ Serve(s) \/ Crash(s),
         pc'[s] \in {"parent", "commit"}
  PROVE  \/ ReadCurrent(s)
         \/ ReadParent(s)
BY DEF CreateReadParent, UpdateStart, Serve, CommitUpdate,
       Insert, Reject, Unlock, InsertFails, Crash, End, Leave, TypeInv, TypeOK
-----------------------------------------------------------------------------
(* A snapshot is never ahead of its row, and a row at the version of the   *)
(* snapshot has its path.                                                  *)
SnapshotsBehind ==
  \A r \in Requests : pc[r] \in {"parent", "commit"} => cur[r].version <= version[req[r].unit]

(* Versions are numbers, whatever the bound on them.                       *)
LEMMA VersionNumbers ==
  ASSUME TypeInv
  PROVE  /\ \A u \in Units : version[u] \in Nat
         /\ \A r \in Requests : cur[r].version \in Nat
<1>1. 0..MaxVersion \subseteq Nat
  BY OrganizationAssumption
<1>2. version \in [Units -> 0..MaxVersion] /\ cur \in [Requests -> [path : Seq(Units), version : 0..MaxVersion]]
  BY Zenon DEF TypeInv, TypeOK
<1> QED
  BY <1>1, <1>2, Zenon

(* A snapshot stays behind: a row's version never goes back.               *)
LEMMA SnapshotsStep ==
  ASSUME TypeInv, SnapshotsBehind, VersionCoversPath, [Next]_vars
  PROVE  SnapshotsBehind' /\ VersionCoversPath'
<1> SUFFICES ASSUME NEW s \in Requests, pc'[s] \in {"parent", "commit"}
             PROVE  /\ cur'[s].version <= version'[req'[s].unit]
                    /\ version'[req'[s].unit] = cur'[s].version => path'[req'[s].unit] = cur'[s].path
  BY Zenon DEF SnapshotsBehind, VersionCoversPath
<1>1. CASE ReadCurrent(s)
  <2>1. /\ cur'[s].version = version[req[s].unit] /\ cur'[s].path = path[req[s].unit]
        /\ req'[s] = req[s] /\ version' = version /\ path' = path
        /\ req[s].unit \in Units
    BY <1>1, Zenon DEF ReadCurrent, table, TypeInv, TypeOK, RequestsTyped
  <2>2. version[req[s].unit] \in Nat
    BY <2>1, VersionNumbers, Zenon
  <2>3. \A n \in Nat : n <= n
    OBVIOUS
  <2> QED
    BY <2>1, <2>2, <2>3, Zenon
<1>2. CASE ReadParent(s)
  <2>1. /\ cur'[s] = cur[s] /\ req'[s] = req[s] /\ version' = version /\ path' = path
        /\ pc[s] = "parent"
    BY <1>2, Zenon DEF ReadParent, table
  <2> QED
    BY <2>1, Zenon DEF SnapshotsBehind, VersionCoversPath
<1>3. CASE pc'[s] = pc[s] /\ req'[s] = req[s] /\ cur'[s] = cur[s]
  <2>1. req[s].unit \in rows /\ req[s].unit \in Units
    BY <1>3, Zenon DEF TypeInv, TypeOK, RequestsTyped
  <2>2. cur[s].version \in Nat /\ version[req[s].unit] \in Nat /\ version'[req[s].unit] \in Nat
    <3>1. version' \in [Units -> 0..MaxVersion]
      BY TypeStep, Zenon DEF TypeInv, TypeOK
    <3>2. 0..MaxVersion \subseteq Nat
      BY OrganizationAssumption
    <3> QED
      BY <2>1, <3>1, <3>2, VersionNumbers
  <2>3. /\ cur[s].version <= version[req[s].unit]
        /\ version[req[s].unit] = cur[s].version => path[req[s].unit] = cur[s].path
    BY <1>3, Zenon DEF SnapshotsBehind, VersionCoversPath
  <2>4. /\ version[req[s].unit] <= version'[req[s].unit]
        /\ version[req[s].unit] = version'[req[s].unit] => path'[req[s].unit] = path[req[s].unit]
    BY <2>1, RowsEvolve, Zenon
  <2>5. cur[s].version <= version[req[s].unit] /\ version[req[s].unit] <= version'[req[s].unit]
    BY <2>3, <2>4, Zenon
  <2>6. /\ cur[s].version <= version'[req[s].unit]
        /\ version'[req[s].unit] = cur[s].version => version[req[s].unit] = cur[s].version
    BY <2>2, <2>5
  <2> QED
    BY <1>3, <2>3, <2>4, <2>6
<1> QED
  BY <1>1, <1>2, <1>3, OthersWait, SnapshotSteps, Zenon

(* VersionCoversPath: even with no lock at all, the compare-and-set on the *)
(* version of UpdateOrganizationUnit lets a commit through only when the   *)
(* path it read, by which it selects the descendants, is still stored.     *)
THEOREM CompareAndSetCoversPath == Spec => []VersionCoversPath
<1> DEFINE Inv == TypeInv /\ SnapshotsBehind /\ VersionCoversPath
<1>1. Init => Inv
  BY TypeInit, Zenon DEF Init, SnapshotsBehind, VersionCoversPath
<1>2. Inv /\ [Next]_vars => Inv'
  BY TypeStep, SnapshotsStep, Zenon
<1> QED
  BY <1>1, <1>2, PTL DEF Spec
-----------------------------------------------------------------------------
(* The lock.  While no holder outlives it, a request inside                *)
(* withOrganizationLock is the one whose token the key of its tenant holds.*)
HoldsLock == \A r \in Requests : pc[r] \in Locking => lock[req[r].tenant] = r

LEMMA HoldsLockStep ==
  ASSUME HasLocker, ~ SlowHolders, TypeInv, HoldsLock, [Next]_vars
  PROVE  HoldsLock'
<1> SUFFICES ASSUME NEW s \in Requests, pc'[s] \in Locking
             PROVE  lock'[req'[s].tenant] = s
  BY Zenon DEF HoldsLock
<1>1. CASE UpdateStart(s)
  <2>1. PICK c \in Principals, u \in rows, p \in Parents, st \in Statuses, v \in 1..MaxVersion :
          /\ AuthorizedFor(c, tenantOf[u]) /\ v < MaxVersion
          /\ req' = [req EXCEPT ![s] = [caller |-> c, tenant |-> tenantOf[u], unit |-> u, parent |-> p,
                                        status |-> st, version |-> v]]
          /\ IF HasLocker
             THEN LockFree(lock, tenantOf[u]) /\ lock' = Locked(lock, tenantOf[u], s)
             ELSE UNCHANGED lock
    BY <1>1, Zenon DEF UpdateStart
  <2>2. req'[s].tenant = tenantOf[u] /\ tenantOf[u] \in Tenants
    BY <2>1, Zenon DEF TypeInv, TypeOK, RowsOwned
  <2>3. lock' = Locked(lock, tenantOf[u], s)
    BY <2>1, Zenon
  <2> QED
    BY <2>2, <2>3, Zenon DEF Locked, TypeInv, TypeOK
<1>2. CASE ReadCurrent(s) \/ ReadParent(s) \/ CommitUpdate(s) \/ Reject(s)
  BY <1>2, Zenon DEF ReadCurrent, ReadParent, CommitUpdate, Reject, Leave, HoldsLock, TypeInv, TypeOK
<1>3. ASSUME CreateReadParent(s) \/ Insert(s) \/ InsertFails(s) \/ Unlock(s) \/ Crash(s)
      PROVE  FALSE
  BY <1>3 DEF CreateReadParent, Insert, InsertFails, Unlock, Crash, End, TypeInv, TypeOK
<1>4. CASE pc'[s] = pc[s] /\ req'[s] = req[s]
  <2>1. lock[req[s].tenant] = s /\ req[s].tenant \in Tenants
    BY <1>4, Zenon DEF HoldsLock, TypeInv, RequestsTyped, Request
  <2>2. ASSUME NEW r \in Requests, UpdateStart(r) PROVE lock'[req[s].tenant] = s
    <3>1. PICK u \in rows : /\ tenantOf[u] \in Tenants /\ LockFree(lock, tenantOf[u])
                            /\ lock' = Locked(lock, tenantOf[u], r)
      BY <2>2, Zenon DEF UpdateStart, TypeInv, TypeOK, RowsOwned
    <3>2. tenantOf[u] # req[s].tenant
      BY <2>1, <3>1, OrganizationAssumption, Zenon DEF LockFree
    <3> QED
      BY <2>1, <3>1, <3>2 DEF Locked, TypeInv, TypeOK
  <2>3. ASSUME NEW r \in Requests, Unlock(r) PROVE lock'[req[s].tenant] = s
    <3>1. CASE r = s
      BY <1>3, <2>3, <3>1, Zenon
    <3>2. CASE r # s
      BY <2>1, <2>3, <3>2, Zenon DEF Unlock, Unlocked, TypeInv, TypeOK
    <3> QED
      BY <3>1, <3>2, Zenon
  <2>4. ASSUME NEW t \in Tenants, Expire(t) PROVE lock'[req[s].tenant] = s
    <3>1. req[s].tenant # t
      BY <1>4, <2>1, <2>4, Zenon DEF Expire
    <3> QED
      BY <2>1, <2>4, <3>1, Zenon DEF Expire, Lapsed, TypeInv, TypeOK
  <2>5. ASSUME NEW r \in Requests,
               \/ CreateReadParent(r) \/ ReadCurrent(r) \/ ReadParent(r) \/ CommitUpdate(r)
               \/ Reject(r) \/ Insert(r) \/ InsertFails(r) \/ Crash(r)
        PROVE  lock' = lock
    BY <2>5, Zenon DEF CreateReadParent, ReadCurrent, ReadParent, CommitUpdate, Reject, Insert, InsertFails, Crash
  <2>6. CASE UNCHANGED vars
    BY <2>1, <2>6, <1>4, Zenon DEF vars
  <2>7. lock'[req[s].tenant] = s
    BY <2>1, <2>2, <2>3, <2>4, <2>5, <2>6 DEF Next, Serve, vars
  <2> QED
    BY <1>4, <2>7, Zenon
<1> QED
  BY <1>1, <1>2, <1>3, <1>4, OthersWait, Zenon DEF Serve

(* OneHolder: with a locker, and while every holder finishes within the    *)
(* time to live of its lock, two updates of one tenant never overlap.      *)
THEOREM LockExcludes == HasLocker /\ ~ SlowHolders => (Spec => []OneHolder)
<1> SUFFICES ASSUME HasLocker, ~ SlowHolders PROVE Spec => []OneHolder
  BY Zenon
<1> DEFINE Inv == TypeInv /\ HoldsLock
<1>1. Init => Inv
  BY TypeInit, Zenon DEF Init, HoldsLock
<1>2. Inv /\ [Next]_vars => Inv'
  BY TypeStep, HoldsLockStep, Zenon
<1>3. Inv => OneHolder
  BY DEF HoldsLock, OneHolder
<1> QED
  BY <1>1, <1>2, <1>3, PTL DEF Spec
-----------------------------------------------------------------------------
(* Paths.  A request about to commit holds the path its new parent has,    *)
(* and that parent is outside the subtree that moves.                      *)
ParentFresh ==
  \A r \in Requests : pc[r] = "commit" =>
    /\ par[r] = ParentPath(req[r].parent)
    /\ req[r].parent # NoUnit =>
         req[r].parent # req[r].unit /\ ~ IsPrefix(cur[r].path, path[req[r].parent])

LEMMA ParentFreshStep ==
  ASSUME HasLocker, ~ SlowHolders, TypeInv, Grounded, HoldsLock, ParentFresh, [Next]_vars
  PROVE  ParentFresh'
<1> SUFFICES ASSUME NEW s \in Requests, pc'[s] = "commit"
             PROVE  /\ par'[s] = IF req'[s].parent = NoUnit THEN <<>> ELSE path'[req'[s].parent]
                    /\ req'[s].parent # NoUnit =>
                         /\ req'[s].parent # req'[s].unit
                         /\ ~ IsPrefix(cur'[s].path, path'[req'[s].parent])
  BY Zenon DEF ParentFresh, ParentPath
<1>1. CASE ReadParent(s)
  BY <1>1, Zenon DEF ReadParent, table, TypeInv, TypeOK
<1>2. ASSUME ReadCurrent(s) PROVE FALSE
  BY <1>2, Zenon DEF ReadCurrent, TypeInv, TypeOK
<1>3. CASE pc'[s] = pc[s] /\ req'[s] = req[s] /\ cur'[s] = cur[s] /\ par'[s] = par[s]
  <2>1. /\ par[s] = IF req[s].parent = NoUnit THEN <<>> ELSE path[req[s].parent]
        /\ req[s].parent # NoUnit =>
             req[s].parent # req[s].unit /\ ~ IsPrefix(cur[s].path, path[req[s].parent])
    BY <1>3, Zenon DEF ParentFresh, ParentPath
  <2>2. SUFFICES ASSUME req[s].parent # NoUnit PROVE path'[req[s].parent] = path[req[s].parent]
    BY <1>3, <2>1, Zenon
  <2>3. /\ req[s].parent \in rows /\ req[s].parent \in Units
        /\ tenantOf[req[s].parent] = req[s].tenant /\ req[s].tenant \in Tenants
    BY <1>3, <2>2, Zenon DEF Grounded, TypeInv, TypeOK, RequestsTyped, Request
  <2>4. CASE UNCHANGED table
    BY <2>4, Zenon DEF table
  <2>5. ASSUME NEW r \in Requests, Insert(r) PROVE path'[req[s].parent] = path[req[s].parent]
    BY <2>3, <2>5, InsertEffect, Zenon
  <2>6. ASSUME NEW r \in Requests, CommitUpdate(r) PROVE path'[req[s].parent] = path[req[s].parent]
    <3>1. r # s
      BY <1>3, <2>6, Zenon DEF CommitUpdate, Leave, TypeInv, TypeOK
    <3>2. req[r].tenant # req[s].tenant
      BY <1>3, <2>6, <3>1 DEF CommitUpdate, HoldsLock
    <3>3. tenantOf[req[r].unit] = req[r].tenant
      BY <2>6, Zenon DEF CommitUpdate, Grounded
    <3>4. req[s].parent # req[r].unit /\ req[s].parent \notin Moved(r)
      BY <2>3, <3>2, <3>3 DEF Moved, Descendants
    <3> QED
      BY <2>3, <2>6, <3>4, CommitFrame
  <2> QED
    BY <2>4, <2>5, <2>6, Writers
<1> QED
  BY <1>1, <1>2, <1>3, OthersWait, SnapshotSteps, Zenon

(* The insert of a unit whose parent has not moved meanwhile.              *)
LEMMA InsertKeepsPaths ==
  ASSUME TypeInv, Grounded, ParentsInTenant, PathsMatchParents,
         NEW r \in Requests, Insert(r), par[r] = ParentPath(req[r].parent)
  PROVE  PathsMatchParents'
<1>1. PICK u \in Units \ rows :
        /\ rows' = rows \cup {u}
        /\ \A d \in Units \ {u} : parentOf'[d] = parentOf[d] /\ path'[d] = path[d]
        /\ parentOf'[u] = req[r].parent /\ path'[u] = Append(par[r], u)
  BY InsertEffect
<1>2. \A d \in rows : d \in Units \ {u}
  BY Zenon DEF TypeInv, TypeOK
<1>3. req[r].parent # NoUnit => req[r].parent \in rows
  BY Zenon DEF Grounded, Insert
<1>4. \A p : p = NoUnit \/ p \in rows =>
        (IF p = NoUnit THEN <<>> ELSE path'[p]) = (IF p = NoUnit THEN <<>> ELSE path[p])
  BY <1>1, <1>2, Zenon
<1>5. ASSUME NEW d \in rows'
      PROVE  path'[d] = Append(IF parentOf'[d] = NoUnit THEN <<>> ELSE path'[parentOf'[d]], d)
  <2>1. CASE d = u
    <3>1. par[r] = IF req[r].parent = NoUnit THEN <<>> ELSE path'[req[r].parent]
      BY <1>3, <1>4, Zenon DEF ParentPath
    <3> QED
      BY <1>1, <2>1, <3>1
  <2>2. CASE d # u
    <3>1. d \in rows /\ parentOf'[d] = parentOf[d] /\ path'[d] = path[d]
      BY <1>1, <1>2, <2>2, Zenon
    <3>2. parentOf[d] = NoUnit \/ parentOf[d] \in rows
      BY <3>1, Zenon DEF ParentsInTenant
    <3>3. path[d] = Append(IF parentOf[d] = NoUnit THEN <<>> ELSE path[parentOf[d]], d)
      BY <3>1, Zenon DEF PathsMatchParents, ParentPath
    <3>4. path'[d] = Append(IF parentOf[d] = NoUnit THEN <<>> ELSE path'[parentOf[d]], d)
      BY <1>4, <3>1, <3>2, <3>3
    <3> QED
      BY <3>1, <3>4, Zenon
  <2> QED
    BY <2>1, <2>2, Zenon
<1> QED
  BY <1>5, Zenon DEF PathsMatchParents, ParentPath

(* The commit of a move: the unit gets the path of its new parent, and     *)
(* every row of its subtree, and no other, the new path of its own parent. *)
LEMMA CommitKeepsPaths ==
  ASSUME TypeInv, Grounded, ParentsInTenant, VersionCoversPath, ParentFresh, PathsMatchParents,
         NEW r \in Requests, CommitUpdate(r)
  PROVE  PathsMatchParents'
<1> DEFINE u == req[r].unit
           p == req[r].parent
           old == cur[r].path
           new == Append(par[r], u)
<1>1. /\ u \in rows /\ u \in Units /\ rows' = rows /\ tenantOf' = tenantOf
      /\ version[u] = cur[r].version /\ pc[r] = "commit"
      /\ parentOf'[u] = p /\ path'[u] = new
      /\ \A d \in Units \ {u} : parentOf'[d] = parentOf[d]
  <2>1. pc[r] = "commit"
    BY Zenon DEF CommitUpdate
  <2>2. /\ u \in rows /\ u \in Units /\ rows' = rows /\ tenantOf' = tenantOf
        /\ version[u] = cur[r].version
    BY CommitEffect, Zenon
  <2>3. parentOf' = [parentOf EXCEPT ![u] = p]
    BY Zenon DEF CommitUpdate
  <2>4. parentOf'[u] = p /\ \A d \in Units \ {u} : parentOf'[d] = parentOf[d]
    BY <2>2, <2>3, Zenon DEF TypeInv, TypeOK
  <2>5. path'[u] = new
    BY CommitEffect, Zenon
  <2> QED
    BY <2>1, <2>2, <2>4, <2>5
<1>2. \A d \in Units \ {u} : d \notin Moved(r) => path'[d] = path[d]
  BY CommitFrame, Zenon
<1>3. \A d \in Moved(r) : path'[d] = Rebased(old, new, path[d])
  <2>1. \A d \in Moved(r) : d \in Units /\ d # u
    BY Zenon DEF Moved, Descendants, TypeInv, TypeOK
  <2> QED
    BY <2>1, Zenon DEF CommitUpdate, Moved, TypeInv, TypeOK
<1>4. old = path[u]
  BY <1>1, Zenon DEF VersionCoversPath
<1>5. \A d \in rows : d \in Units /\ path[d] \in Seq(Units)
  BY Zenon DEF TypeInv, TypeOK
<1>6. old \in Seq(Units) /\ par[r] \in Seq(Units) /\ new \in Seq(Units)
  BY <1>1, <1>4, <1>5, AppendProperties DEF TypeInv, TypeOK
<1>7. \A d \in rows : path[d] = Append(IF parentOf[d] = NoUnit THEN <<>> ELSE path[parentOf[d]], d)
  BY Zenon DEF PathsMatchParents, ParentPath
<1>8. \A d : d \in Moved(r) <=> /\ new # old /\ d \in rows \ {u}
                                /\ tenantOf[d] = tenantOf[u] /\ IsPrefix(old, path[d])
  BY Zenon DEF Moved, Descendants
<1>9. \A d \in rows \ {u} : old # path[d]
  <2> SUFFICES ASSUME NEW d \in rows \ {u}, path[u] = path[d] PROVE FALSE
    BY <1>4, Zenon
  <2>1. \A q \in {u, d} : (IF parentOf[q] = NoUnit THEN <<>> ELSE path[parentOf[q]]) \in Seq(Units)
    BY <1>1, <1>5, EmptySeq DEF ParentsInTenant
  <2> DEFINE pu == IF parentOf[u] = NoUnit THEN <<>> ELSE path[parentOf[u]]
             pd == IF parentOf[d] = NoUnit THEN <<>> ELSE path[parentOf[d]]
  <2>2. pu \in Seq(Units) /\ pd \in Seq(Units) /\ d \in Units /\ u \in Units /\ d # u
    BY <1>1, <1>5, <2>1, Zenon
  <2>3. Append(pu, u) = Append(pd, d)
    BY <1>1, <1>7
  <2> HIDE DEF pu, pd, u
  <2> QED
    BY <2>2, <2>3, AppendInjective
<1>10. /\ par[r] = IF p = NoUnit THEN <<>> ELSE path[p]
       /\ p # NoUnit => p \in rows /\ p # u /\ p \notin Moved(r)
  BY <1>1, <1>8, Zenon DEF ParentFresh, ParentPath, Grounded
<1> HIDE DEF u, p, old, new
<1>11. ASSUME NEW d \in rows
       PROVE  path'[d] = Append(IF parentOf'[d] = NoUnit THEN <<>> ELSE path'[parentOf'[d]], d)
  <2>1. CASE d = u
    <3>1. p # NoUnit => path'[p] = path[p]
      BY <1>2, <1>5, <1>10, Zenon
    <3>2. par[r] = IF p = NoUnit THEN <<>> ELSE path'[p]
      BY <1>10, <3>1, Zenon
    <3> QED
      BY <1>1, <2>1, <3>2, Zenon DEF new
  <2>2. CASE d # u /\ parentOf[d] = NoUnit
    <3>1. path[d] = Append(<<>>, d) /\ parentOf'[d] = NoUnit /\ d \in Units
      BY <1>1, <1>5, <1>7, <2>2, Zenon
    <3>2. old # <<>>
      BY <1>1, <1>4, <1>5, <1>7, EmptySeq, AppendProperties DEF ParentsInTenant
    <3>3. ~ IsPrefix(old, <<>>)
      BY <1>6, <3>2, EmptySeq, LenProperties DEF IsPrefix
    <3>4. ~ IsPrefix(old, path[d])
      <4>1. IsPrefix(old, Append(<<>>, d)) <=> IsPrefix(old, <<>>) \/ old = Append(<<>>, d)
        BY <1>6, <3>1, EmptySeq, PrefixAppend
      <4> QED
        BY <1>9, <2>2, <3>1, <3>3, <4>1
    <3>5. path'[d] = path[d]
      BY <1>2, <1>8, <2>2, <3>1, <3>4
    <3> QED
      BY <3>1, <3>5, Zenon
  <2>3. CASE d # u /\ parentOf[d] = u
    <3>1. path[d] = Append(old, d) /\ parentOf'[d] = u /\ d \in Units /\ tenantOf[d] = tenantOf[u]
      BY <1>1, <1>4, <1>5, <1>7, <2>3, OrganizationAssumption DEF ParentsInTenant
    <3>2. path'[d] = Append(new, d)
      <4>1. CASE new = old
        BY <1>2, <1>8, <2>3, <3>1, <4>1
      <4>2. CASE new # old
        <5>1. IsPrefix(old, Append(old, d)) <=> IsPrefix(old, old) \/ old = Append(old, d)
          BY <1>6, <3>1, PrefixAppend
        <5>2. IsPrefix(old, old)
          BY <1>6, LenProperties DEF IsPrefix
        <5>3. d \in Moved(r)
          BY <1>8, <2>3, <3>1, <4>2, <5>1, <5>2, Zenon
        <5>4. Rebased(old, new, Append(old, d)) = Append(new, d)
          BY <1>6, <3>1, RebasedChild
        <5> QED
          BY <1>3, <3>1, <5>3, <5>4
      <4> QED
        BY <4>1, <4>2, Zenon
    <3> QED
      BY <1>1, <3>1, <3>2, OrganizationAssumption
  <2>4. CASE d # u /\ parentOf[d] \in rows \ {u}
    <3> DEFINE q == parentOf[d]
    <3>1. /\ path[d] = Append(path[q], d) /\ parentOf'[d] = q /\ d \in Units
          /\ q \in rows \ {u} /\ q \in Units /\ q # NoUnit /\ tenantOf[d] = tenantOf[q]
      BY <1>1, <1>5, <1>7, <2>4, OrganizationAssumption, Zenon DEF ParentsInTenant
    <3> HIDE DEF q
    <3>2. IsPrefix(old, path[d]) <=> IsPrefix(old, path[q])
      <4>1. IsPrefix(old, Append(path[q], d)) <=> IsPrefix(old, path[q]) \/ old = Append(path[q], d)
        BY <1>5, <1>6, <3>1, PrefixAppend
      <4> QED
        BY <1>9, <2>4, <3>1, <4>1, Zenon
    <3>3. d \in Moved(r) <=> q \in Moved(r)
      BY <1>8, <2>4, <3>1, <3>2, Zenon
    <3>4. path'[d] = Append(path'[q], d)
      <4>1. CASE q \notin Moved(r)
        BY <1>2, <2>4, <3>1, <3>3, <4>1, Zenon
      <4>2. CASE q \in Moved(r)
        <5>1. Len(old) <= Len(path[q])
          BY <1>8, <4>2, Zenon DEF IsPrefix
        <5>2. Rebased(old, new, Append(path[q], d)) = Append(Rebased(old, new, path[q]), d)
          BY <1>5, <1>6, <3>1, <5>1, RebasedAppend
        <5>3. path'[d] = Rebased(old, new, path[d]) /\ path'[q] = Rebased(old, new, path[q])
          BY <1>3, <3>3, <4>2, Zenon
        <5> QED
          BY <3>1, <5>2, <5>3, Zenon
      <4> QED
        BY <4>1, <4>2, Zenon
    <3> QED
      BY <3>1, <3>4, Zenon
  <2> QED
    BY <2>1, <2>2, <2>3, <2>4, Zenon DEF ParentsInTenant
<1> QED
  BY <1>1, <1>11, Zenon DEF PathsMatchParents, ParentPath

(* The inductive invariant of the paths.  The compare-and-set gives the    *)
(* path of the unit, the lock that of its parent.                          *)
PathInv ==
  /\ TypeInv /\ Grounded /\ ParentsInTenant
  /\ SnapshotsBehind /\ VersionCoversPath
  /\ HoldsLock /\ ParentFresh /\ PathsMatchParents

LEMMA PathInvariant == HasLocker /\ ~ SlowHolders => (SerialSpec => []PathInv)
<1> SUFFICES ASSUME HasLocker, ~ SlowHolders PROVE SerialSpec => []PathInv
  BY Zenon
<1>1. Init => PathInv
  BY TypeInit DEF Init, PathInv, Grounded, ParentsInTenant, SnapshotsBehind, VersionCoversPath,
                  HoldsLock, ParentFresh, PathsMatchParents
<1>2. PathInv /\ [SerialNext]_vars => PathInv'
  <2> SUFFICES ASSUME PathInv, [SerialNext]_vars PROVE PathInv'
    BY Zenon
  <2>1. [Next]_vars
    BY Zenon DEF SerialNext, FreshInsert, Next, Serve
  <2>2. TypeInv' /\ Grounded' /\ ParentsInTenant' /\ SnapshotsBehind' /\ VersionCoversPath'
    BY <2>1, TypeStep, GroundedStep, ParentsInTenantStep, SnapshotsStep DEF PathInv
  <2>3. HoldsLock' /\ ParentFresh'
    BY <2>1, HoldsLockStep, ParentFreshStep, Zenon DEF PathInv
  <2>4. PathsMatchParents'
    <3>1. CASE UNCHANGED table
      BY <3>1, Zenon DEF table, PathInv, PathsMatchParents, ParentPath
    <3>2. ASSUME NEW r \in Requests, FreshInsert(r) PROVE PathsMatchParents'
      BY <3>2, InsertKeepsPaths, Zenon DEF PathInv, FreshInsert
    <3>3. ASSUME NEW r \in Requests, CommitUpdate(r) PROVE PathsMatchParents'
      BY <3>3, CommitKeepsPaths, Zenon DEF PathInv
    <3>4. UNCHANGED table \/ \E r \in Requests : FreshInsert(r) \/ CommitUpdate(r)
      BY DEF SerialNext, vars, CreateReadParent, UpdateStart, ReadCurrent, ReadParent, Reject, Unlock, InsertFails,
             Crash, Expire
    <3> QED
      BY <3>1, <3>2, <3>3, <3>4
  <2> QED
    BY <2>2, <2>3, <2>4, Zenon DEF PathInv
<1> QED
  BY <1>1, <1>2, PTL DEF SerialSpec

(* PathsMatchParents: under the lock, and while no parent moves between    *)
(* the read and the insert of a create, every stored path is the path of   *)
(* the parent followed by the unit, through any sequence of moves.         *)
THEOREM PathsStayExact == HasLocker /\ ~ SlowHolders => (SerialSpec => []PathsMatchParents)
<1>1. PathInv => PathsMatchParents
  BY Zenon DEF PathInv
<1> QED
  BY <1>1, PathInvariant, PTL
-----------------------------------------------------------------------------
(* What exact paths are good for.                                          *)

LEMMA PathsIdentify ==
  ASSUME TypeInv, ParentsInTenant, PathsMatchParents, NEW u \in rows
  PROVE  /\ path[u] # <<>>
         /\ parentOf[u] # NoUnit => Len(path[parentOf[u]]) < Len(path[u])
         /\ \A v \in rows : path[u] = path[v] => u = v
<1> DEFINE pp(v) == IF parentOf[v] = NoUnit THEN <<>> ELSE path[parentOf[v]]
<1>1. \A v \in rows : v \in Units /\ pp(v) \in Seq(Units) /\ path[v] = Append(pp(v), v)
  BY EmptySeq, Zenon DEF TypeInv, TypeOK, ParentsInTenant, PathsMatchParents, ParentPath
<1>2. parentOf[u] # NoUnit => pp(u) = path[parentOf[u]]
  BY Zenon
<1> HIDE DEF pp
<1>3. path[u] # <<>> /\ Len(path[u]) = Len(pp(u)) + 1 /\ Len(pp(u)) \in Nat
  BY <1>1, AppendProperties, LenProperties
<1>4. \A v \in rows : path[u] = path[v] => u = v
  <2> TAKE v \in rows
  <2>1. pp(u) \in Seq(Units) /\ pp(v) \in Seq(Units) /\ u \in Units /\ v \in Units
    BY <1>1, Zenon
  <2>2. Append(pp(u), u) = Append(pp(v), v) <=> pp(u) = pp(v) /\ u = v
    BY <2>1, AppendInjective
  <2> QED
    BY <1>1, <2>2, Zenon
<1>5. parentOf[u] # NoUnit => Len(path[parentOf[u]]) < Len(path[u])
  <2>1. \A n \in Nat : n < n + 1
    OBVIOUS
  <2>2. Len(pp(u)) < Len(path[u])
    BY <1>3, <2>1, Zenon
  <2> QED
    BY <1>2, <2>2, Zenon
<1> QED
  BY <1>3, <1>4, <1>5

(* Among any rows there is one with a shortest path.                       *)
LEMMA ShortestPath ==
  ASSUME TypeInv, NEW S \in SUBSET rows, S # {}
  PROVE  \E u \in S : \A v \in S : ~ (Len(path[v]) < Len(path[u]))
<1> DEFINE R == OpToRel(<, Nat)
           T == {Len(path[u]) : u \in S}
<1>1. \A u \in S : Len(path[u]) \in Nat
  BY LenProperties, Zenon DEF TypeInv, TypeOK
<1>2. T \subseteq Nat /\ T # {}
  BY <1>1, Zenon
<1>3. PICK n \in T : \A m \in T : ~ (<<m, n>> \in R)
  <2> HIDE DEF T, R
  <2> QED
    BY <1>2, WFMin, NatLessThanWellFounded DEF R
<1>4. \A m \in T : ~ (m < n)
  <2>1. \A m \in Nat : m < n => <<m, n>> \in R
    BY <1>2, Zenon DEF OpToRel
  <2> HIDE DEF T, R
  <2> QED
    BY <1>2, <1>3, <2>1, Zenon
<1>5. PICK u \in S : Len(path[u]) = n
  BY Zenon
<1> QED
  BY <1>4, <1>5, Zenon

(* Paths grow along the parent links, so these end.                        *)
LEMMA PathsMakeForest ==
  ASSUME PathInv PROVE NoCycle
<1> SUFFICES ASSUME NEW S \in SUBSET rows, S # {} PROVE \E u \in S : parentOf[u] \notin S
  BY Zenon DEF NoCycle
<1>1. PICK u \in S : \A v \in S : ~ (Len(path[v]) < Len(path[u]))
  BY ShortestPath, Zenon DEF PathInv
<1>2. parentOf[u] \notin S
  <2>1. parentOf[u] # NoUnit => Len(path[parentOf[u]]) < Len(path[u])
    BY PathsIdentify, Zenon DEF PathInv
  <2>2. NoUnit \notin S
    BY OrganizationAssumption, Zenon DEF PathInv, TypeInv, TypeOK
  <2> QED
    BY <1>1, <2>1, <2>2, Zenon
<1> QED
  BY <1>2, Zenon

(* NoCycle: under the same conditions the parent links never close a loop: *)
(* the test on path prefixes of UpdateOrganizationUnit is enough.          *)
THEOREM TreeStaysAcyclic == HasLocker /\ ~ SlowHolders => (SerialSpec => []NoCycle)
<1>1. PathInv => NoCycle
  BY PathsMakeForest, Zenon
<1> QED
  BY <1>1, PathInvariant, PTL

(* A path prefix is there exactly for the unit itself and for the units    *)
(* whose parents have it.                                                  *)
LEMMA PrefixFollowsParents ==
  ASSUME TypeInv, ParentsInTenant, PathsMatchParents, NEW u \in rows, NEW v \in rows
  PROVE  IsPrefix(path[u], path[v]) <=>
           v = u \/ (parentOf[v] # NoUnit /\ IsPrefix(path[u], path[parentOf[v]]))
<1>1. /\ v \in Units /\ path[u] \in Seq(Units)
      /\ path[u] # <<>> /\ (path[u] = path[v] => u = v)
      /\ parentOf[v] # NoUnit => path[parentOf[v]] \in Seq(Units)
      /\ path[v] = Append(ParentPath(parentOf[v]), v)
  BY PathsIdentify, Zenon DEF TypeInv, TypeOK, ParentsInTenant, PathsMatchParents
<1>2. ParentPath(parentOf[v]) \in Seq(Units)
  BY <1>1, EmptySeq, Zenon DEF ParentPath
<1>3. IsPrefix(path[u], path[v]) <=> IsPrefix(path[u], ParentPath(parentOf[v])) \/ path[u] = path[v]
  <2> DEFINE q == ParentPath(parentOf[v])
  <2> HIDE DEF q
  <2>1. path[u] \in Seq(Units) /\ q \in Seq(Units) /\ v \in Units /\ path[v] = Append(q, v)
    BY <1>1, <1>2, Zenon DEF q
  <2>2. IsPrefix(path[u], Append(q, v)) <=> IsPrefix(path[u], q) \/ path[u] = Append(q, v)
    BY <2>1, PrefixAppend
  <2> QED
    BY <2>1, <2>2, Zenon DEF q
<1>4. ~ IsPrefix(path[u], <<>>)
  BY <1>1, EmptySeq, LenProperties DEF IsPrefix
<1> QED
  BY <1>1, <1>3, <1>4 DEF ParentPath

(* The rows with the path of a unit as a prefix are those of its subtree.  *)
LEMMA PrefixesAreSubtrees ==
  ASSUME PathInv, NEW u \in rows PROVE PathScope(u) = {v \in Subtree(u) : status[v] = "active"}
<1> DEFINE P == {v \in rows : tenantOf[v] = tenantOf[u] /\ IsPrefix(path[u], path[v])}
<1>0. /\ NoUnit \notin rows
      /\ \A w \in rows : parentOf[w] # NoUnit =>
           parentOf[w] \in rows /\ tenantOf[parentOf[w]] = tenantOf[w]
  BY OrganizationAssumption, Zenon DEF PathInv, TypeInv, TypeOK, ParentsInTenant
<1>1. \A v \in rows : IsPrefix(path[u], path[v]) <=>
        v = u \/ (parentOf[v] # NoUnit /\ IsPrefix(path[u], path[parentOf[v]]))
  BY PrefixFollowsParents, Zenon DEF PathInv
<1>2. \A v \in rows : v \in P <=> (v = u \/ parentOf[v] \in P)
  BY <1>0, <1>1, Zenon
<1>3. Subtree(u) \subseteq P
  <2>1. P \in SUBSET rows /\ u \in P /\ \A w \in rows : parentOf[w] \in P => w \in P
    BY <1>2, Zenon
  <2> HIDE DEF P
  <2> QED
    BY <2>1, Zenon DEF Subtree
<1>4. ASSUME NEW S \in SUBSET rows, u \in S, \A w \in rows : parentOf[w] \in S => w \in S
      PROVE  P \subseteq S
  <2> SUFFICES ASSUME P \ S # {} PROVE FALSE
    BY Zenon
  <2>1. P \subseteq rows
    BY Zenon
  <2> HIDE DEF P
  <2>2. PICK v \in P \ S : \A w \in P \ S : ~ (Len(path[w]) < Len(path[v]))
    BY <2>1, ShortestPath, Zenon DEF PathInv
  <2>3. v \in rows /\ v # u
    BY <1>4, <2>1, <2>2
  <2>4. parentOf[v] \in P /\ parentOf[v] # NoUnit
    BY <1>0, <1>2, <2>1, <2>2, <2>3
  <2>5. Len(path[parentOf[v]]) < Len(path[v])
    BY <2>3, <2>4, PathsIdentify DEF PathInv
  <2>6. parentOf[v] \in S
    BY <2>2, <2>4, <2>5
  <2> QED
    BY <1>4, <2>2, <2>3, <2>6
<1>5. P \subseteq Subtree(u)
  BY <1>4, Zenon DEF Subtree
<1>6. PathScope(u) = {v \in P : status[v] = "active"}
  BY Zenon DEF PathScope
<1> QED
  BY <1>3, <1>5, <1>6, Zenon

(* ScopeIsActiveSubtree: under the same conditions the prefix query of     *)
(* ResolveOrganizationScope returns the active part of the subtree.        *)
THEOREM ScopeIsExact == HasLocker /\ ~ SlowHolders => (SerialSpec => []ScopeIsActiveSubtree)
<1>1. PathInv => ScopeIsActiveSubtree
  BY PrefixesAreSubtrees, Zenon DEF ScopeIsActiveSubtree
<1> QED
  BY <1>1, PathInvariant, PTL
-----------------------------------------------------------------------------
(* OrganizationScope.  Units are never deleted and never change tenant, so *)
(* what the request read of them stays theirs; a path it read ends in the  *)
(* unit it was read from.                                                  *)
Known(u) == u \in rows /\ tenantOf[u] = MemberTenant
EndsIn(p, u) == \E q \in Seq(Units) : p = Append(q, u)

ReaderInv ==
  /\ root \in [unit : Parents, path : Seq(Units)]
  /\ primary # NoUnit => Known(primary)
  /\ at \in {"path", "query"} => Known(root.unit)
  /\ at = "query" => EndsIn(root.path, root.unit)

(* The tree changes as it does without the reader.                         *)
LEMMA ScopeIsSerial == ScopeSpec => SerialSpec
<1>1. ScopeInit => Init
  BY Zenon DEF ScopeInit
<1>2. [ScopeNext]_scopeVars => [SerialNext]_vars
  BY Zenon DEF ScopeNext, scopeVars, Reassign, ReadMembership, ReadPath, Answer
<1> QED
  BY <1>1, <1>2, PTL DEF ScopeSpec, SerialSpec

(* Neither a change of the tree nor a step of the reader disturbs it.      *)
LEMMA ReaderStep == ASSUME PathInv, ReaderInv, [ScopeNext]_scopeVars PROVE ReaderInv'
<1>1. ASSUME NEW u, Known(u), [Next]_vars PROVE Known(u)'
  BY <1>1, RowsEvolve, Zenon DEF Known, PathInv
<1>2. CASE SerialNext /\ UNCHANGED <<primary, reader>>
  <2>1. [Next]_vars
    BY <1>2, Zenon DEF SerialNext, FreshInsert, Next, Serve
  <2>2. UNCHANGED <<primary, at, root>>
    BY <1>2, Zenon DEF reader
  <2>3. ASSUME NEW u, Known(u) PROVE Known(u)'
    BY <1>1, <2>1, <2>3
  <2>4. (primary # NoUnit => Known(primary)) /\ (at \in {"path", "query"} => Known(root.unit))
    BY Zenon DEF ReaderInv
  <2>5. primary # NoUnit => primary \in rows' /\ tenantOf'[primary] = MemberTenant
    BY <2>3, <2>4, Zenon DEF Known
  <2>6. at \in {"path", "query"} => root.unit \in rows' /\ tenantOf'[root.unit] = MemberTenant
    BY <2>3, <2>4, Zenon DEF Known
  <2> QED
    BY <2>2, <2>5, <2>6 DEF ReaderInv, Known, EndsIn
<1>3. CASE Reassign
  BY <1>3, Zenon DEF Reassign, ReaderInv, Known, EndsIn, ActiveIn, vars, table, reader
<1>4. CASE ReadMembership
  <2>1. /\ root' = [unit |-> primary, path |-> <<>>] /\ at' = "path" /\ Known(primary)
        /\ rows' = rows /\ tenantOf' = tenantOf /\ primary' = primary
    BY <1>4, Zenon DEF ReadMembership, ReaderInv, NoRoot, vars, table
  <2>2. primary \in Parents /\ <<>> \in Seq(Units)
    BY <2>1, EmptySeq, Zenon DEF Known, PathInv, TypeInv, TypeOK
  <2> QED
    BY <2>1, <2>2, Zenon DEF ReaderInv, Known
<1>5. CASE ReadPath
  <2>1. /\ root' = [root EXCEPT !.path = path[root.unit]] /\ at' = "query"
        /\ rows' = rows /\ tenantOf' = tenantOf /\ primary' = primary /\ Known(root.unit)
    BY <1>5, Zenon DEF ReadPath, ReaderInv, vars, table
  <2> DEFINE q == ParentPath(parentOf[root.unit])
  <2>2. path[root.unit] \in Seq(Units) /\ path[root.unit] = Append(q, root.unit) /\ q \in Seq(Units)
    BY <2>1, EmptySeq DEF Known, PathInv, TypeInv, TypeOK, PathsMatchParents, ParentsInTenant, ParentPath
  <2> HIDE DEF q
  <2>3. root'.unit = root.unit /\ root'.path = path[root.unit] /\ root' \in [unit : Parents, path : Seq(Units)]
    BY <2>1, <2>2, Zenon DEF ReaderInv
  <2>4. EndsIn(root.path, root.unit)'
    BY <2>2, <2>3, Zenon DEF EndsIn
  <2> QED
    BY <2>1, <2>3, <2>4 DEF ReaderInv, Known
<1>6. CASE Answer
  BY <1>6, EmptySeq, Zenon DEF Answer, ReaderInv, Known, NoRoot, vars, table
<1>7. CASE UNCHANGED scopeVars
  BY <1>7, Zenon DEF scopeVars, ReaderInv, Known, EndsIn, vars, table, reader
<1> QED
  BY <1>2, <1>3, <1>4, <1>5, <1>6, <1>7 DEF ScopeNext

(* A path that its last unit no longer has is the prefix of no path.       *)
LEMMA OldPathIsGone ==
  ASSUME PathInv, NEW u \in rows, NEW p \in Seq(Units), EndsIn(p, u), path[u] # p, NEW v \in rows
  PROVE  ~ IsPrefix(p, path[v])
<1> DEFINE S == {w \in rows : IsPrefix(p, path[w])}
<1> SUFFICES ASSUME S # {} PROVE FALSE
  BY Zenon
<1>1. PICK w \in S : parentOf[w] \notin S
  BY PathsMakeForest, Zenon DEF NoCycle
<1> DEFINE q == ParentPath(parentOf[w])
<1>2. /\ w \in rows /\ w \in Units /\ q \in Seq(Units) /\ path[w] = Append(q, w)
      /\ parentOf[w] = NoUnit \/ parentOf[w] \in rows
  BY EmptySeq, Zenon DEF PathInv, TypeInv, TypeOK, PathsMatchParents, ParentsInTenant, ParentPath
<1>3. ~ IsPrefix(p, q)
  <2>1. CASE parentOf[w] = NoUnit
    <3>1. q = <<>>
      BY <2>1, Zenon DEF ParentPath
    <3>2. PICK s \in Seq(Units) : p = Append(s, u)
      BY Zenon DEF EndsIn
    <3>3. u \in Units
      BY Zenon DEF PathInv, TypeInv, TypeOK
    <3>4. p # <<>>
      <4>1. Append(s, u) # <<>>
        BY <3>3, AppendProperties
      <4> QED
        BY <3>2, <4>1, Zenon
    <3>5. Len(p) \in Nat \ {0} /\ Len(<<>>) = 0
      BY <3>4, EmptySeq, Zenon
    <3> QED
      BY <3>1, <3>5 DEF IsPrefix
  <2>2. CASE parentOf[w] \in rows
    <3>1. q = path[parentOf[w]]
      BY <2>2, OrganizationAssumption DEF ParentPath, PathInv, TypeInv, TypeOK
    <3> QED
      BY <1>1, <2>2, <3>1, Zenon
  <2> QED
    BY <1>2, <2>1, <2>2
<1>4. p = Append(q, w)
  <2>1. IsPrefix(p, path[w])
    BY <1>1, Zenon
  <2>2. p \in Seq(Units) /\ q \in Seq(Units) /\ w \in Units /\ path[w] = Append(q, w)
    BY <1>2, Zenon
  <2> HIDE DEF q, S
  <2>3. IsPrefix(p, Append(q, w)) <=> IsPrefix(p, q) \/ p = Append(q, w)
    BY <2>2, PrefixAppend
  <2> QED
    BY <1>3, <2>1, <2>2, <2>3
<1> HIDE DEF q, S
<1>5. PICK s \in Seq(Units) : p = Append(s, u)
  BY Zenon DEF EndsIn
<1>6. u \in Units
  BY Zenon DEF PathInv, TypeInv, TypeOK
<1>7. u = w
  <2>1. Append(s, u) = Append(q, w) <=> s = q /\ u = w
    BY <1>2, <1>5, <1>6, AppendInjective
  <2> QED
    BY <1>4, <1>5, <2>1, Zenon
<1> QED
  BY <1>2, <1>4, <1>7

(* ScopeNeverTooWide: however the tree and the membership change between   *)
(* the three statements of ResolveOrganizationScope, its answer is the     *)
(* active part of the subtree at the time of the query, or empty because   *)
(* the unit has moved.                                                     *)
THEOREM StaleScopeIsNotWider == HasLocker /\ ~ SlowHolders => (ScopeSpec => []ScopeNeverTooWide)
<1> SUFFICES ASSUME HasLocker, ~ SlowHolders PROVE ScopeSpec => []ScopeNeverTooWide
  BY Zenon
<1>1. ScopeInit => ReaderInv
  BY EmptySeq DEF ScopeInit, ReaderInv, NoRoot
<1>2. PathInv /\ ReaderInv /\ [ScopeNext]_scopeVars => ReaderInv'
  BY ReaderStep, Zenon
<1>3. ScopeSpec => []PathInv
  BY ScopeIsSerial, PathInvariant, PTL
<1>4. PathInv /\ ReaderInv => ScopeNeverTooWide
  <2> SUFFICES ASSUME PathInv, ReaderInv, at = "query"
               PROVE  \/ UnderPath(root.path) = {v \in Subtree(root.unit) : status[v] = "active"}
                      \/ UnderPath(root.path) = {} /\ path[root.unit] # root.path
    BY Zenon DEF ScopeNeverTooWide
  <2>1. root.unit \in rows /\ tenantOf[root.unit] = MemberTenant /\ EndsIn(root.path, root.unit) /\ root.path \in Seq(Units)
    BY Zenon DEF ReaderInv, Known
  <2>2. CASE path[root.unit] = root.path
    <3>1. UnderPath(root.path) = PathScope(root.unit)
      BY <2>1, <2>2 DEF UnderPath, PathScope
    <3> QED
      BY <2>1, <3>1, PrefixesAreSubtrees
  <2>3. CASE path[root.unit] # root.path
    <3>1. \A v \in rows : ~ IsPrefix(root.path, path[v])
      BY <2>1, <2>3, OldPathIsGone, Zenon
    <3> QED
      BY <2>3, <3>1, Zenon DEF UnderPath
  <2> QED
    BY <2>2, <2>3, Zenon
<1> QED
  BY <1>1, <1>2, <1>3, <1>4, PTL DEF ScopeSpec
=============================================================================
