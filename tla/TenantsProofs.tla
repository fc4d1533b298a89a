---------------------------- MODULE TenantsProofs ----------------------------
(***************************************************************************)
(* Proofs about Tenants, for every set of tenants, users, units, requests, *)
(* callers and statuses.  The chain of status events is proved for clients *)
(* that send no version that no row had yet; the rest for any version.     *)
(***************************************************************************)
EXTENDS Tenants, SequenceTheorems, TLAPS

Event == [previous : Statuses, current : Statuses]

TableTypes ==
  /\ tenant \in [Tenants -> [status : TenantStatuses \cup {"none"}, version : 0..MaxVersion]]
  /\ member \in [Members -> [status : MembershipStatuses \cup {"none"}, unit : Units \cup {NoUnit}, version : 0..MaxVersion]]
  /\ usable \subseteq Units
  /\ log \in [Rows -> Seq(Event)]

LocalTypes ==
  /\ cur \in [Requests -> Statuses]
  /\ pc \in [Requests -> {"idle", "unit", "commit", "reply"}]
  /\ req \in [Requests -> Request \cup {NoRequest}]
  /\ ans \in [Requests -> {"none", "ok", "error"}]

LEMMA TypeParts == TypeOK <=> TableTypes /\ LocalTypes
  BY Zenon DEF TypeOK, TableTypes, LocalTypes, Event

(* A request under way has its input, and only those that name a unit pass *)
(* its validation.                                                         *)
Underway ==
  \A r \in Requests :
    /\ pc[r] # "idle" => req[r] \in Request
    /\ pc[r] = "unit" => req[r].op # "tenant"

(* What the three kinds of requests carry.                                 *)
LEMMA RequestFields ==
  ASSUME NEW q \in Request
  PROVE  /\ q.op \in {"tenant", "member", "add"}
         /\ q.version \in 0..MaxVersion /\ q.row \in Rows
         /\ q.op = "tenant" => q.row \in Tenants /\ q.status \in TenantStatuses
         /\ q.op = "member" => q.row \in Members /\ q.status \in MembershipStatuses /\ q.unit \in Units \cup {NoUnit}
         /\ q.op = "add" => q.row \in Members /\ q.unit \in Units \cup {NoUnit} /\ q.version = 0
         /\ q.op # "add" => q.version > 0
  BY TenantsAssumption DEF Request, Rows

(* A row is a tenant's or a membership's, not both.                        *)
LEMMA RowKinds ==
  /\ Tenants \cap Members = {}
  /\ \A m \in Members : m[1] \in Tenants /\ m[2] \in Users /\ m = <<m[1], m[2]>>
  /\ \A t \in Tenants, u \in Users : <<t, u>> \in Members /\ <<t, u>>[1] = t
  BY TenantsAssumption DEF Members

Basics == TableTypes /\ LocalTypes /\ Underway

LEMMA BasicsInit == Init => Basics
  <1> SUFFICES ASSUME Init PROVE Basics
    BY Zenon
  <1>1. TableTypes
    BY TenantsAssumption, EmptySeq DEF Init, TableTypes, NoTenantRow, NoMemberRow
  <1> QED BY <1>1, Zenon DEF Init, Basics, LocalTypes, Underway, Statuses
-----------------------------------------------------------------------------
(* An event with two statuses may be told of any row.                      *)
LEMMA TellTyped ==
  ASSUME TableTypes, NEW row \in Rows, NEW p \in Statuses, NEW c \in Statuses, Tell(row, p, c)
  PROVE  log' \in [Rows -> Seq(Event)]
  <1>1. [previous |-> p, current |-> c] \in Event
    BY Zenon DEF Event
  <1>2. Append(log[row], [previous |-> p, current |-> c]) \in Seq(Event)
    BY <1>1, AppendProperties, Zenon DEF TableTypes
  <1> QED BY <1>2, Zenon DEF TableTypes, Tell

LEMMA BasicsCreate ==
  ASSUME Basics, NEW t \in Tenants, NEW u \in Users, Create(t, u)
  PROVE  Basics'
  <1>1. "none" \in Statuses /\ "active" \in Statuses /\ t \in Rows
    BY TenantsAssumption, Zenon DEF Statuses, Rows
  <1>2. TableTypes'
    BY <1>1, TellTyped, TenantsAssumption, RowKinds DEF Basics, TableTypes, Create, CreateOnce
  <1> QED BY <1>2, Zenon DEF Basics, LocalTypes, Underway, Create

LEMMA BasicsServe ==
  ASSUME Basics, NEW r \in Requests, Serve(r)
  PROVE  Basics'
  <1> USE DEF Basics
  <1>0. /\ TenantStatuses \subseteq Statuses /\ MembershipStatuses \subseteq Statuses
        /\ "none" \in Statuses /\ "active" \in MembershipStatuses
    BY TenantsAssumption, Zenon DEF Statuses
  <1>1. CASE UpdateRead(r)
    <2> PICK q \in Request :
          /\ q.op \in {"tenant", "member"}
          /\ req' = [req EXCEPT ![r] = q] /\ cur' = [cur EXCEPT ![r] = StatusOf(q.row)]
          /\ Goto(r, IF q.op = "tenant" THEN "commit" ELSE "unit", "none")
      BY <1>1, Zenon DEF UpdateRead
    <2>1. StatusOf(q.row) \in Statuses
      BY <1>0, RequestFields, RowKinds DEF StatusOf, TableTypes, Rows
    <2> QED BY <1>1, <2>1 DEF UpdateRead, TableTypes, table, LocalTypes, Underway, Goto
  <1>2. CASE AddStart(r)
    BY <1>2 DEF AddStart, TableTypes, table, LocalTypes, Underway, Goto
  <1>3. CASE ValidateUnit(r)
    BY <1>3 DEF ValidateUnit, TableTypes, table, LocalTypes, Underway, Goto
  <1>4. CASE CommitTenant(r)
    <2>1. req[r].row \in Tenants /\ req[r].row \in Rows /\ req[r].status \in TenantStatuses
      BY <1>4, RequestFields, Zenon DEF CommitTenant, Underway, Rows
    <2>2. TableTypes'
      BY <1>0, <1>4, <2>1, TellTyped, TenantsAssumption
      DEF CommitTenant, TableTypes, LocalTypes, Previous, NextVersion, VersionOf
    <2> QED BY <1>4, <2>2 DEF CommitTenant, LocalTypes, Underway, Goto
  <1>5. CASE CommitMember(r)
    <2>1. /\ req[r].row \in Members /\ req[r].row \in Rows /\ req[r].row \notin Tenants
          /\ req[r].status \in MembershipStatuses /\ req[r].unit \in Units \cup {NoUnit}
      BY <1>5, RequestFields, RowKinds, Zenon DEF CommitMember, Underway, Rows
    <2>2. TableTypes'
      BY <1>0, <1>5, <2>1, TellTyped, TenantsAssumption
      DEF CommitMember, TableTypes, LocalTypes, Previous, NextVersion, VersionOf
    <2> QED BY <1>5, <2>2 DEF CommitMember, LocalTypes, Underway, Goto
  <1>6. CASE CommitAdd(r)
    <2>1. req[r].row \in Members /\ req[r].row \in Rows /\ req[r].unit \in Units \cup {NoUnit}
      BY <1>6, RequestFields, Zenon DEF CommitAdd, Underway, Rows
    <2>2. TableTypes'
      BY <1>0, <1>6, <2>1, TellTyped, TenantsAssumption DEF CommitAdd, TableTypes, AddedStatus
    <2> QED BY <1>6, <2>2 DEF CommitAdd, LocalTypes, Underway, Goto
  <1>7. CASE Fails(r)
    BY <1>7, Zenon DEF Fails, TableTypes, table, LocalTypes, Underway, Goto
  <1>8. CASE End(r)
    BY <1>0, <1>8, Zenon DEF End, TableTypes, table, LocalTypes, Underway
  <1> QED BY <1>1, <1>2, <1>3, <1>4, <1>5, <1>6, <1>7, <1>8, Zenon DEF Serve

LEMMA BasicsStep == Basics /\ [Next]_vars => Basics'
  <1> SUFFICES ASSUME Basics, [Next]_vars PROVE Basics'
    BY Zenon
  <1>1. CASE UNCHANGED vars
    BY <1>1, Zenon DEF vars, table, Basics, TableTypes, LocalTypes, Underway
  <1>2. ASSUME NEW n \in Units, ToggleUnit(n) PROVE Basics'
    BY <1>2, Zenon DEF ToggleUnit, table, Basics, TableTypes, LocalTypes, Underway
  <1> QED BY <1>1, <1>2, BasicsCreate, BasicsServe, Zenon DEF Next

(* Tenants and memberships keep their types, whatever versions are sent.   *)
THEOREM TypeCorrect == Spec => []TypeOK
  <1> QED BY BasicsInit, BasicsStep, TypeParts, PTL DEF Spec, Basics
-----------------------------------------------------------------------------
(* What a request was checked for still holds when it commits: the unit it *)
(* names is of the tenant of its row, and the tenant a member is added to  *)
(* exists.                                                                 *)
Checked ==
  \A r \in Requests :
    /\ pc[r] = "commit" /\ req[r].op # "tenant" =>
         (req[r].unit # NoUnit => UnitTenant[req[r].unit] = req[r].row[1])
    /\ pc[r] # "idle" /\ req[r].op = "add" => tenant[req[r].row[1]].version > 0

Sound == Basics /\ Checked /\ UnitOfOwnTenant /\ TenantsHaveMembers

LEMMA SoundInit == Init => Sound
  <1> SUFFICES ASSUME Init PROVE Sound
    BY Zenon
  <1>1. Checked /\ UnitOfOwnTenant
    BY Zenon DEF Init, Checked, UnitOfOwnTenant, NoMemberRow
  <1>2. TenantsHaveMembers
    <2>1. \A x \in Tenants : ~(tenant[x].version > 0)
      BY DEF Init, NoTenantRow
    <2>2. \A m \in Members : ~(member[m].version > 0)
      BY DEF Init, NoMemberRow
    <2>3. \A x \in Tenants, u \in Users : <<x, u>> \in Members
      BY Zenon DEF Members
    <2> QED BY <2>1, <2>2, <2>3, Zenon DEF TenantsHaveMembers
  <1> QED BY <1>1, <1>2, BasicsInit, Zenon DEF Sound

LEMMA SoundCreate ==
  ASSUME Sound, NEW t \in Tenants, NEW u \in Users, Create(t, u)
  PROVE  Checked' /\ UnitOfOwnTenant' /\ TenantsHaveMembers'
  <1> USE DEF Sound, Basics, Create, CreateOnce
  <1>1. \A x \in Tenants : tenant'[x].version > 0 <=> (x = t \/ tenant[x].version > 0)
    BY DEF TableTypes
  <1>2. \A m \in Members : member'[m].version > 0 <=> (m = <<t, u>> \/ member[m].version > 0)
    BY RowKinds DEF TableTypes
  <1>3. Checked'
    <2> SUFFICES ASSUME NEW r \in Requests, pc[r] # "idle", req[r].op = "add"
                 PROVE  tenant'[req[r].row[1]].version > 0
      BY Zenon DEF Checked
    <2>1. req[r].row[1] \in Tenants
      BY RequestFields, RowKinds, Zenon DEF Underway
    <2> QED BY <2>1, <1>1, Zenon DEF Checked
  <1>4. UnitOfOwnTenant'
    BY RowKinds DEF TableTypes, UnitOfOwnTenant
  <1>5. TenantsHaveMembers'
    BY <1>1, <1>2, RowKinds DEF TenantsHaveMembers
  <1> QED BY <1>3, <1>4, <1>5, Zenon

(* Steps that leave the table alone.                                       *)
LEMMA SoundElsewhere ==
  ASSUME Sound, UNCHANGED table,
         \/ UNCHANGED <<pc, req>>
         \/ \E r \in Requests : UpdateRead(r) \/ AddStart(r) \/ ValidateUnit(r) \/ Fails(r) \/ End(r)
  PROVE  Checked' /\ UnitOfOwnTenant' /\ TenantsHaveMembers'
  <1> USE DEF Sound, Basics, table
  <1>1. UnitOfOwnTenant' /\ TenantsHaveMembers'
    BY Zenon DEF UnitOfOwnTenant, TenantsHaveMembers
  <1>2. CASE UNCHANGED <<pc, req>>
    BY <1>1, <1>2, Zenon DEF Checked
  <1>3. ASSUME NEW r \in Requests, UpdateRead(r) PROVE Checked'
    <2>1. PICK q \in Request :
            /\ q.op \in {"tenant", "member"} /\ req' = [req EXCEPT ![r] = q]
            /\ pc' = [pc EXCEPT ![r] = IF q.op = "tenant" THEN "commit" ELSE "unit"]
      BY <1>3, Zenon DEF UpdateRead, Goto
    <2> QED BY <2>1, Zenon DEF LocalTypes, Checked
  <1>4. ASSUME NEW r \in Requests, AddStart(r) PROVE Checked'
    <2>1. PICK q \in Request :
            /\ tenant[q.row[1]].version > 0 /\ req' = [req EXCEPT ![r] = q]
            /\ pc' = [pc EXCEPT ![r] = "unit"]
      BY <1>4, Zenon DEF AddStart, Goto
    <2> QED BY <2>1, Zenon DEF LocalTypes, Checked
  <1>5. ASSUME NEW r \in Requests, ValidateUnit(r) PROVE Checked'
    BY <1>5 DEF ValidateUnit, UnitFits, Goto, LocalTypes, Checked
  <1>6. ASSUME NEW r \in Requests, Fails(r) PROVE Checked'
    BY <1>6, Zenon DEF Fails, Goto, LocalTypes, Checked
  <1>7. ASSUME NEW r \in Requests, End(r) PROVE Checked'
    BY <1>7 DEF End, LocalTypes, Checked
  <1> QED BY <1>1, <1>2, <1>3, <1>4, <1>5, <1>6, <1>7, Zenon

LEMMA SoundCommit ==
  ASSUME Sound, NEW r \in Requests, CommitTenant(r) \/ CommitMember(r) \/ CommitAdd(r)
  PROVE  Checked' /\ UnitOfOwnTenant' /\ TenantsHaveMembers'
  <1> USE DEF Sound, Basics
  <1> DEFINE row == req[r].row
  <1>0. /\ req[r] \in Request /\ pc' = [pc EXCEPT ![r] = "reply"] /\ UNCHANGED req /\ pc[r] = "commit"
    BY Zenon DEF CommitTenant, CommitMember, CommitAdd, Goto, Underway, LocalTypes
  <1>1. CASE CommitTenant(r)
    <2>1. row \in Tenants /\ tenant[row].version > 0
      BY <1>0, <1>1, RequestFields, Zenon DEF CommitTenant, Expected, VersionOf
    <2>2. \A x \in Tenants : tenant'[x].version > 0 <=> tenant[x].version > 0
      BY <1>1, <2>1 DEF CommitTenant, NextVersion, TableTypes
    <2>3. UNCHANGED member
      BY <1>1, Zenon DEF CommitTenant
    <2>4. Checked'
      BY <1>0, <2>2, RequestFields, RowKinds DEF Checked, Underway, LocalTypes
    <2> QED BY <2>2, <2>3, <2>4, Zenon DEF UnitOfOwnTenant, TenantsHaveMembers
  <1>2. CASE CommitMember(r) \/ CommitAdd(r)
    <2>1. /\ row \in Members /\ row \notin Tenants /\ row[1] \in Tenants /\ UNCHANGED tenant
          /\ req[r].unit # NoUnit => UnitTenant[req[r].unit] = row[1]
      BY <1>0, <1>2, RequestFields, RowKinds, Zenon DEF CommitMember, CommitAdd, Checked
    <2>2. PICK new : /\ member' = [member EXCEPT ![row] = new]
                     /\ new.unit = req[r].unit /\ new.version > 0
      <3>1. CASE CommitMember(r)
        <4>1. member[row].version \in Nat
          BY <2>1, TenantsAssumption DEF TableTypes
        <4> DEFINE changed == [status |-> req[r].status, unit |-> req[r].unit, version |-> member[row].version + 1]
        <4>2. member' = [member EXCEPT ![row] = changed]
          BY <3>1, <2>1, Zenon DEF CommitMember, NextVersion, TableTypes
        <4>3. changed.unit = req[r].unit /\ changed.version > 0
          BY <4>1
        <4> QED BY <4>2, <4>3, Zenon
      <3>2. CASE CommitAdd(r)
        <4> DEFINE added == [status |-> AddedStatus, unit |-> req[r].unit, version |-> 1]
        <4>1. member' = [member EXCEPT ![row] = added]
          BY <3>2, Zenon DEF CommitAdd
        <4>2. added.unit = req[r].unit /\ added.version > 0
          OBVIOUS
        <4> QED BY <4>1, <4>2, Zenon
      <3> QED BY <1>2, <3>1, <3>2, Zenon
    <2>3. tenant[row[1]].version > 0
      <3>1. CASE CommitAdd(r)
        BY <1>0, <3>1, Zenon DEF CommitAdd, Checked
      <3>2. CASE CommitMember(r)
        <4>1. member[row].version > 0
          BY <1>0, <2>1, <3>2, RequestFields, Zenon DEF CommitMember, Expected, VersionOf
        <4> QED BY <4>1, <2>1, RowKinds DEF TenantsHaveMembers
      <3> QED BY <1>2, <3>1, <3>2, Zenon
    <2>4. Checked'
      BY <1>0, <2>1 DEF Checked, LocalTypes
    <2>5. UnitOfOwnTenant'
      BY <2>1, <2>2, Zenon DEF UnitOfOwnTenant, TableTypes
    <2>6. TenantsHaveMembers'
      <3>1. \A m \in Members : member'[m].version > 0 <=> (m = row \/ member[m].version > 0)
        BY <2>1, <2>2, Zenon DEF TableTypes
      <3>2. PICK x \in Tenants, u \in Users : row = <<x, u>>
        BY <2>1 DEF Members
      <3>3. \A y \in Tenants, v \in Users : <<y, v>> \in Members /\ (<<y, v>> = row <=> y = x /\ v = u)
        BY <3>2 DEF Members
      <3>4. row[1] = x
        BY <3>2
      <3> QED BY <2>1, <2>3, <3>1, <3>3, <3>4 DEF TenantsHaveMembers
    <2> QED BY <2>4, <2>5, <2>6, Zenon
  <1> QED BY <1>1, <1>2, Zenon

LEMMA SoundStep == Sound /\ [Next]_vars => Sound'
  <1> SUFFICES ASSUME Sound, [Next]_vars PROVE Checked' /\ UnitOfOwnTenant' /\ TenantsHaveMembers'
    BY BasicsStep, Zenon DEF Sound
  <1>1. CASE UNCHANGED vars
    BY <1>1, SoundElsewhere, Zenon DEF vars
  <1>2. ASSUME NEW n \in Units, ToggleUnit(n) PROVE UNCHANGED <<table, pc, req>>
    BY <1>2, Zenon DEF ToggleUnit
  <1>3. ASSUME NEW r \in Requests, Serve(r), ~(CommitTenant(r) \/ CommitMember(r) \/ CommitAdd(r))
        PROVE  /\ UNCHANGED table
               /\ UpdateRead(r) \/ AddStart(r) \/ ValidateUnit(r) \/ Fails(r) \/ End(r)
    BY <1>3, Zenon DEF Serve, UpdateRead, AddStart, ValidateUnit, Fails, End
  <1> QED BY <1>1, <1>2, <1>3, SoundCreate, SoundElsewhere, SoundCommit, Zenon DEF Next

(* The primary unit of a membership is of its own tenant, although it was  *)
(* checked in an earlier statement and whoever wrote the row meanwhile.    *)
THEOREM UnitsStayInTenant == Spec => []UnitOfOwnTenant
  <1> QED BY SoundInit, SoundStep, PTL DEF Spec, Sound

(* A tenant has a membership from the moment it is there, and a membership *)
(* its tenant.                                                             *)
THEOREM TenantsAreOwned == Spec => []TenantsHaveMembers
  <1> QED BY SoundInit, SoundStep, PTL DEF Spec, Sound
-----------------------------------------------------------------------------
(* The row a step leaves behind.                                           *)
VersionAfter(row) == IF row \in Tenants THEN tenant'[row].version ELSE member'[row].version
StatusAfter(row) == IF row \in Tenants THEN tenant'[row].status ELSE member'[row].status

(* What a step may do to a row: nothing, make it, or change it for the     *)
(* request that named its version.                                         *)
Same(row) ==
  VersionAfter(row) = VersionOf(row) /\ StatusAfter(row) = StatusOf(row) /\ log'[row] = log[row]

Begun(row) ==
  /\ VersionOf(row) = 0 /\ VersionAfter(row) = 1 /\ StatusAfter(row) = "active"
  /\ \/ log'[row] = Append(log[row], [previous |-> "none", current |-> "active"])
     \/ row \in Members /\ log'[row] = log[row]

Changed(row, r) ==
  /\ pc[r] = "commit" /\ req[r].op # "add" /\ req[r].row = row /\ req[r].version = VersionOf(row)
  /\ VersionAfter(row) = VersionOf(row) + 1 /\ StatusAfter(row) = req[r].status
  /\ log'[row] = Append(log[row], [previous |-> cur[r], current |-> req[r].status])

RowStep(row) == Same(row) \/ Begun(row) \/ \E r \in Requests : Changed(row, r)

LEMMA RowsCreate ==
  ASSUME Sound, NEW t \in Tenants, NEW u \in Users, Create(t, u), NEW row \in Rows
  PROVE  RowStep(row)
  <1> USE DEF Sound, Basics, Create, CreateOnce, Tell
  <1>1. /\ t \in Rows /\ <<t, u>> \in Members /\ <<t, u>> \notin Tenants
    BY RowKinds, Zenon DEF Rows
  <1>2. CASE row = t
    BY <1>1, <1>2, Zenon DEF TableTypes, RowStep, Begun, VersionOf, StatusOf, VersionAfter, StatusAfter
  <1>3. CASE row = <<t, u>>
    <2>1. ~(member[<<t, u>>].version > 0)
      BY DEF TenantsHaveMembers
    <2>2. member[<<t, u>>].version = 0
      BY <1>1, <2>1 DEF TableTypes
    <2>3. row # t
      BY <1>1, <1>3, Zenon
    <2> QED BY <1>1, <1>3, <2>2, <2>3, Zenon DEF TableTypes, RowStep, Begun, VersionOf, StatusOf, VersionAfter, StatusAfter
  <1>4. CASE row # t /\ row # <<t, u>>
    BY <1>1, <1>4, Zenon DEF TableTypes, RowStep, Same, VersionOf, StatusOf, VersionAfter, StatusAfter, Rows
  <1> QED BY <1>2, <1>3, <1>4, Zenon

LEMMA RowsCommit ==
  ASSUME Sound, NEW r \in Requests, CommitTenant(r) \/ CommitMember(r) \/ CommitAdd(r), NEW row \in Rows
  PROVE  /\ IF row = req[r].row THEN VersionOf(row) = req[r].version /\ VersionAfter(row) = VersionOf(row) + 1
                                ELSE Same(row)
         /\ RowStep(row)
  <1> USE DEF Sound, Basics
  <1>0. /\ req[r] \in Request /\ pc[r] = "commit" /\ req[r].row \in Rows
    BY RequestFields, Zenon DEF CommitTenant, CommitMember, CommitAdd, Underway
  <1>1. CASE CommitTenant(r)
    <2>1. req[r].row \in Tenants
      BY <1>0, <1>1, RequestFields, Zenon DEF CommitTenant
    <2>2. CASE row = req[r].row
      <3>1. VersionOf(row) = req[r].version
        BY <1>1, <2>2, Zenon DEF CommitTenant, Expected
      <3>2. VersionAfter(row) = VersionOf(row) + 1 /\ StatusAfter(row) = req[r].status
        BY <1>1, <2>1, <2>2, Zenon DEF CommitTenant, NextVersion, TableTypes, VersionOf, VersionAfter, StatusAfter
      <3>3. log'[row] = Append(log[row], [previous |-> cur[r], current |-> req[r].status])
        BY <1>1, <2>2, Zenon DEF CommitTenant, Tell, Previous, TableTypes
      <3>4. req[r].op # "add"
        BY <1>1, Zenon DEF CommitTenant
      <3>5. Changed(row, r)
        BY <1>0, <2>2, <3>1, <3>2, <3>3, <3>4, Zenon DEF Changed
      <3> QED BY <2>2, <3>1, <3>2, <3>5, Zenon DEF RowStep
    <2>3. CASE row # req[r].row
      BY <1>0, <1>1, <2>1, <2>3, Zenon DEF CommitTenant, Tell, TableTypes, RowStep, Same, VersionOf, StatusOf, VersionAfter, StatusAfter, Rows
    <2> QED BY <2>2, <2>3, Zenon
  <1>2. CASE CommitMember(r)
    <2>1. req[r].row \in Members /\ req[r].row \notin Tenants
      BY <1>0, <1>2, RequestFields, RowKinds, Zenon DEF CommitMember
    <2>2. CASE row = req[r].row
      <3>1. VersionOf(row) = req[r].version
        BY <1>2, <2>2, Zenon DEF CommitMember, Expected
      <3>2. VersionAfter(row) = VersionOf(row) + 1 /\ StatusAfter(row) = req[r].status
        BY <1>2, <2>1, <2>2, Zenon DEF CommitMember, NextVersion, TableTypes, VersionOf, VersionAfter, StatusAfter
      <3>3. log'[row] = Append(log[row], [previous |-> cur[r], current |-> req[r].status])
        BY <1>2, <2>2, Zenon DEF CommitMember, Tell, Previous, TableTypes
      <3>4. req[r].op # "add"
        BY <1>2, Zenon DEF CommitMember
      <3>5. Changed(row, r)
        BY <1>0, <2>2, <3>1, <3>2, <3>3, <3>4, Zenon DEF Changed
      <3> QED BY <2>2, <3>1, <3>2, <3>5, Zenon DEF RowStep
    <2>3. CASE row # req[r].row
      BY <1>0, <1>2, <2>1, <2>3, Zenon DEF CommitMember, Tell, TableTypes, RowStep, Same, VersionOf, StatusOf, VersionAfter, StatusAfter, Rows
    <2> QED BY <2>2, <2>3, Zenon
  <1>3. CASE CommitAdd(r)
    <2>1. req[r].row \in Members /\ req[r].row \notin Tenants /\ req[r].version = 0
      BY <1>0, <1>3, RequestFields, RowKinds, Zenon DEF CommitAdd
    <2>2. CASE row = req[r].row
      <3>1. VersionOf(row) = 0
        BY <1>3, <2>2, Zenon DEF CommitAdd, Fresh
      <3>2. VersionAfter(row) = 1 /\ StatusAfter(row) = "active"
        BY <1>3, <2>1, <2>2, Zenon DEF CommitAdd, AddedStatus, TableTypes, VersionAfter, StatusAfter
      <3>3. log'[row] = Append(log[row], [previous |-> "none", current |-> "active"])
        BY <1>3, <2>2, Zenon DEF CommitAdd, Tell, AddedStatus, TableTypes
      <3>4. Begun(row)
        BY <3>1, <3>2, <3>3, Zenon DEF Begun
      <3>5. VersionAfter(row) = VersionOf(row) + 1
        BY <3>1, <3>2
      <3> QED BY <2>1, <2>2, <3>1, <3>4, <3>5, Zenon DEF RowStep
    <2>3. CASE row # req[r].row
      BY <1>0, <1>3, <2>1, <2>3, Zenon DEF CommitAdd, Tell, TableTypes, RowStep, Same, VersionOf, StatusOf, VersionAfter, StatusAfter, Rows
    <2> QED BY <2>2, <2>3, Zenon
  <1> QED BY <1>1, <1>2, <1>3, Zenon

LEMMA TableKept ==
  ASSUME UNCHANGED table, NEW row \in Rows
  PROVE  Same(row) /\ RowStep(row)
  BY Zenon DEF table, RowStep, Same, VersionOf, StatusOf, VersionAfter, StatusAfter

LEMMA RowSteps ==
  ASSUME Sound, [Next]_vars, NEW row \in Rows
  PROVE  RowStep(row)
  <1>1. CASE UNCHANGED vars \/ \E n \in Units : ToggleUnit(n)
    BY <1>1, TableKept, Zenon DEF vars, ToggleUnit
  <1>2. ASSUME NEW r \in Requests, Serve(r) PROVE RowStep(row)
    <2>1. CASE CommitTenant(r) \/ CommitMember(r) \/ CommitAdd(r)
      BY <2>1, RowsCommit, Zenon
    <2>2. CASE ~(CommitTenant(r) \/ CommitMember(r) \/ CommitAdd(r))
      BY <1>2, <2>2, TableKept, Zenon DEF Serve, UpdateRead, AddStart, ValidateUnit, Fails, End
    <2> QED BY <2>1, <2>2, Zenon
  <1> QED BY <1>1, <1>2, RowsCreate, Zenon DEF Next

(* The version of a row only grows, and its status changes with it.        *)
LEMMA RowGrows ==
  ASSUME Sound, NEW row \in Rows, RowStep(row)
  PROVE  /\ VersionOf(row) \in Nat /\ VersionAfter(row) \in Nat
         /\ \/ VersionAfter(row) = VersionOf(row) /\ StatusAfter(row) = StatusOf(row)
            \/ VersionAfter(row) = VersionOf(row) + 1
  <1>1. VersionOf(row) \in Nat
    BY TenantsAssumption DEF Sound, Basics, TableTypes, VersionOf, Rows
  <1>2. \/ VersionAfter(row) = VersionOf(row) /\ StatusAfter(row) = StatusOf(row)
        \/ VersionOf(row) = 0 /\ VersionAfter(row) = 1
        \/ VersionAfter(row) = VersionOf(row) + 1
    BY Zenon DEF RowStep, Same, Begun, Changed
  <1> QED BY <1>1, <1>2
-----------------------------------------------------------------------------
(* A request that was answered with success changed its row from the       *)
(* version it named.                                                       *)
Won ==
  \A r \in Requests : ans[r] = "ok" => pc[r] = "reply" /\ VersionOf(req[r].row) > req[r].version

Winning == Sound /\ Won /\ OneWinner

(* A request that took no step is where it was.                            *)
LEMMA OthersWait ==
  ASSUME LocalTypes, NEW s \in Requests, Serve(s), NEW r \in Requests \ {s}
  PROVE  pc'[r] = pc[r] /\ req'[r] = req[r] /\ cur'[r] = cur[r] /\ ans'[r] = ans[r]
  BY DEF Serve, UpdateRead, AddStart, ValidateUnit, CommitTenant, CommitMember, CommitAdd, Fails, End, Goto, LocalTypes

(* Only a commit answers with success.                                     *)
LEMMA SuccessIsCommit ==
  ASSUME Basics, NEW s \in Requests, Serve(s), ans'[s] = "ok"
  PROVE  /\ CommitTenant(s) \/ CommitMember(s) \/ CommitAdd(s)
         /\ pc'[s] = "reply" /\ req'[s] = req[s] /\ req[s] \in Request
  BY Zenon DEF Serve, UpdateRead, AddStart, ValidateUnit, CommitTenant, CommitMember, CommitAdd, Fails, End, Goto,
         Basics, LocalTypes, Underway

LEMMA WonKept ==
  ASSUME Winning, [Next]_vars, NEW r \in Requests, ans[r] = "ok", pc'[r] = pc[r], req'[r] = req[r]
  PROVE  pc'[r] = "reply" /\ req[r].row \in Rows /\ VersionAfter(req'[r].row) > req'[r].version
  <1>1. req[r] \in Request /\ pc[r] = "reply" /\ VersionOf(req[r].row) > req[r].version
    BY Zenon DEF Winning, Won, Sound, Basics, Underway
  <1>2. req[r].row \in Rows /\ req[r].version \in Nat
    BY <1>1, RequestFields, TenantsAssumption
  <1>3. RowStep(req[r].row)
    BY <1>2, RowSteps, Zenon DEF Winning
  <1> DEFINE row == req[r].row
  <1>4. VersionOf(row) \in Nat /\ VersionAfter(row) \in Nat /\ VersionAfter(row) >= VersionOf(row)
    <2>1. VersionOf(row) \in Nat /\ (VersionAfter(row) = VersionOf(row) \/ VersionAfter(row) = VersionOf(row) + 1)
      BY <1>2, <1>3, RowGrows, Zenon DEF Winning
    <2> QED BY <2>1
  <1>5. VersionAfter(row) > req[r].version
    BY <1>1, <1>2, <1>4
  <1>6. pc'[r] = "reply" /\ req'[r].row = row /\ req'[r].version = req[r].version
    BY <1>1, Zenon
  <1> QED BY <1>2, <1>5, <1>6, Zenon

LEMMA WinningStep == Winning /\ [Next]_vars => Winning'
  <1> SUFFICES ASSUME Winning, [Next]_vars PROVE Won' /\ OneWinner'
    BY SoundStep, Zenon DEF Winning
  <1>1. CASE UNCHANGED <<pc, req, ans>>
    BY <1>1, WonKept, Zenon DEF Winning, Won, OneWinner, VersionOf, VersionAfter
  <1>2. ASSUME NEW s \in Requests, Serve(s) PROVE Won' /\ OneWinner'
    <2>1. \A r \in Requests \ {s} : pc'[r] = pc[r] /\ req'[r] = req[r] /\ ans'[r] = ans[r]
      BY <1>2, OthersWait, Zenon DEF Winning, Sound, Basics
    <2>2. \A r \in Requests \ {s} : ans'[r] = "ok" => pc'[r] = "reply" /\ VersionAfter(req'[r].row) > req'[r].version
      BY <2>1, WonKept, Zenon
    <2>3. CASE ans'[s] # "ok"
      BY <2>1, <2>2, <2>3 DEF Winning, Won, OneWinner, VersionOf, VersionAfter
    <2>4. CASE ans'[s] = "ok"
      <3> DEFINE row == req[s].row
      <3>1. /\ CommitTenant(s) \/ CommitMember(s) \/ CommitAdd(s)
            /\ pc'[s] = "reply" /\ req'[s] = req[s] /\ req[s] \in Request
        BY <1>2, <2>4, SuccessIsCommit, Zenon DEF Winning, Sound
      <3>2. row \in Rows /\ req[s].version \in Nat
        BY <3>1, RequestFields, TenantsAssumption
      <3>3. VersionOf(row) = req[s].version /\ VersionAfter(row) = VersionOf(row) + 1
        BY <3>1, <3>2, RowsCommit, Zenon DEF Winning
      <3>4. VersionAfter(req'[s].row) > req'[s].version
        BY <3>1, <3>2, <3>3
      <3>5. \A r \in Requests \ {s} : ans'[r] = "ok" /\ req'[r].row = row => req'[r].version # req'[s].version
        <4> SUFFICES ASSUME NEW r \in Requests \ {s}, ans'[r] = "ok", req'[r].row = row
                     PROVE  req'[r].version # req'[s].version
          BY Zenon
        <4>1. VersionOf(row) > req[r].version /\ req[r] \in Request
          BY <2>1, Zenon DEF Winning, Won, Sound, Basics, Underway
        <4>2. req[r].version \in Nat
          BY <4>1, RequestFields, TenantsAssumption
        <4>3. req[r].version # req[s].version
          BY <3>2, <3>3, <4>1, <4>2
        <4>4. req'[r] = req[r] /\ req'[s] = req[s]
          BY <2>1, <3>1, Zenon
        <4> QED BY <4>3, <4>4, Zenon
      <3>6. \A r \in Requests : ans'[r] = "ok" => pc'[r] = "reply" /\ VersionAfter(req'[r].row) > req'[r].version
        BY <2>2, <3>1, <3>4, Zenon
      <3>7. Won'
        BY <3>6, Zenon DEF Won, VersionOf, VersionAfter
      <3>8. OneWinner'
        BY <2>1, <3>1, <3>5 DEF Winning, OneWinner
      <3> QED BY <3>7, <3>8, Zenon
    <2> QED BY <2>3, <2>4, Zenon
  <1> QED BY <1>1, <1>2, Zenon DEF Next, vars, Create, ToggleUnit

(* Of two updates of one row that name one version, at most one succeeds:  *)
(* the compare-and-set of the version decides, however requests, retries   *)
(* and crashes interleave and whatever versions clients send.              *)
THEOREM OneUpdateWins == Spec => []OneWinner
  <1>1. Init => Winning
    BY SoundInit, Zenon DEF Winning, Won, OneWinner, Init
  <1> QED BY <1>1, WinningStep, PTL DEF Spec, Winning
-----------------------------------------------------------------------------
(* What the events l tell of a row with version v and status s.            *)
Tells(row, l, v, s) ==
  /\ \A n \in 2..Len(l) : l[n].previous = l[n - 1].current
  /\ l = <<>> => (v = 0 /\ s = "none") \/ (row \in Members /\ v = 1 /\ s = "active")
  /\ l # <<>> => v > 0 /\ s = l[Len(l)].current /\ l[1].previous \in {"none", "active"}
  /\ Len(l) = v \/ (row \in Members /\ Len(l) = v - 1)

(* An update still to commit read the row at the version it names, or      *)
(* before it: if the row has that version, its status is the one read.     *)
Seen(r, v, s) == req[r].version <= v /\ (req[r].version = v => cur[r] = s)

Telling ==
  /\ Sound
  /\ \A row \in Rows : Tells(row, log[row], VersionOf(row), StatusOf(row))
  /\ \A r \in Requests :
       pc[r] \in {"unit", "commit"} /\ req[r].op # "add" => Seen(r, VersionOf(req[r].row), StatusOf(req[r].row))

(* An event that starts from the status of the row continues its chain.    *)
LEMMA TellsMore ==
  ASSUME NEW row, NEW l \in Seq(Event), NEW v \in Nat, NEW s, Tells(row, l, v, s),
         NEW p \in Statuses, NEW c \in Statuses, p = s, v = 0 => p = "none"
  PROVE  Tells(row, Append(l, [previous |-> p, current |-> c]), v + 1, c)
  <1> DEFINE e == [previous |-> p, current |-> c]
             m == Append(l, e)
  <1>0. e \in Event /\ e.previous = p /\ e.current = c
    BY Zenon DEF Event
  <1>1. m \in Seq(Event) /\ Len(m) = Len(l) + 1 /\ m[Len(m)] = e /\ \A n \in 1..Len(l) : m[n] = l[n]
    BY <1>0, AppendProperties
  <1>2. Len(l) \in Nat /\ (l = <<>> <=> Len(l) = 0)
    BY EmptySeq
  <1>3. m # <<>>
    BY <1>1, <1>2
  <1> HIDE DEF m, e
  <1>4. \A n \in 2..Len(m) : m[n].previous = m[n - 1].current
    <2> SUFFICES ASSUME NEW n \in 2..Len(m) PROVE m[n].previous = m[n - 1].current
      BY Zenon
    <2>1. CASE n = Len(m)
      BY <2>1, <1>0, <1>1, <1>2 DEF Tells
    <2>2. CASE n # Len(m)
      <3>1. n \in 2..Len(l) /\ n \in 1..Len(l) /\ n - 1 \in 1..Len(l)
        BY <2>2, <1>1, <1>2
      <3> QED BY <3>1, <1>1, Zenon DEF Tells
    <2> QED BY <2>1, <2>2, Zenon
  <1>5. m[1].previous \in {"none", "active"}
    <2>1. CASE l = <<>>
      BY <2>1, <1>0, <1>1, <1>2 DEF Tells
    <2>2. CASE l # <<>>
      BY <2>2, <1>1, <1>2 DEF Tells
    <2> QED BY <2>1, <2>2, Zenon
  <1>6. Len(m) = v + 1 \/ (row \in Members /\ Len(m) = (v + 1) - 1)
    BY <1>1, <1>2 DEF Tells
  <1>7. c = m[Len(m)].current
    BY <1>0, <1>1, Zenon
  <1>8. Tells(row, m, v + 1, c)
    BY <1>3, <1>4, <1>5, <1>6, <1>7 DEF Tells
  <1> QED BY <1>8, Zenon DEF m, e

LEMMA TellsStep ==
  ASSUME Telling, NEW row \in Rows, RowStep(row)
  PROVE  Tells(row, log'[row], VersionAfter(row), StatusAfter(row))
  <1> DEFINE v == VersionOf(row)
             s == StatusOf(row)
  <1>0. log[row] \in Seq(Event) /\ v \in Nat /\ Tells(row, log[row], v, s)
    BY TenantsAssumption DEF Telling, Sound, Basics, TableTypes, VersionOf, Rows
  <1>1. v = 0 => log[row] = <<>> /\ s = "none"
    BY <1>0 DEF Tells
  <1> HIDE DEF v, s
  <1>2. CASE Same(row)
    BY <1>0, <1>2, Zenon DEF Same, v, s
  <1>3. CASE Begun(row)
    <2>1. v = 0 /\ VersionAfter(row) = 1 /\ StatusAfter(row) = "active"
      BY <1>3, Zenon DEF Begun, v
    <2>2. CASE log'[row] = Append(log[row], [previous |-> "none", current |-> "active"])
      <3>1. "none" \in Statuses /\ "active" \in Statuses
        BY TenantsAssumption, Zenon DEF Statuses
      <3>2. Tells(row, Append(log[row], [previous |-> "none", current |-> "active"]), v + 1, "active")
        BY <1>0, <1>1, <2>1, <3>1, TellsMore, Zenon
      <3>3. v + 1 = 1
        BY <2>1
      <3> QED BY <2>1, <2>2, <3>2, <3>3, Zenon
    <2>3. CASE row \in Members /\ log'[row] = log[row]
      <3>1. log'[row] = <<>> /\ Len(log'[row]) = 0
        BY <1>1, <2>1, <2>3
      <3> QED BY <2>1, <2>3, <3>1 DEF Tells
    <2> QED BY <1>3, <2>2, <2>3, Zenon DEF Begun
  <1>4. ASSUME NEW r \in Requests, Changed(row, r)
        PROVE  Tells(row, log'[row], VersionAfter(row), StatusAfter(row))
    <2>1. /\ pc[r] = "commit" /\ req[r].op # "add" /\ req[r].row = row /\ req[r].version = v
          /\ VersionAfter(row) = v + 1 /\ StatusAfter(row) = req[r].status
          /\ log'[row] = Append(log[row], [previous |-> cur[r], current |-> req[r].status])
      BY <1>4, Zenon DEF Changed, v
    <2>2. req[r] \in Request /\ cur[r] \in Statuses
      BY <2>1, Zenon DEF Telling, Sound, Basics, Underway, LocalTypes
    <2>3. req[r].status \in Statuses /\ v > 0
      BY <2>1, <2>2, RequestFields, Zenon DEF Statuses
    <2>4. cur[r] = s
      BY <2>1, Zenon DEF Telling, Seen, v, s
    <2>5. v = 0 => cur[r] = "none"
      BY <2>3
    <2>6. Tells(row, Append(log[row], [previous |-> cur[r], current |-> req[r].status]), v + 1, req[r].status)
      BY <1>0, <2>2, <2>3, <2>4, <2>5, TellsMore, Zenon
    <2> QED BY <2>1, <2>6, Zenon
  <1> QED BY <1>2, <1>3, <1>4, Zenon DEF RowStep

(* A row that grows past the version a request names stays seen.           *)
LEMMA SeenKept ==
  ASSUME Telling, [Next]_vars, NEW r \in Requests, pc[r] \in {"unit", "commit"}, req[r].op # "add"
  PROVE  Seen(r, VersionAfter(req[r].row), StatusAfter(req[r].row))
  <1> DEFINE row == req[r].row
  <1>1. req[r] \in Request
    BY Zenon DEF Telling, Sound, Basics, Underway
  <1>2. row \in Rows /\ req[r].version \in Nat
    BY <1>1, RequestFields, TenantsAssumption
  <1>3. /\ VersionOf(row) \in Nat
        /\ \/ VersionAfter(row) = VersionOf(row) /\ StatusAfter(row) = StatusOf(row)
           \/ VersionAfter(row) = VersionOf(row) + 1
    BY <1>2, RowSteps, RowGrows, Zenon DEF Telling
  <1>4. Seen(r, VersionOf(row), StatusOf(row))
    BY Zenon DEF Telling
  <1>5. req[r].version <= VersionOf(row) /\ (req[r].version = VersionOf(row) => cur[r] = StatusOf(row))
    BY <1>4, Zenon DEF Seen
  <1>6. CASE VersionAfter(row) = VersionOf(row) /\ StatusAfter(row) = StatusOf(row)
    BY <1>4, <1>6, Zenon
  <1>7. CASE VersionAfter(row) = VersionOf(row) + 1
    <2>1. req[r].version <= VersionAfter(row) /\ req[r].version # VersionAfter(row)
      BY <1>2, <1>3, <1>5, <1>7
    <2> QED BY <2>1, Zenon DEF Seen
  <1> QED BY <1>3, <1>6, <1>7, Zenon

LEMMA SeenStep ==
  ASSUME OnlyShown, Telling, [Next]_vars, NEW r \in Requests,
         pc'[r] \in {"unit", "commit"}, req'[r].op # "add"
  PROVE  /\ req'[r].version <= VersionAfter(req'[r].row)
         /\ req'[r].version = VersionAfter(req'[r].row) => cur'[r] = StatusAfter(req'[r].row)
  <1>1. CASE pc[r] \in {"unit", "commit"} /\ req'[r] = req[r] /\ cur'[r] = cur[r]
    <2>1. Seen(r, VersionAfter(req[r].row), StatusAfter(req[r].row))
      BY <1>1, SeenKept, Zenon
    <2> QED BY <1>1, <2>1, Zenon DEF Seen
  <1>2. CASE UpdateRead(r)
    <2>1. PICK q \in Request : /\ q.version \in Sendable(q.row) /\ req'[r] = q /\ cur'[r] = StatusOf(q.row)
      BY <1>2, Zenon DEF UpdateRead, Telling, Sound, Basics, LocalTypes
    <2>2. q.row \in Rows
      BY RequestFields, Zenon
    <2>3. VersionAfter(q.row) = VersionOf(q.row) /\ StatusAfter(q.row) = StatusOf(q.row)
      BY <1>2, <2>2, TableKept, Zenon DEF UpdateRead, Same
    <2>4. q.version <= VersionOf(q.row)
      BY <2>1, Zenon DEF Sendable
    <2> QED BY <2>1, <2>3, <2>4, Zenon
  <1>3. ASSUME NEW s \in Requests, Serve(s)
        PROVE  (pc[r] \in {"unit", "commit"} /\ req'[r] = req[r] /\ cur'[r] = cur[r]) \/ UpdateRead(r)
    <2>1. CASE r # s
      BY <1>3, <2>1, OthersWait, Zenon DEF Telling, Sound, Basics
    <2>2. CASE r = s
      BY <1>3, <2>2 DEF Serve, AddStart, ValidateUnit, CommitTenant, CommitMember, CommitAdd, Fails, End, Goto,
                        Telling, Sound, Basics, LocalTypes
    <2> QED BY <2>1, <2>2, Zenon
  <1>4. CASE UNCHANGED <<pc, req, cur>>
    BY <1>1, <1>4, Zenon
  <1> QED BY <1>1, <1>2, <1>3, <1>4, Zenon DEF Next, vars, Create, ToggleUnit

LEMMA TellingInit == Init => Telling
  <1> SUFFICES ASSUME Init PROVE Telling
    BY Zenon
  <1>1. \A r \in Requests : pc[r] = "idle"
    BY Zenon DEF Init
  <1>2. ASSUME NEW row \in Rows PROVE Tells(row, log[row], VersionOf(row), StatusOf(row))
    <2>1. log[row] = <<>> /\ Len(log[row]) = 0
      BY Zenon DEF Init
    <2>2. VersionOf(row) = 0 /\ StatusOf(row) = "none"
      BY Zenon DEF Init, VersionOf, StatusOf, NoTenantRow, NoMemberRow, Rows
    <2> QED BY <2>1, <2>2 DEF Tells
  <1> QED BY <1>1, <1>2, SoundInit, Zenon DEF Telling

LEMMA TellingStep ==
  ASSUME OnlyShown, Telling, [Next]_vars
  PROVE  Telling'
  <1>1. Sound'
    BY SoundStep, Zenon DEF Telling
  <1>2. ASSUME NEW row \in Rows PROVE Tells(row, log'[row], VersionAfter(row), StatusAfter(row))
    BY RowSteps, TellsStep, Zenon DEF Telling
  <1>3. \A row \in Rows : Tells(row, log[row], VersionOf(row), StatusOf(row))'
    BY <1>2, Zenon DEF Tells, VersionOf, VersionAfter, StatusOf, StatusAfter
  <1>4. \A r \in Requests :
          (pc[r] \in {"unit", "commit"} /\ req[r].op # "add" => Seen(r, VersionOf(req[r].row), StatusOf(req[r].row)))'
    BY SeenStep, Zenon DEF Seen, VersionOf, VersionAfter, StatusOf, StatusAfter
  <1> QED BY <1>1, <1>3, <1>4, Zenon DEF Telling

LEMMA TellingChains == Telling => StatusEventsChain
  <1> SUFFICES ASSUME Telling, NEW row \in Rows,
                      Tells(row, log[row], VersionOf(row), StatusOf(row))
               PROVE  /\ \A n \in 2..Len(log[row]) : log[row][n].previous = log[row][n - 1].current
                      /\ IF log[row] = <<>> THEN StatusOf(row) \in {"none", "active"} ELSE StatusOf(row) = log[row][Len(log[row])].current
                      /\ log[row] # <<>> => log[row][1].previous \in {"none", "active"}
                      /\ Len(log[row]) \in {VersionOf(row), IF row \in Tenants THEN VersionOf(row) ELSE VersionOf(row) - 1}
    BY Zenon DEF Telling, StatusEventsChain
  <1>1. row \in Members => row \notin Tenants
    BY RowKinds, Zenon
  <1> QED BY <1>1, Zenon DEF Tells

(* If clients send only versions some row had, the status events of every  *)
(* row are a chain with one event a version that ends in its status: the   *)
(* early read an event takes its previous status from cannot be stale when *)
(* the version still matches.                                              *)
THEOREM EventsAreChained == OnlyShown => (Spec => []StatusEventsChain)
  <1> SUFFICES ASSUME OnlyShown PROVE Spec => []StatusEventsChain
    BY Zenon
  <1>1. Init => Telling
    BY TellingInit, Zenon
  <1>2. Telling /\ [Next]_vars => Telling'
    BY TellingStep, Zenon
  <1>3. Telling => StatusEventsChain
    BY TellingChains, Zenon
  <1> QED BY <1>1, <1>2, <1>3, PTL DEF Spec
=============================================================================
