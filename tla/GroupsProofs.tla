---------------------------- MODULE GroupsProofs ----------------------------
(* Theorems about Groups, for every value of its constants.                *)
EXTENDS Records, FiniteSetTheorems, TLAPS
-----------------------------------------------------------------------------
(* Groups.  What a request knows once it is past its checks: its kind, the *)
(* tenant of both sides, and, from the read of the row to the commit of an *)
(* add, that the member is out unless the row has moved on.                *)
Entry == [change : {"created", "updated", "member_added", "member_removed"}, group : Grp!Row,
  members : SUBSET Memberships]

Known(r) ==
  /\ groupPc[r] = "update" => groupReq[r] \in Grp!UpdateRequest
  /\ groupPc[r] \in {"membership", "existing", "add"} => groupReq[r] \in Grp!AddRequest
  /\ groupPc[r] \in {"existing", "add"} => TenantOf[groupReq[r].group] = TenantOf[groupReq[r].member]
  /\ groupPc[r] \in {"group", "remove"} => groupReq[r] \in Grp!RemoveRequest /\ joined[Grp!Pair(r)].version > 0
  /\ groupPc[r] = "add" =>
       /\ seen[r].pair.version <= joined[Grp!Pair(r)].version
       /\ seen[r].pair.version = joined[Grp!Pair(r)].version => joined[Grp!Pair(r)].status # "active"

(* What a log tells of the row of a group: its versions, in order.         *)
Updates(s) == {n \in 1..Len(s) : s[n].change \in {"created", "updated"}}
Numbers(s, row) ==
  /\ \A n \in Updates(s) : s[n].group.version \in 1..row.version
  /\ \A v \in 1..row.version : \E n \in Updates(s) : s[n].group.version = v
  /\ \A m, n \in Updates(s) : m < n => s[m].group.version < s[n].group.version
  /\ \A n \in Updates(s) : s[n].group.version = row.version => s[n].group = row

(* What it tells of a member: the turns it was added and removed.          *)
Turns(s, u) == {n \in 1..Len(s) : s[n].members = {u}}
Removals(s, u) == {n \in Turns(s, u) : s[n].change = "member_removed"}
IsLast(s, u, n) == \A m \in Turns(s, u) : m <= n
History(s, u, row) ==
  /\ Cardinality(Turns(s, u)) = row.version
  /\ \A n \in Turns(s, u) : s[n].change \in {"member_added", "member_removed"}
  /\ \A m, n \in Turns(s, u) : m < n /\ s[m].change = "member_added" /\ s[n].change = "member_added"
       => \E k \in Removals(s, u) : m < k /\ k < n
  /\ \A m \in Turns(s, u) : s[m].change = "member_added"
       => (row.status = "active" /\ IsLast(s, u, m)) \/ \E k \in Removals(s, u) : m < k
  /\ row.status = "active" => \E m \in Turns(s, u) : s[m].change = "member_added" /\ IsLast(s, u, m)

GroupInv ==
  /\ Grp!TypeOK /\ Grp!TenantsKeptApart
  /\ \A r \in GroupRequests : Known(r)
  /\ \A g \in GroupIds : Numbers(groupLog[g], group[g])
  /\ \A p \in Grp!Pairs : History(groupLog[p[1]], p[2], joined[p])

(* One more event in a log.                                                *)
LEMMA LogGrows ==
  ASSUME NEW s \in Seq(Entry), NEW e \in Entry
  PROVE  /\ Append(s, e) \in Seq(Entry) /\ Len(s) \in Nat /\ Len(Append(s, e)) = Len(s) + 1
         /\ \A n \in 1..Len(s) : Append(s, e)[n] = s[n]
         /\ Append(s, e)[Len(s) + 1] = e
  OBVIOUS

(* The event of a new version, and any other event.                        *)
LEMMA NumbersGrow ==
  ASSUME NEW s \in Seq(Entry), NEW e \in Entry, NEW row, row.version \in Nat, Numbers(s, row),
         e.change \in {"created", "updated"}, e.group.version = row.version + 1
  PROVE  Numbers(Append(s, e), e.group)
  <1> DEFINE t == Append(s, e)
             last == Len(s) + 1
             v == row.version
  <1>1. Len(s) \in Nat /\ Len(t) = last /\ t[last] = e /\ \A n \in 1..Len(s) : t[n] = s[n]
    BY LogGrows, Zenon
  <1>2. v \in Nat /\ e.group.version = v + 1
    BY Zenon
  <1> HIDE DEF t, v
  <1>3. Updates(t) = Updates(s) \cup {last}
    BY <1>1 DEF Updates
  <1>4. Updates(s) \subseteq 1..Len(s)
    BY Zenon DEF Updates
  <1>5. \A n \in Updates(s) : t[n].group.version \in 1..v /\ t[n] = s[n] /\ n < last /\ n \in Nat
    BY <1>1, <1>4 DEF Numbers, v
  <1>6. t[last].group.version = v + 1 /\ t[last].group = e.group
    BY <1>1, <1>2, Zenon
  <1>7. \A n \in Updates(t) : t[n].group.version \in 1..(v + 1)
    BY <1>2, <1>3, <1>5, <1>6
  <1>8. \A w \in 1..(v + 1) : \E n \in Updates(t) : t[n].group.version = w
    <2> TAKE w \in 1..(v + 1)
    <2>1. CASE w = v + 1
      BY <1>3, <1>6, <2>1, Zenon
    <2>2. CASE w # v + 1
      <3>1. w \in 1..v
        BY <1>2, <2>2
      <3>2. PICK n \in Updates(s) : s[n].group.version = w
        BY <3>1, Zenon DEF Numbers, v
      <3> QED
        BY <1>3, <1>5, <3>2, Zenon
    <2> QED
      BY <2>1, <2>2, Zenon
  <1>9. \A m, n \in Updates(t) : m < n => t[m].group.version < t[n].group.version
    <2> SUFFICES ASSUME NEW m \in Updates(t), NEW n \in Updates(t), m < n
          PROVE t[m].group.version < t[n].group.version
      BY Zenon
    <2>1. m \in Updates(s)
      BY <1>1, <1>3, <1>5
    <2>2. CASE n = last
      <3>1. \A w \in 1..v : w < v + 1
        BY <1>2
      <3>2. t[m].group.version \in 1..v /\ t[n].group.version = v + 1
        BY <1>5, <1>6, <2>1, <2>2, Zenon
      <3> QED
        BY <3>1, <3>2, Zenon
    <2>3. CASE n \in Updates(s)
      BY <1>5, <2>1, <2>3, Zenon DEF Numbers
    <2> QED
      BY <1>3, <2>2, <2>3, Zenon
  <1>10. \A n \in Updates(t) : t[n].group.version = v + 1 => t[n].group = e.group
    <2> SUFFICES ASSUME NEW n \in Updates(t), t[n].group.version = v + 1 PROVE n = last
      BY <1>6, Zenon
    <2>1. ASSUME n \in Updates(s) PROVE FALSE
      <3>1. t[n].group.version \in 1..v
        BY <1>5, <2>1, Zenon
      <3> QED
        BY <1>2, <3>1
    <2> QED
      BY <1>3, <2>1, Zenon
  <1> QED
    BY <1>2, <1>7, <1>8, <1>9, <1>10, Zenon DEF Numbers, t

(* An event about a member leaves the versions of the group alone.         *)
LEMMA NumbersStay ==
  ASSUME NEW s \in Seq(Entry), NEW e \in Entry, NEW row, Numbers(s, row), e.change \notin {"created", "updated"}
  PROVE  Numbers(Append(s, e), row)
  <1> DEFINE t == Append(s, e)
  <1>1. Len(s) \in Nat /\ Len(t) = Len(s) + 1 /\ t[Len(s) + 1] = e /\ \A n \in 1..Len(s) : t[n] = s[n]
    BY LogGrows, Zenon
  <1> HIDE DEF t
  <1>2. Updates(t) = Updates(s) /\ \A n \in Updates(s) : t[n] = s[n]
    BY <1>1 DEF Updates
  <1>3. Numbers(t, row)
    BY <1>2, Zenon DEF Numbers
  <1> QED
    BY <1>3, Zenon DEF t

(* An event about another member, or about none.                           *)
LEMMA HistoryStays ==
  ASSUME NEW s \in Seq(Entry), NEW e \in Entry, NEW u, NEW row, History(s, u, row), e.members # {u}
  PROVE  History(Append(s, e), u, row)
  <1> DEFINE t == Append(s, e)
  <1>1. Len(s) \in Nat /\ Len(t) = Len(s) + 1 /\ t[Len(s) + 1] = e /\ \A n \in 1..Len(s) : t[n] = s[n]
    BY LogGrows, Zenon
  <1> HIDE DEF t
  <1>2. Turns(t, u) = Turns(s, u) /\ \A n \in Turns(s, u) : t[n] = s[n]
    BY <1>1 DEF Turns
  <1>3. Removals(t, u) = Removals(s, u)
    BY <1>2, Zenon DEF Removals
  <1>4. History(t, u, row)
    BY <1>2, <1>3, Zenon DEF History, IsLast
  <1> QED
    BY <1>4, Zenon DEF t

(* An add of a member that is out, or a removal.                           *)
LEMMA HistoryGrows ==
  ASSUME NEW s \in Seq(Entry), NEW e \in Entry, NEW u, NEW row, NEW new, row.version \in Nat, History(s, u, row),
         e.members = {u}, new.version = row.version + 1,
         \/ e.change = "member_added" /\ row.status # "active" /\ new.status = "active"
         \/ e.change = "member_removed" /\ new.status # "active"
  PROVE  History(Append(s, e), u, new)
  <1> DEFINE t == Append(s, e)
             last == Len(s) + 1
  <1>1. Len(s) \in Nat /\ Len(t) = last /\ t[last] = e /\ \A n \in 1..Len(s) : t[n] = s[n]
    BY LogGrows, Zenon
  <1> HIDE DEF t
  <1>2. /\ Turns(t, u) = Turns(s, u) \cup {last} /\ last \notin Turns(s, u)
        /\ \A n \in Turns(s, u) : t[n] = s[n] /\ n \in Nat /\ n < last
    BY <1>1 DEF Turns
  <1>3. Cardinality(Turns(t, u)) = new.version
    <2>1. IsFiniteSet(1..Len(s))
      <3>1. 1 \in Int /\ Len(s) \in Int
        BY <1>1
      <3> QED
        BY <3>1, FS_Interval, Zenon
    <2>a. Turns(s, u) \subseteq 1..Len(s)
      BY Zenon DEF Turns
    <2>2. IsFiniteSet(Turns(s, u))
      BY <2>1, <2>a, FS_Subset, Zenon
    <2>3. Cardinality(Turns(s, u) \cup {last}) = Cardinality(Turns(s, u)) + 1
      BY <1>2, <2>2, FS_AddElement, Zenon
    <2> QED
      BY <1>2, <2>3, Zenon DEF History
  <1>4. \A n \in Turns(t, u) : t[n].change \in {"member_added", "member_removed"}
    BY <1>1, <1>2, Zenon DEF History
  <1>5. Removals(s, u) \subseteq Removals(t, u) /\ IsLast(t, u, last)
    BY <1>1, <1>2 DEF Removals, IsLast
  <1>6. CASE e.change = "member_added" /\ row.status # "active" /\ new.status = "active"
    <2>1. \A m \in Turns(s, u) : s[m].change = "member_added" => \E k \in Removals(s, u) : m < k
      BY <1>6, Zenon DEF History
    <2>2. \A k \in Removals(s, u) : k < last
      BY <1>2, Zenon DEF Removals
    <2>3. \A m, n \in Turns(t, u) : m < n /\ t[m].change = "member_added" /\ t[n].change = "member_added"
            => \E k \in Removals(t, u) : m < k /\ k < n
      <3> SUFFICES ASSUME NEW m \in Turns(t, u), NEW n \in Turns(t, u), m < n,
                          t[m].change = "member_added", t[n].change = "member_added"
                   PROVE  \E k \in Removals(s, u) : m < k /\ k < n
        BY <1>5, Zenon
      <3>1. m \in Turns(s, u) /\ s[m].change = "member_added"
        BY <1>1, <1>2
      <3>2. CASE n = last
        BY <2>1, <2>2, <3>1, <3>2, Zenon
      <3>3. CASE n \in Turns(s, u)
        BY <1>2, <3>1, <3>3, Zenon DEF History
      <3> QED
        BY <1>2, <3>2, <3>3, Zenon
    <2>4. \A m \in Turns(t, u) : t[m].change = "member_added"
            => (new.status = "active" /\ IsLast(t, u, m)) \/ \E k \in Removals(t, u) : m < k
      BY <1>2, <1>5, <1>6, <2>1, Zenon
    <2>5. \E m \in Turns(t, u) : t[m].change = "member_added" /\ IsLast(t, u, m)
      BY <1>1, <1>2, <1>5, <1>6, Zenon
    <2> QED
      BY <1>3, <1>4, <2>3, <2>4, <2>5, Zenon DEF History, t
  <1>7. CASE e.change = "member_removed" /\ new.status # "active"
    <2>1. last \in Removals(t, u)
      BY <1>1, <1>2, <1>7, Zenon DEF Removals
    <2>2. \A m \in Turns(t, u) : t[m].change = "member_added" => m \in Turns(s, u) /\ s[m].change = "member_added"
            /\ m < last
      BY <1>1, <1>2, <1>7, Zenon
    <2>3. \A m, n \in Turns(t, u) : m < n /\ t[m].change = "member_added" /\ t[n].change = "member_added"
            => \E k \in Removals(t, u) : m < k /\ k < n
      BY <1>5, <2>2, Zenon DEF History
    <2>4. \A m \in Turns(t, u) : t[m].change = "member_added"
            => (new.status = "active" /\ IsLast(t, u, m)) \/ \E k \in Removals(t, u) : m < k
      BY <2>1, <2>2, Zenon
    <2> QED
      BY <1>3, <1>4, <1>7, <2>3, <2>4 DEF History, t
  <1> QED
    BY <1>6, <1>7, Zenon

(* The row of a pair stays or gets its next version, so what a request     *)
(* knows of it outlives the steps of the others.                           *)
Ages == \A p \in Grp!Pairs : joined'[p] = joined[p] \/ joined'[p].version = joined[p].version + 1

(* The pair that an add or a removal is about.                             *)
LEMMA PairOfRequest ==
  ASSUME NEW r \in GroupRequests, groupReq[r] \in Grp!AddRequest \cup Grp!RemoveRequest
  PROVE  /\ Grp!Pair(r) \in Grp!Pairs /\ groupReq[r].group \in GroupIds /\ groupReq[r].member \in Memberships
         /\ Grp!Pair(r)[1] = groupReq[r].group /\ Grp!Pair(r)[2] = groupReq[r].member
  BY Zenon DEF Grp!AddRequest, Grp!RemoveRequest, Grp!Pair, Grp!Pairs

(* What TypeOK says of single rows and logs.                               *)
LEMMA RowsOfGroups ==
  ASSUME Grp!GroupsAssumption, Grp!TypeOK
  PROVE  /\ \A p \in Grp!Pairs : joined[p] \in Grp!Row /\ joined[p].version \in Nat
         /\ \A g \in GroupIds : group[g] \in Grp!Row /\ group[g].version \in Nat /\ groupLog[g] \in Seq(Entry)
         /\ \A r \in GroupRequests : seen[r].pair.version \in Nat /\ seen[r].group \in Grp!Row /\ seen[r].pair \in Grp!Row
  <1>1. \A row \in Grp!Row : row.version \in Nat
    BY DEF Grp!Row, Grp!GroupsAssumption
  <1>2. /\ group \in [GroupIds -> Grp!Row] /\ joined \in [Grp!Pairs -> Grp!Row]
        /\ groupLog \in [GroupIds -> Seq(Entry)] /\ seen \in [GroupRequests -> [group : Grp!Row, pair : Grp!Row]]
    BY Zenon DEF Grp!TypeOK, Entry
  <1> QED
    BY <1>1, <1>2, Zenon

(* A request that does not move keeps what it knows.                       *)
LEMMA KnowledgeKeeps ==
  ASSUME Grp!GroupsAssumption, Grp!TypeOK, Ages, NEW r \in GroupRequests, Known(r),
         groupPc'[r] = groupPc[r], groupReq'[r] = groupReq[r], seen'[r] = seen[r]
  PROVE  Known(r)'
  <1> DEFINE p == <<groupReq[r].group, groupReq[r].member>>
  <1>1. CASE groupPc[r] \notin {"membership", "existing", "add", "group", "remove"}
    BY <1>1, Zenon DEF Known
  <1>2. CASE groupPc[r] \in {"membership", "existing", "add", "group", "remove"}
    <2>1. groupReq[r] \in Grp!AddRequest \cup Grp!RemoveRequest
      BY <1>2, Zenon DEF Known
    <2>2. p \in Grp!Pairs
      BY <2>1, PairOfRequest, Zenon DEF Grp!Pair
    <2>3. joined[p].version \in Nat /\ seen[r].pair.version \in Nat
      BY <2>2, RowsOfGroups, Zenon
    <2>4. joined'[p] = joined[p] \/ joined'[p].version = joined[p].version + 1
      BY <2>2, Zenon DEF Ages
    <2>5. Grp!Pair(r) = p /\ Grp!Pair(r)' = p
      BY Zenon DEF Grp!Pair
    <2> HIDE DEF p
    <2>6. joined[p].version > 0 => joined'[p].version > 0
      BY <2>3, <2>4
    <2>7. seen[r].pair.version <= joined[p].version => seen[r].pair.version <= joined'[p].version
      BY <2>3, <2>4
    <2>8. seen[r].pair.version <= joined[p].version /\ seen[r].pair.version = joined'[p].version
            => joined'[p] = joined[p]
      BY <2>3, <2>4
    <2> QED
      BY <2>5, <2>6, <2>7, <2>8, Zenon DEF Known
  <1> QED
    BY <1>1, <1>2, Zenon

(* A step of one request that moves no row.                                *)
LEMMA QuietStep ==
  ASSUME Grp!GroupsAssumption, GroupInv, UNCHANGED <<group, joined, groupLog>>, Grp!TypeOK',
         \A r \in GroupRequests : Known(r)' \/ (groupPc'[r] = groupPc[r] /\ groupReq'[r] = groupReq[r]
           /\ seen'[r] = seen[r])
  PROVE  GroupInv'
  <1>1. Ages
    BY Zenon DEF Ages
  <1>2. \A r \in GroupRequests : Known(r)'
    BY <1>1, KnowledgeKeeps, Zenon DEF GroupInv
  <1>3. Grp!TenantsKeptApart'
    BY Zenon DEF GroupInv, Grp!TenantsKeptApart, Grp!Pairs
  <1> QED
    BY <1>2, <1>3, Zenon DEF GroupInv, Grp!Pairs

(* A step that gives a group its next version and tells it.                *)
LEMMA GroupEventStep ==
  ASSUME Grp!GroupsAssumption, GroupInv, Grp!TypeOK', NEW g \in GroupIds, NEW e \in Entry,
         joined' = joined, group' = [group EXCEPT ![g] = e.group], groupLog' = [groupLog EXCEPT ![g] = Append(@, e)],
         e.change \in {"created", "updated"}, e.members = {}, e.group.version = group[g].version + 1,
         \A r \in GroupRequests : Known(r)' \/ (groupPc'[r] = groupPc[r] /\ groupReq'[r] = groupReq[r]
           /\ seen'[r] = seen[r])
  PROVE  GroupInv'
  <1>1. Ages
    BY Zenon DEF Ages
  <1>2. \A r \in GroupRequests : Known(r)'
    BY <1>1, KnowledgeKeeps, Zenon DEF GroupInv
  <1>3. Grp!TenantsKeptApart'
    BY Zenon DEF GroupInv, Grp!TenantsKeptApart, Grp!Pairs
  <1>4. \A h \in GroupIds : /\ group'[h] = IF h = g THEN e.group ELSE group[h]
                            /\ groupLog'[h] = IF h = g THEN Append(groupLog[g], e) ELSE groupLog[h]
    BY DEF GroupInv, Grp!TypeOK
  <1>5. \A h \in GroupIds : Numbers(groupLog'[h], group'[h])
    <2>1. Numbers(Append(groupLog[g], e), e.group)
      BY RowsOfGroups, NumbersGrow, Zenon DEF GroupInv
    <2> QED
      BY <1>4, <2>1 DEF GroupInv
  <1>6. \A p \in Grp!Pairs : History(groupLog'[p[1]], p[2], joined'[p])
    <2> TAKE p \in Grp!Pairs
    <2>1. p[1] \in GroupIds /\ History(groupLog[p[1]], p[2], joined[p]) /\ groupLog[g] \in Seq(Entry)
      BY RowsOfGroups, Zenon DEF GroupInv, Grp!Pairs
    <2>2. e.members # {p[2]}
      BY Zenon
    <2>3. CASE p[1] = g
      <3>1. History(groupLog[g], p[2], joined[p]) /\ groupLog[g] \in Seq(Entry)
        BY <2>1, <2>3, Zenon
      <3>2. History(Append(groupLog[g], e), p[2], joined[p])
        BY <2>2, <3>1, HistoryStays
      <3>3. groupLog'[p[1]] = Append(groupLog[g], e) /\ joined'[p] = joined[p]
        BY <1>4, <2>3, Zenon
      <3> QED
        BY <3>2, <3>3, Zenon
    <2>4. CASE p[1] # g
      BY <1>4, <2>1, <2>4
    <2> QED
      BY <2>3, <2>4, Zenon
  <1> QED
    BY <1>2, <1>3, <1>5, <1>6 DEF GroupInv, Grp!Pairs

(* A step that adds or removes a member and tells it.                      *)
LEMMA MemberEventStep ==
  ASSUME Grp!GroupsAssumption, GroupInv, Grp!TypeOK', NEW g \in GroupIds, NEW u \in Memberships, NEW e \in Entry,
         NEW new,
         group' = group, joined' = [joined EXCEPT ![<<g, u>>] = new],
           groupLog' = [groupLog EXCEPT ![g] = Append(@, e)],
         e.members = {u}, TenantOf[g] = TenantOf[u], new.version = joined[<<g, u>>].version + 1,
         \/ e.change = "member_added" /\ joined[<<g, u>>].status # "active" /\ new.status = "active"
         \/ e.change = "member_removed" /\ new.status # "active",
         \A r \in GroupRequests : Known(r)' \/ (groupPc'[r] = groupPc[r] /\ groupReq'[r] = groupReq[r]
           /\ seen'[r] = seen[r])
  PROVE  GroupInv'
  <1>1. <<g, u>> \in Grp!Pairs /\ <<g, u>>[1] = g /\ <<g, u>>[2] = u
    BY Zenon DEF Grp!Pairs
  <1>2. /\ \A p \in Grp!Pairs : joined'[p] = IF p = <<g, u>> THEN new ELSE joined[p]
        /\ \A h \in GroupIds : groupLog'[h] = IF h = g THEN Append(groupLog[g], e) ELSE groupLog[h]
    BY DEF GroupInv, Grp!TypeOK
  <1>3. Ages
    BY <1>2 DEF Ages
  <1>4. \A r \in GroupRequests : Known(r)'
    BY <1>3, KnowledgeKeeps, Zenon DEF GroupInv
  <1>5. Grp!TenantsKeptApart'
    <2> SUFFICES ASSUME NEW p \in Grp!Pairs, joined'[p].version > 0 PROVE TenantOf[p[1]] = TenantOf[p[2]]
      BY Zenon DEF Grp!TenantsKeptApart, Grp!Pairs
    <2> QED
      BY <1>1, <1>2 DEF GroupInv, Grp!TenantsKeptApart
  <1>6. \A h \in GroupIds : Numbers(groupLog'[h], group'[h])
    <2>1. e.change \notin {"created", "updated"}
      BY Zenon
    <2>2. Numbers(Append(groupLog[g], e), group[g])
      BY <2>1, RowsOfGroups, NumbersStay DEF GroupInv
    <2> QED
      BY <1>2, <2>2 DEF GroupInv
  <1>7. \A p \in Grp!Pairs : History(groupLog'[p[1]], p[2], joined'[p])
    <2> TAKE p \in Grp!Pairs
    <2>1. p[1] \in GroupIds /\ History(groupLog[p[1]], p[2], joined[p]) /\ groupLog[g] \in Seq(Entry)
            /\ joined[p].version \in Nat
      BY RowsOfGroups, Zenon DEF GroupInv, Grp!Pairs
    <2>2. CASE p = <<g, u>>
      <3>1. History(Append(groupLog[g], e), u, new)
        BY <1>1, <2>1, <2>2, HistoryGrows
      <3> QED
        BY <1>1, <1>2, <2>2, <3>1
    <2>3. CASE p # <<g, u>> /\ p[1] = g
      <3>1. p = <<p[1], p[2]>>
        BY DEF Grp!Pairs
      <3>2. p[2] # u
        BY <2>3, <3>1, Zenon
      <3>3. e.members # {p[2]}
        BY <3>2, Zenon
      <3>4. History(Append(groupLog[g], e), p[2], joined[p])
        BY <2>1, <2>3, <3>3, HistoryStays
      <3> QED
        BY <1>1, <1>2, <2>3, <3>4
    <2>4. CASE p # <<g, u>> /\ p[1] # g
      BY <1>2, <2>1, <2>4
    <2> QED
      BY <2>2, <2>3, <2>4
  <1> QED
    BY <1>4, <1>5, <1>6, <1>7, Zenon DEF GroupInv, Grp!Pairs

(* Every step keeps TypeOK: no version passes its bound.                   *)
LEMMA GroupTypes ==
  ASSUME Grp!GroupsAssumption, Grp!TypeOK, [Grp!Next]_(Grp!vars), \A r \in GroupRequests : Known(r)
  PROVE  Grp!TypeOK'
  <1> DEFINE Places == {"idle", "update", "membership", "existing", "add", "group", "remove", "reply"}
             Inputs == Grp!UpdateRequest \cup Grp!AddRequest \cup Grp!RemoveRequest \cup {Grp!NoRequest}
             Tables == /\ group \in [GroupIds -> Grp!Row] /\ joined \in [Grp!Pairs -> Grp!Row]
                       /\ active \subseteq Memberships /\ groupLog \in [GroupIds -> Seq(Entry)]
             Locals == /\ groupPc \in [GroupRequests -> Places] /\ groupReq \in [GroupRequests -> Inputs]
                       /\ seen \in [GroupRequests -> [group : Grp!Row, pair : Grp!Row]]
                       /\ groupAns \in [GroupRequests -> {"none", "ok", "error"}]
  <1>1. Tables /\ Locals
    BY Zenon DEF Grp!TypeOK, Entry
  <1>2. Tables' /\ Locals' => Grp!TypeOK'
    BY Zenon DEF Grp!TypeOK, Entry, Grp!Pairs, Grp!Row, Grp!UpdateRequest, Grp!AddRequest, Grp!RemoveRequest, Grp!NoRequest
  <1>3. Grp!NoRow \in Grp!Row
    BY DEF Grp!NoRow, Grp!Row, Grp!GroupsAssumption
  <1>4. \A v \in Nat, st \in {"active", "disabled", "removed"} :
          (v < MaxEdits \/ v < MaxJoined) => [status |-> st, version |-> v + 1] \in Grp!Row
    BY DEF Grp!Row, Grp!GroupsAssumption
  <1>5. \A g \in GroupIds, e \in Entry : groupLog' = [groupLog EXCEPT ![g] = Append(@, e)]
          => groupLog' \in [GroupIds -> Seq(Entry)]
    BY <1>1, LogGrows
  <1>6. \A c \in {"created", "updated", "member_added", "member_removed"}, row \in Grp!Row,
          ms \in SUBSET Memberships :
          [change |-> c, group |-> row, members |-> ms] \in Entry
    BY Zenon DEF Entry
  <1> HIDE DEF Places, Inputs, Tables, Locals
  <1>7. \A r \in GroupRequests, place \in Places, a \in {"none", "ok", "error"} :
          Grp!Goto(r, place, a) => groupPc' \in [GroupRequests -> Places]
            /\ groupAns' \in [GroupRequests -> {"none", "ok", "error"}]
    BY <1>1 DEF Grp!Goto, Locals
  <1>8. \A place \in {"idle", "update", "membership", "existing", "add", "group", "remove",
          "reply"} : place \in Places
    BY Zenon DEF Places
  <1>9. ASSUME UNCHANGED Grp!table PROVE Tables'
    BY <1>1, <1>9 DEF Tables, Grp!table, Grp!Pairs
  <1>10. ASSUME NEW g \in GroupIds, Grp!CreateGroup(g) PROVE Tables' /\ Locals'
    <2>1. [status |-> "active", version |-> 1] \in Grp!Row
      BY DEF Grp!Row, Grp!GroupsAssumption
    <2>2. group' = [group EXCEPT ![g] = [status |-> "active", version |-> 1]]
            /\ group'[g] = [status |-> "active", version |-> 1]
      BY <1>1, <1>10, Zenon DEF Grp!CreateGroup, Tables
    <2>3. groupLog' \in [GroupIds -> Seq(Entry)]
      BY <1>5, <1>6, <1>10, <2>1, <2>2, Zenon DEF Grp!CreateGroup, Grp!Tell
    <2> QED
      BY <1>1, <1>10, <2>1, <2>2, <2>3 DEF Grp!CreateGroup, Tables, Locals, Grp!Pairs
  <1>11. ASSUME NEW m \in Memberships, Grp!ToggleMembership(m) PROVE Tables' /\ Locals'
    BY <1>1, <1>11, Zenon DEF Grp!ToggleMembership, Tables, Locals, Grp!Pairs
  <1>12. ASSUME NEW r \in GroupRequests, Grp!Serve(r) PROVE Tables' /\ Locals'
    <2>1. CASE Grp!UpdateRead(r)
      <3>1. PICK q \in Grp!UpdateRequest : /\ groupReq' = [groupReq EXCEPT ![r] = q]
                                           /\ seen' = [seen EXCEPT ![r].group = group[q.group]]
        BY <2>1, Zenon DEF Grp!UpdateRead
      <3>2. group[q.group] \in Grp!Row
        BY RowsOfGroups, Zenon DEF Grp!UpdateRequest
      <3> QED
        BY <1>1, <1>7, <1>8, <1>9, <2>1, <3>1, <3>2 DEF Grp!UpdateRead, Locals, Inputs
    <2>2. CASE Grp!AddReadGroup(r)
      <3>1. PICK q \in Grp!AddRequest : /\ groupReq' = [groupReq EXCEPT ![r] = q]
                                        /\ seen' = [seen EXCEPT ![r].group = group[q.group]]
        BY <2>2, Zenon DEF Grp!AddReadGroup
      <3>2. group[q.group] \in Grp!Row
        BY RowsOfGroups, Zenon DEF Grp!AddRequest
      <3> QED
        BY <1>1, <1>7, <1>8, <1>9, <2>2, <3>1, <3>2 DEF Grp!AddReadGroup, Locals, Inputs
    <2>3. CASE Grp!AddReadMembership(r)
      BY <1>1, <1>7, <1>8, <1>9, <2>3 DEF Grp!AddReadMembership, Locals
    <2>4. CASE Grp!AddReadExisting(r)
      <3>1. joined[Grp!Pair(r)] \in Grp!Row
        BY <2>4, PairOfRequest, RowsOfGroups DEF Grp!AddReadExisting, Known
      <3> QED
        BY <1>1, <1>7, <1>8, <1>9, <2>4, <3>1 DEF Grp!AddReadExisting, Locals
    <2>5. CASE Grp!RemoveReadMember(r)
      <3>1. PICK q \in Grp!RemoveRequest : /\ groupReq' = [groupReq EXCEPT ![r] = q]
                                           /\ seen' = [seen EXCEPT ![r].pair = joined[<<q.group, q.member>>]]
        BY <2>5, Zenon DEF Grp!RemoveReadMember
      <3>2. joined[<<q.group, q.member>>] \in Grp!Row
        BY RowsOfGroups, Zenon DEF Grp!RemoveRequest, Grp!Pairs
      <3> QED
        BY <1>1, <1>7, <1>8, <1>9, <2>5, <3>1, <3>2 DEF Grp!RemoveReadMember, Locals, Inputs
    <2>6. CASE Grp!RemoveReadGroup(r)
      <3>1. group[groupReq[r].group] \in Grp!Row
        BY <2>6, PairOfRequest, RowsOfGroups DEF Grp!RemoveReadGroup, Known
      <3> QED
        BY <1>1, <1>7, <1>8, <1>9, <2>6, <3>1 DEF Grp!RemoveReadGroup, Locals
    <2>7. CASE Grp!Fails(r)
      BY <1>1, <1>7, <1>8, <1>9, <2>7 DEF Grp!Fails, Locals
    <2>8. CASE Grp!End(r)
      BY <1>1, <1>3, <1>8, <1>9, <2>8 DEF Grp!End, Locals, Inputs, Grp!NothingSeen
    <2>9. CASE Grp!CommitUpdate(r)
      <3>1. groupReq[r].group \in GroupIds /\ groupReq[r].status \in {"active", "disabled"}
              /\ groupReq[r].version \in Nat
        BY <2>9 DEF Grp!CommitUpdate, Known, Grp!UpdateRequest
      <3>2. [status |-> groupReq[r].status, version |-> groupReq[r].version + 1] \in Grp!Row
        BY <1>4, <2>9, <3>1 DEF Grp!CommitUpdate, Grp!Expected
      <3>3. group' = [group EXCEPT ![groupReq[r].group] = [status |-> groupReq[r].status,
              version |-> groupReq[r].version + 1]]
        BY <2>9, Zenon DEF Grp!CommitUpdate, Grp!Expected, Grp!NextVersion
      <3>4. groupLog' \in [GroupIds -> Seq(Entry)]
        BY <1>5, <1>6, <2>9, <3>1, <3>2 DEF Grp!CommitUpdate, Grp!Tell, Grp!EventVersion
      <3>5. groupPc' \in [GroupRequests -> Places] /\ groupAns' \in [GroupRequests -> {"none", "ok", "error"}]
        BY <1>7, <1>8, <2>9 DEF Grp!CommitUpdate
      <3> QED
        BY <1>1, <2>9, <3>1, <3>2, <3>3, <3>4, <3>5 DEF Grp!CommitUpdate, Tables, Locals, Grp!Pairs
    <2>10. CASE Grp!CommitAdd(r)
      <3>1. Grp!Pair(r) \in Grp!Pairs /\ groupReq[r].group \in GroupIds /\ groupReq[r].member \in Memberships
        BY <2>10, PairOfRequest, Zenon DEF Grp!CommitAdd, Known
      <3>2. [status |-> "active", version |-> joined[Grp!Pair(r)].version + 1] \in Grp!Row
              /\ seen[r].group \in Grp!Row
        BY <1>4, <2>10, <3>1, RowsOfGroups DEF Grp!CommitAdd
      <3>3. groupLog' \in [GroupIds -> Seq(Entry)]
        BY <1>5, <1>6, <2>10, <3>1, <3>2 DEF Grp!CommitAdd, Grp!Tell
      <3>4. groupPc' \in [GroupRequests -> Places] /\ groupAns' \in [GroupRequests -> {"none", "ok", "error"}]
        BY <1>7, <1>8, <2>10 DEF Grp!CommitAdd
      <3> QED
        BY <1>1, <2>10, <3>1, <3>2, <3>3, <3>4 DEF Grp!CommitAdd, Grp!NextVersion, Tables, Locals, Grp!Pairs
    <2>11. CASE Grp!CommitRemove(r)
      <3>1. Grp!Pair(r) \in Grp!Pairs /\ groupReq[r].group \in GroupIds /\ groupReq[r].member \in Memberships
        BY <2>11, PairOfRequest, Zenon DEF Grp!CommitRemove, Known
      <3>2. [status |-> "removed", version |-> joined[Grp!Pair(r)].version + 1] \in Grp!Row
              /\ seen[r].group \in Grp!Row
        BY <1>4, <2>11, <3>1, RowsOfGroups DEF Grp!CommitRemove
      <3>3. groupLog' \in [GroupIds -> Seq(Entry)]
        BY <1>5, <1>6, <2>11, <3>1, <3>2 DEF Grp!CommitRemove, Grp!Tell
      <3>4. groupPc' \in [GroupRequests -> Places] /\ groupAns' \in [GroupRequests -> {"none", "ok", "error"}]
        BY <1>7, <1>8, <2>11 DEF Grp!CommitRemove
      <3> QED
        BY <1>1, <2>11, <3>1, <3>2, <3>3, <3>4 DEF Grp!CommitRemove, Grp!NextVersion, Tables, Locals, Grp!Pairs
    <2> QED
      BY <1>12, <2>1, <2>2, <2>3, <2>4, <2>5, <2>6, <2>7, <2>8, <2>9, <2>10, <2>11, Zenon DEF Grp!Serve
  <1>13. ASSUME UNCHANGED Grp!vars PROVE Tables' /\ Locals'
    BY <1>1, <1>9, <1>13 DEF Grp!vars, Grp!table, Locals
  <1> QED
    BY <1>2, <1>10, <1>11, <1>12, <1>13, Zenon DEF Grp!Next

(* Every step keeps GroupInv.                                              *)
LEMMA GroupStep ==
  ASSUME Grp!GroupsAssumption, GroupInv, [Grp!Next]_(Grp!vars)
  PROVE  GroupInv'
  <1>1. Grp!TypeOK'
    BY GroupTypes, Zenon DEF GroupInv
  <1>2. CASE UNCHANGED Grp!vars
    BY <1>1, <1>2, QuietStep DEF Grp!vars, Grp!table
  <1>3. ASSUME NEW g \in GroupIds, Grp!CreateGroup(g) PROVE GroupInv'
    <2> DEFINE e == [change |-> "created", group |-> [status |-> "active", version |-> 1], members |-> {}]
    <2>1. e \in Entry
      BY DEF Entry, Grp!Row, Grp!GroupsAssumption
    <2>2. group' = [group EXCEPT ![g] = e.group] /\ group'[g] = e.group /\ group[g].version = 0
      BY <1>3, Zenon DEF Grp!CreateGroup, GroupInv, Grp!TypeOK
    <2>3. groupLog' = [groupLog EXCEPT ![g] = Append(@, e)] /\ joined' = joined /\ groupPc' = groupPc
            /\ groupReq' = groupReq /\ seen' = seen
      BY <1>3, <2>2, Zenon DEF Grp!CreateGroup, Grp!Tell
    <2>4. e.change \in {"created", "updated"} /\ e.members = {} /\ e.group.version = group[g].version + 1
      BY <2>2
    <2> HIDE DEF e
    <2> QED
      BY <1>1, <2>1, <2>2, <2>3, <2>4, GroupEventStep
  <1>4. ASSUME NEW m \in Memberships, Grp!ToggleMembership(m) PROVE GroupInv'
    BY <1>1, <1>4, QuietStep, Zenon DEF Grp!ToggleMembership
  <1>5. ASSUME NEW r \in GroupRequests, Grp!Serve(r) PROVE GroupInv'
    <2>1. Grp!TypeOK /\ Known(r) /\ groupPc \in [GroupRequests -> {"idle", "update", "membership", "existing", "add",
            "group", "remove", "reply"}]
      BY Zenon DEF GroupInv, Grp!TypeOK
    <2>2. DOMAIN groupReq = GroupRequests /\ DOMAIN seen = GroupRequests /\ DOMAIN groupPc = GroupRequests
      BY Zenon DEF GroupInv, Grp!TypeOK
    <2>3. \A place, a : Grp!Goto(r, place, a) => groupPc'[r] = place /\ \A q \in GroupRequests : q # r
            => groupPc'[q] = groupPc[q]
      BY <2>2, Zenon DEF Grp!Goto
    <2>4. ASSUME UNCHANGED Grp!table, Known(r)',
                 \A q \in GroupRequests : q # r => groupPc'[q] = groupPc[q] /\ groupReq'[q] = groupReq[q]
                   /\ seen'[q] = seen[q]
          PROVE  GroupInv'
      BY <1>1, <2>4, QuietStep DEF Grp!table
    <2>5. CASE Grp!UpdateRead(r)
      <3>1. PICK q \in Grp!UpdateRequest : /\ groupReq' = [groupReq EXCEPT ![r] = q]
                                           /\ seen' = [seen EXCEPT ![r].group = group[q.group]]
        BY <2>5, Zenon DEF Grp!UpdateRead
      <3>2. groupPc'[r] = "update" /\ groupReq'[r] \in Grp!UpdateRequest
        BY <2>2, <2>3, <2>5, <3>1 DEF Grp!UpdateRead
      <3>3. Known(r)'
        BY <3>2, Zenon DEF Known, Grp!UpdateRequest
      <3> QED
        BY <2>2, <2>3, <2>4, <2>5, <3>1, <3>3 DEF Grp!UpdateRead
    <2>6. CASE Grp!AddReadGroup(r)
      <3>1. PICK q \in Grp!AddRequest : /\ groupReq' = [groupReq EXCEPT ![r] = q]
                                        /\ seen' = [seen EXCEPT ![r].group = group[q.group]]
        BY <2>6, Zenon DEF Grp!AddReadGroup
      <3>2. groupPc'[r] = "membership" /\ groupReq'[r] \in Grp!AddRequest
        BY <2>2, <2>3, <2>6, <3>1 DEF Grp!AddReadGroup
      <3>3. Known(r)'
        BY <3>2, Zenon DEF Known, Grp!AddRequest
      <3> QED
        BY <2>2, <2>3, <2>4, <2>6, <3>1, <3>3 DEF Grp!AddReadGroup
    <2>7. CASE Grp!AddReadMembership(r)
      <3>1. groupReq[r] \in Grp!AddRequest /\ groupReq' = groupReq /\ seen' = seen /\ UNCHANGED Grp!table
        BY <2>1, <2>7 DEF Grp!AddReadMembership, Known
      <3>2. groupPc'[r] = "reply" \/ (groupPc'[r] = "existing"
              /\ TenantOf[groupReq[r].group] = TenantOf[groupReq[r].member])
        BY <2>3, <2>7 DEF Grp!AddReadMembership, Grp!Eligible
      <3>3. Known(r)'
        BY <3>1, <3>2, Zenon DEF Known, Grp!AddRequest
      <3> QED
        BY <2>3, <2>4, <2>7, <3>1, <3>3 DEF Grp!AddReadMembership
    <2>8. CASE Grp!AddReadExisting(r)
      <3>1. /\ groupReq[r] \in Grp!AddRequest /\ TenantOf[groupReq[r].group] = TenantOf[groupReq[r].member]
            /\ groupReq' = groupReq /\ UNCHANGED Grp!table /\ seen' = [seen EXCEPT ![r].pair = joined[Grp!Pair(r)]]
        BY <2>1, <2>8 DEF Grp!AddReadExisting, Known
      <3>2. groupPc'[r] = "reply" \/ (groupPc'[r] = "add" /\ joined[Grp!Pair(r)].status # "active")
        BY <2>3, <2>8, Zenon DEF Grp!AddReadExisting
      <3>3. Grp!Pair(r)' = Grp!Pair(r) /\ joined' = joined
        BY <3>1, Zenon DEF Grp!Pair, Grp!table
      <3>4. seen'[r].pair = joined[Grp!Pair(r)]
        BY <3>1 DEF GroupInv, Grp!TypeOK
      <3>5. joined[Grp!Pair(r)].version \in Nat
        BY <2>1, <3>1, PairOfRequest, RowsOfGroups, Zenon
      <3>6. Known(r)'
        BY <3>1, <3>2, <3>3, <3>4, <3>5 DEF Known, Grp!AddRequest
      <3> QED
        BY <2>2, <2>3, <2>4, <2>8, <3>1, <3>6 DEF Grp!AddReadExisting
    <2>9. CASE Grp!RemoveReadMember(r)
      <3>1. PICK q \in Grp!RemoveRequest : /\ groupReq' = [groupReq EXCEPT ![r] = q]
                                           /\ joined[<<q.group, q.member>>].version > 0
                                           /\ seen' = [seen EXCEPT ![r].pair = joined[<<q.group, q.member>>]]
        BY <2>9, Zenon DEF Grp!RemoveReadMember
      <3>2. groupPc'[r] = "group" /\ groupReq'[r] = q /\ joined' = joined
        BY <2>2, <2>3, <2>9, <3>1 DEF Grp!RemoveReadMember, Grp!table
      <3>3. Grp!Pair(r)' = <<q.group, q.member>>
        BY <3>2, Zenon DEF Grp!Pair
      <3>4. Known(r)'
        BY <3>1, <3>2, <3>3 DEF Known, Grp!RemoveRequest
      <3> QED
        BY <2>2, <2>3, <2>4, <2>9, <3>1, <3>4, Zenon DEF Grp!RemoveReadMember
    <2>10. CASE Grp!RemoveReadGroup(r)
      <3>1. /\ groupReq[r] \in Grp!RemoveRequest /\ joined[Grp!Pair(r)].version > 0
            /\ groupReq' = groupReq /\ UNCHANGED Grp!table /\ groupPc'[r] = "remove"
        BY <2>1, <2>3, <2>10 DEF Grp!RemoveReadGroup, Known
      <3>2. Grp!Pair(r)' = Grp!Pair(r) /\ joined' = joined
        BY <3>1, Zenon DEF Grp!Pair, Grp!table
      <3>3. Known(r)'
        BY <3>1, <3>2 DEF Known, Grp!RemoveRequest
      <3> QED
        BY <2>2, <2>3, <2>4, <2>10, <3>1, <3>3 DEF Grp!RemoveReadGroup
    <2>11. CASE Grp!Fails(r)
      <3>1. Known(r)'
        BY <2>3, <2>11 DEF Grp!Fails, Known
      <3> QED
        BY <2>3, <2>4, <2>11, <3>1 DEF Grp!Fails
    <2>12. CASE Grp!End(r)
      <3>1. groupPc'[r] = "idle"
        BY <2>2, <2>12, Zenon DEF Grp!End
      <3>2. Known(r)'
        BY <3>1, Zenon DEF Known
      <3> QED
        BY <2>2, <2>4, <2>12, <3>2, Zenon DEF Grp!End
    <2>13. CASE Grp!CommitUpdate(r)
      <3> DEFINE e == [change |-> "updated", group |-> [status |-> groupReq[r].status,
                   version |-> groupReq[r].version + 1], members |-> {}]
                 g == groupReq[r].group
      <3>1. g \in GroupIds /\ groupReq[r].status \in {"active", "disabled"} /\ groupReq[r].version \in Nat
        BY <2>1, <2>13 DEF Grp!CommitUpdate, Known, Grp!UpdateRequest
      <3>2. group[g].version = groupReq[r].version /\ group[g].version < MaxEdits
        BY <2>13, Zenon DEF Grp!CommitUpdate, Grp!Expected
      <3>3. e \in Entry
        BY <3>1, <3>2 DEF Entry, Grp!Row, Grp!GroupsAssumption
      <3>4. group' = [group EXCEPT ![g] = e.group] /\ groupLog' = [groupLog EXCEPT ![g] = Append(@, e)]
              /\ joined' = joined
        BY <2>13, <3>2 DEF Grp!CommitUpdate, Grp!Tell, Grp!EventVersion, Grp!NextVersion
      <3>5. e.change \in {"created", "updated"} /\ e.members = {} /\ e.group.version = group[g].version + 1
        BY <3>2, Zenon
      <3>6. /\ groupPc'[r] = "reply" /\ groupReq' = groupReq /\ seen' = seen
            /\ \A q \in GroupRequests : q # r => groupPc'[q] = groupPc[q]
        BY <2>3, <2>13, Zenon DEF Grp!CommitUpdate
      <3>7. Known(r)'
        BY <3>6, Zenon DEF Known
      <3> HIDE DEF e, g
      <3> QED
        BY <1>1, <3>1, <3>3, <3>4, <3>5, <3>6, <3>7, GroupEventStep
    <2>14. ASSUME NEW c \in {"member_added", "member_removed"}, NEW st \in {"active", "removed"}, NEW a,
                  groupReq[r] \in Grp!AddRequest \cup Grp!RemoveRequest,
                    TenantOf[groupReq[r].group] = TenantOf[groupReq[r].member],
                  \/ c = "member_added" /\ joined[Grp!Pair(r)].status # "active" /\ st = "active"
                  \/ c = "member_removed" /\ st # "active",
                  joined' = [joined EXCEPT ![Grp!Pair(r)] = [status |-> st, version |-> Grp!NextVersion(@.version)]],
                  Grp!Tell(groupReq[r].group, c, seen[r].group, {groupReq[r].member}), Grp!Goto(r, "reply", a),
                  UNCHANGED <<group, active, groupReq, seen>>
           PROVE  GroupInv'
      <3> DEFINE g == groupReq[r].group
                 u == groupReq[r].member
                 e == [change |-> c, group |-> seen[r].group, members |-> {u}]
                 new == [status |-> st, version |-> joined[<<g, u>>].version + 1]
      <3>1. g \in GroupIds /\ u \in Memberships /\ Grp!Pair(r) = <<g, u>>
        BY <2>14, PairOfRequest, Zenon DEF Grp!Pair
      <3>2. e \in Entry
        BY <2>1, <3>1, RowsOfGroups DEF Entry
      <3>3. joined' = [joined EXCEPT ![<<g, u>>] = new] /\ groupLog' = [groupLog EXCEPT ![g] = Append(@, e)]
              /\ group' = group
        BY <2>14, <3>1 DEF Grp!Tell, Grp!NextVersion
      <3>4. /\ e.members = {u} /\ TenantOf[g] = TenantOf[u] /\ new.version = joined[<<g, u>>].version + 1
            /\ \/ e.change = "member_added" /\ joined[<<g, u>>].status # "active" /\ new.status = "active"
               \/ e.change = "member_removed" /\ new.status # "active"
        BY <2>14, <3>1
      <3>5. groupPc'[r] = "reply" /\ groupReq' = groupReq /\ seen' = seen /\ \A q \in GroupRequests : q # r
              => groupPc'[q] = groupPc[q]
        BY <2>3, <2>14
      <3>6. Known(r)'
        BY <3>5, Zenon DEF Known
      <3>7. \A q \in GroupRequests : Known(q)' \/ (groupPc'[q] = groupPc[q] /\ groupReq'[q] = groupReq[q]
              /\ seen'[q] = seen[q])
        BY <3>5, <3>6
      <3> HIDE DEF e, g, u, new
      <3> QED
        BY <1>1, <3>1, <3>2, <3>3, <3>4, <3>7, MemberEventStep, Zenon
    <2>15. CASE Grp!CommitAdd(r)
      <3>1. /\ groupReq[r] \in Grp!AddRequest /\ TenantOf[groupReq[r].group] = TenantOf[groupReq[r].member]
            /\ joined[Grp!Pair(r)].status # "active"
        BY <2>1, <2>15, Zenon DEF Grp!CommitAdd, Grp!PairUnmoved, Known
      <3> QED
        BY <2>14, <2>15, <3>1 DEF Grp!CommitAdd
    <2>16. CASE Grp!CommitRemove(r)
      <3>1. groupReq[r] \in Grp!RemoveRequest /\ joined[Grp!Pair(r)].version > 0
        BY <2>1, <2>16, Zenon DEF Grp!CommitRemove, Known
      <3>2. TenantOf[groupReq[r].group] = TenantOf[groupReq[r].member]
        BY <3>1, PairOfRequest, Zenon DEF GroupInv, Grp!TenantsKeptApart
      <3> QED
        BY <2>14, <2>16, <3>1, <3>2 DEF Grp!CommitRemove
    <2> QED
      BY <1>5, <2>5, <2>6, <2>7, <2>8, <2>9, <2>10, <2>11, <2>12, <2>13, <2>15, <2>16, Zenon DEF Grp!Serve
  <1> QED
    BY <1>2, <1>3, <1>4, <1>5 DEF Grp!Next

(* GroupInv holds at the start, before any group is there, and always.     *)
LEMMA GroupInvariant == Grp!GroupsAssumption => (Grp!Spec => []GroupInv)
  <1> SUFFICES ASSUME Grp!GroupsAssumption PROVE Grp!Spec => []GroupInv
    BY Zenon
  <1>1. ASSUME Grp!Init PROVE GroupInv
    <2>1. \A g \in GroupIds : groupLog[g] = <<>> /\ group[g] = Grp!NoRow
      BY <1>1, Zenon DEF Grp!Init
    <2>2. \A p \in Grp!Pairs : p[1] \in GroupIds /\ joined[p] = Grp!NoRow
      BY <1>1, Zenon DEF Grp!Init, Grp!Pairs
    <2>3. Grp!NoRow \in Grp!Row /\ Grp!NoRow.version = 0 /\ Grp!NoRow.status = "none" /\ 1..0 = {}
      BY DEF Grp!NoRow, Grp!Row, Grp!GroupsAssumption
    <2>4. Updates(<<>>) = {} /\ \A u : Turns(<<>>, u) = {}
      BY DEF Updates, Turns
    <2>5. Numbers(<<>>, Grp!NoRow)
      BY <2>3, <2>4 DEF Numbers
    <2>6. \A u : History(<<>>, u, Grp!NoRow)
      BY <2>3, <2>4, FS_EmptySet DEF History
    <2>7. Grp!TypeOK
      <3>1. <<>> \in Seq(Entry)
        OBVIOUS
      <3> QED
        BY <1>1, <2>3, <3>1 DEF Grp!Init, Grp!TypeOK, Grp!NothingSeen, Entry
    <2>8. Grp!TenantsKeptApart
      BY <2>2, <2>3 DEF Grp!TenantsKeptApart
    <2>9. \A r \in GroupRequests : Known(r)
      BY <1>1, Zenon DEF Grp!Init, Known
    <2> QED
      BY <2>1, <2>2, <2>5, <2>6, <2>7, <2>8, <2>9 DEF GroupInv
  <1>2. GroupInv /\ [Grp!Next]_(Grp!vars) => GroupInv'
    BY GroupStep, Zenon
  <1> QED
    BY <1>1, <1>2, PTL DEF Grp!Spec

(* TenantsKeptApart: no interleaving of adds, removals and adds again of   *)
(* any number of requests joins a group and a membership of two tenants.   *)
THEOREM GroupsStayInTenant == Grp!Spec => []TenantsKeptApart
<1>1. GroupInv => Grp!TypeOK /\ Grp!TenantsKeptApart
  BY Zenon DEF GroupInv
<1> QED
  BY <1>1, GroupInvariant, RecordsAssumption, PTL DEF TenantsKeptApart

(* Cardinality as Groups sees it is Cardinality.                           *)
LEMMA SameSize ==
  ASSUME NEW S
  PROVE  Grp!Cardinality(S) = Cardinality(S)
  BY Zenon DEF Cardinality, Grp!Cardinality, IsFiniteSet, Grp!IsFiniteSet

(* GroupEventsTellRows: the created and updated events of a group number   *)
(* its versions without a gap and end with its row, and the added and      *)
(* removed events of a member alternate, one per version, and end with its *)
(* status, whatever versions clients send and however requests interleave. *)
THEOREM GroupEventsAreTrue == Grp!Spec => []GroupEventsTellRows
<1> USE RecordsAssumption
<1>1. ASSUME GroupInv PROVE Grp!GroupEventsTellRow
  <2> SUFFICES ASSUME NEW g \in GroupIds
               PROVE  /\ {groupLog[g][n].group.version : n \in Grp!ToldOf(g)} = 1..group[g].version
                      /\ \A m, n \in Grp!ToldOf(g) : m < n
                           => groupLog[g][m].group.version < groupLog[g][n].group.version
                      /\ \A n \in Grp!ToldOf(g) : groupLog[g][n].group.version = group[g].version
                           => groupLog[g][n].group = group[g]
    BY Zenon DEF Grp!GroupEventsTellRow
  <2>1. Grp!ToldOf(g) = Updates(groupLog[g]) /\ Numbers(groupLog[g], group[g])
    BY <1>1, Zenon DEF Grp!ToldOf, Updates, GroupInv
  <2> QED
    BY <2>1 DEF Numbers
<1>2. ASSUME GroupInv PROVE Grp!MemberEventsTellRow
  <2> SUFFICES ASSUME NEW p \in Grp!Pairs
               PROVE  LET change(n) == groupLog[p[1]][n].change
                      IN /\ Grp!Cardinality(Grp!ToldOfPair(p)) = joined[p].version
                         /\ \A m, n \in Grp!ToldOfPair(p) : m < n /\ change(m) = "member_added"
                              /\ change(n) = "member_added"
                              => \E k \in Grp!ToldOfPair(p) : m < k /\ k < n /\ change(k) = "member_removed"
                         /\ \A n \in Grp!ToldOfPair(p) : (\A m \in Grp!ToldOfPair(p) : m <= n)
                              => (joined[p].status = "active" <=> change(n) = "member_added")
    BY Zenon DEF Grp!MemberEventsTellRow
  <2> DEFINE s == groupLog[p[1]]
             u == p[2]
  <2>1. Grp!ToldOfPair(p) = Turns(s, u) /\ History(s, u, joined[p]) /\ Turns(s, u) \subseteq Nat
    BY <1>2 DEF Grp!ToldOfPair, Turns, GroupInv
  <2>2. Grp!Cardinality(Turns(s, u)) = joined[p].version
    BY <2>1, SameSize, Zenon DEF History
  <2>3. \A m, n \in Turns(s, u) : m < n /\ s[m].change = "member_added" /\ s[n].change = "member_added"
          => \E k \in Turns(s, u) : m < k /\ k < n /\ s[k].change = "member_removed"
    BY <2>1, Zenon DEF History, Removals
  <2>4. ASSUME NEW n \in Turns(s, u), \A m \in Turns(s, u) : m <= n
        PROVE  joined[p].status = "active" <=> s[n].change = "member_added"
    <3>1. \A m \in Turns(s, u) : IsLast(s, u, m) => m = n
      BY <2>1, <2>4 DEF IsLast
    <3>2. ASSUME joined[p].status = "active" PROVE s[n].change = "member_added"
      BY <2>1, <3>1, <3>2 DEF History
    <3>3. ASSUME s[n].change = "member_added" PROVE joined[p].status = "active"
      <4>1. ~ \E k \in Removals(s, u) : n < k
        BY <2>1, <2>4 DEF Removals
      <4> QED
        BY <2>1, <3>3, <4>1 DEF History
    <3> QED
      BY <3>2, <3>3, Zenon
  <2> HIDE DEF u
  <2> QED
    BY <2>1, <2>2, <2>3, <2>4
<1>3. GroupInv => Grp!GroupEventsTellRows
  BY <1>1, <1>2, Zenon DEF Grp!GroupEventsTellRows
<1> QED
  BY <1>3, GroupInvariant, PTL DEF GroupEventsTellRows
=============================================================================
