---------------------------- MODULE QuotaProofs ----------------------------
(* Theorems about Quota and the ledger it implements and, after them,      *)
(* about the idempotency of Retries, for every value of their constants.   *)
EXTENDS Quota, Retries, SequenceTheorems, TLAPS

RowType == [limit : 0..MaxInt, used : 0..MaxInt, version : 0..MaxVersion]
EventType == [limit : 0..MaxInt, used : 0..MaxInt, version : 1..MaxVersion, delta : 0..MaxInt]

TableTypes ==
  /\ limit \in [Keys -> 0..MaxInt]
  /\ used \in [Keys -> 0..MaxInt]
  /\ version \in [Keys -> 0..MaxVersion]
  /\ log \in [Keys -> Seq(EventType)]
LocalTypes ==
  /\ lock \in [Keys -> Requests \cup {NoHolder}]
  /\ pc \in [Requests -> {"idle", "set", "consume", "unlock", "reread", "reply"}]
  /\ req \in [Requests -> Request \cup {NoRequest}]
  /\ cur \in [Requests -> RowType]
  /\ ans \in [Requests -> {"none", "ok", "denied", "error"}]
  /\ writes \in [Requests -> 0..1]

LEMMA TypeParts == TypeOK <=> TableTypes /\ LocalTypes
BY Zenon DEF TypeOK, TableTypes, LocalTypes, RowType, EventType

(* A request in progress has its input, and has committed nothing before   *)
(* its transaction; from there on its answer tells what it committed.      *)
RequestInv ==
  \A r \in Requests :
    /\ pc[r] = "set" => req[r].key \in Keys /\ req[r].n \in Limits
    /\ pc[r] \in {"consume", "unlock", "reread"} => req[r].key \in Keys /\ req[r].n \in Amounts
    /\ pc[r] \in {"idle", "set", "consume", "reread"} => writes[r] = 0
    /\ pc[r] \in {"unlock", "reply"} => (ans[r] = "ok" => writes[r] = 1) /\ (ans[r] = "denied" => writes[r] = 0)

(* The row SetQuota read is never ahead of the stored one, and shows its   *)
(* usage as long as the versions agree.                                    *)
SnapshotInv ==
  \A r \in Requests : pc[r] = "set" =>
    /\ cur[r].version <= version[req[r].key]
    /\ cur[r].version = version[req[r].key] => cur[r].used = used[req[r].key]

QuotaInv == TableTypes /\ LocalTypes /\ RequestInv /\ SnapshotInv

LEMMA EmptyRow == NoRow \in RowType
BY QuotaAssumption DEF NoRow, RowType

LEMMA QuotaInit == Init => QuotaInv
<1> SUFFICES ASSUME Init PROVE QuotaInv
  BY Zenon
<1>1. TableTypes
  BY QuotaAssumption, EmptySeq DEF Init, TableTypes
<1>2. LocalTypes
  BY EmptyRow DEF Init, LocalTypes
<1> QED
  BY <1>1, <1>2, Zenon DEF Init, QuotaInv, RequestInv, SnapshotInv
-----------------------------------------------------------------------------
(* Only the two transactions write the table.                              *)
LEMMA Writers ==
  ASSUME [Next]_vars
  PROVE  UNCHANGED table \/ \E r \in Requests : CommitSet(r) \/ CommitConsume(r)
BY Zenon DEF Next, Serve, vars, ReadForSet, SetFails, ConsumeStart, ConsumeDenied, ConsumeFails,
       Unlock, UnlockFails, Reread, Reply, Crash, End, Expire

(* The transaction of SetQuota is the SetLimit of the ledger: the usage in *)
(* its event, read before, is the one in the row.                          *)
LEMMA CommitSetIsSetLimit ==
  ASSUME QuotaInv, NEW r \in Requests, CommitSet(r)
  PROVE  /\ req[r].key \in Keys /\ req[r].n \in Limits
         /\ Ledger!SetLimit(req[r].key, req[r].n)
         /\ version[req[r].key] < MaxVersion
<1>1. /\ req[r].key \in Keys /\ req[r].n \in Limits
      /\ cur[r].version = version[req[r].key] /\ cur[r].used = used[req[r].key]
  BY Zenon DEF CommitSet, RowUnchanged, QuotaInv, RequestInv, SnapshotInv
<1> QED
  BY <1>1, Zenon DEF CommitSet, Store, Event, Announced, Ledger!SetLimit, Ledger!Write

(* The transaction of ConsumeQuota is the Consume of the ledger.           *)
LEMMA CommitConsumeIsConsume ==
  ASSUME QuotaInv, NEW r \in Requests, CommitConsume(r)
  PROVE  /\ req[r].key \in Keys /\ req[r].n \in Amounts
         /\ Ledger!Consume(req[r].key, req[r].n)
         /\ version[req[r].key] < MaxVersion
<1>1. req[r].key \in Keys /\ req[r].n \in Amounts
  BY Zenon DEF CommitConsume, QuotaInv, RequestInv
<1> QED
  BY <1>1, Zenon DEF CommitConsume, Fits, Store, Event, Ledger!Consume, Ledger!Write

LEMMA TableStep ==
  ASSUME QuotaInv, [Next]_vars
  PROVE  /\ TableTypes'
         /\ \A k \in Keys : /\ version[k] <= version'[k]
                            /\ version[k] = version'[k] => used'[k] = used[k]
<1>0. /\ limit \in [Keys -> 0..MaxInt] /\ used \in [Keys -> 0..MaxInt]
      /\ version \in [Keys -> 0..MaxVersion] /\ log \in [Keys -> Seq(EventType)]
  BY Zenon DEF QuotaInv, TableTypes
<1>1. ASSUME NEW k \in Keys, NEW l \in 0..MaxInt, NEW u \in 0..MaxInt, NEW d \in 0..MaxInt,
             Ledger!Write(k, l, u, d), version[k] < MaxVersion
      PROVE  /\ TableTypes'
             /\ \A j \in Keys : /\ version[j] <= version'[j]
                                /\ version[j] = version'[j] => used'[j] = used[j]
  <2> DEFINE e == [limit |-> l, used |-> u, version |-> version[k] + 1, delta |-> d]
  <2>1. e \in EventType
    BY <1>0, <1>1, QuotaAssumption DEF EventType
  <2>2. log' = [log EXCEPT ![k] = Append(log[k], e)]
    BY <1>1, Zenon DEF Ledger!Write
  <2> HIDE DEF e
  <2>3. Append(log[k], e) \in Seq(EventType)
    BY <1>0, <2>1, AppendProperties, Zenon
  <2>4. log' \in [Keys -> Seq(EventType)]
    BY <1>0, <2>2, <2>3, Zenon
  <2>5. version' \in [Keys -> 0..MaxVersion]
    BY <1>0, <1>1, QuotaAssumption DEF Ledger!Write
  <2>6. limit' \in [Keys -> 0..MaxInt] /\ used' \in [Keys -> 0..MaxInt]
    BY <1>0, <1>1, Zenon DEF Ledger!Write
  <2>7. \A j \in Keys : /\ version[j] <= version'[j]
                        /\ version[j] = version'[j] => used'[j] = used[j]
    <3>1. /\ version' = [version EXCEPT ![k] = version[k] + 1]
          /\ used' = [used EXCEPT ![k] = u]
      BY <1>1, Zenon DEF Ledger!Write
    <3>2. \A j \in Keys : version[j] \in Nat
      BY <1>0
    <3> QED
      BY <1>0, <3>1, <3>2
  <2> QED
    BY <2>4, <2>5, <2>6, <2>7, Zenon DEF TableTypes
<1>2. ASSUME NEW r \in Requests, CommitSet(r)
      PROVE  /\ TableTypes'
             /\ \A k \in Keys : /\ version[k] <= version'[k]
                                /\ version[k] = version'[k] => used'[k] = used[k]
  <2>1. /\ req[r].key \in Keys /\ req[r].n \in 0..MaxInt /\ version[req[r].key] < MaxVersion
        /\ Ledger!Write(req[r].key, req[r].n, used[req[r].key], 0)
    BY <1>2, CommitSetIsSetLimit, QuotaAssumption, Zenon DEF Ledger!SetLimit
  <2>2. used[req[r].key] \in 0..MaxInt /\ 0 \in 0..MaxInt
    BY <1>0, <2>1, QuotaAssumption
  <2> QED
    BY <1>1, <2>1, <2>2, Zenon
<1>3. ASSUME NEW r \in Requests, CommitConsume(r)
      PROVE  /\ TableTypes'
             /\ \A k \in Keys : /\ version[k] <= version'[k]
                                /\ version[k] = version'[k] => used'[k] = used[k]
  <2> DEFINE k == req[r].key
  <2>1. /\ k \in Keys /\ req[r].n \in 1..MaxInt /\ version[k] < MaxVersion
        /\ Ledger!Write(k, limit[k], used[k] + req[r].n, req[r].n)
    BY <1>3, CommitConsumeIsConsume, QuotaAssumption, Zenon DEF Ledger!Consume
  <2>2. used[k] + req[r].n \in 0..MaxInt
    BY <1>0, <1>3, <2>1, QuotaAssumption DEF CommitConsume, Overflows
  <2>3. limit[k] \in 0..MaxInt /\ req[r].n \in 0..MaxInt
    BY <1>0, <2>1, QuotaAssumption
  <2> QED
    BY <1>1, <2>1, <2>2, <2>3, Zenon
<1>4. CASE UNCHANGED table
  BY <1>0, <1>4, QuotaAssumption DEF table, TableTypes
<1> QED
  BY <1>2, <1>3, <1>4, Writers, Zenon
-----------------------------------------------------------------------------
(* The requests.  A step of one leaves the others alone.                   *)
LEMMA OthersWait ==
  ASSUME LocalTypes, [Next]_vars, NEW s \in Requests
  PROVE  \/ /\ pc'[s] = pc[s] /\ req'[s] = req[s] /\ cur'[s] = cur[s]
            /\ ans'[s] = ans[s] /\ writes'[s] = writes[s]
         \/ ReadForSet(s) \/ ConsumeStart(s) \/ Serve(s) \/ Crash(s)
<1>1. ASSUME NEW r \in Requests \ {s}, ReadForSet(r) \/ ConsumeStart(r) \/ Serve(r) \/ Crash(r)
      PROVE  /\ pc'[s] = pc[s] /\ req'[s] = req[s] /\ cur'[s] = cur[s]
             /\ ans'[s] = ans[s] /\ writes'[s] = writes[s]
  <2>1. CASE ReadForSet(r) \/ ConsumeStart(r)
    BY <2>1 DEF ReadForSet, ConsumeStart, Goto, LocalTypes
  <2>2. CASE CommitSet(r) \/ CommitConsume(r)
    BY <2>2, Zenon DEF CommitSet, CommitConsume, Goto, Store, LocalTypes
  <2>3. CASE SetFails(r) \/ ConsumeDenied(r) \/ ConsumeFails(r) \/ Unlock(r) \/ UnlockFails(r) \/ Reread(r)
    BY <2>3, Zenon DEF SetFails, ConsumeDenied, ConsumeFails, Unlock, UnlockFails, Reread, Goto, LocalTypes
  <2>4. CASE Reply(r) \/ Crash(r)
    BY <2>4 DEF Reply, Crash, End, LocalTypes
  <2> QED
    BY <1>1, <2>1, <2>2, <2>3, <2>4, Zenon DEF Serve
<1>2. ASSUME UNCHANGED vars \/ \E k \in Keys : Expire(k)
      PROVE  /\ pc'[s] = pc[s] /\ req'[s] = req[s] /\ cur'[s] = cur[s]
             /\ ans'[s] = ans[s] /\ writes'[s] = writes[s]
  BY <1>2, Zenon DEF vars, Expire
<1> QED
  BY <1>1, <1>2, Zenon DEF Next

LEMMA LocalStep ==
  ASSUME QuotaInv, [Next]_vars
  PROVE  LocalTypes'
<1> USE DEF QuotaInv
<1>1. ASSUME NEW r \in Requests, ReadForSet(r) PROVE LocalTypes'
  <2>1. PICK k \in Keys, l \in Limits, v \in 0..MaxVersion :
          /\ req' = [req EXCEPT ![r] = [op |-> "set", key |-> k, n |-> l, version |-> v]]
          /\ cur' = [cur EXCEPT ![r] = Row(k)]
          /\ IF version[k] = v THEN Goto(r, "set", "none") ELSE Goto(r, "reply", "error")
    BY <1>1, Zenon DEF ReadForSet
  <2>2. [op |-> "set", key |-> k, n |-> l, version |-> v] \in Request
    BY Zenon DEF Request
  <2>3. Row(k) \in RowType
    BY Zenon DEF Row, RowType, TableTypes
  <2>4. lock' = lock /\ writes' = writes
    BY <1>1, Zenon DEF ReadForSet
  <2> QED
    BY <2>1, <2>2, <2>3, <2>4, Zenon DEF LocalTypes, Goto
<1>2. ASSUME NEW r \in Requests, ConsumeStart(r) PROVE LocalTypes'
  <2>1. PICK k \in Keys, a \in Amounts :
          /\ req' = [req EXCEPT ![r] = [op |-> "consume", key |-> k, n |-> a, version |-> 0]]
          /\ IF HasLocker THEN LockFree(lock, k) /\ lock' = Locked(lock, k, r) ELSE UNCHANGED lock
    BY <1>2, Zenon DEF ConsumeStart
  <2>2. [op |-> "consume", key |-> k, n |-> a, version |-> 0] \in Request
    BY Zenon DEF Request
  <2>3. Goto(r, "consume", "none") /\ cur' = cur /\ writes' = writes
    BY <1>2, Zenon DEF ConsumeStart
  <2> QED
    BY <2>1, <2>2, <2>3, Zenon DEF LocalTypes, Goto, Locked
<1>3. ASSUME NEW r \in Requests, CommitSet(r) \/ CommitConsume(r) PROVE LocalTypes'
  <2>1. writes[r] = 0
    BY <1>3, Zenon DEF CommitSet, CommitConsume, RequestInv
  <2>2. /\ writes' = [writes EXCEPT ![r] = writes[r] + 1]
        /\ \E a \in {"ok", "error"} : Goto(r, "reply", a) \/ Goto(r, "unlock", a)
        /\ UNCHANGED <<lock, req, cur>>
    BY <1>3, Zenon DEF CommitSet, CommitConsume, Store
  <2> QED
    BY <2>1, <2>2 DEF LocalTypes, Goto
<1>4. ASSUME NEW r \in Requests, SetFails(r) \/ ConsumeDenied(r) \/ ConsumeFails(r) \/ UnlockFails(r) \/ Reread(r)
      PROVE  LocalTypes'
  BY <1>4, Zenon DEF SetFails, ConsumeDenied, ConsumeFails, UnlockFails, Reread, Goto, LocalTypes
<1>5. ASSUME NEW r \in Requests, Unlock(r) PROVE LocalTypes'
  BY <1>5, Zenon DEF Unlock, Unlocked, Goto, LocalTypes
<1>6. ASSUME NEW r \in Requests, Reply(r) \/ Crash(r) PROVE LocalTypes'
  BY <1>6, EmptyRow DEF Reply, Crash, End, LocalTypes
<1>7. ASSUME NEW k \in Keys, Expire(k) PROVE LocalTypes'
  BY <1>7, Zenon DEF Expire, Lapsed, LocalTypes
<1>8. CASE UNCHANGED vars
  BY <1>8, Zenon DEF vars, LocalTypes
<1> QED
  BY <1>1, <1>2, <1>3, <1>4, <1>5, <1>6, <1>7, <1>8 DEF Next, Serve

LEMMA RequestStep ==
  ASSUME QuotaInv, [Next]_vars
  PROVE  RequestInv'
<1> USE DEF QuotaInv
<1> SUFFICES ASSUME NEW s \in Requests
    PROVE  /\ pc'[s] = "set" => req'[s].key \in Keys /\ req'[s].n \in Limits
           /\ pc'[s] \in {"consume", "unlock", "reread"} => req'[s].key \in Keys /\ req'[s].n \in Amounts
           /\ pc'[s] \in {"idle", "set", "consume", "reread"} => writes'[s] = 0
           /\ pc'[s] \in {"unlock", "reply"} =>
                (ans'[s] = "ok" => writes'[s] = 1) /\ (ans'[s] = "denied" => writes'[s] = 0)
  BY Zenon DEF RequestInv
<1>1. CASE /\ pc'[s] = pc[s] /\ req'[s] = req[s]
           /\ ans'[s] = ans[s] /\ writes'[s] = writes[s]
  BY <1>1, Zenon DEF RequestInv
<1>2. CASE ReadForSet(s)
  BY <1>2 DEF ReadForSet, Goto, RequestInv, LocalTypes
<1>3. CASE ConsumeStart(s)
  BY <1>3 DEF ConsumeStart, Goto, RequestInv, LocalTypes
<1>4. CASE CommitSet(s) \/ CommitConsume(s)
  <2>1. /\ writes'[s] = 1 /\ req'[s] = req[s] /\ pc'[s] \in {"unlock", "reply"}
        /\ ans'[s] \in {"ok", "error"}
        /\ pc'[s] = "unlock" => pc[s] = "consume"
    <3>1. /\ writes' = [writes EXCEPT ![s] = writes[s] + 1] /\ req' = req
          /\ pc[s] \in {"set", "consume"}
      BY <1>4, Zenon DEF CommitSet, CommitConsume, Store
    <3>2. writes'[s] = 1
      BY <3>1 DEF RequestInv, LocalTypes
    <3>3. /\ pc'[s] \in {"unlock", "reply"} /\ ans'[s] \in {"ok", "error"}
          /\ pc'[s] = "unlock" => pc[s] = "consume"
      BY <1>4, Zenon DEF CommitSet, CommitConsume, Goto, LocalTypes
    <3> QED
      BY <3>1, <3>2, <3>3, Zenon
  <2> QED
    BY <2>1, Zenon DEF RequestInv
<1>5. CASE SetFails(s) \/ ConsumeDenied(s) \/ ConsumeFails(s) \/ UnlockFails(s) \/ Reread(s)
  BY <1>5, Zenon DEF SetFails, ConsumeDenied, ConsumeFails, UnlockFails, Reread, Goto, RequestInv, LocalTypes
<1>6. CASE Unlock(s)
  BY <1>6 DEF Unlock, Goto, RequestInv, LocalTypes
<1>7. CASE Reply(s) \/ Crash(s)
  BY <1>7, Zenon DEF Reply, Crash, End, LocalTypes
<1> QED
  BY <1>1, <1>2, <1>3, <1>4, <1>5, <1>6, <1>7, OthersWait, Zenon DEF Serve

LEMMA SnapshotStep ==
  ASSUME QuotaInv, [Next]_vars
  PROVE  SnapshotInv'
<1> USE DEF QuotaInv
<1> SUFFICES ASSUME NEW s \in Requests, pc'[s] = "set"
             PROVE  /\ cur'[s].version <= version'[req'[s].key]
                    /\ cur'[s].version = version'[req'[s].key] => cur'[s].used = used'[req'[s].key]
  BY Zenon DEF SnapshotInv
<1>1. CASE pc'[s] = pc[s] /\ req'[s] = req[s] /\ cur'[s] = cur[s]
  <2>1. /\ req[s].key \in Keys /\ cur[s].version <= version[req[s].key]
        /\ cur[s].version = version[req[s].key] => cur[s].used = used[req[s].key]
    BY <1>1 DEF RequestInv, SnapshotInv
  <2>2. cur[s].version \in Nat /\ version[req[s].key] \in Nat /\ version'[req[s].key] \in Nat
    <3>1. version' \in [Keys -> 0..MaxVersion]
      BY TableStep, Zenon DEF TableTypes
    <3>2. cur[s].version \in Nat
      BY DEF LocalTypes, RowType
    <3> QED
      BY <2>1, <3>1, <3>2 DEF TableTypes
  <2>3. /\ version[req[s].key] <= version'[req[s].key]
        /\ version[req[s].key] = version'[req[s].key] => used'[req[s].key] = used[req[s].key]
    BY <2>1, TableStep, Zenon
  <2> QED
    BY <1>1, <2>1, <2>2, <2>3
<1>2. CASE ReadForSet(s)
  <2>1. PICK k \in Keys : req'[s].key = k /\ cur'[s] = Row(k)
    BY <1>2 DEF ReadForSet, LocalTypes
  <2>2. version' = version /\ used' = used /\ version[k] \in Nat
    <3>1. UNCHANGED table
      BY <1>2, Zenon DEF ReadForSet
    <3>2. version[k] \in Nat
      BY <2>1 DEF TableTypes
    <3> QED
      BY <3>1, <3>2, Zenon DEF table
  <2> QED
    BY <2>1, <2>2 DEF Row
<1>3. ASSUME \/ ConsumeStart(s) \/ CommitSet(s) \/ CommitConsume(s) \/ SetFails(s) \/ ConsumeDenied(s)
             \/ ConsumeFails(s) \/ UnlockFails(s) \/ Reread(s) \/ Unlock(s) \/ Reply(s) \/ Crash(s)
      PROVE  FALSE
  BY <1>3, Zenon DEF ConsumeStart, CommitSet, CommitConsume, SetFails, ConsumeDenied, ConsumeFails,
              UnlockFails, Reread, Unlock, Reply, Crash, End, Goto, LocalTypes
<1> QED
  BY <1>1, <1>2, <1>3, OthersWait, Zenon DEF Serve

LEMMA QuotaInvariant == Spec => []QuotaInv
<1>1. QuotaInv /\ [Next]_vars => QuotaInv'
  BY TableStep, LocalStep, RequestStep, SnapshotStep, Zenon DEF QuotaInv
<1> QED
  BY <1>1, QuotaInit, PTL DEF Spec
-----------------------------------------------------------------------------
(* TypeOK: no usage leaves the range of its column and no request commits  *)
(* twice.                                                                  *)
THEOREM TypeCorrect == Spec => []TypeOK
<1>1. QuotaInv => TypeOK
  BY TypeParts, Zenon DEF QuotaInv
<1> QED
  BY <1>1, QuotaInvariant, PTL

(* AnswersMatchWrites: SetQuota and ConsumeQuota answer "ok" only after    *)
(* one commit and "denied" only after none, however requests interleave    *)
(* and locks lapse.                                                        *)
THEOREM AnswersAreTrue == Spec => []AnswersMatchWrites
<1>1. QuotaInv => AnswersMatchWrites
  BY Zenon DEF QuotaInv, RequestInv, AnswersMatchWrites
<1> QED
  BY <1>1, QuotaInvariant, PTL

-----------------------------------------------------------------------------
(* One change keeps the ledger in order, if it continues the usage and     *)
(* respects the limit.                                                     *)
LEMMA WriteKeepsLedger ==
  ASSUME Ledger!LedgerInv, NEW k \in Keys, NEW l \in Nat, NEW d \in Nat,
         Ledger!Write(k, l, used[k] + d, d),
         d > 0 => version[k] > 0 /\ l = limit[k] /\ used[k] + d <= l
  PROVE  Ledger!LedgerInv'
<1> DEFINE e == [limit |-> l, used |-> used[k] + d, version |-> version[k] + 1, delta |-> d]
           n == Len(log[k])
<1>1. /\ used[k] \in Nat /\ version[k] \in Nat /\ limit[k] \in Nat /\ log[k] \in Seq(Ledger!Event)
      /\ n = version[k] /\ (n > 0 => log[k][n].limit = limit[k] /\ log[k][n].used = used[k])
      /\ (n = 0 => used[k] = 0)
  BY Zenon DEF Ledger!LedgerInv, Ledger!TypeOK, Ledger!LogHasEveryVersion
<1> HIDE DEF n
<1>a. used[k] + d \in Nat /\ version[k] + 1 \in Nat /\ version[k] + 1 = n + 1
  BY <1>1
<1>b. e.limit = l /\ e.used = used[k] + d /\ e.version = version[k] + 1 /\ e.delta = d
  BY Zenon
<1>c. e \in Ledger!Event
  BY <1>1, <1>a, Zenon DEF Ledger!Event
<1>2. e \in Ledger!Event /\ e.limit = l /\ e.used = used[k] + d /\ e.version = n + 1 /\ e.delta = d
  BY <1>a, <1>b, <1>c, Zenon
<1>3. log'[k] = Append(log[k], e)
  BY Zenon DEF Ledger!Write, Ledger!LedgerInv, Ledger!TypeOK
<1> HIDE DEF e
<1>4. /\ log'[k] \in Seq(Ledger!Event) /\ Len(log'[k]) = n + 1 /\ n \in Nat
      /\ \A i \in 1..n : log'[k][i] = log[k][i]
      /\ log'[k][n + 1] = e
  BY <1>1, <1>2, <1>3, AppendProperties DEF n
<1>5. /\ limit'[k] = l /\ used'[k] = used[k] + d /\ version'[k] = version[k] + 1
      /\ \A j \in Keys \ {k} : /\ limit'[j] = limit[j] /\ used'[j] = used[j]
                               /\ version'[j] = version[j] /\ log'[j] = log[j]
  BY Zenon DEF Ledger!Write, Ledger!LedgerInv, Ledger!TypeOK
<1>6. Ledger!TypeOK'
  <2>1. log' \in [Keys -> Seq(Ledger!Event)]
    BY <1>4, Zenon DEF Ledger!Write, Ledger!LedgerInv, Ledger!TypeOK
  <2> QED
    BY <1>1, <2>1 DEF Ledger!Write, Ledger!LedgerInv, Ledger!TypeOK
<1>7. Ledger!LogHasEveryVersion'
  <2>1. ASSUME NEW j \in Keys \ {k}
        PROVE  /\ Len(log'[j]) = version'[j]
               /\ \A i \in 1..Len(log'[j]) : log'[j][i].version = i
               /\ version'[j] > 0 => /\ log'[j][version'[j]].limit = limit'[j]
                                     /\ log'[j][version'[j]].used = used'[j]
               /\ version'[j] = 0 => used'[j] = 0
    BY <1>5, Zenon DEF Ledger!LedgerInv, Ledger!LogHasEveryVersion
  <2>2. \A i \in 1..n : log[k][i].version = i
    BY Zenon DEF Ledger!LedgerInv, Ledger!LogHasEveryVersion, n
  <2>3. \A i \in 1..(n + 1) : log'[k][i].version = i
    <3> TAKE i \in 1..(n + 1)
    <3>1. CASE i = n + 1
      BY <1>2, <1>4, <3>1, Zenon
    <3>2. CASE i # n + 1
      <4>1. i \in 1..n
        BY <1>4, <3>2
      <4> QED
        BY <1>4, <2>2, <4>1, Zenon
    <3> QED
      BY <3>1, <3>2, Zenon
  <2>4. /\ Len(log'[k]) = version'[k] /\ version'[k] > 0
        /\ log'[k][version'[k]].limit = limit'[k]
        /\ log'[k][version'[k]].used = used'[k]
    BY <1>1, <1>2, <1>4, <1>5
  <2> QED
    BY <1>4, <2>1, <2>3, <2>4 DEF Ledger!LogHasEveryVersion
<1>8. Ledger!UsageAddsUp'
  <2> DEFINE Step(s, i) ==
        IF i = 1 THEN s[i].used = 0 /\ s[i].delta = 0
        ELSE /\ s[i].used = s[i - 1].used + s[i].delta
             /\ s[i].delta > 0 => s[i].limit = s[i - 1].limit /\ s[i].used <= s[i].limit
  <2>1. ASSUME NEW j \in Keys \ {k}, NEW i \in 1..Len(log'[j]) PROVE Step(log'[j], i)
    <3>1. log'[j] = log[j]
      BY <1>5, Zenon
    <3>2. Step(log[j], i)
      BY <3>1, Zenon DEF Ledger!LedgerInv, Ledger!UsageAddsUp
    <3> HIDE DEF Step
    <3> QED
      BY <3>1, <3>2, Zenon
  <2>2. ASSUME NEW i \in 1..n PROVE Step(log'[k], i)
    <3>1. Step(log[k], i)
      BY Zenon DEF Ledger!LedgerInv, Ledger!UsageAddsUp, n
    <3>2. log'[k][i] = log[k][i] /\ (i # 1 => log'[k][i - 1] = log[k][i - 1])
      <4>1. i \in 1..n /\ (i # 1 => i - 1 \in 1..n)
        BY <1>4
      <4>2. \A m \in 1..n : log'[k][m] = log[k][m]
        BY <1>4, Zenon
      <4> QED
        BY <4>1, <4>2, Zenon
    <3> QED
      BY <3>1, <3>2, Zenon
  <2>3. Step(log'[k], n + 1)
    <3>1. CASE n = 0
      <4>1. n + 1 = 1 /\ d = 0 /\ used[k] + d = 0
        BY <1>1, <3>1
      <4> QED
        BY <1>2, <1>4, <4>1, Zenon
    <3>2. CASE n > 0
      <4>1. log'[k][n] = log[k][n] /\ log'[k][n + 1] = e /\ (n + 1) - 1 = n /\ n + 1 # 1
        <5>1. n \in 1..n /\ (n + 1) - 1 = n /\ n + 1 # 1
          BY <1>4, <3>2
        <5> QED
          BY <1>4, <5>1, Zenon
      <4>2. log[k][n].limit = limit[k] /\ log[k][n].used = used[k]
        BY <1>1, <3>2, Zenon
      <4> QED
        BY <1>2, <4>1, <4>2, Zenon
    <3> QED
      BY <1>4, <3>1, <3>2
  <2>4. ASSUME NEW i \in 1..(n + 1) PROVE Step(log'[k], i)
    <3>1. i \in 1..n \/ i = n + 1
      BY <1>4
    <3> QED
      BY <2>2, <2>3, <3>1, Zenon
  <2> HIDE DEF Step
  <2>5. \A j \in Keys : \A i \in 1..Len(log'[j]) : Step(log'[j], i)
    BY <1>4, <2>1, <2>4, Zenon
  <2> QED
    BY <2>5, Zenon DEF Ledger!UsageAddsUp, Step
<1> QED
  BY <1>6, <1>7, <1>8, Zenon DEF Ledger!LedgerInv

(* UsageAddsUp and LogHasEveryVersion hold of every ledger, however many   *)
(* keys, limits and amounts it has.                                        *)
THEOREM LedgerStaysInOrder ==
  Limits \subseteq Nat /\ Amounts \subseteq Nat => (Ledger!Spec => []Ledger!LedgerInv)
<1> SUFFICES ASSUME Limits \subseteq Nat, Amounts \subseteq Nat PROVE Ledger!Spec => []Ledger!LedgerInv
  BY Zenon
<1>1. Ledger!Init => Ledger!LedgerInv
  BY EmptySeq DEF Ledger!Init, Ledger!LedgerInv, Ledger!TypeOK, Ledger!LogHasEveryVersion, Ledger!UsageAddsUp
<1>2. Ledger!LedgerInv /\ [Ledger!Next]_(Ledger!vars) => Ledger!LedgerInv'
  <2> SUFFICES ASSUME Ledger!LedgerInv, [Ledger!Next]_(Ledger!vars) PROVE Ledger!LedgerInv'
    BY Zenon
  <2>1. ASSUME NEW k \in Keys, NEW l \in Limits, Ledger!SetLimit(k, l) PROVE Ledger!LedgerInv'
    <3>1. used[k] + 0 = used[k]
      BY DEF Ledger!LedgerInv, Ledger!TypeOK
    <3>2. Ledger!Write(k, l, used[k] + 0, 0)
      BY <2>1, <3>1, Zenon DEF Ledger!SetLimit
    <3>3. l \in Nat /\ 0 \in Nat /\ ~(0 > 0)
      OBVIOUS
    <3> QED
      BY <3>2, <3>3, WriteKeepsLedger, Zenon
  <2>2. ASSUME NEW k \in Keys, NEW a \in Amounts, Ledger!Consume(k, a) PROVE Ledger!LedgerInv'
    <3>1. limit[k] \in Nat
      BY Zenon DEF Ledger!LedgerInv, Ledger!TypeOK
    <3> QED
      BY <2>2, <3>1, WriteKeepsLedger, Zenon DEF Ledger!Consume
  <2>3. CASE UNCHANGED Ledger!vars
    <3>1. Ledger!TypeOK'
      BY <2>3, Zenon DEF Ledger!vars, Ledger!LedgerInv, Ledger!TypeOK
    <3>2. Ledger!LogHasEveryVersion'
      BY <2>3, Zenon DEF Ledger!vars, Ledger!LedgerInv, Ledger!LogHasEveryVersion
    <3>3. Ledger!UsageAddsUp'
      BY <2>3 DEF Ledger!vars, Ledger!LedgerInv, Ledger!UsageAddsUp
    <3> QED
      BY <3>1, <3>2, <3>3, Zenon DEF Ledger!LedgerInv
  <2> QED
    BY <2>1, <2>2, <2>3, Zenon DEF Ledger!Next
<1> QED
  BY <1>1, <1>2, PTL DEF Ledger!Spec
-----------------------------------------------------------------------------
(* ImplementsLedger: every step of the service on a quota is a step of the *)
(* ledger or leaves the ledger as it is.                                   *)
THEOREM QuotaRefinesLedger == Spec => ImplementsLedger
<1>1. Init => Ledger!Init
  BY Zenon DEF Init, Ledger!Init
<1>2. QuotaInv /\ [Next]_vars => [Ledger!Next]_(Ledger!vars)
  <2> SUFFICES ASSUME QuotaInv, [Next]_vars PROVE [Ledger!Next]_(Ledger!vars)
    BY Zenon
  <2>1. CASE UNCHANGED table
    BY <2>1, Zenon DEF table, Ledger!vars
  <2>2. ASSUME NEW r \in Requests, CommitSet(r) PROVE Ledger!Next
    BY <2>2, CommitSetIsSetLimit, Zenon DEF Ledger!Next
  <2>3. ASSUME NEW r \in Requests, CommitConsume(r) PROVE Ledger!Next
    BY <2>3, CommitConsumeIsConsume, Zenon DEF Ledger!Next
  <2> QED
    BY <2>1, <2>2, <2>3, Writers, Zenon
<1> QED
  BY <1>1, <1>2, QuotaInvariant, PTL DEF Spec, ImplementsLedger, Ledger!Spec

(* UsageAddsUp: the events in the outbox account for all usage, no         *)
(* consumption passes the limit in force, and no usage leaves the range of *)
(* its column.                                                             *)
THEOREM UsageIsAccounted == Spec => []UsageAddsUp
<1>1. Limits \subseteq Nat /\ Amounts \subseteq Nat
  BY QuotaAssumption
<1>2. Ledger!Spec => []Ledger!LedgerInv
  BY <1>1, LedgerStaysInOrder, Zenon
<1>3. Ledger!LedgerInv /\ TypeOK => UsageAddsUp
  BY Zenon DEF Ledger!LedgerInv, UsageAddsUp
<1> QED
  BY <1>2, <1>3, TypeCorrect, QuotaRefinesLedger, PTL DEF ImplementsLedger

(* LogHasEveryVersion: consumers of QuotaChanged see every version once.   *)
THEOREM EveryVersionIsTold == Spec => []LogHasEveryVersion
<1>1. Limits \subseteq Nat /\ Amounts \subseteq Nat
  BY QuotaAssumption
<1>2. Ledger!Spec => []Ledger!LedgerInv
  BY <1>1, LedgerStaysInOrder, Zenon
<1>3. Ledger!LedgerInv => LogHasEveryVersion
  BY Zenon DEF Ledger!LedgerInv, LogHasEveryVersion
<1> QED
  BY <1>2, <1>3, QuotaRefinesLedger, PTL DEF ImplementsLedger
-----------------------------------------------------------------------------
(* Idempotency, for both callers and with or without a unique key in the   *)
(* database.                                                               *)
Outcomes == {"none", "ok", "failed", "refused"}
Kinds == {"none", "ok", "failed", "refused", "unavailable", "processing", "conflict"}
Fingerprints == {"none"} \cup {InputOf[a] : a \in Attempts}
Record == [state : {"none", "processing", "completed", "failed"}, input : Fingerprints,
           owner : Attempts \cup {NoAttempt}, by : Attempts \cup {NoAttempt}]

Types ==
  /\ layer \in {"service", "http"} /\ enabled \in BOOLEAN /\ unique \in BOOLEAN /\ lapsed \subseteq ClientKeys
  /\ record \in [ClientKeys -> Record]
  /\ done \subseteq Attempts
  /\ progress \in [Attempts -> {"new", "run", "store", "reply", "end"}]
  /\ outcome \in [Attempts -> Outcomes]
  /\ heard \in [Attempts -> [kind : Kinds, by : Attempts \cup {NoAttempt}]]

(* Who stores an outcome has a key; who was told ok has committed.         *)
AttemptInv ==
  \A a \in Attempts : (progress[a] = "store" => ~Idem!Unguarded(a)) /\ (outcome[a] = "ok" => a \in done)

(* What a record says in each of its states.                               *)
RecordInv ==
  \A k \in ClientKeys :
    /\ record[k].state = "processing" =>
         record[k].owner \in Attempts /\ KeyOf[record[k].owner] = k /\ InputOf[record[k].owner] = record[k].input
    /\ record[k].state = "completed" =>
         record[k].by \in done /\ KeyOf[record[k].by] = k /\ InputOf[record[k].by] = record[k].input
    /\ record[k].state = "failed" =>
         record[k].by \in Attempts /\ outcome[record[k].by] # "ok" /\ progress[record[k].by] \in {"reply", "end"}

(* Before its key lapses, who works under it or has worked under it owns   *)
(* its record.                                                             *)
Works(a) == progress[a] \in {"run", "store"} \/ a \in done
OwnerInv ==
  enabled => \A a \in Attempts : Works(a) /\ KeyOf[a] \in ClientKeys \ lapsed =>
               record[KeyOf[a]].state # "none" /\ record[KeyOf[a]].owner = a

IInv == Types /\ AttemptInv /\ RecordInv /\ Idem!OutcomeIsOwners /\ Idem!SuccessIsOriginal /\ OwnerInv

(* An attempt that is not unguarded carries a key.                         *)
LEMMA GuardedHasKey ==
  ASSUME NEW a \in Attempts, ~Idem!Unguarded(a)
  PROVE  KeyOf[a] \in ClientKeys
  BY KeysAssumption, Zenon DEF Idem!IdempotencyAssumption, Idem!Unguarded

LEMMA InitHolds == Idem!Init => IInv
  <1> SUFFICES ASSUME Idem!Init PROVE IInv
    BY Zenon
  <1>1. Idem!NoRecord \in Record
    BY Zenon DEF Idem!NoRecord, Record, Fingerprints
  <1>2. Types
    BY <1>1, Zenon DEF Idem!Init, Types, Idem!NoAnswer, Outcomes, Kinds
  <1> QED BY <1>2, Zenon DEF Idem!Init, IInv, AttemptInv, RecordInv, Idem!OutcomeIsOwners, Idem!SuccessIsOriginal,
        OwnerInv, Works, Idem!NoRecord, Idem!NoAnswer
-----------------------------------------------------------------------------
(* A step that leaves the records alone and answers an attempt, or sends   *)
(* it on, without letting it into the operation.                           *)
LEMMA AnswerStep ==
  ASSUME IInv, NEW a \in Attempts, NEW next \in {"store", "reply", "end"}, NEW kind \in Kinds,
         NEW b \in Attempts \cup {NoAttempt},
         Idem!Goto(a, next, [kind |-> kind, by |-> b]), progress[a] # "run" \/ next = "end",
         next = "store" => progress[a] = "store",
         kind = "ok" => b \in done /\ KeyOf[b] = KeyOf[a] /\ InputOf[b] = InputOf[a],
         UNCHANGED <<Idem!setup, record, lapsed, done, outcome>>
  PROVE  IInv'
  <1> USE DEF IInv, Idem!Goto, Idem!setup
  <1>1. Types'
    BY Zenon DEF Types
  <1>2. AttemptInv'
    BY Zenon DEF Types, AttemptInv, Idem!Unguarded
  <1>3. RecordInv'
    BY Zenon DEF Types, RecordInv
  <1>4. Idem!OutcomeIsOwners'
    BY Zenon DEF Idem!OutcomeIsOwners
  <1>5. Idem!SuccessIsOriginal'
    BY Zenon DEF Types, Idem!SuccessIsOriginal
  <1>6. OwnerInv'
    BY DEF Types, OwnerInv, Works
  <1> QED BY <1>1, <1>2, <1>3, <1>4, <1>5, <1>6, Zenon

(* An answer is a kind and an attempt; of ones that were given the         *)
(* invariant says what AnswerStep asks.                                    *)
LEMMA AnswerParts ==
  ASSUME IInv, NEW a \in Attempts
  PROVE  /\ heard[a].kind \in Kinds /\ heard[a].by \in Attempts \cup {NoAttempt}
         /\ heard[a] = [kind |-> heard[a].kind, by |-> heard[a].by]
         /\ heard[a].kind = "ok" => heard[a].by \in done /\ KeyOf[heard[a].by] = KeyOf[a] /\ InputOf[heard[a].by] = InputOf[a]
  BY Zenon DEF IInv, Types, Idem!SuccessIsOriginal

(* Attempts that are refused, replayed, answered or die.                   *)
LEMMA EndStep ==
  ASSUME IInv, NEW a \in Attempts, Idem!Unavailable(a) \/ Idem!Replay(a) \/ Idem!Reply(a) \/ Idem!Crash(a)
  PROVE  IInv'
  <1>1. CASE Idem!Unavailable(a)
    BY <1>1, AnswerStep, Zenon DEF Idem!Unavailable, Idem!Own, Kinds
  <1>2. CASE Idem!Replay(a)
    <2> DEFINE rec == record[KeyOf[a]]
    <2>1. KeyOf[a] \in ClientKeys /\ rec \in Record
      BY <1>2, GuardedHasKey, Zenon DEF Idem!Replay, IInv, Types
    <2>2. CASE Idem!Decision(a) = "completed"
      <3>1. rec.state = "completed" /\ rec.input = InputOf[a]
        BY <2>2, <2>1, Zenon DEF Idem!Decision
      <3>2. rec.by \in done /\ KeyOf[rec.by] = KeyOf[a] /\ InputOf[rec.by] = InputOf[a] /\ rec.by \in Attempts
        BY <3>1, <2>1 DEF IInv, RecordInv, Types
      <3>3. Idem!Goto(a, "end", [kind |-> "ok", by |-> rec.by])
        BY <1>2, <2>2, Zenon DEF Idem!Replay, Idem!Own
      <3> QED BY <1>2, <3>2, <3>3, AnswerStep DEF Idem!Replay, Kinds
    <2>3. CASE Idem!Decision(a) = "failed"
      <3>1. rec.state = "failed"
        BY <2>3, <2>1, Zenon DEF Idem!Decision
      <3>2. rec.by \in Attempts /\ outcome[rec.by] # "ok"
        BY <3>1, <2>1, Zenon DEF IInv, RecordInv
      <3>3. Idem!Goto(a, "end", [kind |-> outcome[rec.by], by |-> rec.by])
        BY <1>2, <2>3, Zenon DEF Idem!Replay, Idem!Own
      <3>4. outcome[rec.by] \in Kinds
        BY <3>2, Zenon DEF IInv, Types, Outcomes, Kinds
      <3> QED BY <1>2, <3>2, <3>3, <3>4, AnswerStep DEF Idem!Replay
    <2>4. CASE Idem!Decision(a) \in {"processing", "conflict"}
      <3>1. Idem!Goto(a, "end", [kind |-> Idem!Decision(a), by |-> a])
        BY <1>2, <2>4, Zenon DEF Idem!Replay, Idem!Own
      <3>2. Idem!Decision(a) \in Kinds /\ Idem!Decision(a) # "ok"
        BY <2>4, Zenon DEF Kinds
      <3> QED BY <1>2, <3>1, <3>2, AnswerStep, Zenon DEF Idem!Replay
    <2> QED BY <1>2, <2>2, <2>3, <2>4, Zenon DEF Idem!Replay
  <1>3. CASE Idem!Reply(a)
    <2>1. outcome[a] \in Kinds /\ (outcome[a] = "ok" => a \in done)
      BY Zenon DEF IInv, Types, AttemptInv, Outcomes, Kinds
    <2>2. CASE progress[a] = "reply" /\ Idem!Goto(a, "end", Idem!Own(a, outcome[a]))
      BY <1>3, <2>1, <2>2, AnswerStep, Zenon DEF Idem!Reply, Idem!Own
    <2>3. CASE progress[a] = "store" /\ Idem!Goto(a, "store", Idem!Own(a, outcome[a]))
      BY <1>3, <2>1, <2>3, AnswerStep, Zenon DEF Idem!Reply, Idem!Own
    <2> QED BY <1>3, <2>2, <2>3, Zenon DEF Idem!Reply
  <1>4. CASE Idem!Crash(a)
    <2>1. Idem!Goto(a, "end", [kind |-> heard[a].kind, by |-> heard[a].by])
      BY <1>4, AnswerParts, Zenon DEF Idem!Crash
    <2> QED BY <1>4, <2>1, AnswerParts, AnswerStep, Zenon DEF Idem!Crash
  <1> QED BY <1>1, <1>2, <1>3, <1>4, Zenon

(* An attempt is let in: without a key, or as the owner of a new record.   *)
(* No attempt that may still act under the key was its owner.              *)
LEMMA StartStep ==
  ASSUME IInv, NEW a \in Attempts, Idem!StartUnguarded(a) \/ Idem!Acquire(a)
  PROVE  IInv'
  <1> USE DEF IInv
  <1>0. /\ progress[a] = "new" /\ progress' = [progress EXCEPT ![a] = "run"] /\ heard' = [heard EXCEPT ![a] = Idem!NoAnswer]
        /\ UNCHANGED <<layer, enabled, unique, lapsed, done, outcome>>
    BY Zenon DEF Idem!StartUnguarded, Idem!Acquire, Idem!Goto, Idem!setup
  <1>a. AttemptInv'
    BY <1>0, Zenon DEF Types, AttemptInv, Idem!Unguarded
  <1>b. Idem!SuccessIsOriginal'
    BY <1>0, Zenon DEF Types, Idem!SuccessIsOriginal, Idem!NoAnswer
  <1>1. CASE Idem!StartUnguarded(a)
    <2>1. record' = record /\ (KeyOf[a] = NoKey \/ ~ enabled)
      BY <1>1, Zenon DEF Idem!StartUnguarded, Idem!Unguarded
    <2>2. Types'
      BY <1>0, <2>1, Zenon DEF Types, Idem!NoAnswer, Kinds
    <2>3. RecordInv'
      BY <1>0, <2>1, Zenon DEF Types, RecordInv
    <2>4. Idem!OutcomeIsOwners'
      BY <1>0, <2>1, Zenon DEF Idem!OutcomeIsOwners
    <2>5. OwnerInv'
      BY <1>0, <2>1, KeysAssumption DEF Idem!IdempotencyAssumption, Types, OwnerInv, Works
    <2> QED BY <1>a, <1>b, <2>2, <2>3, <2>4, <2>5, Zenon
  <1>2. CASE Idem!Acquire(a)
    <2> DEFINE new == [state |-> "processing", input |-> InputOf[a], owner |-> a, by |-> NoAttempt]
    <2>1. KeyOf[a] \in ClientKeys /\ record[KeyOf[a]].state = "none"
      BY <1>2, GuardedHasKey, Zenon DEF Idem!Acquire, Idem!Decision, Types, Record
    <2>2. new \in Record /\ record' = [record EXCEPT ![KeyOf[a]] = new]
      BY <1>2, Zenon DEF Idem!Acquire, Record, Fingerprints
    <2>3. /\ new.state = "processing" /\ new.owner = a /\ new.input = InputOf[a]
          /\ record' \in [ClientKeys -> Record] /\ record'[KeyOf[a]] = new
          /\ \A k \in ClientKeys : k # KeyOf[a] => record'[k] = record[k]
      BY <2>1, <2>2, Zenon DEF Types
    <2> HIDE DEF new
    <2>4. Types'
      BY <1>0, <2>3, Zenon DEF Types, Idem!NoAnswer, Kinds
    <2>5. RecordInv'
      BY <1>0, <2>1, <2>3 DEF Types, RecordInv
    <2>6. Idem!OutcomeIsOwners'
      BY <1>0, <2>1, <2>3 DEF Types, Idem!OutcomeIsOwners
    <2>7. OwnerInv'
      BY <1>0, <2>1, <2>3 DEF Types, OwnerInv, Works
    <2> QED BY <1>a, <1>b, <2>4, <2>5, <2>6, <2>7, Zenon
  <1> QED BY <1>1, <1>2, Zenon

(* The transaction of an attempt that was let in commits or fails.         *)
LEMMA ExecuteStep ==
  ASSUME IInv, NEW a \in Attempts, Idem!Execute(a) \/ Idem!ExecuteFails(a)
  PROVE  IInv'
  <1> USE DEF IInv
  <1>1. PICK o \in Outcomes, next \in {"reply", "store"} :
          /\ progress[a] = "run" /\ next = (IF Idem!Unguarded(a) THEN "reply" ELSE "store")
          /\ outcome' = [outcome EXCEPT ![a] = o] /\ done' \in {done, done \cup {a}}
          /\ o = "ok" => done' = done \cup {a}
          /\ progress' = [progress EXCEPT ![a] = next] /\ heard' = [heard EXCEPT ![a] = Idem!NoAnswer]
          /\ UNCHANGED <<layer, enabled, unique, record, lapsed>>
    <2>1. CASE Idem!Execute(a)
      BY <2>1, Zenon DEF Idem!Execute, Idem!Goto, Idem!setup, Outcomes
    <2>2. CASE Idem!ExecuteFails(a)
      BY <2>2, Zenon DEF Idem!ExecuteFails, Idem!Goto, Idem!setup, Outcomes
    <2> QED BY <2>1, <2>2, Zenon
  <1>2. Types'
    BY <1>1, Zenon DEF Types, Idem!NoAnswer, Kinds
  <1>3. AttemptInv'
    BY <1>1, Zenon DEF Types, AttemptInv, Idem!Unguarded
  <1>4. RecordInv' /\ Idem!OutcomeIsOwners'
    BY <1>1 DEF Types, RecordInv, Idem!OutcomeIsOwners
  <1>5. Idem!SuccessIsOriginal'
    BY <1>1, Zenon DEF Types, Idem!SuccessIsOriginal, Idem!NoAnswer
  <1>6. OwnerInv'
    BY <1>1 DEF Types, OwnerInv, Works
  <1> QED BY <1>2, <1>3, <1>4, <1>5, <1>6, Zenon

(* An outcome is stored by the owner of the record, or not at all.         *)
LEMMA FinishStep ==
  ASSUME IInv, NEW a \in Attempts, Idem!Finish(a)
  PROVE  IInv'
  <1> DEFINE rec == record[KeyOf[a]]
  <1> DEFINE new == [state |-> Idem!StateFor(outcome[a]), input |-> rec.input, owner |-> rec.owner, by |-> a]
  <1>1. Idem!Goto(a, "reply", [kind |-> heard[a].kind, by |-> heard[a].by]) /\ progress[a] = "store"
    BY AnswerParts, Zenon DEF Idem!Finish
  <1>2. CASE UNCHANGED record
    BY <1>1, <1>2, AnswerParts, AnswerStep, Zenon DEF Idem!Finish
  <1>3. CASE /\ Idem!Stores(a)
             /\ record' = [record EXCEPT ![KeyOf[a]] =
                             [state |-> Idem!StateFor(outcome[a]), input |-> @.input, owner |-> @.owner, by |-> a]]
    <2> USE DEF IInv
    <2>1. KeyOf[a] \in ClientKeys
      BY <1>1, GuardedHasKey, Zenon DEF AttemptInv
    <2>2. rec \in Record /\ rec.state = "processing" /\ rec.owner = a /\ rec.input = InputOf[a]
      BY <1>3, <2>1 DEF Types, Idem!Stores, RecordInv
    <2>3. record' = [record EXCEPT ![KeyOf[a]] = new]
      BY <1>3, <2>1, Zenon DEF Types
    <2>4. new \in Record /\ new.state = (IF outcome[a] = "ok" THEN "completed" ELSE "failed")
      BY <2>2, Zenon DEF Record, Idem!StateFor
    <2>5. /\ progress' = [progress EXCEPT ![a] = "reply"] /\ heard' = heard
          /\ UNCHANGED <<layer, enabled, unique, lapsed, done, outcome>>
      BY Zenon DEF Idem!Finish, Idem!Goto, Idem!setup, Types
    <2>6. Types'
      BY <2>3, <2>4, <2>5, Zenon DEF Types
    <2>7. AttemptInv' /\ Idem!SuccessIsOriginal'
      BY <2>5, Zenon DEF Types, AttemptInv, Idem!SuccessIsOriginal, Idem!Unguarded
    <2>8. RecordInv'
      BY <2>1, <2>2, <2>3, <2>4, <2>5 DEF Types, RecordInv, AttemptInv
    <2>9. Idem!OutcomeIsOwners'
      BY <2>1, <2>2, <2>3, Zenon DEF Types, Idem!OutcomeIsOwners
    <2>10. OwnerInv'
      BY <1>1, <2>1, <2>2, <2>3, <2>4, <2>5, Zenon DEF Types, OwnerInv, Works
    <2> QED BY <2>6, <2>7, <2>8, <2>9, <2>10, Zenon
  <1> QED BY <1>2, <1>3, Zenon DEF Idem!Finish

(* A record lapses, and its key with it.                                   *)
LEMMA LapseStep ==
  ASSUME IInv, NEW k \in ClientKeys, Idem!Lapse(k)
  PROVE  IInv'
  <1> USE DEF IInv
  <1>0. /\ record' = [record EXCEPT ![k] = Idem!NoRecord] /\ lapsed' = lapsed \cup {k}
        /\ UNCHANGED <<layer, enabled, unique, done, progress, outcome, heard>>
    BY Zenon DEF Idem!Lapse, Idem!setup
  <1>1. Idem!NoRecord \in Record /\ Idem!NoRecord.state = "none"
    BY Zenon DEF Idem!NoRecord, Record, Fingerprints
  <1>2. Types'
    BY <1>0, <1>1, Zenon DEF Types
  <1>3. AttemptInv'
    BY <1>0, Zenon DEF AttemptInv, Idem!Unguarded
  <1>4. Idem!SuccessIsOriginal'
    BY <1>0, Zenon DEF Idem!SuccessIsOriginal
  <1>5. RecordInv'
    BY <1>0, <1>1 DEF Types, RecordInv
  <1>6. Idem!OutcomeIsOwners'
    BY <1>0, <1>1, Zenon DEF Types, Idem!OutcomeIsOwners
  <1>7. OwnerInv'
    BY <1>0, Zenon DEF Types, OwnerInv, Works
  <1> QED BY <1>2, <1>3, <1>4, <1>5, <1>6, <1>7, Zenon
-----------------------------------------------------------------------------
LEMMA Inductive == Idem!Spec => []IInv
  <1>1. IInv /\ [Idem!Next]_(Idem!vars) => IInv'
    <2> SUFFICES ASSUME IInv, [Idem!Next]_(Idem!vars) PROVE IInv'
      BY Zenon
    <2>1. CASE UNCHANGED Idem!vars
      BY <2>1 DEF Idem!vars, Idem!setup, IInv, Types, AttemptInv, Idem!Unguarded, RecordInv, Idem!OutcomeIsOwners,
         Idem!SuccessIsOriginal,
                  OwnerInv, Works
    <2>2. CASE \E a \in Attempts : Idem!Serve(a) \/ Idem!Crash(a)
      BY <2>2, EndStep, StartStep, ExecuteStep, FinishStep, Zenon DEF Idem!Serve
    <2>3. CASE \E k \in ClientKeys : Idem!Lapse(k)
      BY <2>3, LapseStep, Zenon
    <2> QED BY <2>1, <2>2, <2>3, Zenon DEF Idem!Next, Idem!Terminated
  <1> QED BY InitHolds, <1>1, PTL DEF Idem!Spec

(* The idempotency records and attempts keep their types.                  *)
THEOREM RecordsAreTyped == Idem!Spec => []Idem!TypeOK
  <1>1. IInv => Idem!TypeOK
    BY Zenon DEF IInv, Types, Idem!TypeOK, Record, Outcomes, Kinds
  <1> QED BY <1>1, Inductive, PTL

(* While no record of it lapsed, a key admits one effect, however often    *)
(* the request is delivered and whoever dies.                              *)
THEOREM KeyHasOneEffect == Idem!Spec => []OneEffectPerKey
  <1>1. IInv => OneEffectPerKey
    BY DEF IInv, Types, OwnerInv, Works, OneEffectPerKey, Idem!OneEffectPerKey
  <1> QED BY <1>1, Inductive, PTL

(* A worker whose record lapsed never overwrites that of a newer owner.    *)
THEOREM OutcomesAreOwners == Idem!Spec => []Idem!OutcomeIsOwners
  <1>1. IInv => Idem!OutcomeIsOwners
    BY Zenon DEF IInv
  <1> QED BY <1>1, Inductive, PTL

(* A client that is told of success, at first hand or by a replay, is told *)
(* of a committed attempt with its own key and input.                      *)
THEOREM SuccessIsTrue == Idem!Spec => []SuccessIsOriginal
  <1>1. IInv => SuccessIsOriginal
    BY Zenon DEF IInv, SuccessIsOriginal
  <1> QED BY <1>1, Inductive, PTL
=============================================================================
