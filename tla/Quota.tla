------------------------------- MODULE Quota -------------------------------
(***************************************************************************)
(* Tenant quotas: SetQuota and ConsumeQuota of                             *)
(* internal/tenant/collaboration_service.go over the table tenant_quotas.  *)
(*                                                                         *)
(* SetQuota reads the row, builds its event from what it read, and commits *)
(* under compare-and-set.  ConsumeQuota takes a Redis lock that may lapse  *)
(* under it, and relies on one guarded UPDATE.  A commit whose             *)
(* acknowledgement is lost, a lock lost before Unlock and a failed read    *)
(* after the commit all answer with an error although the change is made.  *)
(*                                                                         *)
(* An operator D_Variant that stands before D is D with one mistake in it; *)
(* D_Variant in the place of D makes a property of this module fail.       *)
(***************************************************************************)
EXTENDS Integers, Sequences, Authorization, Locker

CONSTANTS
  Names,        \* the quota keys of a tenant
  Limits,       \* the limits clients set
  Amounts,      \* the amounts clients consume
  MaxInt,       \* the largest value of a BIGINT column
  Requests,     \* the requests being served at one time, by all replicas
  Principals,   \* the authenticated callers
  HasLocker,    \* a Redis locker is configured
  MaxVersion    \* bound on the version of a row: at the bound, no more updates

ASSUME QuotaAssumption ==
  /\ MaxInt \in Nat
  /\ Limits \subseteq 0..MaxInt
  /\ Amounts \subseteq 1..MaxInt
  /\ NoHolder \notin Requests
  /\ Principals \subseteq Principal
  /\ HasLocker \in BOOLEAN
  /\ MaxVersion \in Nat \ {0}

VARIABLES
  limit, used, version,   \* the row of each key; version 0 for no row
  log,                    \* the QuotaChanged events in the outbox, in commit order
  lock,                   \* the Redis key tenant:quota:<tenant>:<key>
  pc,                     \* where each request is
  req,                    \* its input
  cur,                    \* the row SetQuota read
  ans,                    \* its answer
  writes                  \* how many changes it has committed

table == <<limit, used, version, log>>
vars == <<table, lock, pc, req, cur, ans, writes>>

Keys == Tenants \X Names
Request == [op : {"set"}, key : Keys, n : Limits, version : 0..MaxVersion]
           \cup [op : {"consume"}, key : Keys, n : Amounts, version : {0}]
NoRequest == [op |-> "none"]
NoRow == [limit |-> 0, used |-> 0, version |-> 0]

Row(k) == [limit |-> limit[k], used |-> used[k], version |-> version[k]]

Init ==
  /\ limit = [k \in Keys |-> 0]
  /\ used = [k \in Keys |-> 0]
  /\ version = [k \in Keys |-> 0]
  /\ log = [k \in Keys |-> <<>>]
  /\ lock = [k \in Keys |-> NoHolder]
  /\ pc = [r \in Requests |-> "idle"]
  /\ req = [r \in Requests |-> NoRequest]
  /\ cur = [r \in Requests |-> NoRow]
  /\ ans = [r \in Requests |-> "none"]
  /\ writes = [r \in Requests |-> 0]

(* The request goes on to the given place with the given answer in hand.   *)
Goto(r, place, answer) ==
  /\ pc' = [pc EXCEPT ![r] = place]
  /\ ans' = [ans EXCEPT ![r] = answer]

(* QuotaChanged: the row as eventQuota copies it, and the amount consumed. *)
Event(row, delta) ==
  [limit |-> row.limit, used |-> row.used, version |-> row.version, delta |-> delta]

(* The transaction: the new limit and usage of the row, and its event.     *)
Store(r, k, l, u, event) ==
  /\ limit' = [limit EXCEPT ![k] = l]
  /\ used' = [used EXCEPT ![k] = u]
  /\ version' = [version EXCEPT ![k] = version[k] + 1]
  /\ log' = [log EXCEPT ![k] = Append(log[k], event)]
  /\ writes' = [writes EXCEPT ![r] = writes[r] + 1]
-----------------------------------------------------------------------------
(* SetQuota *)

(* The row is read, and refused if its version is not the expected one;    *)
(* version 0 is expected of a row that is not there.                       *)
ReadForSet(r) ==
  /\ pc[r] = "idle"
  /\ \E c \in Principals, k \in Keys, l \in Limits, v \in 0..MaxVersion :
       /\ AuthorizedFor(c, k[1]) /\ v < MaxVersion
       /\ req' = [req EXCEPT ![r] = [op |-> "set", key |-> k, n |-> l, version |-> v]]
       /\ cur' = [cur EXCEPT ![r] = Row(k)]
       /\ IF version[k] = v THEN Goto(r, "set", "none") ELSE Goto(r, "reply", "error")
  /\ UNCHANGED <<table, lock, writes>>

(* The row as the event tells it, made before the transaction from the row *)
(* that was read.                                                          *)
Announced_OldVersion(r) == [limit |-> req[r].n, used |-> cur[r].used, version |-> cur[r].version]
Announced(r) == [limit |-> req[r].n, used |-> cur[r].used, version |-> cur[r].version + 1]

(* CreateQuota meets the primary key, UpdateQuota the version.             *)
RowUnchanged_Exists(r) == (version[req[r].key] = 0) <=> (cur[r].version = 0)
RowUnchanged(r) == version[req[r].key] = cur[r].version

CommitSet(r) ==
  /\ pc[r] = "set"
  /\ RowUnchanged(r)
  /\ version[req[r].key] < MaxVersion
  /\ Store(r, req[r].key, req[r].n, used[req[r].key], Event(Announced(r), 0))
  /\ \E a \in {"ok", "error"} : Goto(r, "reply", a)
  /\ UNCHANGED <<lock, req, cur>>

(* The statement matches no row, or the database fails.                    *)
SetFails_Unnoticed(r) ==
  /\ pc[r] = "set"
  /\ Goto(r, "reply", "ok")
  /\ UNCHANGED <<table, lock, req, cur, writes>>
SetFails(r) ==
  /\ pc[r] = "set"
  /\ Goto(r, "reply", "error")
  /\ UNCHANGED <<table, lock, req, cur, writes>>
-----------------------------------------------------------------------------
(* ConsumeQuota *)

(* withResourceLock: nothing is read before the lock is held.              *)
ConsumeStart(r) ==
  /\ pc[r] = "idle"
  /\ \E c \in Principals, k \in Keys, a \in Amounts :
       /\ AuthorizedFor(c, k[1])
       /\ req' = [req EXCEPT ![r] = [op |-> "consume", key |-> k, n |-> a, version |-> 0]]
       /\ IF HasLocker THEN LockFree(lock, k) /\ lock' = Locked(lock, k, r) ELSE UNCHANGED lock
  /\ Goto(r, "consume", "none")
  /\ UNCHANGED <<table, cur, writes>>

(* used_value + ? <= limit_value, in 64 bits: the sum that does not fit is *)
(* an error of the database, not a comparison.                             *)
Overflows(r) == used[req[r].key] + req[r].n > MaxInt
Fits_OffByOne(r) == version[req[r].key] > 0 /\ used[req[r].key] + req[r].n <= limit[req[r].key] + 1
Fits(r) == version[req[r].key] > 0 /\ used[req[r].key] + req[r].n <= limit[req[r].key]

CommitConsume(r) ==
  /\ pc[r] = "consume"
  /\ ~ Overflows(r) /\ Fits(r)
  /\ LET k == req[r].key
         u == used[k] + req[r].n
     IN /\ version[k] < MaxVersion
        /\ Store(r, k, limit[k], u,
             Event([limit |-> limit[k], used |-> u, version |-> version[k] + 1], req[r].n))
  /\ \E a \in {"ok", "error"} : Goto(r, "unlock", a)
  /\ UNCHANGED <<lock, req, cur>>

(* The statement matches no row: the quota is missing or exhausted.        *)
ConsumeDenied(r) ==
  /\ pc[r] = "consume"
  /\ ~ Overflows(r) /\ ~ Fits(r)
  /\ Goto(r, "unlock", "denied")
  /\ UNCHANGED <<table, lock, req, cur, writes>>

(* A sum that overflows, or another failure: the transaction rolls back.   *)
ConsumeFails(r) ==
  /\ pc[r] = "consume"
  /\ Goto(r, "unlock", "error")
  /\ UNCHANGED <<table, lock, req, cur, writes>>

(* A lock that is no longer owned, or a Redis that does not answer, turns  *)
(* any answer into an error.  The caller that was denied goes on to read   *)
(* the row it is told.                                                     *)
Unlock(r) ==
  /\ pc[r] = "unlock"
  /\ lock' = Unlocked(lock, req[r].key, r)
  /\ IF HasLocker /\ lock[req[r].key] # r
     THEN Goto(r, "reply", "error")
     ELSE Goto(r, IF ans[r] = "denied" THEN "reread" ELSE "reply", ans[r])
  /\ UNCHANGED <<table, req, cur, writes>>

UnlockFails(r) ==
  /\ HasLocker /\ pc[r] = "unlock"
  /\ Goto(r, "reply", "error")
  /\ UNCHANGED <<table, lock, req, cur, writes>>

Reread(r) ==
  /\ pc[r] = "reread"
  /\ Goto(r, "reply", IF version[req[r].key] = 0 THEN "error" ELSE "denied")
  /\ UNCHANGED <<table, lock, req, cur, writes>>
-----------------------------------------------------------------------------
End(r) ==
  /\ pc' = [pc EXCEPT ![r] = "idle"]
  /\ req' = [req EXCEPT ![r] = NoRequest]
  /\ cur' = [cur EXCEPT ![r] = NoRow]
  /\ ans' = [ans EXCEPT ![r] = "none"]
  /\ writes' = [writes EXCEPT ![r] = 0]
  /\ UNCHANGED <<table, lock>>

Reply(r) == pc[r] = "reply" /\ End(r)

(* The replica dies, or the client gives up: nobody gets the answer.       *)
Crash(r) == pc[r] \notin {"idle", "reply"} /\ End(r)

(* The time to live of a lock passes, whoever holds it.                    *)
Expire(k) ==
  /\ ~ LockFree(lock, k)
  /\ lock' = Lapsed(lock, k)
  /\ UNCHANGED <<table, pc, req, cur, ans, writes>>

Serve(r) ==
  \/ CommitSet(r) \/ SetFails(r) \/ CommitConsume(r) \/ ConsumeDenied(r) \/ ConsumeFails(r)
  \/ Unlock(r) \/ UnlockFails(r) \/ Reread(r) \/ Reply(r)

Next ==
  \/ \E r \in Requests : ReadForSet(r) \/ ConsumeStart(r) \/ Serve(r) \/ Crash(r)
  \/ \E k \in Keys : Expire(k)

Spec == Init /\ [][Next]_vars

(* A replica keeps serving the requests it took, and Redis keeps time.     *)
FairSpec ==
  /\ Spec
  /\ \A r \in Requests : WF_vars(Serve(r))
  /\ \A k \in Keys : WF_vars(Expire(k))
-----------------------------------------------------------------------------
(* Every variable stays in its domain.                                     *)
TypeOK ==
  /\ limit \in [Keys -> 0..MaxInt]
  /\ used \in [Keys -> 0..MaxInt]
  /\ version \in [Keys -> 0..MaxVersion]
  /\ log \in [Keys -> Seq([limit : 0..MaxInt, used : 0..MaxInt,
                           version : 1..MaxVersion, delta : 0..MaxInt])]
  /\ lock \in [Keys -> Requests \cup {NoHolder}]
  /\ pc \in [Requests -> {"idle", "set", "consume", "unlock", "reread", "reply"}]
  /\ req \in [Requests -> Request \cup {NoRequest}]
  /\ cur \in [Requests -> [limit : 0..MaxInt, used : 0..MaxInt, version : 0..MaxVersion]]
  /\ ans \in [Requests -> {"none", "ok", "denied", "error"}]
  /\ writes \in [Requests -> 0..1]

Ledger == INSTANCE QuotaLedger

(* The rows and the outbox together are a ledger: the events SetQuota      *)
(* makes from an earlier read, and ConsumeQuota from a read inside its     *)
(* transaction, tell the changes of the row one by one, whether or not the *)
(* lock of ConsumeQuota holds.                                             *)
ImplementsLedger == Ledger!Spec

(* The events number the versions without a gap and end in the row.        *)
LogHasEveryVersion == Ledger!LogHasEveryVersion

(* The deltas add up to the usage, no consumption passes the limit, and no *)
(* usage leaves the range of its column.                                   *)
UsageAddsUp == TypeOK /\ Ledger!UsageAddsUp

(* What the client is told of its own call: "ok" only after exactly one    *)
(* committed change, "denied" only after none.  An error says nothing.     *)
AnswersMatchWrites ==
  \A r \in Requests : pc[r] = "reply" =>
    /\ ans[r] = "ok" => writes[r] = 1
    /\ ans[r] = "denied" => writes[r] = 0

(* A lock of a quota is free again and again, whatever happens to the      *)
(* holders.                                                                *)
LockComesFree == \A k \in Keys : []<>(LockFree(lock, k))
=============================================================================
