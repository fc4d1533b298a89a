----------------------------- MODULE MCProgress -----------------------------
(* What must come about in the end: the delivery of events, the end of     *)
(* outbound calls and of probes, and the release of keys and locks. A      *)
(* behaviour follows one part, under the fairness its module states; the   *)
(* variables of the others keep an idle value.                             *)
EXTENDS Outbox, TLC

CONSTANTS p1, p2, c1, c2, k1, t1, n1, n2, NoOne

VARIABLES part,
          client, breaker, place, ctx, attempt, entered, body, ans,
          layer, enabled, unique, record, lapsed, done, stage, outcome, told,
          configured, state, turns, probe, ended, result, ready, seen,
          locker, cron, job, cronLock, run, runs, overdue,
          version, lock, pc, req, cur,
          rows, tenantOf, parentOf, path, status, announced, par,
          limit, used, log, reply, writes

calls == <<client, breaker, place, ctx, attempt, entered, body, ans>>
keys == <<layer, enabled, unique, record, lapsed, done, stage, outcome, told>>
health == <<configured, state, turns, probe, ended, result, ready, seen>>
scheduler == <<locker, cron, job, cronLock, run, runs, overdue>>
locked == <<version, lock, pc, req, cur>>
tree == <<rows, tenantOf, parentOf, path, status, announced, par>>
quota == <<limit, used, log, reply, writes>>

MCUser == [type |-> "user", tenant |-> t1, platform |-> FALSE]

Client == INSTANCE OutboundClient WITH
  Calls <- {c1, c2}, Plain <- {c1}, Absolute <- {}, MaxAttempts <- 2, Thresholds <- {1}

Keyed == INSTANCE Idempotency WITH
  Attempts <- {c1, c2}, NoAttempt <- NoOne, Keys <- {k1}, NoKey <- NoOne,
  KeyOf <- c1 :> k1 @@ c2 :> k1, InputOf <- c1 :> "x" @@ c2 :> "x", pc <- stage, ans <- told

Health == INSTANCE Health WITH Probes <- {p1}, MaxTurns <- 2, pc <- probe, enabled <- configured

Scheduler == INSTANCE Scheduler WITH
  Replicas <- {p1, p2}, Keys <- {"cron:sample"}, NoHolder <- NoOne, MaxRuns <- 2, lock <- cronLock, lapsed <- overdue

Tree == INSTANCE OrganizationTree WITH
  Tenants <- {t1}, NoTenant <- NoOne, Units <- {n1, n2}, NoUnit <- NoOne, Requests <- {c1, c2},
  Principals <- {MCUser}, NoHolder <- NoOne, HasLocker <- TRUE, SlowHolders <- FALSE, MaxVersion <- 2

Quota == INSTANCE Quota WITH
  Tenants <- {t1}, NoTenant <- NoOne, Names <- {n1}, Limits <- {2}, Amounts <- {1, 2}, MaxInt <- 3,
  Requests <- {c1, c2}, Principals <- {MCUser}, NoHolder <- NoOne, HasLocker <- TRUE, MaxVersion <- 2, ans <- reply
-----------------------------------------------------------------------------
NoCalls == client = 0 /\ breaker = 0 /\ place = 0 /\ ctx = 0 /\ attempt = 0 /\ entered = 0 /\ body = 0 /\ ans = 0
NoKeys ==
  /\ layer = 0 /\ enabled = 0 /\ unique = 0 /\ record = 0 /\ lapsed = 0
  /\ done = 0 /\ stage = 0 /\ outcome = 0 /\ told = 0
NoHealth == configured = 0 /\ state = 0 /\ turns = 0 /\ probe = 0 /\ ended = 0 /\ result = 0 /\ ready = 0 /\ seen = 0
NoScheduler == locker = 0 /\ cron = 0 /\ job = 0 /\ cronLock = 0 /\ run = 0 /\ runs = 0 /\ overdue = 0
NoLocked == version = 0 /\ lock = 0 /\ pc = 0 /\ req = 0 /\ cur = 0
NoTree == rows = 0 /\ tenantOf = 0 /\ parentOf = 0 /\ path = 0 /\ status = 0 /\ announced = 0 /\ par = 0
NoQuota == limit = 0 /\ used = 0 /\ log = 0 /\ reply = 0 /\ writes = 0

ProgressInit ==
  /\ Init
  /\ \/ part = "outbox" /\ NoCalls /\ NoKeys /\ NoHealth /\ NoScheduler /\ NoLocked /\ NoTree /\ NoQuota
     \/ part = "calls" /\ Client!Init /\ NoKeys /\ NoHealth /\ NoScheduler /\ NoLocked /\ NoTree /\ NoQuota
     \/ part = "keys" /\ Keyed!Init /\ NoCalls /\ NoHealth /\ NoScheduler /\ NoLocked /\ NoTree /\ NoQuota
     \/ part = "health" /\ Health!Init /\ NoCalls /\ NoKeys /\ NoScheduler /\ NoLocked /\ NoTree /\ NoQuota
     \/ part = "scheduler" /\ Scheduler!Init /\ NoCalls /\ NoKeys /\ NoHealth /\ NoLocked /\ NoTree /\ NoQuota
     \/ part = "tree" /\ Tree!Init /\ NoCalls /\ NoKeys /\ NoHealth /\ NoScheduler /\ NoQuota
     \/ part = "quota" /\ Quota!Init /\ NoCalls /\ NoKeys /\ NoHealth /\ NoScheduler /\ NoTree

ProgressNext ==
  /\ UNCHANGED part
  /\ \/ part = "outbox" /\ Next /\ UNCHANGED <<calls, keys, health, scheduler, locked, tree, quota>>
     \/ part = "calls" /\ Client!Next /\ UNCHANGED <<vars, keys, health, scheduler, locked, tree, quota>>
     \/ part = "keys" /\ Keyed!Next /\ UNCHANGED <<vars, calls, health, scheduler, locked, tree, quota>>
     \/ part = "health" /\ Health!Next /\ UNCHANGED <<vars, calls, keys, scheduler, locked, tree, quota>>
     \/ part = "scheduler" /\ Scheduler!Next /\ UNCHANGED <<vars, calls, keys, health, locked, tree, quota>>
     \/ part = "tree" /\ Tree!Next /\ UNCHANGED <<vars, calls, keys, health, scheduler, quota>>
     \/ part = "quota" /\ Quota!Next /\ UNCHANGED <<vars, calls, keys, health, scheduler, tree>>

(* The fairness of each module, for the part that is followed.             *)
OutboxFairness ==
  /\ \A r \in Replicas : /\ WF_vars(part = "outbox" /\ Start(r))
                         /\ WF_vars(part = "outbox" /\ GiveUp(r)) /\ WF_vars(part = "outbox" /\ Close(r))
  /\ \A e \in Events :
       /\ WF_vars(part = "outbox" /\ LeaseEnds(e)) /\ \A r \in Replicas : WF_vars(part = "outbox" /\ Mark(r, e))
       /\ SF_vars(part = "outbox" /\ \E r \in Replicas : ClaimSome(r, e))
       /\ SF_vars(part = "outbox" /\ \E r \in Replicas : Publish(r, e))

RequestFairness ==
  \A c \in {c1, c2} :
    /\ WF_calls(part = "calls" /\ Client!Step(c)) /\ WF_keys(part = "keys" /\ Keyed!Serve(c))
    /\ WF_<<locked, tree>>(part = "tree" /\ Tree!Serve(c)) /\ WF_<<locked, quota>>(part = "quota" /\ Quota!Serve(c))

RedisFairness ==
  /\ WF_keys(part = "keys" /\ Keyed!Lapse(k1)) /\ WF_scheduler(part = "scheduler" /\ Scheduler!Lapse)
  /\ WF_locked(part = "tree" /\ Tree!Expire(t1)) /\ WF_locked(part = "quota" /\ Quota!Expire(<<t1, n1>>))

ProcessFairness ==
  /\ WF_health(part = "health" /\ Health!Answer(p1))
  /\ \A d \in {"database", "redis"} : WF_health(part = "health" /\ (Health!Ping(p1, d) \/ Health!Timeout(p1, d)))
  /\ \A r \in {p1, p2} : /\ WF_scheduler(part = "scheduler" /\ Scheduler!Job(r))
                         /\ WF_scheduler(part = "scheduler" /\ Scheduler!Stopped(r))

ProgressSpec ==
  /\ ProgressInit
  /\ [][ProgressNext]_<<part, vars, calls, keys, health, scheduler, locked, tree, quota>>
  /\ OutboxFairness /\ RequestFairness /\ RedisFairness /\ ProcessFairness
-----------------------------------------------------------------------------
(* What was begun ends: every outbound call that was made comes to an      *)
(* answer, also when the upstream never says anything but try later, and   *)
(* every probe is answered, also while a dependency hangs for good.        *)
CallsEnd ==
  /\ \A c \in {c1, c2} : (part = "calls" /\ place[c] # "idle") ~> (part = "calls" /\ place[c] = "done")
  /\ (part = "health" /\ probe[p1] = "waiting") ~> (part = "health" /\ probe[p1] = "answered")

(* What was claimed comes free: an idempotency key does not stay in        *)
(* processing, and the locks of a tree, of a quota and of the scheduled    *)
(* job are free again and again, although holders return early, die, or    *)
(* lose the reply.                                                         *)
ClaimsComeFree ==
  /\ (part = "keys" /\ record[k1].state = "processing") ~> (part = "keys" /\ record[k1].state # "processing")
  /\ []<>(part = "tree" => Tree!LockFree(lock, t1))
  /\ []<>(part = "quota" => Quota!LockFree(lock, <<t1, n1>>))
  /\ []<>(part = "scheduler" => Scheduler!LockFree(cronLock, "cron:sample"))
=============================================================================
