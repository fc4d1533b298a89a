------------------------------ MODULE Scheduler ------------------------------
(***************************************************************************)
(* The cron job of every replica. With Redis it runs under one lock:       *)
(* TryLock with a time to live of a minute, the job, Unlock in a context   *)
(* of its own. Replies of Redis are lost, leases lapse while a job still   *)
(* runs, replicas crash. Without Redis there is no locker and every        *)
(* replica runs the job unlocked.                                          *)
(*                                                                         *)
(* An operator D_Variant that stands before D is D with one mistake in it. *)
(***************************************************************************)
EXTENDS Naturals, Locker

CONSTANTS Replicas, Keys,   \* the lock keys: cron:sample
          MaxRuns           \* bound on the ticks that are not skipped

VARIABLES
  locker,   \* newLocker: there is one, as redis.enabled says for all replicas
  cron,     \* per replica: off, on, stopping or stopped
  job,      \* per replica: idle, lock, run or unlock
  lock,     \* Redis: per key, the <<replica, run>> that holds it
  run,      \* per replica: the number of its run, which its lock's token carries
  runs,     \* the ticks that were not skipped
  lapsed    \* history: the holders whose lease lapsed

vars == <<locker, cron, job, lock, run, runs, lapsed>>

Key == "cron:sample"
SchedulerAssumption == Key \in Keys /\ NoHolder \notin Replicas \X Nat
Token(r) == <<r, run[r]>>

Init ==
  /\ locker \in BOOLEAN
  /\ cron = [r \in Replicas |-> "off"] /\ job = [r \in Replicas |-> "idle"]
  /\ lock = [k \in Keys |-> NoHolder] /\ run = [r \in Replicas |-> 0] /\ runs = 0 /\ lapsed = {}

At(r, j) == job' = [job EXCEPT ![r] = j]

Start(r) ==
  /\ cron[r] \in {"off", "stopped"} /\ cron' = [cron EXCEPT ![r] = "on"]
  /\ UNCHANGED <<locker, job, lock, run, runs, lapsed>>

(* cron.SkipIfStillRunning: a tick finds no run of this replica under way. *)
StillRunning(r) == job[r] # "idle"

Tick(r) ==
  /\ cron[r] = "on" /\ ~StillRunning(r) /\ runs < MaxRuns
  /\ runs' = runs + 1 /\ run' = [run EXCEPT ![r] = runs + 1] /\ At(r, "lock")
  /\ UNCHANGED <<locker, cron, lock, lapsed>>

(* Without a locker the job is run at once.                                *)
RunUnlocked(r) ==
  /\ job[r] = "lock" /\ ~locker /\ At(r, "run")
  /\ UNCHANGED <<locker, cron, lock, run, runs, lapsed>>

TryLock(r) ==
  /\ job[r] = "lock" /\ locker /\ LockFree(lock, Key)
  /\ lock' = Locked(lock, Key, Token(r)) /\ At(r, "run")
  /\ UNCHANGED <<locker, cron, run, runs, lapsed>>

(* Not acquired: the run is skipped.                                       *)
Contended(r) ==
  /\ job[r] = "lock" /\ locker /\ ~LockFree(lock, Key) /\ At(r, "idle")
  /\ UNCHANGED <<locker, cron, lock, run, runs, lapsed>>

(* An error: the key may be set all the same, and nobody will delete it.   *)
TryLockFails(r) ==
  /\ job[r] = "lock" /\ locker /\ At(r, "idle")
  /\ lock' \in {lock} \cup (IF LockFree(lock, Key) THEN {Locked(lock, Key, Token(r))} ELSE {})
  /\ UNCHANGED <<locker, cron, run, runs, lapsed>>

(* The job itself. The unlock is deferred only after a lock was acquired.  *)
Execute(r) ==
  /\ job[r] = "run" /\ At(r, IF locker THEN "unlock" ELSE "idle")
  /\ UNCHANGED <<locker, cron, lock, run, runs, lapsed>>

Released_Any(r) == [lock EXCEPT ![Key] = NoHolder]
Released(r) == Unlocked(lock, Key, Token(r))

Unlock(r) ==
  /\ job[r] = "unlock" /\ At(r, "idle") /\ lock' = Released(r)
  /\ UNCHANGED <<locker, cron, run, runs, lapsed>>

(* Redis does not answer within three seconds: it is logged.               *)
UnlockFails(r) ==
  /\ job[r] = "unlock" /\ At(r, "idle") /\ lock' \in {lock, Released(r)}
  /\ UNCHANGED <<locker, cron, run, runs, lapsed>>

Lapse ==
  /\ ~LockFree(lock, Key) /\ lock' = Lapsed(lock, Key) /\ lapsed' = lapsed \cup {lock[Key]}
  /\ UNCHANGED <<locker, cron, job, run, runs>>

Stop(r) ==
  /\ cron[r] = "on" /\ cron' = [cron EXCEPT ![r] = "stopping"]
  /\ UNCHANGED <<locker, job, lock, run, runs, lapsed>>

(* The stop hook returns when the run has ended.                           *)
Finished(r) == job[r] = "idle"
Stopped(r) ==
  /\ cron[r] = "stopping" /\ Finished(r) /\ cron' = [cron EXCEPT ![r] = "stopped"]
  /\ UNCHANGED <<locker, job, lock, run, runs, lapsed>>

(* The process dies, or the stop hook's context ends and it exits.         *)
Crash(r) ==
  /\ cron[r] \in {"on", "stopping"} /\ cron' = [cron EXCEPT ![r] = "off"] /\ At(r, "idle")
  /\ UNCHANGED <<locker, lock, run, runs, lapsed>>

Job(r) ==
  RunUnlocked(r) \/ TryLock(r) \/ Contended(r) \/ TryLockFails(r) \/ Execute(r) \/ Unlock(r) \/ UnlockFails(r)
Next == Lapse \/ \E r \in Replicas : Start(r) \/ Tick(r) \/ Job(r) \/ Stop(r) \/ Stopped(r) \/ Crash(r)
Spec == Init /\ [][Next]_vars
FairSpec == Spec /\ WF_vars(Lapse) /\ \A r \in Replicas : WF_vars(Job(r)) /\ WF_vars(Stopped(r))
-----------------------------------------------------------------------------
Running(r) == job[r] \in {"run", "unlock"}

(* With a locker two replicas run the job at once only when the lease of   *)
(* one of them has lapsed: no unlock, not that of a late run either, frees *)
(* another's lock. Without one nothing keeps them apart. In both cases a   *)
(* replica that is stopped, or has not started, runs nothing.              *)
OneRunner ==
  /\ locker =>
       \A r, q \in Replicas : Running(r) /\ Running(q) /\ r # q => {Token(r), Token(q)} \cap lapsed # {}
  /\ \A r \in Replicas : cron[r] \in {"off", "stopped"} => ~Running(r)

(* A lock whose holder has crashed, lost the reply to its TryLock or could *)
(* not release it comes free: no replica keeps the job from ever running.  *)
LockComesFree == ~LockFree(lock, Key) ~> LockFree(lock, Key)
=============================================================================
