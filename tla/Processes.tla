------------------------------ MODULE Processes ------------------------------
(***************************************************************************)
(* What the replicas do besides serving requests, with Lifecycle and       *)
(* Scheduler beside the dispatch of events: migration and the order of     *)
(* start and stop, and the scheduled job.                                  *)
(***************************************************************************)
EXTENDS Outbox

CONSTANTS Top, MaxCrashes, None     \* of Lifecycle
CONSTANTS Keys, NoHolder, MaxRuns   \* of Scheduler

VARIABLES auto, create, exists, version, dirty, holder, pc, up, open, serving, busy, crashes,
          locker, cron, job, lock, run, runs, lapsed

lifecycle == <<auto, create, exists, version, dirty, holder, pc, up, open, serving, busy, crashes>>
scheduler == <<locker, cron, job, lock, run, runs, lapsed>>

Lifecycle == INSTANCE Lifecycle
Scheduler == INSTANCE Scheduler

ASSUME MigrationAssumption == Lifecycle!LifecycleAssumption
ASSUME JobAssumption == Scheduler!SchedulerAssumption
-----------------------------------------------------------------------------
(* Nothing works on what was closed under it: no request, call, job or     *)
(* dispatch round on a closed pool, and no dispatch on a closed bus.       *)
WorkHasItsPools == BusOutlivesDispatch /\ Lifecycle!WorkHasItsPools

(* With auto_up nothing is served from a schema that misses a migration,   *)
(* and a replica that waited for the migration lock finds a dirty version  *)
(* only after a migration that failed or crashed.                          *)
ServesMigrated == Lifecycle!ServesMigrated /\ Lifecycle!DirtyMeansFailed

(* With a locker two replicas run the job at once only when the lease of   *)
(* one has lapsed; without Redis every replica runs it. A replica that is  *)
(* stopped runs nothing in either case.                                    *)
OneRunner == Scheduler!OneRunner
=============================================================================
