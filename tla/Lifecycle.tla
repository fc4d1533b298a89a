------------------------------ MODULE Lifecycle ------------------------------
(***************************************************************************)
(* The life of the service's replicas: the migration before anything is    *)
(* opened, the constructors, the start hooks in order, the stop hooks in   *)
(* reverse with their deadline, a start that fails and is rolled back, and *)
(* crashes. fx runs the hooks, golang-migrate the migrations.              *)
(*                                                                         *)
(* An operator D_Variant that stands before D is D with one mistake in it. *)
(***************************************************************************)
EXTENDS Naturals, Sequences, FiniteSets

CONSTANTS Replicas,     \* the processes
          Top,          \* the last migration of the source
          MaxCrashes,   \* bound on crashes
          None

LifecycleAssumption == Top \in Nat /\ None \notin Replicas

(* The order of construction, which the modules of app.New and the         *)
(* dependencies of their constructors give.                                *)
Order == <<"logger", "database", "redis", "events", "clients", "dictionary", "scheduler", "grpc", "http">>

(* The parts that work on their own, and what their work uses.             *)
Needs == [http |-> {"database", "redis", "clients"}, grpc |-> {"database", "redis", "clients"},
          scheduler |-> {"redis"}, events |-> {"database"}]
Parts == DOMAIN Needs

VARIABLES
  auto,      \* migration.auto_up
  create,    \* migration.create_schema
  exists,    \* the schema exists
  version,   \* the migration the database is at
  dirty,     \* a migration began and did not end
  holder,    \* who holds the migration lock
  pc,        \* per replica: down, schema, lock, migrate, apply, build, start, run or stop
  up,        \* per replica: how many hooks have started
  open,      \* per replica: the parts that are constructed and not closed
  serving,   \* per replica: the parts that take new work
  busy,      \* per replica: the parts with work in flight
  crashes

settings == <<auto, create>>
database == <<exists, version, dirty, holder>>
process == <<up, open, serving, busy>>
vars == <<settings, database, pc, process, crashes>>

Init ==
  /\ auto \in BOOLEAN /\ create \in BOOLEAN
  /\ exists \in BOOLEAN /\ version \in 0..Top /\ dirty = FALSE /\ holder = None
  /\ version > 0 => exists
  /\ pc = [r \in Replicas |-> "down"] /\ up = [r \in Replicas |-> 0]
  /\ open = [r \in Replicas |-> {}] /\ serving = open /\ busy = open
  /\ crashes = 0

Goto(r, p) == pc' = [pc EXCEPT ![r] = p]

(* The process is gone, and with it its connections and their locks.       *)
Exit(r) ==
  /\ Goto(r, "down")
  /\ up' = [up EXCEPT ![r] = 0] /\ open' = [open EXCEPT ![r] = {}]
  /\ serving' = [serving EXCEPT ![r] = {}] /\ busy' = [busy EXCEPT ![r] = {}]
  /\ holder' = IF holder = r THEN None ELSE holder
-----------------------------------------------------------------------------
(* The startup migration.                                                  *)

Boot(r) ==
  /\ pc[r] = "down" /\ Goto(r, IF auto THEN "schema" ELSE "build")
  /\ UNCHANGED <<settings, database, process, crashes>>

(* One transaction, which waits for the others that create this schema.    *)
EnsureSchema(r) ==
  /\ pc[r] = "schema" /\ Goto(r, "lock")
  /\ exists' = (exists \/ create)
  /\ UNCHANGED <<settings, version, dirty, holder, process, crashes>>

MigrationLock_Shared(r) == TRUE
MigrationLock(r) == holder = None

(* The table of the migrations is made on the way, in the schema.          *)
Lock(r) ==
  /\ pc[r] = "lock" /\ exists /\ MigrationLock(r)
  /\ holder' = r /\ Goto(r, "migrate")
  /\ UNCHANGED <<settings, exists, version, dirty, process, crashes>>

(* migrate.New fails, or the lock does not come in time.                   *)
LockFails(r) ==
  /\ pc[r] = "lock" /\ Exit(r)
  /\ UNCHANGED <<settings, exists, version, dirty, crashes>>

(* What Up finds before a migration.                                       *)
Found == IF dirty THEN "dirty" ELSE IF version = Top THEN "no change" ELSE "pending"

(* Run ends well with no error and with ErrNoChange.                       *)
Continues_Logged(found) == found # "pending"
Continues(found) == found = "no change"

Up(r) ==
  /\ pc[r] = "migrate"
  /\ CASE Continues(Found) -> Goto(r, "build") /\ holder' = None /\ UNCHANGED <<dirty, process>>
       [] Found = "pending" -> Goto(r, "apply") /\ dirty' = TRUE /\ UNCHANGED <<holder, process>>
       [] OTHER -> Exit(r) /\ UNCHANGED dirty
  /\ UNCHANGED <<settings, exists, version, crashes>>

Apply(r) ==
  /\ pc[r] = "apply" /\ Goto(r, "migrate")
  /\ version' = version + 1 /\ dirty' = FALSE
  /\ UNCHANGED <<settings, exists, holder, process, crashes>>

ApplyFails(r) ==
  /\ pc[r] = "apply" /\ Exit(r)
  /\ UNCHANGED <<settings, exists, version, dirty, crashes>>
-----------------------------------------------------------------------------
(* Construction and start.                                                 *)

Build(r) ==
  /\ pc[r] = "build"
  /\ LET n == Cardinality(open[r]) IN
       IF n = Len(Order) THEN Goto(r, "start") /\ UNCHANGED open
       ELSE open' = [open EXCEPT ![r] = @ \cup {Order[n + 1]}] /\ UNCHANGED pc
  /\ UNCHANGED <<settings, database, up, serving, busy, crashes>>

(* A constructor returns an error: no hook has run and none will.          *)
BuildFails(r) ==
  /\ pc[r] = "build" /\ Exit(r)
  /\ UNCHANGED <<settings, exists, version, dirty, crashes>>

Start(r) ==
  /\ pc[r] = "start"
  /\ IF up[r] = Len(Order) THEN Goto(r, "run") /\ UNCHANGED <<up, serving>>
     ELSE /\ up' = [up EXCEPT ![r] = @ + 1]
          /\ serving' = [serving EXCEPT ![r] = @ \cup ({Order[up[r] + 1]} \cap Parts)]
          /\ UNCHANGED pc
  /\ UNCHANGED <<settings, database, open, busy, crashes>>

(* The bus cannot be reached, or an address is taken: what has started is  *)
(* stopped again.                                                          *)
StartFails(r) ==
  /\ pc[r] = "start" /\ up[r] < Len(Order) /\ Order[up[r] + 1] \in {"events", "grpc", "http"}
  /\ Goto(r, "stop")
  /\ UNCHANGED <<settings, database, process, crashes>>

(* A request, a call, a run of the job, a round of the dispatcher.         *)
Begin(r, part) ==
  /\ part \in serving[r] \ busy[r]
  /\ busy' = [busy EXCEPT ![r] = @ \cup {part}]
  /\ UNCHANGED <<settings, database, pc, up, open, serving, crashes>>

End(r, part) ==
  /\ part \in busy[r]
  /\ busy' = [busy EXCEPT ![r] = @ \ {part}]
  /\ UNCHANGED <<settings, database, pc, up, open, serving, crashes>>
-----------------------------------------------------------------------------
(* Stop: from the last hook that started to the first.                     *)

Signal(r) ==
  /\ pc[r] = "run" /\ Goto(r, "stop")
  /\ UNCHANGED <<settings, database, process, crashes>>

Last(r) == Order[up[r]]

(* Shutdown, GracefulStop, cron's Stop and the cancel of the event loops   *)
(* end the intake first.                                                   *)
StopIntake(r) ==
  /\ pc[r] = "stop" /\ up[r] > 0 /\ Last(r) \in serving[r]
  /\ serving' = [serving EXCEPT ![r] = @ \ {Last(r)}]
  /\ UNCHANGED <<settings, database, pc, up, open, busy, crashes>>

(* They return when what was in flight has ended.                          *)
Drained_AtOnce(r) == Last(r) \notin serving[r]
Drained(r) == Last(r) \notin serving[r] \cup busy[r]

StopHook(r) ==
  /\ pc[r] = "stop" /\ up[r] > 0 /\ Drained(r)
  /\ open' = [open EXCEPT ![r] = @ \ {Last(r)}] /\ up' = [up EXCEPT ![r] = @ - 1]
  /\ UNCHANGED <<settings, database, pc, serving, busy, crashes>>

(* All hooks have run, or the deadline passes: no further hook is run and  *)
(* the process exits.                                                      *)
Stopped(r) ==
  /\ pc[r] = "stop" /\ Exit(r)
  /\ UNCHANGED <<settings, exists, version, dirty, crashes>>

Crash(r) ==
  /\ pc[r] # "down" /\ crashes < MaxCrashes /\ crashes' = crashes + 1
  /\ Exit(r)
  /\ UNCHANGED <<settings, exists, version, dirty>>
-----------------------------------------------------------------------------
Migrates(r) == Boot(r) \/ EnsureSchema(r) \/ Lock(r) \/ LockFails(r) \/ Up(r) \/ Apply(r) \/ ApplyFails(r)
Runs(r) == Build(r) \/ BuildFails(r) \/ Start(r) \/ StartFails(r) \/ (\E part \in Parts : Begin(r, part) \/ End(r, part))
Stops(r) == Signal(r) \/ StopIntake(r) \/ StopHook(r) \/ Stopped(r) \/ Crash(r)

Next == \E r \in Replicas : Migrates(r) \/ Runs(r) \/ Stops(r)
Spec == Init /\ [][Next]_vars
-----------------------------------------------------------------------------
(* No request, call, job or dispatch round works on a pool that is not     *)
(* open: not before the constructors are through, not while a failed start *)
(* is rolled back, not while the process stops.                            *)
WorkHasItsPools == \A r \in Replicas : \A part \in busy[r] : Needs[part] \subseteq open[r]

(* A replica that waited for the migration lock goes on when the other's   *)
(* migrations went well: it finds a dirty version only after a migration   *)
(* that failed or crashed, never one that another replica is applying.     *)
DirtyMeansFailed ==
  \A r, q \in Replicas : pc[r] = "migrate" /\ dirty => pc[q] # "apply"

(* With auto_up, nothing is served from a schema that misses a migration   *)
(* or has a half applied one.                                              *)
ServesMigrated == auto => \A r \in Replicas : serving[r] # {} => version = Top /\ ~dirty
=============================================================================
