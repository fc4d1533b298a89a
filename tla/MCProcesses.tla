---------------------------- MODULE MCProcesses ----------------------------
(* Processes and Readiness in one run: two replicas that dispatch three    *)
(* events, migrate, start, stop and run the job, and one process that      *)
(* loads its configuration and answers a probe.  They have no variable in  *)
(* common, so a behaviour follows one of them and the others stay in one   *)
(* of their initial states.                                                *)
EXTENDS Processes, Readiness, TLC

VARIABLE part

(* The settings have their names before any file is chosen.                *)
Named == INSTANCE Config WITH Files <- {}, Paired <- {}

Given(set) == [s \in set |-> TRUE]

(* A file without settings, the file of the repository, one that a         *)
(* production process can start with, one with an HTTP upstream without    *)
(* TLS, and one that turns every part on. Two layers change the settings   *)
(* that others hang on.                                                    *)
Clients == Given({"outbound.identity", "outbound.authorization", "rpc.target", "rpc.target.parses", "rpc.timeout",
                  "rpc.retry", "idempotency.routes"})
Closed == {"grpc.tls", "grpc.tls.files", "swagger.require_auth", "auth.jwks_url", "authorization",
           "rpc.auth", "rpc.auth.type", "rpc.token", "rpc.tls"}

Plain == Clients @@ [s \in {"rpc.auth", "rpc.auth.type", "rpc.token", "rpc.tls"} |-> FALSE]
Hardened == Clients @@ Given(Closed) @@ [s \in {"grpc.reflection"} |-> FALSE]
Fetching == Plain @@ Given({"outbound.http", "http.base_url", "http.base_url.absolute", "http.timeout", "http.retry",
                            "http.tls.cert", "http.tls.key"})
Full == Given(Named!Settings \ {"grpc.reflection"}) @@ [s \in {"grpc.reflection"} |-> FALSE]

MCFiles == {Given({}), Plain, Hardened, Fetching, Full}
MCPaired ==
  {"production", "grpc", "grpc.tls", "grpc.reflection", "auth.jwks_url", "authorization", "database",
   "redis", "rate_limit", "event_bus", "dictionary", "outbound.registry", "outbound.http", "http.auth",
   "http.tls", "http.tls.cert", "http.tls.key", "rpc.auth", "rpc.tls", "rpc.tls.cert", "rpc.tls.key", "rpc.insecure"}

-----------------------------------------------------------------------------
NoConfig == file = Plain /\ extra = {} /\ explicit = "" /\ Config!Init
NoLifecycle == auto = TRUE /\ create = TRUE /\ exists = FALSE /\ Lifecycle!Init
NoScheduler == locker = TRUE /\ Scheduler!Init
NoHealth == switched = {} /\ Health!Init

MCInit ==
  /\ part \in {"outbox", "lifecycle", "scheduler", "config", "health"}
  /\ Init
  /\ IF part = "lifecycle" THEN Lifecycle!Init ELSE NoLifecycle
  /\ IF part = "scheduler" THEN Scheduler!Init ELSE NoScheduler
  /\ IF part = "config" THEN Config!Init ELSE NoConfig
  /\ IF part = "health" THEN Health!Init ELSE NoHealth

MCNext ==
  /\ UNCHANGED part
  /\ \/ part = "outbox" /\ Next /\ UNCHANGED <<lifecycle, scheduler, config, health>>
     \/ part = "lifecycle" /\ Lifecycle!Next /\ UNCHANGED <<vars, scheduler, config, health>>
     \/ part = "scheduler" /\ Scheduler!Next /\ UNCHANGED <<vars, lifecycle, config, health>>
     \/ part = "config" /\ Config!Next /\ UNCHANGED <<vars, lifecycle, scheduler, health>>
     \/ part = "health" /\ Health!Next /\ UNCHANGED <<vars, lifecycle, scheduler, config>>

MCSpec == MCInit /\ [][MCNext]_<<part, vars, lifecycle, scheduler, config, health>>

ReplicaSymmetry == Permutations(Replicas)
=============================================================================
