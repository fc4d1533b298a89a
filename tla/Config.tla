------------------------------- MODULE Config -------------------------------
(***************************************************************************)
(* Loading and validating the configuration, and what the constructors of  *)
(* the process make of it. A setting is a Boolean: a switch is on, or a    *)
(* value is given and within its bounds; where only a constructor reads    *)
(* the value itself, another setting says that it parses. A configuration  *)
(* comes from the defaults, a file, the file of the active profile and the *)
(* environment.                                                            *)
(*                                                                         *)
(* An operator D_Variant that stands before D is D with one mistake in it. *)
(***************************************************************************)
EXTENDS Naturals, FiniteSets, TLC

CONSTANTS
  Files,    \* the settings a configuration file may hold
  Paired    \* bound: the settings the profile's file and the environment set at once

(* The settings, by the struct they belong to. production is app.env.      *)
ServerSettings ==
  {"production", "http.address", "http.request_timeout", "cors", "cors.allowed_origins",
   "grpc", "grpc.address", "grpc.max_receive_bytes", "grpc.tls", "grpc.tls.files", "grpc.reflection",
   "tracing.sample_ratio", "tracing", "tracing.endpoint", "pprof", "pprof.token", "swagger", "swagger.require_auth",
   "health.timeouts", "log.level", "cron.timezone", "cron.sample_spec", "http.trusted_proxies",
   "http.address.parses", "grpc.address.parses", "tracing.endpoint.parses"}
StoreSettings ==
  {"database.name", "database.schema", "database", "database.dsn", "database.type",
   "database.dsn.parses", "migration.auto_up", "migration.path", "migration.database_url", "migration.table",
   "migration.database_url.parses", "redis", "redis.address", "rate_limit", "rate_limit.rules", "user.durations"}
AuthSettings ==
  {"auth.jwks_url", "auth.jwks_url.parses", "auth.issuer", "auth.audience", "authorization", "auth.client", "jwt.secret",
   "auth.skip_patterns", "psk", "psk.key", "psk.routes", "psk.patterns",
   "idempotency", "idempotency.routes", "idempotency.ttls", "idempotency.patterns"}
EventSettings ==
  {"event_bus", "event_bus.stream", "event_bus.intervals", "event_bus.retention", "event_bus.options",
   "dictionary", "dictionary.target", "dictionary.lease", "dictionary.options"}
UpstreamSettings ==
  {"outbound.identity", "outbound.authorization", "outbound.registry", "outbound.http",
   "http.base_url", "http.base_url.absolute", "http.timeout", "http.auth", "http.auth.type", "http.token", "http.retry",
   "http.breaker", "http.breaker.policy", "http.tls", "http.tls.cert", "http.tls.key",
   "rpc.target", "rpc.target.parses", "rpc.timeout", "rpc.auth", "rpc.auth.type", "rpc.token", "rpc.retry",
   "rpc.breaker", "rpc.breaker.policy", "rpc.tls", "rpc.tls.cert", "rpc.tls.key", "rpc.insecure"}
Settings == ServerSettings \cup StoreSettings \cup AuthSettings \cup EventSettings \cup UpstreamSettings

Upstreams == {"outbound.identity", "outbound.authorization", "outbound.registry", "outbound.http"}

(* setDefaults: what is on or given without any file. No upstream is.      *)
Defaults ==
  Settings \ (UpstreamSettings \cup
    {"production", "cors", "cors.allowed_origins", "grpc.tls", "grpc.tls.files", "tracing", "pprof",
     "pprof.token", "swagger.require_auth", "database", "database.dsn", "migration.auto_up",
     "migration.database_url", "redis", "rate_limit", "auth.jwks_url", "authorization", "auth.client",
     "jwt.secret", "psk", "psk.key", "psk.routes", "idempotency", "idempotency.routes", "event_bus",
     "dictionary"})

(* The keys that setDefaults does not name.                                *)
Undeclared == UpstreamSettings \cup {"idempotency.routes"}

VARIABLES
  file,       \* config.yaml: a value for some settings
  extra,      \* <<layer, setting, value>> of the profile's file and the environment
  explicit,   \* the profile on the command line, "" for none
  step,       \* load, validate, construct, running, rejected or failed
  active,     \* the active profile
  conf,       \* the settings that hold
  cause       \* why the process did not start

vars == <<file, extra, explicit, step, active, conf, cause>>

(* A layer may add an upstream and cannot take one away.                   *)
Extras(layer) == {<<layer, s, v>> : s \in Settings, v \in BOOLEAN} \ {<<layer, s, FALSE>> : s \in Upstreams}

(* One setting of a layer, or one of each.                                 *)
Overrides ==
  LET Both(layer) == {x \in Extras(layer) : x[2] \in Paired}
  IN {{x, y} : x \in Both("profile"), y \in Both("environment")} \cup
     {{x} : x \in Extras("profile") \cup Extras("environment")} \cup {{}}

Init ==
  /\ file \in Files /\ extra \in Overrides
  /\ explicit \in {"", "development", "production"}
  /\ step = "load" /\ active = "" /\ conf = {} /\ cause = ""
-----------------------------------------------------------------------------
(* Unmarshal asks for the keys that a default or a file names, and only    *)
(* then looks for a variable of that name (viper).                         *)
Known(s) == s \notin Undeclared \/ s \in DOMAIN file \/ \E x \in extra : x[1] = "profile" /\ x[2] = s
Entries(layer) == {x \in extra : x[1] = layer /\ (layer = "environment" => Known(x[2]))}

(* The file stands before the defaults, a layer before what is below it.   *)
ReadInConfig == (Defaults \ DOMAIN file) \cup {s \in DOMAIN file : file[s]}
Over(on, layer) == (on \ {x[2] : x \in Entries(layer)}) \cup {x[2] : x \in {y \in Entries(layer) : y[3]}}

(* The profile is chosen before its file is read.                          *)
Profile == IF explicit # "" THEN explicit
           ELSE IF "production" \in Over(ReadInConfig, "environment") THEN "production" ELSE "development"

(* Keys that no struct has are dropped. app.env is set to the profile.     *)
Layered == Settings \cap Over(Over(ReadInConfig, "profile"), "environment")
Merged_Late == Layered
Merged == {s \in Layered : s # "production"} \cup {s \in {"production"} : Profile = "production"}

LoadWithProfile ==
  /\ step = "load"
  /\ active' = Profile /\ conf' = Merged /\ step' = "validate"
  /\ UNCHANGED <<file, extra, explicit, cause>>
-----------------------------------------------------------------------------
(* Validate, as pairs: when the first settings hold, so must the second.   *)
(* never is no setting.                                                    *)

ServerRules ==
  {<<{}, {"database.name", "database.schema", "http.address"}>>,
   <<{"grpc"}, {"grpc.address", "grpc.max_receive_bytes"}>>, <<{"grpc.tls"}, {"grpc.tls.files"}>>,
   <<{"production", "grpc"}, {"grpc.tls"}>>, <<{"production", "grpc.reflection"}, {"never"}>>}
StoreRules ==
  {<<{"database"}, {"database.dsn", "database.type"}>>,
   <<{"migration.auto_up"}, {"database", "migration.path", "migration.database_url", "migration.table"}>>,
   <<{"redis"}, {"redis.address"}>>, <<{}, {"http.request_timeout", "health.timeouts"}>>,
   <<{"rate_limit"}, {"redis", "rate_limit.rules"}>>}
ObservabilityRules ==
  {<<{"cors"}, {"cors.allowed_origins"}>>, <<{}, {"tracing.sample_ratio"}>>,
   <<{"tracing"}, {"tracing.endpoint"}>>, <<{"pprof"}, {"pprof.token"}>>}
AuthRules ==
  {<<{"production", "swagger"}, {"swagger.require_auth"}>>,
   <<{"production"}, {"auth.jwks_url", "auth.issuer", "auth.audience", "authorization"}>>,
   <<{"authorization"}, {"outbound.authorization"}>>, <<{"auth.client"}, {"jwt.secret"}>>,
   <<{}, {"auth.skip_patterns", "psk.patterns"}>>, <<{"psk"}, {"psk.key", "psk.routes"}>>}
IdempotencyRules ==
  {<<{}, {"user.durations", "idempotency.patterns"}>>,
   <<{"idempotency"}, {"redis", "idempotency.routes", "idempotency.ttls"}>>}
EventRules_NoDatabase ==
  {<<{"event_bus"}, {"event_bus.stream", "event_bus.intervals", "event_bus.retention"}>>,
   <<{"dictionary"}, {"outbound.registry", "dictionary.target", "dictionary.lease"}>>}
EventRules ==
  {<<{"event_bus"}, {"database", "event_bus.stream", "event_bus.intervals", "event_bus.retention"}>>,
   <<{"dictionary"}, {"outbound.registry", "dictionary.target", "dictionary.lease"}>>}

RpcUpstream == conf \cap {"outbound.identity", "outbound.authorization", "outbound.registry"} # {}

(* The settings of a client; auth stands for an auth.type that is given,   *)
(* type for one that is bearer or psk.                                     *)
HttpClient ==
  [auth |-> "http.auth", type |-> "http.auth.type", token |-> "http.token", retry |-> "http.retry",
   breaker |-> "http.breaker", policy |-> "http.breaker.policy",
   tls |-> "http.tls", cert |-> "http.tls.cert", key |-> "http.tls.key"]
RpcClient ==
  [auth |-> "rpc.auth", type |-> "rpc.auth.type", token |-> "rpc.token", retry |-> "rpc.retry",
   breaker |-> "rpc.breaker", policy |-> "rpc.breaker.policy",
   tls |-> "rpc.tls", cert |-> "rpc.tls.cert", key |-> "rpc.tls.key"]

(* insecure is the leave to send credentials in the clear.                 *)
validateClientPolicy(c, insecure) ==
  /\ c.auth \in conf => {c.type, c.token} \subseteq conf /\ (c.tls \in conf \/ insecure)
  /\ c.retry \in conf
  /\ c.breaker \in conf => c.policy \in conf
  /\ c.tls \in conf => (c.cert \in conf <=> c.key \in conf)

ValidateUpstreams ==
  /\ "outbound.http" \in conf =>
       {"http.base_url", "http.timeout"} \subseteq conf /\ validateClientPolicy(HttpClient, FALSE)
  /\ RpcUpstream =>
       /\ {"rpc.target", "rpc.timeout"} \subseteq conf
       /\ validateClientPolicy(RpcClient, "rpc.insecure" \in conf /\ "production" \notin conf)

Rules == ServerRules \cup StoreRules \cup ObservabilityRules \cup AuthRules \cup IdempotencyRules \cup EventRules

Validate ==
  /\ step = "validate"
  /\ step' = IF ValidateUpstreams /\ \A r \in Rules : r[1] \subseteq conf => r[2] \subseteq conf
             THEN "construct" ELSE "rejected"
  /\ UNCHANGED <<file, extra, explicit, active, conf, cause>>
-----------------------------------------------------------------------------
(* The constructors, as far as they look at the configuration alone: each  *)
(* names the setting it refuses for, "" for none, and the first to refuse  *)
(* ends the start. The certificates, databases and servers that settings   *)
(* point at are not configuration.                                         *)

Needs(on, s) == IF on \subseteq conf /\ s \notin conf THEN s ELSE ""
a ?? b == IF a # "" THEN a ELSE b

newLogger == Needs({}, "log.level")
runStartupMigration ==
  Needs({"migration.auto_up"}, "migration.database_url") ?? Needs({"migration.auto_up"}, "migration.database_url.parses")
newDatabase == Needs({"database"}, "database.type") ?? Needs({"database"}, "database.dsn.parses")
NewTracing == Needs({"tracing"}, "tracing.endpoint.parses")

(* httpTransport loads a client certificate whether or not TLS is on.      *)
NewHTTPClient ==
  Needs({"outbound.http", "http.auth"}, "http.tls") ?? Needs({"outbound.http"}, "http.base_url.absolute")
    ?? Needs({"outbound.http", "http.tls.cert"}, "http.tls.key")

transportCredentials == Needs({"rpc.tls", "rpc.tls.cert"}, "rpc.tls.key") ?? Needs({"rpc.tls", "rpc.tls.key"}, "rpc.tls.cert")
Credentials == IF "rpc.insecure" \in conf THEN "" ELSE Needs({"rpc.auth", "rpc.auth.type", "rpc.token"}, "rpc.tls")
Dial ==
  IF ~RpcUpstream THEN ""
  ELSE Needs({}, "rpc.target") ?? Needs({}, "rpc.timeout") ?? transportCredentials ?? Credentials
         ?? Needs({}, "rpc.target.parses")

newDictionaryProviderRuntime == Needs({"dictionary"}, "outbound.registry") ?? Needs({"dictionary"}, "dictionary.options")
schedulerNew == Needs({}, "cron.timezone") ?? Needs({}, "cron.sample_spec")
NewRuntime == Needs({"auth.jwks_url"}, "auth.jwks_url.parses")
identityclientNew == Needs({}, "outbound.identity")
serverCredentials == Needs({"grpc.tls"}, "grpc.tls.files")
NewServer == Needs({}, "http.trusted_proxies")

(* The start hooks, which run when all is constructed.                     *)
eventRuntimeStart == Needs({"event_bus"}, "database") ?? Needs({"event_bus"}, "event_bus.options")
Listen == Needs({"grpc"}, "grpc.address.parses") ?? Needs({}, "http.address.parses")

Refusal ==
  newLogger ?? runStartupMigration ?? newDatabase ?? NewTracing ?? NewHTTPClient ?? Dial
    ?? newDictionaryProviderRuntime ?? schedulerNew ?? NewRuntime ?? identityclientNew ?? serverCredentials ?? NewServer
    ?? eventRuntimeStart ?? Listen

Construct ==
  /\ step = "construct"
  /\ cause' = Refusal /\ step' = IF Refusal = "" THEN "running" ELSE "failed"
  /\ UNCHANGED <<file, extra, explicit, active, conf>>

Ended == step \in {"running", "rejected", "failed"} /\ UNCHANGED vars

Next == LoadWithProfile \/ Validate \/ Construct \/ Ended
Spec == Init /\ [][Next]_vars
-----------------------------------------------------------------------------
(* A process whose active profile is production runs with TLS on gRPC,     *)
(* without reflection, with token verification and authorization, and      *)
(* sends no credentials in the clear, whatever the file of the profile and *)
(* the environment say, the profile's name included.                       *)
ProductionIsClosed ==
  step = "running" /\ active = "production" =>
    /\ "grpc" \in conf => {"grpc.tls", "grpc.tls.files"} \subseteq conf
    /\ "grpc.reflection" \notin conf
    /\ {"auth.jwks_url", "authorization", "outbound.authorization"} \subseteq conf
    /\ "rpc.auth" \in conf => "rpc.tls" \in conf
    /\ {"outbound.http", "http.auth"} \subseteq conf => "http.tls" \in conf

(* The settings whose value no rule of Validate reads beyond its being     *)
(* there: a level, a time zone, a schedule, addresses, URLs, data source   *)
(* names, and what the libraries ask of the options they are given.        *)
Parsed ==
  {"log.level", "cron.timezone", "cron.sample_spec", "http.trusted_proxies", "http.address.parses", "grpc.address.parses",
   "tracing.endpoint.parses", "database.dsn.parses", "migration.database_url.parses", "auth.jwks_url.parses",
   "http.base_url.absolute", "rpc.target.parses", "event_bus.options", "dictionary.options"}

(* What one setting asks of another Validate asks too: a configuration it  *)
(* accepts is refused only for a value that does not parse, or in one of   *)
(* two cases it misses: there is no identity upstream, or an HTTP upstream *)
(* without TLS has a client certificate and no key.                        *)
AcceptedStarts ==
  step = "failed" =>
    \/ cause \in Parsed \cup {"outbound.identity"}
    \/ cause = "http.tls.key" /\ "http.tls" \notin conf

(* What Validate accepts is sound: closed in production, and it starts     *)
(* unless a value does not parse or one of the two cases is met.           *)
AcceptedIsSound == ProductionIsClosed /\ AcceptedStarts
=============================================================================
