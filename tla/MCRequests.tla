----------------------------- MODULE MCRequests -----------------------------
(* HttpServer and Requests in one run: three HTTP requests, a gRPC call of *)
(* every method beside one under a key, three outbound calls, and two      *)
(* selections of a tenant.  They have no variable in common, so a          *)
(* behaviour follows one of them and the others stay in one of their       *)
(* initial states.                                                         *)
EXTENDS HttpServer, Requests, TLC

ASSUME HttpAssumption

CONSTANTS u1, u2, q1, q2, q3, c1, c2, c3

VARIABLE part

-----------------------------------------------------------------------------
In(route, cred, keyed, shape, lacks) ==
  [route |-> route, cred |-> cred, keyed |-> keyed, shape |-> shape, lacks |-> lacks]

Refused == In("ListTenants", "none", FALSE, "badkey", "none")

EveryKind ==
  {In("ListTenants", "none", FALSE, s, "none") : s \in {"badkey", "foreign", "preflight", "notjson"}}
  \cup {In("unmatched", "none", FALSE, "fine", "none"), In("Version", u1, FALSE, "fine", "none"),
        In("SelectTenant", u1, FALSE, "fine", "none"),
        In("CreateGroup", u1, FALSE, "fine", "name"), In("CreateGroup", u1, TRUE, "fine", "none")}
  \cup {In("GetTenant", c, FALSE, "fine", "none") : c \in {"none", u1}}
  \cup {In("GetQuota", c, FALSE, "fine", "none") : c \in {"none", "psk"}}

SameKey == {In("CreateGroup", u1, TRUE, "fine", l) : l \in {"none", "name"}}
           \cup {In("CreateGroup", u2, TRUE, "fine", "none")}

SameBuckets == {In("CreateGroup", u1, FALSE, "fine", "none"), In("GetGroup", u1, FALSE, "fine", "none"),
                In("GetGroup", u2, FALSE, "fine", "none")}

MCInputs == EveryKind \cup SameKey \cup SameBuckets
MCConfigs == {c \in [limiter : BOOLEAN, failOpen : BOOLEAN, authz : BOOLEAN] : c.failOpen => c.limiter}
MCBurst == [ip |-> 2, api |-> 2, user |-> 1]

(* Of the mixes of three requests, those are followed that have one of any *)
(* kind, two under one key, or three that draw on the same buckets; what   *)
(* is not of the mix is refused on arrival.                                *)
Mixed ==
  \/ \E q \in Requests : \A p \in Requests \ {q} : req[p] = Refused
  \/ ~cfg.limiter /\ \E q \in Requests : req[q] = Refused /\ \A p \in Requests \ {q} : req[p] \in SameKey
  \/ cfg.limiter /\ ~cfg.failOpen /\ ~cfg.authz /\ \A q \in Requests : req[q] \in SameBuckets
-----------------------------------------------------------------------------
Called(method, cred, key, given) == [method |-> method, cred |-> cred, key |-> key, status |-> given]

MCCallInputs ==
  {Called(m, u1, "none", "given") : m \in DOMAIN GrpcCalls}
  \cup {Called(m, u1, "none", "unspecified") : m \in {"ListTenants", "UpdateMembership"}}
  \cup {Called("CreateTenant", u1, k, "given") : k \in {"fine", "malformed"}}
  \cup {Called("GetQuota", c, "none", "given") : c \in {"none", "psk"}}
  \cup {Called("GetGroup", "none", "none", "given")}

(* A call of any kind beside one under a key, all that calls share.        *)
MixedCalls == \E c \in Calls : call[c] = Called("CreateTenant", u1, "fine", "given")

(* Without a breaker nothing reads its settings, and an HTTP client has no *)
(* success that is excluded: one value stands for all.                     *)
MixedSending ==
  /\ Client!Http \/ ~client.guarded => client.asksOnSuccess
  /\ ~client.guarded => client.threshold = 1
-----------------------------------------------------------------------------
Idle(set) == CHOOSE x \in set : TRUE

NoHttp == cfg = Idle(Configs) /\ req = [q \in Requests |-> Idle(Inputs)] /\ Init
NoCalls == authz = TRUE /\ call = [c \in Calls |-> Idle(CallInputs)] /\ Grpc!Init
NoSending ==
  /\ client = [protocol |-> "http", guarded |-> TRUE, asksOnSuccess |-> TRUE, threshold |-> Idle(Thresholds)]
  /\ Client!Init

NoSelection ==
  /\ status = [m \in Selection!Members |-> "absent"]
  /\ caller = [r \in Selections |-> Idle(Selection!Callers)]
  /\ wanted = [r \in Selections |-> Idle(Tenants)]
  /\ Selection!Init

MixedInit ==
  /\ part \in {"http", "calls", "sending", "selection"}
  /\ IF part = "http" THEN Init /\ Mixed ELSE NoHttp
  /\ IF part = "calls" THEN Grpc!Init /\ MixedCalls ELSE NoCalls
  /\ IF part = "sending" THEN Client!Init /\ MixedSending ELSE NoSending
  /\ IF part = "selection" THEN Selection!Init ELSE NoSelection

MixedNext ==
  /\ UNCHANGED part
  /\ \/ part = "http" /\ Next /\ UNCHANGED <<calls, sending, selection>>
     \/ part = "calls" /\ Grpc!Next /\ UNCHANGED <<vars, sending, selection>>
     \/ part = "sending" /\ Client!Next /\ UNCHANGED <<vars, calls, selection>>
     \/ part = "selection" /\ Selection!Next /\ UNCHANGED <<vars, calls, sending>>

MixedSpec == MixedInit /\ [][MixedNext]_<<part, vars, calls, sending, selection>>

RequestSymmetry == Permutations(Requests)
=============================================================================
