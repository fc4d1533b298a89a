----------------------------- MODULE HttpServer -----------------------------
(***************************************************************************)
(* A request on its way through the HTTP transport: the middleware in the  *)
(* order of NewServer, the handler, and the way back, for several requests *)
(* that share the limiter's buckets and an idempotency key.                *)
(*                                                                         *)
(* A step is one middleware. Request ids, logging, metrics, the security   *)
(* headers and the body limit let every request through and are left out.  *)
(* The authorizer, the limiter and the key store are outside; each may     *)
(* fail. The bursts are those of one period: nothing is refilled.          *)
(*                                                                         *)
(* An operator D_Variant that stands before D is D with one mistake in it. *)
(***************************************************************************)
EXTENDS Naturals, Sequences, FiniteSets, Routes

CONSTANTS
  Requests,
  Inputs,        \* what may arrive: route, credential, key, shape, lacking field
  Configs,       \* limiter, failOpen, authz: the switches of the configuration
  Users,         \* the subjects of valid tokens
  PskRoutes,     \* auth.psk.http_paths
  SkipRoutes,    \* auth.skip_http_paths
  KeyedRoutes,   \* idempotency.http_paths
  Burst          \* of rate_limit.ip, api and user

(* The middleware takes a subject that is empty for none.                  *)
HttpAssumption ==
  /\ IsFiniteSet(Requests) /\ "" \notin Users
  /\ Burst \in [{"ip", "api", "user"} -> Nat]

VARIABLES
  cfg,       \* the configuration of the process
  at,        \* the middleware each request has reached
  req,       \* the request
  subject,   \* the subject its context carries, "" for none
  granted,   \* the authorizer allowed it
  marked,    \* its context carries platform administration
  dead,      \* its deadline has passed
  ran,       \* the service was called for it
  lost,      \* its outcome could not be stored: a panic, or Redis failed
  answers,   \* what was written for it, in order
  used,      \* the tokens taken from each bucket
  store      \* the idempotency key all requests use

vars == <<cfg, at, req, subject, granted, marked, dead, ran, lost, answers, used, store>>

Buckets == {<<"ip", "one">>} \cup ({"api"} \X {i.route : i \in Inputs}) \cup ({"user"} \X (Users \cup {"psk"}))
Free == [state |-> "free", owner |-> "", print |-> <<>>]

Init ==
  /\ cfg \in Configs
  /\ at = [q \in Requests |-> "idle"]
  /\ req \in [Requests -> Inputs]
  /\ subject = [q \in Requests |-> ""]
  /\ granted = [q \in Requests |-> FALSE]
  /\ marked = [q \in Requests |-> FALSE]
  /\ dead = [q \in Requests |-> FALSE]
  /\ ran = [q \in Requests |-> FALSE]
  /\ lost = [q \in Requests |-> FALSE]
  /\ answers = [q \in Requests |-> <<>>]
  /\ used = [b \in Buckets |-> 0]
  /\ store = Free
-----------------------------------------------------------------------------
Goto(q, place) == at' = [at EXCEPT ![q] = place]
Write(q, code) == answers' = [answers EXCEPT ![q] = Append(@, code)]

(* Fail aborts the chain; what stands before it gets control back: the     *)
(* idempotency middleware, when it acquired the key, and Timeout.          *)
Holds(q) == store.state = "processing" /\ store.owner = q
Fail(q, code) == Write(q, code) /\ Goto(q, IF Holds(q) THEN "settle" ELSE "timeout")

Known(q) == req[q].route # "unmatched"

(* IdempotencyKey and CORS stand before Timeout.                           *)
CheckKey(q) ==
  /\ at[q] = "idle"
  /\ IF req[q].shape = "badkey" THEN Write(q, "invalid") /\ Goto(q, "done")
     ELSE Goto(q, "cors") /\ UNCHANGED answers
  /\ UNCHANGED <<cfg, req, subject, granted, marked, dead, ran, lost, used, store>>

CheckOrigin(q) ==
  /\ at[q] = "cors"
  /\ CASE req[q].shape = "foreign" -> Write(q, "forbidden") /\ Goto(q, "done")
       [] req[q].shape = "preflight" -> Write(q, "nocontent") /\ Goto(q, "done")
       [] OTHER -> Goto(q, "json") /\ UNCHANGED answers
  /\ UNCHANGED <<cfg, req, subject, granted, marked, dead, ran, lost, used, store>>

RequireJSON(q) ==
  /\ at[q] = "json"
  /\ IF req[q].shape = "notjson" THEN Fail(q, "mediatype")
     ELSE Goto(q, IF Known(q) THEN "ip" ELSE "timeout") /\ UNCHANGED answers
  /\ UNCHANGED <<cfg, req, subject, granted, marked, dead, ran, lost, used, store>>
-----------------------------------------------------------------------------
(* RateLimit, by client address, by route and by subject                   *)

Bucket(q, dimension) ==
  CASE dimension = "ip" -> <<"ip", "one">>
    [] dimension = "api" -> <<"api", req[q].route>>
    [] OTHER -> <<"user", subject[q]>>

Onward == [ip |-> "api", api |-> "authn", user |-> "idem"]

Exhausted_Late(n, burst) == n > burst
Exhausted(n, burst) == n >= burst

(* The limiter is off, or has no key to count under.                       *)
NotLimited(q, dimension) ==
  /\ at[q] = dimension
  /\ ~cfg.limiter \/ (dimension = "user" /\ subject[q] = "")
  /\ Goto(q, Onward[dimension])
  /\ UNCHANGED <<cfg, req, subject, granted, marked, dead, ran, lost, answers, used, store>>

Limited(q, dimension) ==
  /\ at[q] = dimension /\ cfg.limiter /\ ~(dimension = "user" /\ subject[q] = "")
  /\ LET b == Bucket(q, dimension) IN
       IF Exhausted(used[b], Burst[dimension])
       THEN Fail(q, "toomany") /\ UNCHANGED used
       ELSE /\ used' = [used EXCEPT ![b] = @ + 1]
            /\ Goto(q, Onward[dimension]) /\ UNCHANGED answers
  /\ UNCHANGED <<cfg, req, subject, granted, marked, dead, ran, lost, store>>

(* Redis does not answer.                                                  *)
LimiterFails(q, dimension) ==
  /\ at[q] = dimension /\ cfg.limiter /\ ~(dimension = "user" /\ subject[q] = "")
  /\ IF cfg.failOpen THEN Goto(q, Onward[dimension]) /\ UNCHANGED answers
     ELSE Fail(q, "unavailable")
  /\ UNCHANGED <<cfg, req, subject, granted, marked, dead, ran, lost, used, store>>
-----------------------------------------------------------------------------
(* Authentication: the key of the PSK routes comes before the routes that  *)
(* need no credential, and those before the token.                         *)
Authenticated_SkipFirst(q) ==
  IF req[q].route \in SkipRoutes THEN ""
  ELSE IF req[q].route \in PskRoutes THEN IF req[q].cred = "psk" THEN "psk" ELSE "refused"
  ELSE IF req[q].cred \in Users THEN req[q].cred ELSE "refused"
Authenticated(q) ==
  IF req[q].route \in PskRoutes THEN IF req[q].cred = "psk" THEN "psk" ELSE "refused"
  ELSE IF req[q].route \in SkipRoutes THEN ""
  ELSE IF req[q].cred \in Users THEN req[q].cred ELSE "refused"

Authenticate(q) ==
  /\ at[q] = "authn"
  /\ IF Authenticated(q) = "refused"
     THEN Fail(q, "unauthorized") /\ UNCHANGED subject
     ELSE /\ subject' = [subject EXCEPT ![q] = Authenticated(q)]
          /\ Goto(q, "authz") /\ UNCHANGED answers
  /\ UNCHANGED <<cfg, req, granted, marked, dead, ran, lost, used, store>>

Protected(q) == req[q].route \in DOMAIN tenantHTTPRequirement

(* Authorization: Enforce needs a subject, and asks the authorizer.        *)
Authorize(q) ==
  /\ at[q] = "authz"
  /\ IF cfg.authz /\ Protected(q)
     THEN \/ Fail(q, "forbidden") /\ UNCHANGED <<granted, marked>>
          \/ Fail(q, "unavailable") /\ UNCHANGED <<granted, marked>>
          \/ /\ subject[q] # ""
             /\ granted' = [granted EXCEPT ![q] = TRUE]
             /\ marked' = [marked EXCEPT ![q] = tenantHTTPRequirement[req[q].route].scope = "platform"]
             /\ Goto(q, "user") /\ UNCHANGED answers
     ELSE Goto(q, "user") /\ UNCHANGED <<granted, marked, answers>>
  /\ UNCHANGED <<cfg, req, subject, dead, ran, lost, used, store>>
-----------------------------------------------------------------------------
(* idempotencyFingerprint *)
Fingerprint(q) == <<subject[q], req[q].route, req[q].lacks>>

Unkeyed(q) ==
  /\ at[q] = "idem" /\ ~(req[q].keyed /\ req[q].route \in KeyedRoutes)
  /\ Goto(q, "handler")
  /\ UNCHANGED <<cfg, req, subject, granted, marked, dead, ran, lost, answers, used, store>>

(* IdempotencyExecution: Begin, with the answers it can give.              *)
Begin(q) ==
  /\ at[q] = "idem" /\ req[q].keyed /\ req[q].route \in KeyedRoutes
  /\ CASE store.state = "free" ->
            /\ store' = [state |-> "processing", owner |-> q, print |-> Fingerprint(q)]
            /\ Goto(q, "handler") /\ UNCHANGED answers
       [] store.state # "free" /\ store.print # Fingerprint(q) -> Fail(q, "conflict") /\ UNCHANGED store
       [] store.state = "processing" /\ store.print = Fingerprint(q) -> Fail(q, "inprogress") /\ UNCHANGED store
       [] OTHER -> Fail(q, "replayed") /\ UNCHANGED store
  /\ UNCHANGED <<cfg, req, subject, granted, marked, dead, ran, lost, used>>

(* Redis fails, or what it holds is no response.                           *)
BeginFails(q) ==
  /\ at[q] = "idem" /\ req[q].keyed /\ req[q].route \in KeyedRoutes
  /\ Fail(q, "unavailable")
  /\ UNCHANGED <<cfg, req, subject, granted, marked, dead, ran, lost, used, store>>

(* The handlers that refuse some callers, or a limit, on their own.        *)
Checked == {"SelectTenant", "AcceptInvitation", "SearchMembershipDirectory"}

(* The handler binds the body, then calls the service.                     *)
Bind(q) ==
  /\ at[q] = "handler"
  /\ IF req[q].route \in PlainHandlers THEN Fail(q, "ok")
     ELSE IF req[q].lacks \in RequiredFields[req[q].route] THEN Fail(q, "invalid")
     ELSE \/ Goto(q, "service") /\ UNCHANGED answers
          \/ req[q].route \in Checked /\ Fail(q, "refused")
  /\ UNCHANGED <<cfg, req, subject, granted, marked, dead, ran, lost, used, store>>

(* OK, or Fail with the error the service returned; a deadline that passed *)
(* meanwhile is one more failed statement, an internal error.              *)
Serve(q) ==
  /\ at[q] = "service"
  /\ ran' = [ran EXCEPT ![q] = TRUE]
  /\ \E code \in {"ok", "failed"} : (dead[q] => code = "failed") /\ Fail(q, code)
  /\ UNCHANGED <<cfg, req, subject, granted, marked, dead, lost, used, store>>

(* Recovery stands before Timeout and the idempotency middleware: neither  *)
(* gets control back.                                                      *)
Panic(q) ==
  /\ at[q] = "service"
  /\ ran' = [ran EXCEPT ![q] = TRUE]
  /\ lost' = [lost EXCEPT ![q] = TRUE]
  /\ Write(q, "internal") /\ Goto(q, "done")
  /\ UNCHANGED <<cfg, req, subject, granted, marked, dead, used, store>>

(* The way back: Complete or Fail under a context of its own, that the     *)
(* request's deadline does not reach.                                      *)
CanPersist_InRequest(q) == ~dead[q]
CanPersist(q) == TRUE

Settle(q) ==
  /\ at[q] = "settle"
  /\ store' = IF CanPersist(q) THEN [store EXCEPT !.state = "settled"] ELSE store
  /\ Goto(q, "timeout")
  /\ UNCHANGED <<cfg, req, subject, granted, marked, dead, ran, lost, answers, used>>

SettleFails(q) ==
  /\ at[q] = "settle"
  /\ lost' = [lost EXCEPT ![q] = TRUE]
  /\ Goto(q, "timeout")
  /\ UNCHANGED <<cfg, req, subject, granted, marked, dead, ran, answers, used, store>>

(* Timeout answers only what nobody answered; an unmatched route gets the  *)
(* router's own not found.                                                 *)
Silent_Any(q) == TRUE
Silent(q) == answers[q] = <<>>

Expire(q) ==
  /\ at[q] = "timeout"
  /\ IF dead[q] /\ Silent(q) THEN Write(q, "timeout")
     ELSE IF answers[q] = <<>> THEN Write(q, "notfound") ELSE UNCHANGED answers
  /\ Goto(q, "done")
  /\ UNCHANGED <<cfg, req, subject, granted, marked, dead, ran, lost, used, store>>

Deadline(q) ==
  /\ at[q] \notin {"idle", "cors", "done"} /\ ~dead[q]
  /\ dead' = [dead EXCEPT ![q] = TRUE]
  /\ UNCHANGED <<cfg, at, req, subject, granted, marked, ran, lost, answers, used, store>>

Step(q) ==
  \/ CheckKey(q) \/ CheckOrigin(q) \/ RequireJSON(q)
  \/ \E d \in {"ip", "api", "user"} : NotLimited(q, d) \/ Limited(q, d) \/ LimiterFails(q, d)
  \/ Authenticate(q) \/ Authorize(q) \/ Unkeyed(q) \/ Begin(q) \/ BeginFails(q)
  \/ Bind(q) \/ Serve(q) \/ Panic(q) \/ Settle(q) \/ SettleFails(q) \/ Expire(q)

AllDone == (\A q \in Requests : at[q] = "done") /\ UNCHANGED vars

Next == AllDone \/ \E q \in Requests : Step(q) \/ Deadline(q)

Spec == Init /\ [][Next]_vars
-----------------------------------------------------------------------------
(* The service is called for a request only behind every gate of the chain:*)
(* a PSK route only with the key, also when it is listed as one that needs *)
(* no credential, any other route that is not listed only with a valid     *)
(* token, and a route that names a permission only with the authorizer's   *)
(* consent. Platform administration is granted by a platform-scoped        *)
(* permission alone.                                                       *)
GatesBeforeService ==
  \A q \in Requests :
    /\ ran[q] =>
         /\ req[q].route \in PskRoutes => req[q].cred = "psk"
         /\ req[q].route \notin PskRoutes \cup SkipRoutes => req[q].cred \in Users
         /\ cfg.authz /\ req[q].route \in DOMAIN tenantHTTPRequirement => granted[q]
    /\ marked[q] => granted[q] /\ tenantHTTPRequirement[req[q].route].scope = "platform"

(* Every request is answered once: neither Timeout nor Recovery writes     *)
(* after another part of the chain did, and none ends unanswered.          *)
AnsweredOnce ==
  \A q \in Requests :
    /\ Len(answers[q]) <= 1
    /\ at[q] = "done" => Len(answers[q]) = 1

(* A key is left in processing only by a panic or by a store that fails: a *)
(* request that is refused, or that outlives its deadline, still stores    *)
(* its outcome under the key.                                              *)
KeysSettled ==
  \A q \in Requests : at[q] = "done" /\ Holds(q) => lost[q]

(* A limiter that does not fail open lets no more requests of one subject, *)
(* one route or one address through to the service than its bursts allow,  *)
(* in whatever order they pass the three buckets.                          *)
LimitsHold ==
  cfg.limiter /\ ~cfg.failOpen =>
    /\ Cardinality({q \in Requests : ran[q]}) <= Burst.ip
    /\ \A i \in Inputs : Cardinality({q \in Requests : ran[q] /\ req[q].route = i.route}) <= Burst.api
    /\ \A u \in Users : Cardinality({q \in Requests : ran[q] /\ subject[q] = u}) <= Burst.user

(* No request reaches the service past a gate of the chain or over a limit.*)
NothingUngated == GatesBeforeService /\ LimitsHold

(* A request comes to one end: one answer, and its key settled.            *)
RequestsEnd == AnsweredOnce /\ KeysSettled
=============================================================================
