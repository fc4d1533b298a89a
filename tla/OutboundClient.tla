--------------------------- MODULE OutboundClient ---------------------------
(***************************************************************************)
(* A client of the outbound registry and the calls made through it:        *)
(* internal/outbound/http.go (Do, execute, doWithRetry) and the            *)
(* interceptors of internal/grpcclient/client.go. Retries run inside the   *)
(* breaker, so that one call counts once however often it was sent.        *)
(*                                                                         *)
(* The breaker is gobreaker with MaxRequests and Interval left at their    *)
(* defaults: closed until ReadyToTrip, open until its timeout passes, then *)
(* half open for one call; a result that comes in a later generation than  *)
(* its call is ignored. Whether it asks IsExcluded about a success too is  *)
(* left open: the gRPC client's function would answer yes.                 *)
(*                                                                         *)
(* An operator D_Variant that stands before D is D with one mistake in it. *)
(***************************************************************************)
EXTENDS Naturals, FiniteSets

CONSTANTS
  Calls,
  Plain,              \* the calls with a POST, or an RPC no pattern names, and no key
  Absolute,           \* the HTTP calls whose path is not relative
  MaxAttempts,        \* retry.max_attempts
  Thresholds          \* the values of breaker.failure_threshold that are tried

ClientAssumption ==
  /\ Plain \subseteq Calls /\ Absolute \subseteq Calls
  /\ MaxAttempts \in 1..5            \* validateClientPolicy
  /\ Thresholds \subseteq Nat \ {0}

VARIABLES
  client,    \* the client's configuration: protocol, breaker.enabled, its
             \* threshold, and the library's treatment of successes
  breaker,   \* state, generation, consecutive failures, has the timeout passed
  place,     \* where each call is
  ctx,       \* its context: live, cancelled or past its deadline
  attempt,   \* how many times it was sent
  entered,   \* the generation of the breaker it was let in
  body,      \* the response of its last attempt: none, open or closed
  ans        \* what the caller got

vars == <<client, breaker, place, ctx, attempt, entered, body, ans>>

Http == client.protocol = "http"

(* What one attempt can come to: an answer that is final, a status or code *)
(* that says try later, a failed connection, a timeout, a cancelled        *)
(* context; a gRPC answer is final with a code that is not OK, too.        *)
Outcomes == {"ok", "busy", "broken", "late", "cancelled"} \cup (IF Http THEN {} ELSE {"denied"})

Closed == [state |-> "closed", generation |-> 0, failures |-> 0, due |-> FALSE]

Init ==
  /\ client \in [protocol : {"http", "grpc"}, guarded : BOOLEAN, asksOnSuccess : BOOLEAN,
                threshold : Thresholds]
  /\ breaker = Closed
  /\ place = [c \in Calls |-> "idle"]
  /\ ctx = [c \in Calls |-> "live"]
  /\ attempt = [c \in Calls |-> 0]
  /\ entered = [c \in Calls |-> 0]
  /\ body = [c \in Calls |-> "none"]
  /\ ans = [c \in Calls |-> "none"]
-----------------------------------------------------------------------------
(* retryableMethod and retryGRPCMethod: may this call be sent again?       *)
Repeatable_Always(c) == TRUE
Repeatable(c) == c \notin Plain

(* maxAttempts of doWithRetry; the gRPC interceptor calls once and returns.*)
Budget(c) == IF Repeatable(c) THEN MaxAttempts ELSE 1

(* Which outcomes are tried again: any error and the statuses of           *)
(* retryableHTTPStatus; Unavailable and ResourceExhausted. A connection    *)
(* that fails is Unavailable to gRPC.                                      *)
Retried(o) == IF Http THEN o # "ok" ELSE o \in {"busy", "broken"}

(* IsExcluded, and what is a failure of the rest: the statusError that     *)
(* execute makes of a busy answer counts, and so does a path refused       *)
(* before anything is sent.                                                *)
Excluded(result) ==
  IF Http THEN result = "cancelled"
  ELSE result \notin {"busy", "broken", "late"} /\ (result = "ok" => client.asksOnSuccess)

(* The breaker's answer to a call that asks to be let in.                  *)
Probes ==
  {c \in Calls : place[c] \in {"sending", "waiting"} /\ entered[c] = breaker.generation}

Refuses ==
  \/ breaker.state = "open" /\ ~breaker.due
  \/ breaker.state = "halfopen" /\ Probes # {}

(* setState: a change of state begins a generation with nothing counted.   *)
InState(s) == [state |-> s, generation |-> breaker.generation + 1, failures |-> 0, due |-> FALSE]

(* currentState: the first call after the timeout finds it half open.      *)
AfterTimeout == IF breaker.state = "open" /\ breaker.due THEN InState("halfopen") ELSE breaker

(* afterRequest: what the result of call c does to the breaker.            *)
Counted(c, result) ==
  IF \/ ~client.guarded \/ entered[c] # breaker.generation \/ Excluded(result)
  THEN breaker
  ELSE IF result = "ok"
       THEN IF breaker.state = "halfopen" THEN InState("closed") ELSE [breaker EXCEPT !.failures = 0]
       ELSE IF breaker.state = "halfopen" \/ breaker.failures + 1 >= client.threshold
            THEN InState("open")
            ELSE [breaker EXCEPT !.failures = @ + 1]

End(c, result) ==
  /\ place' = [place EXCEPT ![c] = "done"]
  /\ ans' = [ans EXCEPT ![c] = result]
-----------------------------------------------------------------------------
(* Do, execute: the breaker lets the call in, or refuses it.               *)
Enter(c) ==
  /\ place[c] = "idle"
  /\ client.guarded => ~Refuses
  /\ breaker' = IF client.guarded THEN AfterTimeout ELSE breaker
  /\ entered' = [entered EXCEPT ![c] = breaker'.generation]
  /\ place' = [place EXCEPT ![c] = "sending"]
  /\ UNCHANGED <<client, ctx, attempt, body, ans>>

Refused(c) ==
  /\ place[c] = "idle" /\ client.guarded /\ Refuses
  /\ End(c, "open")
  /\ UNCHANGED <<client, breaker, ctx, attempt, entered, body>>

(* doWithRetry refuses a path with a host, inside the breaker.             *)
BadPath(c) ==
  /\ place[c] = "sending" /\ Http /\ c \in Absolute
  /\ End(c, "badpath")
  /\ breaker' = Counted(c, "badpath")
  /\ UNCHANGED <<client, ctx, attempt, entered, body>>

(* Is the outcome of this attempt the answer to the call?                  *)
Final(c, o) == ~Retried(o) \/ attempt[c] + 1 >= Budget(c)

CanBe(c, o) == IF ctx[c] = "live" THEN TRUE ELSE o \in {"ok", "busy", ctx[c]}

HasResponse(o) == Http /\ o \in {"ok", "busy"}

(* One attempt whose outcome is the answer; execute hands a busy response  *)
(* to the caller although the breaker counted it as a failure.             *)
LastAttempt(c, o) ==
  /\ place[c] = "sending" /\ ~(Http /\ c \in Absolute)
  /\ CanBe(c, o) /\ Final(c, o)
  /\ attempt' = [attempt EXCEPT ![c] = @ + 1]
  /\ body' = [body EXCEPT ![c] = IF HasResponse(o) THEN "open" ELSE "none"]
  /\ End(c, o)
  /\ breaker' = Counted(c, o)
  /\ UNCHANGED <<client, ctx, entered>>

(* One that is to be repeated: its response is drained and closed.         *)
Drained_Not(o) == IF HasResponse(o) THEN "open" ELSE "none"
Drained(o) == IF HasResponse(o) THEN "closed" ELSE "none"

Attempt(c, o) ==
  /\ place[c] = "sending" /\ ~(Http /\ c \in Absolute)
  /\ CanBe(c, o) /\ ~Final(c, o)
  /\ attempt' = [attempt EXCEPT ![c] = @ + 1]
  /\ body' = [body EXCEPT ![c] = Drained(o)]
  /\ place' = [place EXCEPT ![c] = "waiting"]
  /\ UNCHANGED <<client, breaker, ctx, entered, ans>>

(* waitBackoff, waitRetry: the timer fires, or the context ends first. The *)
(* error of a context is no gRPC status, so that breaker leaves it out.    *)
Resume_Ended(c) ==
  /\ place[c] = "waiting" /\ ctx[c] # "live"
  /\ place' = [place EXCEPT ![c] = "sending"]
  /\ UNCHANGED <<client, breaker, ctx, attempt, entered, body, ans>>
Resume(c) ==
  /\ place[c] = "waiting"
  /\ place' = [place EXCEPT ![c] = "sending"]
  /\ UNCHANGED <<client, breaker, ctx, attempt, entered, body, ans>>

GivesUp(c) ==
  /\ place[c] = "waiting" /\ ctx[c] # "live"
  /\ End(c, IF Http THEN ctx[c] ELSE "gaveup")
  /\ breaker' = Counted(c, IF Http THEN ctx[c] ELSE "gaveup")
  /\ UNCHANGED <<client, ctx, attempt, entered, body>>

(* The caller cancels, or the deadline passes: its own, or the one         *)
(* timeoutInterceptor sets on a call that has none.                        *)
ContextEnds(c) ==
  /\ place[c] \in {"sending", "waiting"} /\ ctx[c] = "live"
  /\ \E how \in {"cancelled", "late"} : ctx' = [ctx EXCEPT ![c] = how]
  /\ UNCHANGED <<client, breaker, place, attempt, entered, body, ans>>

OpenTimeout ==
  /\ breaker.state = "open" /\ ~breaker.due
  /\ breaker' = [breaker EXCEPT !.due = TRUE]
  /\ UNCHANGED <<client, place, ctx, attempt, entered, body, ans>>

Step(c) ==
  \/ Enter(c) \/ Refused(c) \/ BadPath(c) \/ Resume(c) \/ GivesUp(c)
  \/ \E o \in Outcomes : LastAttempt(c, o) \/ Attempt(c, o)

AllDone ==
  /\ \A c \in Calls : place[c] = "done"
  /\ UNCHANGED vars

Next == OpenTimeout \/ AllDone \/ \E c \in Calls : Step(c) \/ ContextEnds(c)

Spec == Init /\ [][Next]_vars

(* An attempt comes to an end by the client's timeout or the deadline, a   *)
(* backoff by its timer; nothing says what the upstream answers.           *)
FairSpec == Spec /\ \A c \in Calls : WF_vars(Step(c))
-----------------------------------------------------------------------------
(* Every variable stays in its domain; no call is sent more often than the *)
(* retry policy says.                                                      *)
TypeOK ==
  /\ breaker.state \in {"closed", "open", "halfopen"}
  /\ breaker.failures \in 0..(client.threshold - 1)
  /\ place \in [Calls -> {"idle", "sending", "waiting", "done"}]
  /\ attempt \in [Calls -> 0..MaxAttempts]
  /\ body \in [Calls -> {"none", "open", "closed"}]

(* A POST or an RPC that may not be repeated reaches the upstream at most  *)
(* once, whatever its outcome, and the breaker refuses a call before it    *)
(* is sent at all.                                                         *)
PlainSentOnce ==
  \A c \in Calls :
    /\ c \in Plain => attempt[c] <= 1
    /\ ans[c] = "open" => attempt[c] = 0

(* A response belongs to one party: the caller gets one whose body is open *)
(* and every response that is not handed over was closed, retries and the  *)
(* breaker's detour through statusError included.                          *)
ResponsesOwned ==
  \A c \in Calls :
    /\ place[c] = "done" /\ HasResponse(ans[c]) => body[c] = "open"
    /\ ~(place[c] = "done" /\ HasResponse(ans[c])) => body[c] # "open"

(* Every call that was made comes to an answer, also when the upstream     *)
(* never says anything but try later.                                      *)
EveryCallEnds == \A c \in Calls : place[c] # "idle" ~> place[c] = "done"
=============================================================================
