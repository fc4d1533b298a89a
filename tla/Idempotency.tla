---------------------------- MODULE Idempotency ----------------------------
(***************************************************************************)
(* Idempotency keys, as Service.Create of internal/tenant/service.go and   *)
(* the middleware IdempotencyExecution of                                  *)
(* internal/transport/http/middleware.go use them: Begin claims the key in *)
(* Redis, the business transaction runs, and Complete or Fail stores its   *)
(* outcome under a context of its own.                                     *)
(*                                                                         *)
(* The manager is a library; Begun, Stores and Lapse are its scripts as    *)
(* the two callers rely on them.  An attempt is one delivery of a client's *)
(* request: a retry, or a duplicate made on the way, is another attempt    *)
(* with the same key and the same input.                                   *)
(*                                                                         *)
(* An operator D_Variant that stands before D is D with one mistake in it. *)
(***************************************************************************)
EXTENDS Naturals

CONSTANTS
  Attempts, NoAttempt,
  Keys, NoKey,
  KeyOf,       \* the key each attempt carries, NoKey for none
  InputOf      \* its fingerprint: caller, operation and body

IdempotencyAssumption ==
  /\ NoAttempt \notin Attempts /\ NoKey \notin Keys
  /\ KeyOf \in [Attempts -> Keys \cup {NoKey}]
  /\ DOMAIN InputOf = Attempts

VARIABLES
  layer,      \* which of the two callers this is
  enabled,    \* the manager is configured
  unique,     \* a unique key of the database admits one effect per input
  record,     \* the record of each key in Redis
  lapsed,     \* the keys of which a record has lapsed
  done,       \* the attempts whose transaction committed
  pc,         \* where each attempt is
  outcome,    \* what its transaction told it
  ans         \* what the client was told

setup == <<layer, enabled, unique>>
vars == <<setup, record, lapsed, done, pc, outcome, ans>>

NoRecord == [state |-> "none", input |-> "none", owner |-> NoAttempt, by |-> NoAttempt]
NoAnswer == [kind |-> "none", by |-> NoAttempt]
Own(a, kind) == [kind |-> kind, by |-> a]

Init ==
  /\ layer \in {"service", "http"}
  /\ enabled \in BOOLEAN
  /\ unique \in (IF layer = "service" THEN {TRUE} ELSE BOOLEAN)
  /\ lapsed = {}
  /\ record = [k \in Keys |-> NoRecord]
  /\ done = {}
  /\ pc = [a \in Attempts |-> "new"]
  /\ outcome = [a \in Attempts |-> "none"]
  /\ ans = [a \in Attempts |-> NoAnswer]

Goto(a, place, answer) ==
  /\ pc' = [pc EXCEPT ![a] = place]
  /\ ans' = [ans EXCEPT ![a] = answer]
-----------------------------------------------------------------------------
(* Without a key both run the operation.  With one and no manager, Create  *)
(* refuses and the middleware passes the request on.                       *)
Unguarded(a) == KeyOf[a] = NoKey \/ (~ enabled /\ layer = "http")

StartUnguarded(a) ==
  /\ pc[a] = "new" /\ Unguarded(a)
  /\ Goto(a, "run", NoAnswer)
  /\ UNCHANGED <<setup, record, lapsed, done, outcome>>

(* The manager is absent, or Redis does not answer.                        *)
Unavailable(a) ==
  /\ pc[a] = "new" /\ ~ Unguarded(a)
  /\ Goto(a, "end", Own(a, "unavailable"))
  /\ UNCHANGED <<setup, record, lapsed, done, outcome>>

(* The decision of Begin: it is one script, so claiming is atomic.         *)
Decision_IgnoresInput(a) ==
  IF record[KeyOf[a]].state = "none" THEN "acquired" ELSE record[KeyOf[a]].state
Decision_Twice(a) ==
  LET r == record[KeyOf[a]]
  IN IF r.state \in {"none", "processing"} THEN "acquired" ELSE IF r.input # InputOf[a] THEN "conflict" ELSE r.state
Decision(a) ==
  LET r == record[KeyOf[a]]
  IN IF r.state = "none" THEN "acquired" ELSE IF r.input # InputOf[a] THEN "conflict" ELSE r.state

Acquire(a) ==
  /\ pc[a] = "new" /\ ~ Unguarded(a) /\ enabled
  /\ Decision(a) = "acquired"
  /\ record' = [record EXCEPT ![KeyOf[a]] =
                  [state |-> "processing", input |-> InputOf[a], owner |-> a, by |-> NoAttempt]]
  /\ Goto(a, "run", NoAnswer)
  /\ UNCHANGED <<setup, lapsed, done, outcome>>

(* A completed or failed record is replayed; a key in use or used for      *)
(* another request is refused.                                             *)
Replay(a) ==
  /\ pc[a] = "new" /\ ~ Unguarded(a) /\ enabled
  /\ Decision(a) \in {"completed", "failed", "processing", "conflict"}
  /\ Goto(a, "end", CASE Decision(a) = "completed" -> Own(record[KeyOf[a]].by, "ok")
                      [] Decision(a) = "failed" -> Own(record[KeyOf[a]].by, outcome[record[KeyOf[a]].by])
                      [] OTHER -> Own(a, Decision(a)))
  /\ UNCHANGED <<setup, record, lapsed, done, outcome>>
-----------------------------------------------------------------------------
(* createOnce, or the handler: one transaction.  Its acknowledgement may   *)
(* get lost.  Where there is a unique key, as that of a tenant's code, it  *)
(* refuses a second effect of the same input.                              *)
Taken(a) == unique /\ \E b \in done : InputOf[b] = InputOf[a]

Execute(a) ==
  /\ pc[a] = "run" /\ ~ Taken(a)
  /\ done' = done \cup {a}
  /\ \E o \in {"ok", "failed"} : outcome' = [outcome EXCEPT ![a] = o]
  /\ Goto(a, IF Unguarded(a) THEN "reply" ELSE "store", NoAnswer)
  /\ UNCHANGED <<setup, record, lapsed>>

ExecuteFails(a) ==
  /\ pc[a] = "run"
  /\ outcome' = [outcome EXCEPT ![a] = IF Taken(a) THEN "refused" ELSE "failed"]
  /\ Goto(a, IF Unguarded(a) THEN "reply" ELSE "store", NoAnswer)
  /\ UNCHANGED <<setup, record, lapsed, done>>

(* Complete and Fail write only the record their own Begin made.           *)
Stores_Anyone(a) == TRUE
Stores(a) == record[KeyOf[a]].state = "processing" /\ record[KeyOf[a]].owner = a

StateFor(o) == IF o = "ok" THEN "completed" ELSE "failed"

(* The outcome is stored, or the error of storing it is logged; either way *)
(* the client is answered with the outcome.                                *)
Finish(a) ==
  /\ pc[a] = "store"
  /\ \/ /\ Stores(a)
        /\ record' = [record EXCEPT ![KeyOf[a]] =
                        [state |-> StateFor(outcome[a]), input |-> @.input, owner |-> @.owner, by |-> a]]
     \/ UNCHANGED record
  /\ Goto(a, "reply", ans[a])
  /\ UNCHANGED <<setup, lapsed, done, outcome>>

(* The middleware's client may have the response before it is stored.      *)
Reply(a) ==
  /\ \/ pc[a] = "reply" /\ Goto(a, "end", Own(a, outcome[a]))
     \/ pc[a] = "store" /\ layer = "http" /\ ans[a] = NoAnswer /\ Goto(a, "store", Own(a, outcome[a]))
  /\ UNCHANGED <<setup, record, lapsed, done, outcome>>

(* The replica dies.                                                       *)
Crash(a) ==
  /\ pc[a] \in {"run", "store", "reply"}
  /\ Goto(a, "end", ans[a])
  /\ UNCHANGED <<setup, record, lapsed, done, outcome>>

(* The processing, result or failure time of a record passes.              *)
Lapse_KeepsProcessing(k) ==
  /\ record[k].state \in {"completed", "failed"}
  /\ record' = [record EXCEPT ![k] = NoRecord]
  /\ lapsed' = lapsed \cup {k}
  /\ UNCHANGED <<setup, done, pc, outcome, ans>>
Lapse(k) ==
  /\ record[k].state # "none"
  /\ record' = [record EXCEPT ![k] = NoRecord]
  /\ lapsed' = lapsed \cup {k}
  /\ UNCHANGED <<setup, done, pc, outcome, ans>>

Serve(a) ==
  StartUnguarded(a) \/ Unavailable(a) \/ Acquire(a) \/ Replay(a) \/ Execute(a) \/ ExecuteFails(a) \/ Finish(a) \/ Reply(a)

Terminated == (\A a \in Attempts : pc[a] = "end") /\ UNCHANGED vars

Next ==
  \/ \E a \in Attempts : Serve(a) \/ Crash(a)
  \/ \E k \in Keys : Lapse(k)
  \/ Terminated

Spec == Init /\ [][Next]_vars

(* A request that was taken up is served on (every call it makes has a     *)
(* deadline), and Redis lets keys lapse.                                   *)
FairSpec ==
  /\ Spec
  /\ \A a \in Attempts : WF_vars(Serve(a))
  /\ \A k \in Keys : WF_vars(Lapse(k))
-----------------------------------------------------------------------------
(* Every variable stays in its domain.                                     *)
TypeOK ==
  /\ layer \in {"service", "http"} /\ enabled \in BOOLEAN /\ unique \in BOOLEAN /\ lapsed \subseteq Keys
  /\ \A k \in Keys : /\ record[k].state \in {"none", "processing", "completed", "failed"}
                     /\ record[k].owner \in Attempts \cup {NoAttempt}
                     /\ record[k].by \in Attempts \cup {NoAttempt}
  /\ done \subseteq Attempts
  /\ pc \in [Attempts -> {"new", "run", "store", "reply", "end"}]
  /\ outcome \in [Attempts -> {"none", "ok", "failed", "refused"}]
  /\ ans \in [Attempts -> [kind : {"none", "ok", "failed", "refused", "unavailable", "processing", "conflict"},
                           by : Attempts \cup {NoAttempt}]]

(* Until a record of it lapses, a key lets at most one of the attempts     *)
(* that carry it have an effect, whatever dies or gets lost, and even where*)
(* the database itself would let both (a consumption of a quota).          *)
OneEffectPerKey ==
  enabled => \A a, b \in done : KeyOf[a] = KeyOf[b] /\ KeyOf[a] \in Keys \ lapsed => a = b

(* An expired worker cannot overwrite a newer owner: the outcome in a      *)
(* record is that of the attempt that claimed the record.                  *)
OutcomeIsOwners ==
  \A k \in Keys : record[k].state \in {"completed", "failed"} => record[k].by = record[k].owner

(* "the same key and request replays the original business result": an     *)
(* answer of success, the client's own or a replayed one, names an attempt *)
(* that committed and had the same key and the same input.                 *)
SuccessIsOriginal ==
  \A a \in Attempts : ans[a].kind = "ok" =>
    LET b == ans[a].by IN b \in done /\ KeyOf[b] = KeyOf[a] /\ InputOf[b] = InputOf[a]

(* A key does not stay in use: whoever claimed it finishes or lapses.      *)
KeysComeFree == \A k \in Keys : (record[k].state = "processing") ~> (record[k].state # "processing")
=============================================================================
