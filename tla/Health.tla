------------------------------- MODULE Health -------------------------------
(***************************************************************************)
(* The readiness probe: two concurrent checks with timeouts of their own,  *)
(* while the database and Redis come and go. GET and POST /ready and the   *)
(* gRPC Health/Check both ask it.                                          *)
(*                                                                         *)
(* An operator D_Variant that stands before D is D with one mistake in it. *)
(***************************************************************************)
EXTENDS Naturals

CONSTANTS Probes,     \* the requests and calls
          MaxTurns    \* bound on the turns of a dependency

Dependencies == {"database", "redis"}

VARIABLES
  enabled,   \* the dependencies that are configured
  state,     \* per dependency: up, down or hangs
  turns,     \* how often a state has changed
  pc,        \* per probe: idle, waiting or answered
  ended,     \* the probes whose own deadline has passed or whose caller has gone
  result,    \* per probe and dependency: none, disabled, up or down
  ready,     \* per probe: the answer
  seen       \* history: per probe, the <<dependency, state>> since it began

outside == <<state, turns>>
vars == <<enabled, outside, pc, ended, result, ready, seen>>

Now == {<<d, state[d]>> : d \in Dependencies}

Init ==
  /\ enabled \in SUBSET Dependencies
  /\ state = [d \in Dependencies |-> "up"] /\ turns = 0
  /\ pc = [p \in Probes |-> "idle"] /\ ended = {}
  /\ result = [p \in Probes |-> [d \in Dependencies |-> "none"]]
  /\ ready = [p \in Probes |-> FALSE] /\ seen = [p \in Probes |-> {}]

Turn(d, s) ==
  /\ turns < MaxTurns /\ s # state[d]
  /\ turns' = turns + 1 /\ state' = [state EXCEPT ![d] = s]
  /\ seen' = [p \in Probes |-> IF pc[p] = "waiting" THEN seen[p] \cup {<<d, s>>} ELSE seen[p]]
  /\ UNCHANGED <<enabled, pc, ended, result, ready>>

(* Ready starts both checks; one without a client answers at once.         *)
Ready(p) ==
  /\ pc[p] = "idle"
  /\ pc' = [pc EXCEPT ![p] = "waiting"] /\ seen' = [seen EXCEPT ![p] = Now]
  /\ result' = [result EXCEPT ![p] = [d \in Dependencies |-> IF d \in enabled THEN "none" ELSE "disabled"]]
  /\ UNCHANGED <<enabled, outside, ended, ready>>

Pinging(p, d) == pc[p] = "waiting" /\ result[p][d] = "none"

checkResult(p, d, status) ==
  /\ result' = [result EXCEPT ![p][d] = status]
  /\ UNCHANGED <<enabled, outside, pc, ended, ready, seen>>

Ping(p, d) == Pinging(p, d) /\ state[d] # "hangs" /\ checkResult(p, d, state[d])

(* A check that hangs ends with its own timeout.                           *)
HasTimeout_Database(d) == d = "database"
HasTimeout(d) == TRUE
Timeout(p, d) == Pinging(p, d) /\ state[d] = "hangs" /\ HasTimeout(d) /\ checkResult(p, d, "down")

(* The context of the request ends, and every check under way with it.     *)
ContextEnds(p) ==
  /\ pc[p] = "waiting" /\ p \notin ended /\ ended' = ended \cup {p}
  /\ UNCHANGED <<enabled, outside, pc, result, ready, seen>>
Cancelled(p, d) == Pinging(p, d) /\ p \in ended /\ checkResult(p, d, "down")

Usable_Up(results) == \A d \in Dependencies : results[d] = "up"
Usable(results) == \A d \in Dependencies : results[d] # "down"

(* Ready takes both results, in either order.                              *)
Collected_First(p) == \E d \in Dependencies : result[p][d] # "none"
Collected(p) == \A d \in Dependencies : result[p][d] # "none"

Answer(p) ==
  /\ pc[p] = "waiting" /\ Collected(p)
  /\ pc' = [pc EXCEPT ![p] = "answered"] /\ ready' = [ready EXCEPT ![p] = Usable(result[p])]
  /\ UNCHANGED <<enabled, outside, ended, result, seen>>

Step(p) == Ready(p) \/ ContextEnds(p) \/ Answer(p) \/
           \E d \in Dependencies : Ping(p, d) \/ Timeout(p, d) \/ Cancelled(p, d)

Done == (\A p \in Probes : pc[p] = "answered") /\ UNCHANGED vars

Next == (\E p \in Probes : Step(p)) \/ (\E d \in Dependencies, s \in {"up", "down", "hangs"} : Turn(d, s)) \/ Done
Spec == Init /\ [][Next]_vars

(* Goroutines run, a reachable dependency answers, timers fire.            *)
Fairness == \A p \in Probes : /\ WF_vars(Answer(p))
                              /\ \A d \in Dependencies : WF_vars(Ping(p, d) \/ Timeout(p, d))
FairSpec == Spec /\ Fairness
-----------------------------------------------------------------------------
(* A probe that says ready has found each dependency up at some moment of  *)
(* the probe; the moments may differ.                                      *)
ReadyWasUp ==
  \A p \in Probes : pc[p] = "answered" /\ ready[p] => \A d \in enabled : <<d, "up">> \in seen[p]

(* A probe that says not ready has a cause: an enabled dependency was not  *)
(* up during the probe, or the caller's context ended.                     *)
NotReadyHasCause ==
  \A p \in Probes : pc[p] = "answered" /\ ~ready[p] =>
    p \in ended \/ \E d \in enabled : seen[p] \cap {<<d, "down">>, <<d, "hangs">>} # {}

(* The probe of /readyz answers what was so at some moment while it ran.   *)
ReadyIsTrue == ReadyWasUp /\ NotReadyHasCause

(* Every probe is answered, also while a dependency hangs for good.        *)
ProbesAnswer == \A p \in Probes : pc[p] = "waiting" ~> pc[p] = "answered"
=============================================================================
