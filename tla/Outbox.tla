------------------------------- MODULE Outbox -------------------------------
(***************************************************************************)
(* The transactional outbox and its event runtime,                         *)
(* internal/app/eventbus.go, in several replicas over one table.           *)
(*                                                                         *)
(* start makes the bus, then the dispatcher, then the cleaner, and runs    *)
(* the two loops; stop cancels them, waits for them and closes the bus.    *)
(* What one turn of a loop does is the platform's outbox library, modelled *)
(* from its use here: RunOnce leases a batch of rows that are due,         *)
(* publishes each and marks it; the cleaner deletes marked rows that are   *)
(* old enough. With event_bus.enabled off, start and stop do nothing and   *)
(* the rows wait in the table.                                             *)
(*                                                                         *)
(* An operator D_Variant that stands before D is D with one mistake in it. *)
(***************************************************************************)
EXTENDS Naturals, FiniteSets

CONSTANTS
  Events,
  Replicas,
  BatchSize     \* event_bus.dispatch_batch_size

ASSUME OutboxAssumption == BatchSize \in Nat \ {0}

VARIABLES
  row,       \* the row of each event in tenant_outbox_events
  stream,    \* the events in the stream, which keeps one message per identifier
  phase,     \* where the runtime of each replica is
  bus,       \* its connection to the stream
  work,      \* the rows its dispatcher leased and has not dealt with yet
  sent       \* those of them it has published but not marked

vars == <<row, stream, phase, bus, work, sent>>
runtime == <<phase, bus, work, sent>>

Init ==
  /\ row = [e \in Events |-> "none"]
  /\ stream = {}
  /\ phase = [r \in Replicas |-> "off"]
  /\ bus = [r \in Replicas |-> "none"]
  /\ work = [r \in Replicas |-> {}]
  /\ sent = [r \in Replicas |-> {}]
-----------------------------------------------------------------------------
(* A business transaction commits with its event in the table: AddOutbox.  *)
Commit(e) ==
  /\ row[e] = "none"
  /\ row' = [row EXCEPT ![e] = "due"]
  /\ UNCHANGED <<stream, runtime>>

(* start: the bus, the dispatcher and the cleaner were made.               *)
Start(r) ==
  /\ phase[r] = "off"
  /\ phase' = [phase EXCEPT ![r] = "running"]
  /\ bus' = [bus EXCEPT ![r] = "open"]
  /\ UNCHANGED <<row, stream, work, sent>>

(* start returns an error: no bus yet, or one that it closes again.        *)
StartFails(r) ==
  /\ phase[r] = "off"
  /\ \E b \in {"none", "closed"} : bus' = [bus EXCEPT ![r] = b]
  /\ UNCHANGED <<row, stream, phase, work, sent>>

(* stop: the context of the loops is cancelled.                            *)
Cancel(r) ==
  /\ phase[r] = "running"
  /\ phase' = [phase EXCEPT ![r] = "stopping"]
  /\ UNCHANGED <<row, stream, bus, work, sent>>

(* stop: a cancelled turn gives up what is left of its batch.              *)
GiveUp(r) ==
  /\ phase[r] = "stopping" /\ work[r] # {}
  /\ work' = [work EXCEPT ![r] = {}]
  /\ sent' = [sent EXCEPT ![r] = {}]
  /\ UNCHANGED <<row, stream, phase, bus>>

(* stop: wg.Wait, then the bus is closed.                                  *)
LoopsEnded_Unawaited(r) == TRUE
LoopsEnded(r) == work[r] = {}

Close(r) ==
  /\ phase[r] = "stopping" /\ LoopsEnded(r)
  /\ phase' = [phase EXCEPT ![r] = "off"]
  /\ bus' = [bus EXCEPT ![r] = "closed"]
  /\ UNCHANGED <<row, stream, work, sent>>

(* The replica dies.                                                       *)
Crash(r) ==
  /\ phase[r] # "off"
  /\ phase' = [phase EXCEPT ![r] = "off"]
  /\ bus' = [bus EXCEPT ![r] = "none"]
  /\ work' = [work EXCEPT ![r] = {}]
  /\ sent' = [sent EXCEPT ![r] = {}]
  /\ UNCHANGED <<row, stream>>
-----------------------------------------------------------------------------
(* One turn of dispatch: RunOnce *)

Due_Uncommitted(e) == row[e] \in {"none", "due"}
Due(e) == row[e] = "due"

Claim(r, batch) ==
  /\ phase[r] = "running" /\ work[r] = {}
  /\ batch # {} /\ Cardinality(batch) <= BatchSize
  /\ \A e \in batch : Due(e)
  /\ row' = [e \in Events |-> IF e \in batch THEN "leased" ELSE row[e]]
  /\ work' = [work EXCEPT ![r] = batch]
  /\ UNCHANGED <<stream, phase, bus, sent>>

ClaimSome(r, e) == \E batch \in SUBSET Events : e \in batch /\ Claim(r, batch)

Publish(r, e) ==
  /\ e \in work[r] \ sent[r]
  /\ stream' = stream \cup {e}
  /\ sent' = [sent EXCEPT ![r] = @ \cup {e}]
  /\ UNCHANGED <<row, phase, bus, work>>

(* The stream has the message or has it not, but the dispatcher got no     *)
(* acknowledgement: the row is due again after the retry delay.            *)
PublishFails(r, e) ==
  /\ e \in work[r] \ sent[r]
  /\ stream' \in {stream, stream \cup {e}}
  /\ row' = [row EXCEPT ![e] = IF @ = "published" \/ @ = "deleted" THEN @ ELSE "due"]
  /\ work' = [work EXCEPT ![r] = @ \ {e}]
  /\ UNCHANGED <<phase, bus, sent>>

(* Only what was published is marked.                                      *)
Markable(r) == sent[r]

(* The mark is stored, or its statement fails and the lease runs out.      *)
Mark(r, e) ==
  /\ e \in Markable(r)
  /\ row' \in {row, [row EXCEPT ![e] = IF @ = "deleted" THEN @ ELSE "published"]}
  /\ work' = [work EXCEPT ![r] = @ \ {e}]
  /\ sent' = [sent EXCEPT ![r] = @ \ {e}]
  /\ UNCHANGED <<stream, phase, bus>>

(* The lease of a row passes while it is not marked, whoever holds it.     *)
LeaseEnds_Never(e) == FALSE /\ UNCHANGED vars
LeaseEnds(e) ==
  /\ row[e] = "leased"
  /\ row' = [row EXCEPT ![e] = "due"]
  /\ UNCHANGED <<stream, runtime>>

(* One turn of clean: rows whose published_at is older than the retention. *)
Cleanable_Old(e) == row[e] # "none"
Cleanable(e) == row[e] = "published"

Clean(r, e) ==
  /\ phase[r] = "running" /\ Cleanable(e)
  /\ row' = [row EXCEPT ![e] = "deleted"]
  /\ UNCHANGED <<stream, runtime>>

Turn(r) == \E e \in Events : ClaimSome(r, e) \/ Publish(r, e) \/ PublishFails(r, e) \/ Mark(r, e) \/ Clean(r, e)

Next ==
  \/ \E e \in Events : Commit(e) \/ LeaseEnds(e)
  \/ \E r \in Replicas : Start(r) \/ StartFails(r) \/ Cancel(r) \/ GiveUp(r) \/ Close(r) \/ Crash(r) \/ Turn(r)

Spec == Init /\ [][Next]_vars

(* Replicas are started again, their loops take their turns, rows that are *)
(* due are claimed by one of them, and the stream accepts a message that   *)
(* is tried often enough; leases are measured by the clock of the          *)
(* database.                                                               *)
FairSpec ==
  /\ Spec
  /\ \A r \in Replicas : WF_vars(Start(r)) /\ WF_vars(GiveUp(r)) /\ WF_vars(Close(r))
  /\ \A e \in Events :
       /\ WF_vars(LeaseEnds(e)) /\ \A r \in Replicas : WF_vars(Mark(r, e))
       /\ SF_vars(\E r \in Replicas : ClaimSome(r, e)) /\ SF_vars(\E r \in Replicas : Publish(r, e))
-----------------------------------------------------------------------------
(* Every variable stays in its domain.                                     *)
TypeOK ==
  /\ row \in [Events -> {"none", "due", "leased", "published", "deleted"}]
  /\ stream \subseteq Events
  /\ phase \in [Replicas -> {"off", "running", "stopping"}]
  /\ bus \in [Replicas -> {"none", "open", "closed"}]
  /\ work \in [Replicas -> SUBSET Events] /\ sent \in [Replicas -> SUBSET Events]

(* No event is lost: a row that is marked, or cleaned away, is one whose   *)
(* message is in the stream, and what is in the stream was committed.      *)
MarkedMeansDelivered ==
  /\ \A e \in Events : row[e] \in {"published", "deleted"} => e \in stream
  /\ \A e \in stream : row[e] # "none"

(* The dispatcher never publishes through a bus that stop has closed.      *)
BusOutlivesDispatch == \A r \in Replicas : work[r] # {} => bus[r] = "open"

Delivery == INSTANCE EventDelivery WITH
  committed <- {e \in Events : row[e] # "none"}, delivered <- stream

(* The outbox with its dispatchers delivers, as EventDelivery says: only   *)
(* what was committed, for good, and in the end all of it, over crashes,   *)
(* lost acknowledgements and restarts of every replica.                    *)
ImplementsDelivery == Delivery!Spec

(* The safety half of it.                                                  *)
DeliversOnlyCommitted == Delivery!Safety
=============================================================================
