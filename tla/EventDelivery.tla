--------------------------- MODULE EventDelivery ---------------------------
(***************************************************************************)
(* What the transactional outbox promises to subscribers: an event reaches *)
(* the stream only after the transaction that told it committed, it stays  *)
(* there, and every event of a committed transaction reaches it.           *)
(***************************************************************************)
CONSTANT Events

VARIABLES committed, delivered

vars == <<committed, delivered>>

Init == committed = {} /\ delivered = {}

Commit(e) ==
  /\ e \notin committed
  /\ committed' = committed \cup {e}
  /\ UNCHANGED delivered

Deliver(e) ==
  /\ e \in committed \ delivered
  /\ delivered' = delivered \cup {e}
  /\ UNCHANGED committed

Next == \E e \in Events : Commit(e) \/ Deliver(e)

Safety == Init /\ [][Next]_vars

Spec == Safety /\ \A e \in Events : WF_vars(Deliver(e))
=============================================================================
