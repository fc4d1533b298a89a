---------------------------- MODULE QuotaLedger ----------------------------
(***************************************************************************)
(* What a tenant quota promises: a row per key that changes only by        *)
(* setting its limit or by consuming within it, and a log of QuotaChanged  *)
(* events in which consumers can follow every change.  Quota implements    *)
(* this specification with the tables tenant_quotas and the outbox.        *)
(***************************************************************************)
EXTENDS Integers, Sequences

CONSTANTS
  Keys,     \* the quotas, each of one tenant
  Limits,   \* the limits that are set
  Amounts   \* the amounts that are consumed

VARIABLES
  limit, used, version,   \* the row of each key; version 0 for no row
  log                     \* the events of each key, in commit order

vars == <<limit, used, version, log>>

Init ==
  /\ limit = [k \in Keys |-> 0]
  /\ used = [k \in Keys |-> 0]
  /\ version = [k \in Keys |-> 0]
  /\ log = [k \in Keys |-> <<>>]

(* One change of a row and the event that tells of it.                     *)
Write(k, l, u, delta) ==
  /\ limit' = [limit EXCEPT ![k] = l]
  /\ used' = [used EXCEPT ![k] = u]
  /\ version' = [version EXCEPT ![k] = version[k] + 1]
  /\ log' = [log EXCEPT ![k] = Append(log[k],
       [limit |-> l, used |-> u, version |-> version[k] + 1, delta |-> delta])]

(* The limit is set; a quota comes into being this way, with nothing used. *)
SetLimit(k, l) == Write(k, l, used[k], 0)

(* An amount is consumed that fits under the limit.                        *)
Consume(k, a) ==
  /\ version[k] > 0
  /\ used[k] + a <= limit[k]
  /\ Write(k, limit[k], used[k] + a, a)

Next ==
  \E k \in Keys : (\E l \in Limits : SetLimit(k, l)) \/ (\E a \in Amounts : Consume(k, a))

Spec == Init /\ [][Next]_vars
-----------------------------------------------------------------------------
Event == [limit : Nat, used : Nat, version : Nat, delta : Nat]

TypeOK ==
  /\ limit \in [Keys -> Nat]
  /\ used \in [Keys -> Nat]
  /\ version \in [Keys -> Nat]
  /\ log \in [Keys -> Seq(Event)]

(* The log of a key has one event per version, without a gap, and ends in  *)
(* the row: a consumer that has seen version n knows the row at version n, *)
(* and knows how many changes it has missed.                               *)
LogHasEveryVersion ==
  \A k \in Keys :
    /\ Len(log[k]) = version[k]
    /\ \A i \in 1..Len(log[k]) : log[k][i].version = i
    /\ version[k] > 0 => /\ log[k][version[k]].limit = limit[k]
                         /\ log[k][version[k]].used = used[k]
    /\ version[k] = 0 => used[k] = 0

(* The usage told by an event is the usage told by the one before it plus  *)
(* the delta, and a consumption stays within the limit told just before:   *)
(* no interleaving loses, repeats or overdraws a consumption.              *)
UsageAddsUp ==
  \A k \in Keys : \A i \in 1..Len(log[k]) :
    IF i = 1 THEN log[k][i].used = 0 /\ log[k][i].delta = 0
    ELSE /\ log[k][i].used = log[k][i - 1].used + log[k][i].delta
         /\ log[k][i].delta > 0 => /\ log[k][i].limit = log[k][i - 1].limit
                                   /\ log[k][i].used <= log[k][i].limit

(* The ledger is in order.                                                 *)
LedgerInv == TypeOK /\ LogHasEveryVersion /\ UsageAddsUp
=============================================================================
