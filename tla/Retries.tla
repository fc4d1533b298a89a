------------------------------- MODULE Retries -------------------------------
(***************************************************************************)
(* Idempotency under names that leave those of its neighbours free: what   *)
(* repeating a request does, ConsumeQuota's among them.                    *)
(***************************************************************************)
EXTENDS Naturals

CONSTANTS Attempts, NoAttempt, ClientKeys, NoKey, KeyOf, InputOf

VARIABLES layer, enabled, unique, record, lapsed, done, progress, outcome, heard

keys == <<layer, enabled, unique, record, lapsed, done, progress, outcome, heard>>

Idem == INSTANCE Idempotency WITH Keys <- ClientKeys, pc <- progress, ans <- heard

ASSUME KeysAssumption == Idem!IdempotencyAssumption
-----------------------------------------------------------------------------
(* A key lets at most one transaction commit, unless its record has lapsed.*)
OneEffectPerKey == Idem!OneEffectPerKey

(* Who is told ok is told of a transaction that committed for its own      *)
(* input.                                                                  *)
SuccessIsOriginal == Idem!SuccessIsOriginal
=============================================================================
