------------------------------ MODULE MCQuota ------------------------------
(* Quota and Retries in one run: one quota and two requests, and three     *)
(* attempts under one key.  They have no variable in common, so a          *)
(* behaviour follows one of them and the other stays in one of its initial *)
(* states.                                                                 *)
EXTENDS Quota, Retries, TLC

CONSTANTS t1, a1, a2, a3, k1

VARIABLE part

(* One user, bound to the tenant.                                          *)
MCPrincipals == {[type |-> "user", tenant |-> t1, platform |-> FALSE]}

(* A request is sent twice, and another uses its key for another input.    *)
MCKeyOf == a1 :> k1 @@ a2 :> k1 @@ a3 :> k1
MCInputOf == a1 :> "x" @@ a2 :> "x" @@ a3 :> "y"
-----------------------------------------------------------------------------
NoKeys == layer = "service" /\ enabled = TRUE /\ Idem!Init

MCInit ==
  /\ part \in {"quota", "keys"}
  /\ Init
  /\ IF part = "keys" THEN Idem!Init ELSE NoKeys

MCNext ==
  /\ UNCHANGED part
  /\ \/ part = "quota" /\ Next /\ UNCHANGED keys
     \/ part = "keys" /\ Idem!Next /\ UNCHANGED vars

MCSpec == MCInit /\ [][MCNext]_<<part, vars, keys>>
=============================================================================
