----------------------------- MODULE GrpcServer -----------------------------
(***************************************************************************)
(* A unary call on its way through the gRPC transport: the interceptors in *)
(* the order of NewServer, the method of tenantServer, and the status the  *)
(* caller gets. Calls share one idempotency key.                           *)
(*                                                                         *)
(* Request ids, the environment and metrics let every call through and are *)
(* left out. The authorizer's and the idempotency interceptor are those of *)
(* the platform library: they are modelled by the answers they can give.   *)
(*                                                                         *)
(* An operator D_Variant that stands before D is D with one mistake in it. *)
(***************************************************************************)
EXTENDS Naturals, FiniteSets, Routes

CONSTANTS
  Calls,
  Inputs,        \* what may arrive: method, credential, key, status
  Users,         \* the subjects of valid tokens
  PskMethods,    \* auth.psk.grpc_methods
  SkipMethods,   \* auth.skip_grpc_methods
  KeyedMethods   \* idempotency.grpc_methods

VARIABLES
  authz,     \* authorization.enabled
  at,        \* the interceptor each call has reached
  req,       \* the call
  subject,   \* the principal its context carries, "" for none
  asked,     \* the permission the authorizer granted it, {} for none
  outcome,   \* what the service returned, "" before it did
  answer,    \* the status code the caller got, "" before it did
  holder     \* the calls that hold the key

vars == <<authz, at, req, subject, asked, outcome, answer, holder>>

Init ==
  /\ authz \in BOOLEAN
  /\ at = [c \in Calls |-> "key"]
  /\ req \in [Calls -> Inputs]
  /\ subject = [c \in Calls |-> ""]
  /\ asked = [c \in Calls |-> {}]
  /\ outcome = [c \in Calls |-> ""]
  /\ answer = [c \in Calls |-> ""]
  /\ holder = {}
-----------------------------------------------------------------------------
Goto(c, place) == at' = [at EXCEPT ![c] = place] /\ UNCHANGED answer
Return(c, code) ==
  /\ answer' = [answer EXCEPT ![c] = code]
  /\ at' = [at EXCEPT ![c] = "done"]

CheckKey(c) ==
  /\ at[c] = "key"
  /\ IF req[c].key = "malformed" THEN Return(c, "InvalidArgument") ELSE Goto(c, "auth")
  /\ UNCHANGED <<authz, req, subject, asked, outcome, holder>>

(* authenticateGRPC: the methods that take the key, then those that need   *)
(* no credential, then the token.                                          *)
Caller_SkipFirst(c) ==
  IF req[c].method \in SkipMethods THEN ""
  ELSE IF req[c].method \in PskMethods THEN IF req[c].cred = "psk" THEN "psk" ELSE "refused"
  ELSE IF req[c].cred \in Users THEN req[c].cred ELSE "refused"
Caller(c) ==
  IF req[c].method \in PskMethods THEN IF req[c].cred = "psk" THEN "psk" ELSE "refused"
  ELSE IF req[c].method \in SkipMethods THEN ""
  ELSE IF req[c].cred \in Users THEN req[c].cred ELSE "refused"

Authenticate(c) ==
  /\ at[c] = "auth"
  /\ IF Caller(c) = "refused"
     THEN Return(c, "Unauthenticated") /\ UNCHANGED subject
     ELSE subject' = [subject EXCEPT ![c] = Caller(c)] /\ Goto(c, "authz")
  /\ UNCHANGED <<authz, req, asked, outcome, holder>>

(* The interceptor of platformauthz with the table of tenantGRPCRequirement*)
Needs(c) == authz /\ req[c].method \in DOMAIN tenantGRPCRequirement

Unprotected(c) ==
  /\ at[c] = "authz" /\ ~Needs(c) /\ Goto(c, "idem")
  /\ UNCHANGED <<authz, req, subject, asked, outcome, holder>>

Granted(c) ==
  /\ at[c] = "authz" /\ Needs(c) /\ subject[c] # ""
  /\ asked' = [asked EXCEPT ![c] = {tenantGRPCRequirement[req[c].method]}]
  /\ Goto(c, "idem")
  /\ UNCHANGED <<authz, req, subject, outcome, holder>>

Denied(c) ==
  /\ at[c] = "authz" /\ Needs(c)
  /\ \E code \in {"PermissionDenied", "Unavailable"} : Return(c, code)
  /\ UNCHANGED <<authz, req, subject, asked, outcome, holder>>

(* The interceptor of platformidempotency                                  *)
Keyed(c) == req[c].key = "fine" /\ req[c].method \in KeyedMethods

Begin(c) ==
  /\ at[c] = "idem"
  /\ Keyed(c) => holder = {}
  /\ holder' = IF Keyed(c) THEN {c} ELSE holder
  /\ Goto(c, "method")
  /\ UNCHANGED <<authz, req, subject, asked, outcome>>

Repeat(c) ==
  /\ at[c] = "idem" /\ Keyed(c)
  /\ \/ holder # {} /\ \E code \in {"OK", "Aborted"} : Return(c, code)
     \/ Return(c, "Unavailable")
  /\ UNCHANGED <<authz, req, subject, asked, outcome, holder>>
-----------------------------------------------------------------------------
(* What the service can return. An update without a status carries the     *)
(* text "unspecified", which no status is; so does a list.                 *)
Outcomes == {"ok", "invalid", "notfound", "conflict", "stale", "forbidden", "unavailable", "internal"}
Statused == {"ListTenants", "UpdateTenant", "ListMemberships", "UpdateMembership"}

Possible(c) ==
  {o \in Outcomes :
     /\ o = "stale" => GrpcCalls[req[c].method] \in Versioned
     /\ req[c].method \in Statused /\ req[c].status = "unspecified" => o = "invalid"}

grpcError_Vague(o) ==
  CASE o = "ok" -> "OK" [] o = "invalid" -> "InvalidArgument" [] o = "notfound" -> "NotFound"
    [] o = "conflict" -> "Aborted" [] OTHER -> "Unavailable"
grpcError(o) ==
  CASE o = "ok" -> "OK" [] o = "invalid" -> "InvalidArgument" [] o = "notfound" -> "NotFound"
    [] o = "conflict" -> "Aborted" [] o = "unavailable" -> "Unavailable" [] OTHER -> "Internal"

(* GetInvitation and GetGroupMember hand the error on as it is, and        *)
(* ValidateMembership answers valid or not valid.                          *)
Status(c, o) ==
  CASE req[c].method = "ValidateMembership" -> "OK"
    [] req[c].method \in {"GetInvitation", "GetGroupMember"} /\ o # "ok" -> "Unknown"
    [] OTHER -> grpcError(o)

Call(c) ==
  /\ at[c] = "method"
  /\ \E o \in Possible(c) : outcome' = [outcome EXCEPT ![c] = o] /\ Return(c, Status(c, o))
  /\ UNCHANGED <<authz, req, subject, asked, holder>>

Panic(c) ==
  /\ at[c] = "method"
  /\ outcome' = [outcome EXCEPT ![c] = "panic"] /\ Return(c, "Internal")
  /\ UNCHANGED <<authz, req, subject, asked, holder>>

Step(c) ==
  \/ CheckKey(c) \/ Authenticate(c) \/ Unprotected(c) \/ Granted(c) \/ Denied(c)
  \/ Begin(c) \/ Repeat(c) \/ Call(c) \/ Panic(c)

AllDone == (\A c \in Calls : at[c] = "done") /\ UNCHANGED vars
Next == AllDone \/ \E c \in Calls : Step(c)
Spec == Init /\ [][Next]_vars
-----------------------------------------------------------------------------
(* A method of the service runs only behind every interceptor: with the    *)
(* key on a method that takes it, also when the method is listed as one    *)
(* that needs no credential, with a token on any other that is not listed, *)
(* and with the permission the table names for it.                         *)
GatesBeforeMethod ==
  \A c \in Calls : outcome[c] # "" =>
    /\ req[c].method \in PskMethods => req[c].cred = "psk"
    /\ req[c].method \notin PskMethods \cup SkipMethods => req[c].cred \in Users
    /\ Needs(c) => asked[c] # {}

(* The permission asked for an operation over gRPC is the one that is      *)
(* asked for it over HTTP, wherever both transports protect it.            *)
SamePermission ==
  \A c \in Calls : \A r \in asked[c] : \A h \in DOMAIN tenantHTTPRequirement :
    HttpCalls[h] = GrpcCalls[req[c].method] => r = tenantHTTPRequirement[h]

(* Unavailable is the status on which clients repeat a call. It is given   *)
(* only when the service did not run or said that something it needs is    *)
(* not available: never for a call that took effect or that panicked.      *)
RetryableMeansNotDone ==
  \A c \in Calls : answer[c] = "Unavailable" => outcome[c] \in {"", "unavailable"}
=============================================================================
