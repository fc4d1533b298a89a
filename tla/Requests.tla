------------------------------ MODULE Requests ------------------------------
(***************************************************************************)
(* GrpcServer, OutboundClient and TenantSelection under names of their     *)
(* own, so that they can stand side by side: the calls into the process    *)
(* and out of it.                                                          *)
(***************************************************************************)
EXTENDS Naturals

CONSTANTS Subjects                                                   \* the users
CONSTANTS Calls, CallInputs, PskMethods, SkipMethods, KeyedMethods   \* of GrpcServer
CONSTANTS Outgoing, Plain, Absolute, MaxAttempts, Thresholds         \* of OutboundClient
CONSTANTS Tenants, Selections, MaxChanges                            \* of TenantSelection

VARIABLES authz, stage, call, principal, asked, told, answer, holder,
          client, breaker, place, ctx, attempt, entered, body, got,
          status, changes, turn, caller, wanted, found, reply, issued, was

calls == <<authz, stage, call, principal, asked, told, answer, holder>>
sending == <<client, breaker, place, ctx, attempt, entered, body, got>>
selection == <<status, changes, turn, caller, wanted, found, reply, issued, was>>

Grpc == INSTANCE GrpcServer WITH
  Inputs <- CallInputs, Users <- Subjects, at <- stage, req <- call, subject <- principal, outcome <- told
Client == INSTANCE OutboundClient WITH Calls <- Outgoing, ans <- got
Selection == INSTANCE TenantSelection WITH Users <- Subjects, Requests <- Selections, at <- turn, answer <- reply

ASSUME SendingAssumption == Client!ClientAssumption
-----------------------------------------------------------------------------
(* A call reaches its gRPC method only behind every interceptor, and the   *)
(* permission asked for it is the one HTTP asks for the same operation.    *)
(* The status on which clients repeat a call is never given for one that   *)
(* took effect or that panicked.                                           *)
RetryableMeansNotDone == Grpc!GatesBeforeMethod /\ Grpc!SamePermission /\ Grpc!RetryableMeansNotDone

(* No outbound call is sent more often than the retry policy says, and one *)
(* that may not be repeated is sent at most once.                          *)
PlainSentOnce == Client!TypeOK /\ Client!PlainSentOnce

(* Every response that is not handed to the caller was closed.             *)
ResponsesOwned == Client!ResponsesOwned

(* A token names a user's own session and a membership of that user that   *)
(* was active at some moment since the request began.                      *)
TokensForMembers == Selection!TokensForMembers
=============================================================================
