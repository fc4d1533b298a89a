------------------------------ MODULE Records ------------------------------
(***************************************************************************)
(* Groups under names that leave those of Tenants free: the two kinds of   *)
(* records that no lock protects can then stand side by side.              *)
(***************************************************************************)
EXTENDS Integers, Sequences, FiniteSets, Authorization

CONSTANTS GroupIds, Memberships, TenantOf, GroupRequests, GroupCallers, ShownGroups, MaxEdits, MaxJoined

VARIABLES group, joined, active, seen, groupLog, groupPc, groupReq, groupAns

Grp == INSTANCE Groups WITH
  Requests <- GroupRequests, Principals <- GroupCallers, OnlyShown <- ShownGroups, MaxVersion <- MaxEdits,
  log <- groupLog, pc <- groupPc, req <- groupReq, ans <- groupAns

ASSUME RecordsAssumption == Grp!GroupsAssumption
-----------------------------------------------------------------------------
(* The events of groups tell the rows: created and updated events number   *)
(* the versions of a group, the member events of a pair end where its row  *)
(* does, and nobody is added twice in a row, whatever versions clients     *)
(* send and however adds and removes race.                                 *)
GroupEventsTellRows == Grp!GroupEventsTellRows

(* No row joins a group and a membership of two tenants, however old the   *)
(* reads it was decided by.                                                *)
TenantsKeptApart == Grp!TypeOK /\ Grp!TenantsKeptApart
=============================================================================
