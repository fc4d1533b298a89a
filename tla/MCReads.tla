------------------------------ MODULE MCReads ------------------------------
(* What the service answers from statements that are not one transaction:  *)
(* organisation scopes, dictionary trees and pages, the lists, and the     *)
(* search for members. A behaviour follows one of them; the variables of   *)
(* the others keep an idle value.                                          *)
EXTENDS OrganizationScope, TLC

CONSTANT t1

VARIABLES part,
          unit, asked, answer,
          list, ask, step, page, seen, repeated, present, left, entered,
          accounts, active, limit, users, counted, entries, shown, moved, changes

dictionary == <<unit, asked, answer>>
listing == <<list, ask, seen, repeated, present, left, entered>>
directory == <<accounts, active, limit, users, counted, entries, shown, moved, changes>>

MCUser == [type |-> "user", tenant |-> t1, platform |-> FALSE]
MCUsers == {MCUser}
MCUnitSymmetry == Permutations(Units)
-----------------------------------------------------------------------------
Trees ==
  LET Ask(op, modes, parents, keywords) ==
        [op : {op}, mode : modes, parent : parents, keyword : keywords, status : {"", "active"},
         depth : {0, 1, 2}, nodes : {0, 1, 2}]
  IN Ask("tree", {"full"}, {0}, {FALSE}) \cup Ask("tree", {"children"}, {0, 1}, {FALSE})
     \cup Ask("tree", {"search_with_ancestors"}, {0}, BOOLEAN)
     \cup [op : {"service"}, mode : {"lazy_children", "other"}, parent : {2}, keyword : {FALSE}, status : {""},
           depth : {1, 3, 33}, nodes : {3, 5001}]

Pages ==
  [op : {"query"}, page : {1, 2, 3}, size : {1, 2}, keyword : {TRUE}, status : {"", "active"},
   sort : {"", "name"}, descending : BOOLEAN]
  \cup [op : {"query"}, page : {0}, size : {0, 101}, keyword : {FALSE}, status : {""},
        sort : {"code", "other"}, descending : {FALSE}]

Dictionary == INSTANCE Dictionary WITH N <- 3, Requests <- Trees \cup Pages, req <- asked
-----------------------------------------------------------------------------
ListRow(id, t, s, h) == [id |-> id, tenant |-> t, status |-> s, hit |-> h]

Tables ==
  {<<ListRow("a", "t1", sa, TRUE), ListRow("b", t, "active", hb), ListRow("c", "t1", "active", TRUE)>> :
     sa \in {"active", "disabled"}, t \in {"t1", "t2"}, hb \in BOOLEAN}

Ask(kinds, tenants, admin, keywords, sizes, ids) ==
  [kind : kinds, tenant : tenants, admin : admin, status : {"", "active"}, keyword : keywords, size : sizes, ids : ids]

Asks ==
  Ask({"ListMemberships", "SearchGroups", "ListUserTenants", "ListQuotas", "ListInvitations"},
      {"t1"}, {FALSE}, {TRUE}, {1, 2}, {<<>>})
  \cup Ask({"ListTenants"}, {"t2"}, BOOLEAN, {FALSE}, {2}, {<<>>})
  \cup Ask({"ListMemberships", "ListUserTenants"}, {"t1", "t2"}, {FALSE}, {FALSE}, {0, 4}, {<<>>})
  \cup Ask({"BatchGetMemberships", "BatchGetOrganizationUnits", "BatchGetGroupMembers", "FindMembershipsByUserIDs"},
           {"t1", "t2"}, {FALSE}, {FALSE}, {0}, {<<>>, <<"a">>, <<"">>, <<"a", "a", "b">>, <<"a", "b", "d">>})

Listing == INSTANCE Listing WITH
  Ids <- {"d"}, Tables <- Tables, Asks <- Asks, DefaultSize <- 2, MaxPageSize <- 3, MaxBatch <- 2, MaxMoves <- 3, rows <- list

(* The accounts are numbered in the order the identity service lists them. *)
Directory == INSTANCE MembershipDirectory WITH
  Users <- 1..5, Limits <- 0..4, PageSize <- 2, MaxPages <- 2, MaxLimit <- 3, MaxChanges <- 1
InOrder == \A i \in DOMAIN accounts : accounts[i] = i
-----------------------------------------------------------------------------
NoDictionary == unit = 0 /\ asked = 0 /\ answer = 0
NoListing == list = 0 /\ ask = 0 /\ seen = 0 /\ repeated = 0 /\ present = 0 /\ left = 0 /\ entered = 0
NoDirectory ==
  /\ accounts = 0 /\ active = 0 /\ limit = 0 /\ users = 0 /\ counted = 0 /\ entries = 0 /\ shown = 0
  /\ moved = 0 /\ changes = 0

ReadsInit ==
  /\ ScopeInit
  /\ \/ part = "scope" /\ NoDictionary /\ NoListing /\ NoDirectory /\ step = 0 /\ page = 0
     \/ part = "dictionary" /\ Dictionary!Init /\ NoListing /\ NoDirectory /\ step = 0 /\ page = 0
     \/ part = "listing" /\ Listing!Init /\ NoDictionary /\ NoDirectory
     \/ part = "directory" /\ Directory!Init /\ InOrder /\ NoDictionary /\ NoListing

ReadsNext ==
  /\ UNCHANGED part
  /\ \/ part = "scope" /\ ScopeNext /\ UNCHANGED <<dictionary, listing, directory, step, page>>
     \/ part = "dictionary" /\ Dictionary!Next /\ UNCHANGED <<scopeVars, listing, directory, step, page>>
     \/ part = "listing" /\ Listing!Next /\ UNCHANGED <<scopeVars, dictionary, directory>>
     \/ part = "directory" /\ Directory!Next /\ UNCHANGED <<scopeVars, dictionary, listing>>

ReadsSpec == ReadsInit /\ [][ReadsNext]_<<part, scopeVars, dictionary, listing, directory, step, page>>
-----------------------------------------------------------------------------

(* Lists lose little while rows come and go, and batches nothing: a reader *)
(* that walks to the end misses at most as many of the rows that stayed as *)
(* left the list meanwhile, reads again at most as many as entered it,     *)
(* sees none of another tenant, and a batch answers exactly the distinct   *)
(* identifiers asked for.                                                  *)
ListsLoseLittle ==
  part = "listing" => /\ Listing!SkippedAreFew /\ Listing!RepeatedAreFew
                      /\ Listing!OwnRowsOnly /\ Listing!BatchExact

(* A search for members keeps its promises: no more entries than its limit,*)
(* each an active member when it was read; and a search that ends short,   *)
(* and during which nothing changed, has every member it may show.         *)
SearchKeepsPromises == part = "directory" => Directory!EntriesFit /\ Directory!ShortMeansAll
=============================================================================
