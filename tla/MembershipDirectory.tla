------------------------ MODULE MembershipDirectory -------------------------
(***************************************************************************)
(* membershipdirectory.Search: the members of a tenant whose user account  *)
(* matches a keyword. The accounts belong to the identity service, which   *)
(* pages them; the memberships are read here, one batch a page. Between    *)
(* the calls accounts and memberships change.                              *)
(*                                                                         *)
(* An operator D_Variant that stands before D is D with one mistake in it. *)
(***************************************************************************)
EXTENDS Integers, Sequences, SequencesExt, FiniteSets

CONSTANTS
  Users,       \* the accounts that match the keyword
  Limits,      \* what callers ask for
  PageSize,    \* candidatePageSize, 100
  MaxPages,    \* maxCandidatePages, 5
  MaxLimit,    \* 50
  MaxChanges   \* bounds the changes between the calls

VARIABLES
  accounts,   \* the identity service's list, in its order
  active,     \* the users with an active membership
  limit,      \* of the request
  page,       \* the page the loop is at
  users,      \* the page it has read
  counted,    \* the total that came with it
  entries,    \* the result so far
  step,       \* list, find, done, unavailable, failed or invalid
  shown,      \* the users that were active when their page was joined
  moved,      \* the accounts changed during the search
  changes

vars == <<accounts, active, limit, page, users, counted, entries, step, shown, moved, changes>>

Init ==
  /\ accounts \in {s \in BoundedSeq(Users, Cardinality(Users)) : IsInjective(s)}
  /\ active \in SUBSET Users
  /\ limit \in Limits
  /\ page = 1 /\ users = <<>> /\ counted = 0 /\ entries = <<>> /\ shown = {}
  /\ step = IF limit \in 1..MaxLimit THEN "list" ELSE "invalid"
  /\ moved = FALSE /\ changes = 0
-----------------------------------------------------------------------------
(* ListUsers of the identity client. An answer without a page has no total.*)
ListUsers ==
  /\ step = "list"
  /\ users' = SubSeq(accounts, (page - 1) * PageSize + 1,
                     IF page * PageSize < Len(accounts) THEN page * PageSize ELSE Len(accounts))
  /\ counted' \in {0, Len(accounts)}
  /\ step' = "find"
  /\ UNCHANGED <<accounts, active, limit, page, entries, shown, moved, changes>>

ListUsersFails ==
  /\ step = "list" /\ step' = "unavailable"
  /\ UNCHANGED <<accounts, active, limit, page, users, counted, entries, shown, moved, changes>>

(* FindMembershipsByUserIDs, and the join in the order of the page.        *)
Joined == SelectSeq(users, LAMBDA u : u \in active)

Taken_All(s) == s
Taken(s) == IF Len(s) > limit THEN SubSeq(s, 1, limit) ELSE s

LastPage_Early == page * PageSize + PageSize >= counted
LastPage == Len(users) < PageSize \/ page * PageSize >= counted

FindMemberships ==
  /\ step = "find"
  /\ entries' = Taken(entries \o Joined)
  /\ shown' = shown \cup ToSet(Joined)
  /\ IF LastPage \/ page = MaxPages \/ Len(entries') >= limit
     THEN step' = "done" /\ UNCHANGED page
     ELSE step' = "list" /\ page' = page + 1
  /\ UNCHANGED <<accounts, active, limit, users, counted, moved, changes>>

FindMembershipsFails ==
  /\ step = "find" /\ step' = "failed"
  /\ UNCHANGED <<accounts, active, limit, page, users, counted, entries, shown, moved, changes>>
-----------------------------------------------------------------------------
Searching == step \in {"list", "find"} /\ changes < MaxChanges

Register(u) ==
  /\ Searching /\ u \notin ToSet(accounts)
  /\ \E i \in 1..(Len(accounts) + 1) : accounts' = InsertAt(accounts, i, u)
  /\ moved' = TRUE /\ changes' = changes + 1
  /\ UNCHANGED <<active, limit, page, users, counted, entries, step, shown>>

Deactivate(u) ==
  /\ Searching /\ u \in ToSet(accounts)
  /\ accounts' = SelectSeq(accounts, LAMBDA v : v # u)
  /\ moved' = TRUE /\ changes' = changes + 1
  /\ UNCHANGED <<active, limit, page, users, counted, entries, step, shown>>

ChangeMembership(u) ==
  /\ Searching
  /\ active' = IF u \in active THEN active \ {u} ELSE active \cup {u}
  /\ changes' = changes + 1
  /\ UNCHANGED <<accounts, limit, page, users, counted, entries, step, shown, moved>>

Ended == step \in {"done", "unavailable", "failed", "invalid"} /\ UNCHANGED vars

Search == ListUsers \/ ListUsersFails \/ FindMemberships \/ FindMembershipsFails
Next == Search \/ Ended \/ \E u \in Users : Register(u) \/ Deactivate(u) \/ ChangeMembership(u)

Spec == Init /\ [][Next]_vars
-----------------------------------------------------------------------------
(* The result is never longer than asked for, and holds nobody whose       *)
(* membership was not active when it was read. Nobody is in it twice       *)
(* unless the accounts moved between the pages.                            *)
EntriesFit ==
  /\ limit \in 1..MaxLimit => Len(entries) <= limit
  /\ ToSet(entries) \subseteq shown
  /\ ~moved => IsInjective(entries)

(* A search during which nothing changed and that ends short of its limit  *)
(* has every active member among the candidates of the pages it may read.  *)
(* An identity service that sends no total ends it after that page.        *)
ShortMeansAll ==
  step = "done" /\ changes = 0 /\ Len(entries) < limit /\ counted > 0 =>
    \A i \in 1..Len(accounts) :
      i <= MaxPages * PageSize /\ accounts[i] \in active => accounts[i] \in ToSet(entries)
=============================================================================
