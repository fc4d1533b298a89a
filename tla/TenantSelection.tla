--------------------------- MODULE TenantSelection ---------------------------
(***************************************************************************)
(* POST /api/v1/tenants/select: the handler checks the caller's session,   *)
(* reads the membership and then the tenant, and has the identity service  *)
(* issue a token for the tenant, while memberships change.                 *)
(*                                                                         *)
(* An operator D_Variant that stands before D is D with one mistake in it. *)
(***************************************************************************)
EXTENDS Naturals, FiniteSets

CONSTANTS Users, Tenants, Requests,
          MaxChanges    \* bound on the changes of memberships

VARIABLES
  status,    \* memberships, by user and tenant: absent, active or suspended
  changes,
  at,        \* per request: idle, reading, joining, issuing or done
  caller,    \* per request: type, id and session of the principal
  wanted,    \* per request: the tenant of the body
  found,     \* per request: the membership, as <<user, tenant>>, that was read
  answer,    \* per request
  issued,    \* <<request, user, tenant, membership, session>> of the tokens issued
  was        \* history: the memberships that were active since a request began

vars == <<status, changes, at, caller, wanted, found, answer, issued, was>>

Members == Users \X Tenants
Active == {m \in Members : status[m] = "active"}
Callers == [type : {"user"}, id : Users, session : {"", "s"}] \cup [type : {"service_account"}, id : Users, session : {""}]
NoRow == <<>>

Init ==
  /\ status \in [Members -> {"absent", "active"}] /\ changes = 0
  /\ at = [r \in Requests |-> "idle"]
  /\ caller \in [Requests -> Callers] /\ wanted \in [Requests -> Tenants]
  /\ found = [r \in Requests |-> NoRow] /\ answer = [r \in Requests |-> ""]
  /\ issued = {} /\ was = [r \in Requests |-> {}]

Goto(r, place) == at' = [at EXCEPT ![r] = place]
Answer(r, code) == Goto(r, "done") /\ answer' = [answer EXCEPT ![r] = code]

(* AddMembership, AcceptInvitation and UpdateMembership.                   *)
Change(m, s) ==
  /\ changes < MaxChanges /\ changes' = changes + 1
  /\ s # status[m] /\ (status[m] = "absent" => s = "active")
  /\ status' = [status EXCEPT ![m] = s]
  /\ was' = [r \in Requests |-> IF s = "active" /\ at[r] # "idle" THEN was[r] \cup {m} ELSE was[r]]
  /\ UNCHANGED <<at, caller, wanted, found, answer, issued>>

Interactive(p) == p.type = "user" /\ p.session # ""

SelectTenant(r) ==
  /\ at[r] = "idle"
  /\ IF Interactive(caller[r]) THEN Goto(r, "reading") /\ UNCHANGED answer ELSE Answer(r, "unauthorized")
  /\ was' = [was EXCEPT ![r] = Active]
  /\ UNCHANGED <<status, changes, caller, wanted, found, issued>>

(* The row of the caller and the tenant, while it is active.               *)
Valid_Existing(m) == status[m] # "absent"
Valid(m) == status[m] = "active"

ValidateMembership(r) ==
  /\ at[r] = "reading"
  /\ LET m == <<caller[r].id, wanted[r]>> IN
       IF Valid(m) THEN found' = [found EXCEPT ![r] = m] /\ Goto(r, "joining") /\ UNCHANGED answer
       ELSE Answer(r, "forbidden") /\ UNCHANGED found
  /\ UNCHANGED <<status, changes, caller, wanted, issued, was>>

(* The tenant is read by its id, whatever its status; an error of either   *)
(* read counts as no membership.                                           *)
GetTenant(r) ==
  /\ at[r] = "joining" /\ Goto(r, "issuing")
  /\ UNCHANGED <<status, changes, caller, wanted, found, answer, issued, was>>

ReadFails(r) ==
  /\ at[r] \in {"reading", "joining"} /\ Answer(r, "forbidden")
  /\ UNCHANGED <<status, changes, caller, wanted, found, issued, was>>

IssueTenantToken(r) ==
  /\ at[r] = "issuing"
  /\ issued' = issued \cup {<<r, caller[r].id, wanted[r], found[r], caller[r].session>>}
  /\ Answer(r, "ok")
  /\ UNCHANGED <<status, changes, caller, wanted, found, was>>

(* Unavailable, or a reply that is lost or lacks the token.                *)
IssueFails(r) ==
  /\ at[r] = "issuing" /\ Answer(r, "unavailable")
  /\ issued' \in {issued, issued \cup {<<r, caller[r].id, wanted[r], found[r], caller[r].session>>}}
  /\ UNCHANGED <<status, changes, caller, wanted, found, was>>

Handle(r) == SelectTenant(r) \/ ValidateMembership(r) \/ GetTenant(r) \/ ReadFails(r) \/ IssueTenantToken(r) \/ IssueFails(r)
AllDone == (\A r \in Requests : at[r] = "done") /\ UNCHANGED vars

Next == AllDone \/ (\E r \in Requests : Handle(r)) \/ (\E m \in Members, s \in {"active", "suspended"} : Change(m, s))
Spec == Init /\ [][Next]_vars
-----------------------------------------------------------------------------
(* A token is issued for a user's own session and for a membership of that *)
(* user in that tenant which was active at some moment since the request   *)
(* began, though it may be suspended by the time the token is out.         *)
TokensForMembers ==
  \A t \in issued : /\ t[4] = <<t[2], t[3]>> /\ t[4] \in was[t[1]]
                    /\ t[5] # "" /\ caller[t[1]].type = "user" /\ caller[t[1]].id = t[2]
=============================================================================
