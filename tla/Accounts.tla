------------------------------ MODULE Accounts ------------------------------
(***************************************************************************)
(* The rows of ocs.app_users as the rosters they make: the firm's          *)
(* administrators and each contractor's, and the links by which a person   *)
(* claims an account or a new password.                                    *)
(*                                                                         *)
(* A request that counts a roster, or looks at an account, before it       *)
(* writes is two steps; between them it holds the lock of the row it took  *)
(* FOR UPDATE, if it took one. Names and audit rows are left out; so is    *)
(* the end of the sessions, which is in Sessions.                          *)
(***************************************************************************)
EXTENDS Naturals

CONSTANTS Users,        \* addresses, each of at most one account
          Companies,    \* the contractors
          MaxRequests,  \* bound on the requests that read before they write,
                        \* and on the reset links an administrator asks for
          None

VARIABLES
  account,   \* the row of each address
  asked,     \* the request a person waits for, with what it read
  requests,  \* how many of those there were
  stale      \* history: asked before a write that another of them made

vars == <<account, asked, requests, stale>>

Roles == {"ADMIN", "STAFF", "CLIENT"}   \* STAFF: every other role of the firm
Row == [role : Roles, company : Companies \cup {None}, clientAdmin : BOOLEAN,
        active : BOOLEAN, password : 0 .. 2, invited : BOOLEAN, reset : BOOLEAN]

\* Of a password only that it is another one matters; 0 is none.
Another(password) == IF password = 1 THEN 2 ELSE 1

\* What the checks app_users_client_role_consistency and
\* app_users_client_admin_is_client let an insert or update leave behind.
Allowed(row) == /\ row.role = "CLIENT" <=> row.company # None
                /\ row.clientAdmin => row.role = "CLIENT"

TypeOK ==
  /\ account \in [Users -> Row \cup {None}]
  /\ \A u \in Users : account[u] # None => Allowed(account[u])
  /\ \A u \in Users : asked[u] = None \/ asked[u].op \in
       {"setup", "forgot", "user", "role", "invite", "team_invite", "team"}
  /\ requests \in 0 .. MaxRequests
  /\ stale \in SUBSET Users

\* No account yet, or the firm's administrators and maybe a contractor's.
Staffed(u, role) ==
  [role |-> role, company |-> IF role = "CLIENT" THEN CHOOSE c \in Companies : TRUE ELSE None,
   clientAdmin |-> role = "CLIENT", active |-> TRUE, password |-> 1, invited |-> FALSE,
   reset |-> FALSE]
Init ==
  /\ \E firm, team \in SUBSET Users :
       /\ firm \cap team = {} /\ (firm = {} => team = {})
       /\ account = [u \in Users |-> CASE u \in firm -> Staffed(u, "ADMIN")
                                       [] u \in team -> Staffed(u, "CLIENT")
                                       [] OTHER -> None]
  /\ asked = [u \in Users |-> None]
  /\ requests = 0 /\ stale = {}

Exists(u) == account[u] # None
Claimed(u) == Exists(u) /\ account[u].password > 0
Stands(u, role) == Claimed(u) /\ account[u].active /\ account[u].role = role
Administers(u, c) ==
  Exists(u) /\ account[u].active /\ account[u].company = c /\ account[u].clientAdmin
OtherAdmins(u) == {v \in Users \ {u} : Exists(v) /\ account[v].active /\ account[v].role = "ADMIN"}
\* Mutant: those who were deactivated count.
OtherClientAdminsEver(u, c) ==
  {v \in Users \ {u} : Exists(v) /\ account[v].company = c /\ account[v].clientAdmin}
OtherClientAdmins(u, c) == {v \in Users \ {u} : Administers(v, c)}

\* FOR UPDATE on the row of u, taken by a request still under way.
Locked(u) == \E v \in Users : asked[v] # None /\ "locks" \in DOMAIN asked[v] /\ asked[v].locks = u

Ask(u, request) ==
  /\ asked[u] = None /\ requests < MaxRequests
  /\ asked' = [asked EXCEPT ![u] = request]
  /\ requests' = requests + 1
  /\ UNCHANGED <<account, stale>>

\* The write of what u asked for: to v, which becomes row.
Answer(u, v, row) ==
  /\ Allowed(row)
  /\ account' = [account EXCEPT ![v] = row]
  /\ asked' = [asked EXCEPT ![u] = None]
  /\ stale' = (stale \ {u}) \cup {w \in Users \ {u} : asked[w] # None}
  /\ UNCHANGED requests
Asks(u, op) == asked[u] # None /\ asked[u].op = op

\* A request whose write is refused, or that died: its transaction is rolled back.
Abandon(u) ==
  /\ asked[u] # None
  /\ asked' = [asked EXCEPT ![u] = None]
  /\ stale' = stale \ {u}
  /\ UNCHANGED <<account, requests>>

\* One statement or one locked transaction on the row of u.
Update(u, row) ==
  /\ ~Locked(u) /\ Allowed(row)
  /\ account' = [account EXCEPT ![u] = row]
  /\ UNCHANGED <<asked, requests, stale>>

-----------------------------------------------------------------------------
\* POST /api/auth/setup, and ocs.needs_setup(): the first administrator.
NeedsSetup == \A u \in Users : ~Stands(u, "ADMIN")
SetupAsks(u) == NeedsSetup /\ Ask(u, [op |-> "setup"])
SetupCreates(u) ==
  /\ Asks(u, "setup") /\ ~Locked(u)
  /\ Answer(u, u, [role |-> "ADMIN", password |-> IF Exists(u) THEN Another(account[u].password) ELSE 1,
                   company |-> IF Exists(u) THEN account[u].company ELSE None,
                   clientAdmin |-> Exists(u) /\ account[u].clientAdmin, active |-> TRUE,
                   invited |-> FALSE, reset |-> Exists(u) /\ account[u].reset])

\* Mutant: the invitation outlives the claim.
AcceptInviteAgain(u) ==
  /\ Exists(u) /\ account[u].invited
  /\ Update(u, [account[u] EXCEPT !.password = 1, !.invited = FALSE, !.active = TRUE])

\* POST /api/auth/accept-invite, within the seven days.
AcceptInvite(u) ==
  /\ Exists(u) /\ account[u].invited /\ ~Claimed(u)
  /\ Update(u, [account[u] EXCEPT !.password = 1, !.invited = FALSE, !.active = TRUE])

\* POST /api/auth/forgot-password: the account is looked at in one transaction
\* and given its link in another.
ForgotAsks(u) == /\ Claimed(u) /\ account[u].active
                 /\ Ask(u, [op |-> "forgot"])
ForgotSends(u) ==
  /\ Asks(u, "forgot") /\ ~Locked(u)
  /\ Answer(u, u, [account[u] EXCEPT !.reset = TRUE])

\* POST /api/auth/reset-password, within the hour.
ResetPassword(u) ==
  /\ Exists(u) /\ account[u].reset /\ account[u].active
  /\ Update(u, [account[u] EXCEPT !.password = Another(@), !.reset = FALSE])

\* POST /api/users/:userId/resend-invite and .../reset-password.
ResendInvite(u) ==
  /\ \E a \in Users : Stands(a, "ADMIN")
  /\ Exists(u) /\ ~Claimed(u)
  /\ Update(u, [account[u] EXCEPT !.invited = TRUE, !.active = TRUE])
IssueReset(u) ==
  /\ \E a \in Users : Stands(a, "ADMIN")
  /\ Claimed(u) /\ ~Locked(u)
  /\ requests < MaxRequests /\ requests' = requests + 1
  /\ account' = [account EXCEPT ![u].reset = TRUE]
  /\ UNCHANGED <<asked, stale>>

-----------------------------------------------------------------------------
\* POST /api/users/invite. The first login of a contractor administers it.
InviteAsks(a, u) ==
  /\ Stands(a, "ADMIN")
  /\ \E role \in Roles, c \in Companies \cup {None}, admin \in BOOLEAN :
       /\ role = "CLIENT" <=> c # None
       /\ LET first == role = "CLIENT" /\
                 \A v \in Users \ {u} : Exists(v) => account[v].company # c
          IN Ask(a, [op |-> "invite", to |-> u, role |-> role, company |-> c,
                     clientAdmin |-> admin \/ first])
Invited(u, request) ==
  [role |-> request.role, company |-> request.company, active |-> TRUE, invited |-> TRUE,
   clientAdmin |-> request.clientAdmin \/ (Exists(u) /\ account[u].clientAdmin),
   password |-> IF Exists(u) THEN account[u].password ELSE 0,
   reset |-> Exists(u) /\ account[u].reset]
InviteWrites(a) ==
  /\ Asks(a, "invite") /\ ~Locked(asked[a].to)
  /\ Answer(a, asked[a].to, Invited(asked[a].to, asked[a]))

\* PATCH /api/users/:userId: a role, or is_active. The target is locked, the
\* other administrators are counted, and only when one is demoted.
UpdateUserAsks(a, u) ==
  /\ Stands(a, "ADMIN") /\ Exists(u) /\ ~Locked(u)
  /\ \E role \in Roles, active \in BOOLEAN :
       /\ a = u => active /\ role = "ADMIN"
       /\ account[u].role = "ADMIN" /\ role # "ADMIN" => OtherAdmins(u) # {}
       /\ Ask(a, [op |-> "user", locks |-> u, role |-> role, active |-> active])
UpdateUserWrites(a) ==
  /\ Asks(a, "user")
  /\ LET u == asked[a].locks IN
       Answer(a, u, [account[u] EXCEPT !.role = asked[a].role, !.active = asked[a].active])

\* PATCH /api/users/:userId/role, which also binds to a contractor or unbinds.
ChangeRoleAsks(a, u) ==
  /\ Stands(a, "ADMIN") /\ Exists(u) /\ ~Locked(u) /\ a # u
  /\ \E role \in Roles, c \in Companies \cup {None} :
       /\ role = "CLIENT" <=> c # None
       /\ account[u].role = "ADMIN" /\ role # "ADMIN" => OtherAdmins(u) # {}
       /\ Ask(a, [op |-> "role", locks |-> u, role |-> role, company |-> c])
ChangeRoleWrites(a) ==
  /\ Asks(a, "role")
  /\ LET u == asked[a].locks IN
       Answer(a, u, [account[u] EXCEPT !.role = asked[a].role, !.company = asked[a].company])

-----------------------------------------------------------------------------
\* teamScope: an administrator of the contractor, or somebody of the firm.
OnTeam(a, c) == \/ Claimed(a) /\ Administers(a, c)
                \/ Stands(a, "ADMIN")

\* POST /api/portal/team/invite: an address of the same contractor, unclaimed.
TeamInviteAsks(a, u) ==
  \E c \in Companies, admin \in BOOLEAN :
    /\ OnTeam(a, c)
    /\ Ask(a, [op |-> "team_invite", to |-> u, company |-> c, clientAdmin |-> admin])
TeamInviteWrites(a) ==
  LET u == asked[a].to IN
    /\ Asks(a, "team_invite") /\ ~Locked(u)
    /\ Exists(u) => account[u].company = asked[a].company /\ ~Claimed(u)
    /\ Answer(a, u, [role |-> "CLIENT", company |-> asked[a].company, active |-> TRUE,
                     clientAdmin |-> asked[a].clientAdmin, password |-> 0,
                     invited |-> TRUE, reset |-> Exists(u) /\ account[u].reset])

\* PATCH /api/portal/team/:userId: the other administrators are counted when
\* one is demoted or deactivated.
TeamUpdateAsks(a, u) ==
  \E c \in Companies, active, admin \in BOOLEAN :
    /\ OnTeam(a, c) /\ ~Locked(u)
    /\ a = u => active
    /\ Exists(u) /\ account[u].company = c
    /\ account[u].clientAdmin /\ ~(active /\ admin) => OtherClientAdmins(u, c) # {}
    /\ Ask(a, [op |-> "team", locks |-> u, active |-> active, clientAdmin |-> admin])
TeamUpdateWrites(a) ==
  /\ Asks(a, "team")
  /\ LET u == asked[a].locks IN
       Answer(a, u, [account[u] EXCEPT !.active = asked[a].active,
                                       !.clientAdmin = asked[a].clientAdmin])

Next ==
  \/ \E u \in Users :
       \/ SetupAsks(u) \/ SetupCreates(u) \/ AcceptInvite(u)
       \/ ForgotAsks(u) \/ ForgotSends(u) \/ ResetPassword(u)
       \/ ResendInvite(u) \/ IssueReset(u) \/ Abandon(u)
       \/ InviteWrites(u) \/ UpdateUserWrites(u) \/ ChangeRoleWrites(u)
       \/ TeamInviteWrites(u) \/ TeamUpdateWrites(u)
  \/ \E a, u \in Users :
       \/ InviteAsks(a, u) \/ UpdateUserAsks(a, u) \/ ChangeRoleAsks(a, u)
       \/ TeamInviteAsks(a, u) \/ TeamUpdateAsks(a, u)
Spec == Init /\ [][Next]_vars

-----------------------------------------------------------------------------
HasAdmin == \E u \in Users : Exists(u) /\ account[u].active /\ account[u].role = "ADMIN"
HasClientAdmin(c) == \E u \in Users : Administers(u, c)

\* The firm loses its last active administrator only when two requests that
\* counted the others overlapped, or an invitation is sent to an address that
\* is an administrator's. Nobody can do it alone and one thing at a time.
KeepsAdministrator ==
  HasAdmin /\ ~HasAdmin' =>
    \E a \in Users : Asks(a, "invite") \/ (asked[a] # None /\ a \in stale)

\* A contractor's own changes to its team leave it an administrator, unless
\* they overlapped.
KeepsCompanyAdmin ==
  \A a \in Users, c \in Companies :
    /\ a \notin stale
    /\ Asks(a, "team") /\ TeamUpdateWrites(a)
    /\ HasClientAdmin(c)
    => HasClientAdmin(c)'

\* An account once claimed changes its password only by a reset, or by the
\* set-up of an administrator: no invitation, of the firm's or a
\* contractor's, however late, takes it over.
TakesNoClaimed ==
  \A u \in Users : Claimed(u) /\ account'[u].password # account[u].password =>
    ResetPassword(u) \/ SetupCreates(u)

\* A reset link is only ever outstanding for an account that was claimed: an
\* invitation is the one way into one that was not, whatever happened to the
\* account between looking at it and writing the link.
ResetIsForClaimed == \A u \in Users : Exists(u) /\ account[u].reset => Claimed(u)
=============================================================================
