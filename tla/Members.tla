------------------------------ MODULE Members -------------------------------
(***************************************************************************)
(* Who belongs to a company of the /v1 API: its rows of                    *)
(* ocs.company_memberships. A request knows its caller's role from the     *)
(* look-up that authenticated it, and nothing in it takes a lock, so each  *)
(* is two steps: what it read, and what it wrote.                          *)
(***************************************************************************)
EXTENDS Naturals

CONSTANTS People,
          MaxRequests,   \* bound on the requests made
          None

VARIABLES member,     \* each person's membership
          asked,      \* the request a person waits for, with what it read
          requests,   \* how many there were
          stale       \* history: asked before a write that another made
vars == <<member, asked, requests, stale>>

Roles == {"owner", "admin", "member", "viewer"}
TypeOK ==
  /\ member \in [People -> [role : Roles, active : BOOLEAN] \cup {None}]
  /\ \A p \in People : asked[p] = None \/ asked[p].op \in {"invite", "update"}
  /\ requests \in 0 .. MaxRequests
  /\ stale \in SUBSET People

Holds(p, role) == member[p] # None /\ member[p].active /\ member[p].role = role
Owners == {p \in People : Holds(p, "owner")}

Init ==
  /\ member = [p \in People |-> None]
  /\ asked = [p \in People |-> None]
  /\ requests = 0 /\ stale = {}

\* POST /v1/companies: the caller becomes the owner of a company of their own.
CreateCompany(p) ==
  /\ \A q \in People : member[q] = None
  /\ member' = [member EXCEPT ![p] = [role |-> "owner", active |-> TRUE]]
  /\ UNCHANGED <<asked, requests, stale>>

\* loadIdentity and requireCompanyRole(p, 'admin'); only an owner may name one.
Ask(p, role, request) ==
  /\ asked[p] = None /\ requests < MaxRequests
  /\ \E standing \in {"owner", "admin"} :
       /\ Holds(p, standing)
       /\ role = "owner" => standing = "owner"
  /\ asked' = [asked EXCEPT ![p] = request]
  /\ requests' = requests + 1
  /\ UNCHANGED <<member, stale>>
Answered(p) ==
  /\ asked' = [asked EXCEPT ![p] = None]
  /\ stale' = (stale \ {p}) \cup {q \in People \ {p} : asked[q] # None}
  /\ UNCHANGED requests

\* POST /v1/company/members: unless an active member; one who left comes back.
InviteAsks(p, q) ==
  \E role \in Roles :
    /\ member[q] # None => ~member[q].active
    /\ Ask(p, role, [op |-> "invite", to |-> q, role |-> role])
InviteWrites(p) ==
  /\ asked[p] # None /\ asked[p].op = "invite"
  /\ member' = [member EXCEPT ![asked[p].to] = [role |-> asked[p].role, active |-> TRUE]]
  /\ Answered(p)

\* PATCH /v1/company/members/:memberId: a role, or is_active, or both; what is
\* not given stays as it is when the write is made. The owners are counted when
\* one stops being one.
UpdateAsks(p, q) ==
  \E role \in Roles \cup {None}, active \in BOOLEAN \cup {None} :
    /\ member[q] # None
    /\ member[q].role = "owner" /\ (role \notin {"owner", None} \/ active = FALSE) =>
         \E o, r \in Owners : o # r
    /\ Ask(p, role, [op |-> "update", to |-> q, role |-> role, active |-> active])
UpdateWrites(p) ==
  /\ asked[p] # None /\ asked[p].op = "update"
  /\ LET r == asked[p]
     IN member' = [member EXCEPT ![r.to] =
          [role |-> IF r.role = None THEN @.role ELSE r.role,
           active |-> IF r.active = None THEN @.active ELSE r.active]]
  /\ Answered(p)

Next ==
  \/ \E p \in People : CreateCompany(p) \/ InviteWrites(p) \/ UpdateWrites(p)
  \/ \E p, q \in People : InviteAsks(p, q) \/ UpdateAsks(p, q)
Spec == Init /\ [][Next]_vars

-----------------------------------------------------------------------------
\* A company keeps an active owner, unless the request that removes the last one
\* read the roster before another request changed it.
KeepsOwner ==
  Owners # {} /\ Owners' = {} => \E p \in People : asked[p] # None /\ p \in stale
=============================================================================
