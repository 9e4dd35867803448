------------------------------- MODULE Signing --------------------------------
(***************************************************************************)
(* The requests that put one kind of agreement before one contractor: sent *)
(* and voided by staff, opened, signed and declined by the contractor.     *)
(*                                                                         *)
(* Signing locks the row, declining and voiding are one conditional        *)
(* UPDATE; opening reads the status in one statement and writes VIEWED in  *)
(* another, which looks at nothing but the id.                             *)
(***************************************************************************)
EXTENDS Naturals, FiniteSets

CONSTANTS Clients, None,
          MaxRequests   \* bound on the requests sent

VARIABLES
  status,    \* signature_requests.status, "none" for one not sent yet
  evidence,  \* the requests with a signature
  opening    \* the request each client has read as unopened
vars == <<status, evidence, opening>>

Requests == 1 .. MaxRequests
Open == {"SENT", "VIEWED"}
Withdrawn == {"DECLINED", "VOIDED"}

TypeOK ==
  /\ status \in [Requests -> Open \cup Withdrawn \cup {"none", "SIGNED"}]
  /\ evidence \subseteq Requests
  /\ opening \in [Clients -> Requests \cup {None}]

Init ==
  /\ status = [r \in Requests |-> "none"]
  /\ evidence = {}
  /\ opening = [c \in Clients |-> None]

\* signature_requests_one_open_per_kind.
\* Mutant: what has been opened no longer holds the place.
IndexAllowsUnopened(r) == \A q \in Requests \ {r} : status[q] # "SENT"
IndexAllows(r) == \A q \in Requests \ {r} : status[q] \notin Open
\* signature_evidence_implies_signed.
\* Mutant: the table has no such check.
NoCheck(r) == TRUE
CheckAllows(r) == r \notin evidence

-----------------------------------------------------------------------------
\* POST /api/signing/requests.
Send(r) ==
  /\ status[r] = "none" /\ (r > 1 => status[r - 1] # "none")
  /\ IndexAllows(r)
  /\ status' = [status EXCEPT ![r] = "SENT"]
  /\ UNCHANGED <<evidence, opening>>

\* GET /api/signing/requests/:id by the contractor records that it was opened.
OpenReads(c, r) ==
  /\ opening[c] = None /\ status[r] = "SENT"
  /\ opening' = [opening EXCEPT ![c] = r]
  /\ UNCHANGED <<status, evidence>>
OpenWrites(c) ==
  /\ opening[c] # None
  /\ LET r == opening[c]
     IN status' = IF IndexAllows(r) /\ CheckAllows(r)
                  THEN [status EXCEPT ![r] = "VIEWED"] ELSE status
  /\ opening' = [opening EXCEPT ![c] = None]
  /\ UNCHANGED evidence

\* Mutant: only a second signature is refused.
SignableUnlessSigned(r) == status[r] \notin {"none", "SIGNED"}
Signable(r) == status[r] \in Open
\* POST .../sign, whether it was opened or not.
Sign(r) ==
  /\ Signable(r)
  /\ status' = [status EXCEPT ![r] = "SIGNED"]
  /\ evidence' = evidence \cup {r}
  /\ UNCHANGED opening

\* POST .../decline and .../void.
Withdraw(r, to) ==
  /\ status[r] \in Open
  /\ status' = [status EXCEPT ![r] = to]
  /\ UNCHANGED <<evidence, opening>>
Decline(r) == Withdraw(r, "DECLINED")
Void(r) == Withdraw(r, "VOIDED")

Next ==
  \/ \E r \in Requests : Send(r) \/ Sign(r) \/ Decline(r) \/ Void(r)
  \/ \E c \in Clients : OpenWrites(c) \/ \E r \in Requests : OpenReads(c, r)
Spec == Init /\ [][Next]_vars

-----------------------------------------------------------------------------
\* "Two open master service agreements is a question nobody can answer": one
\* request at most waits, though an opening may revive one that was replaced.
OneOpenRequest == Cardinality({r \in Requests : status[r] \in Open}) <= 1

\* "A signed agreement stays on the record": what was signed stays signed and
\* keeps its evidence, whoever was opening it or withdrawing it meanwhile.
SignedStands ==
  [][\A r \in Requests :
       status[r] = "SIGNED" => status'[r] = "SIGNED" /\ r \in evidence']_<<status, evidence>>

\* A request that was withdrawn waits again only because the contractor had
\* begun to open it before.
WithdrawnByMistake ==
  [][\A r \in Requests :
       status[r] \in Withdrawn /\ status'[r] # status[r]
         => status'[r] = "VIEWED" /\ \E c \in Clients : opening[c] = r /\ opening'[c] = None]_status
=============================================================================
