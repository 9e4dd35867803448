-------------------------------- MODULE Desk --------------------------------
(***************************************************************************)
(* The support desk: tickets opened by a contractor, by staff for one, or  *)
(* by a message on a permit in the portal; the replies and internal notes  *)
(* on them, and their triage. A trigger moves a ticket when somebody       *)
(* answers.                                                                *)
(***************************************************************************)
EXTENDS Naturals, Sequences

CONSTANTS Tickets,   \* rows there may be
          Callers,   \* who writes a portal message, which looks for a ticket first
          None

VARIABLES
  status,    \* support_tickets.status, "none" before the row exists
  resolved,  \* resolved_at is set
  portal,    \* the permit's tickets, in the order they were opened
  said,      \* what the contractor can see on each: "opening", and who replied
  triaged,   \* staff set the status themselves since the last reply
  found      \* the ticket each caller's request has found, "none" for no ticket
vars == <<status, resolved, portal, said, triaged, found>>

Roles == {"CLIENT", "STAFF"}
Statuses == {"open", "in_progress", "waiting_client", "resolved"}
Live == {t \in Tickets : status[t] # "none"}

TypeOK ==
  /\ status \in [Tickets -> Statuses \cup {"none"}]
  /\ {resolved, triaged} \subseteq SUBSET Tickets /\ portal \in Seq(Tickets)
  /\ said \in [Tickets -> SUBSET (Roles \cup {"opening"})]
  /\ found \in [Callers -> Tickets \cup {"none", None}]

Init ==
  /\ status = [t \in Tickets |-> "none"] /\ resolved = {} /\ portal = <<>>
  /\ said = [t \in Tickets |-> {}] /\ triaged = {}
  /\ found = [c \in Callers |-> None]

\* Mutant: the message that states the ticket counts as an answer.
EveryMessageMoves(internal, opening) == ~internal
\* advance_ticket_on_message: a note moves nothing, and neither does the opening.
Moves(internal, opening) == ~internal /\ ~opening

\* A row of support_messages and what its trigger does to the ticket.
Written(t, role, internal, opening) ==
  LET before == IF opening THEN "open" ELSE status[t]
      after == IF role = "CLIENT" THEN "in_progress" ELSE "waiting_client"
  IN /\ status' = [status EXCEPT ![t] = IF Moves(internal, opening) THEN after ELSE before]
     /\ resolved' = IF Moves(internal, opening) THEN resolved \ {t} ELSE resolved
     /\ triaged' = IF Moves(internal, opening) THEN triaged \ {t} ELSE triaged
     /\ said' = [said EXCEPT ![t] =
                   IF internal THEN @ ELSE @ \cup {IF opening THEN "opening" ELSE role}]

\* POST /api/support: the ticket and its opening, of the contractor or of staff,
\* about the permit or about none.
Open(t, role) ==
  /\ status[t] = "none"
  /\ Written(t, role, FALSE, TRUE)
  /\ portal' \in {portal, Append(portal, t)}
  /\ UNCHANGED found

\* POST /api/support/:id/messages: that a contractor asks for a note is ignored.
Reply(t, role, internal) ==
  /\ t \in Live
  /\ Written(t, role, internal /\ role = "STAFF", FALSE)
  /\ UNCHANGED <<portal, found>>

\* PATCH /api/support/:id, which may name a status or leave it (a priority, whom
\* the ticket is assigned to, its subject): that changes nothing told apart here.
Triage(t, s) ==
  /\ t \in Live
  /\ \/ s = None /\ UNCHANGED <<status, resolved, triaged>>
     \/ /\ s # None
        /\ status' = [status EXCEPT ![t] = s]
        /\ resolved' = IF s = "resolved" THEN resolved \cup {t} ELSE resolved \ {t}
        /\ triaged' = triaged \cup {t}
  /\ UNCHANGED <<portal, said, found>>

\* POST /api/portal/permits/:permitId/messages takes the newest ticket of the
\* permit that is not resolved, or opens one, on the strength of a plain read.
Newest(open) == IF open = <<>> THEN "none" ELSE open[Len(open)]
MessageReads(c) ==
  /\ found[c] = None
  /\ found' = [found EXCEPT ![c] =
                 Newest(SelectSeq(portal, LAMBDA t : status[t] # "resolved"))]
  /\ UNCHANGED <<status, resolved, portal, said, triaged>>
MessageWrites(c, role) ==
  /\ found[c] # None
  /\ IF found[c] = "none"
     THEN \E t \in Tickets \ Live : /\ portal' = Append(portal, t)
                                    /\ Written(t, role, FALSE, TRUE)
     ELSE Written(found[c], role, FALSE, FALSE) /\ UNCHANGED portal
  /\ found' = [found EXCEPT ![c] = None]

Next ==
  \/ \E t \in Tickets : \/ \E role \in Roles : Open(t, role)
                        \/ \E role \in Roles, i \in BOOLEAN : Reply(t, role, i)
                        \/ \E s \in Statuses \cup {None} : Triage(t, s)
  \/ \E c \in Callers : MessageReads(c) \/ \E role \in Roles : MessageWrites(c, role)
Spec == Init /\ [][Next]_vars

-----------------------------------------------------------------------------
\* "A statement about whose turn it is": unless staff said otherwise since, a
\* ticket waits for the contractor only after a reply of staff the contractor can
\* see, is under way only after one of the contractor's, and is not resolved.
TurnWasTaken ==
  \A t \in Live \ triaged :
    /\ status[t] = "waiting_client" => "STAFF" \in said[t]
    /\ status[t] = "in_progress" => "CLIENT" \in said[t]
    /\ status[t] # "resolved" /\ t \notin resolved
=============================================================================
