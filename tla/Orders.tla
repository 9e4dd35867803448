------------------------------- MODULE Orders -------------------------------
(***************************************************************************)
(* One drafting order: its quote, its revisions, the seals on its drawings *)
(* and its hand-over.                                                      *)
(*                                                                         *)
(* Three sets of routes change the same row: /v1/drafting-orders (which    *)
(* locks the order to add a revision, and the revision to decide it),      *)
(* /api/drafting and /api/engineering (which read the order without a lock *)
(* and then write it by id). Their triggers and checks hold at each write. *)
(***************************************************************************)
EXTENDS Naturals, FiniteSetsExt

CONSTANTS People,        \* callers whose read and write of the quote are two steps
          MaxPrice,      \* bound on the prices quoted
          MaxRevisions,  \* bound on the revisions submitted
          Drawings,      \* documents handed over
          None

VARIABLES
  status,     \* drafting_orders.status
  quote,      \* quote_status
  price,      \* quoted_cents
  binding,    \* quote_approved_at is set
  revision,   \* drafting_revisions.status by number, "none" before it is submitted
  current,    \* current_revision
  sealed,     \* documents that carry a seal
  asked       \* what each caller has read and waits to write
vars == <<status, quote, price, binding, revision, current, sealed, asked>>

Numbers == 1 .. MaxRevisions
Prices == 1 .. MaxPrice
Status == {"requested", "accepted", "in_progress", "in_review", "awaiting_seal",
           "client_review", "revision_requested", "approved", "delivered", "cancelled"}
Working == {"in_progress", "in_review", "client_review", "approved", "delivered"}
Undecided == {"draft", "submitted"}
Decisions == {"approved", "rejected"}
\* What the PATCH of each set of routes may ask for.
Produced == {"requested", "in_progress", "in_review", "awaiting_seal",
             "revision_requested", "cancelled"}
Engineered == Status \ {"awaiting_seal"}

TypeOK ==
  /\ status \in Status
  /\ quote \in {"none", "draft", "sent", "approved", "rejected"}
  /\ price \in Prices \cup {None}
  /\ binding \in BOOLEAN
  /\ revision \in [Numbers -> {"none", "submitted", "superseded"} \cup Decisions]
  /\ current \in 0 .. MaxRevisions
  /\ sealed \subseteq Drawings
  /\ asked \in [People -> {"quote", "approve", "respond"} \cup {None}]

\* POST /api/drafting asks for a quote if any service is priced per job; an
\* order of /v1/drafting-orders never does.
Init ==
  /\ status = "requested" /\ quote \in {"none", "draft"}
  /\ price = None /\ binding = FALSE
  /\ revision = [n \in Numbers |-> "none"] /\ current = 0
  /\ sealed = {}
  /\ asked = [p \in People |-> None]

\* check_drafting_work_authorised, on every write of the status.
Authorised(s) == s \in Working => quote \notin {"draft", "sent", "rejected"}
\* Mutant: only the trigger, which lets an approved quote be sent again.
TriggerOnly(q, b, c) == quote = "approved" /\ q = "approved" => c = price
\* protect_approved_quote, drafting_quote_approval_complete and _has_amount.
QuoteAllowed(q, b, c) ==
  /\ quote = "approved" /\ q = "approved" => c = price
  /\ (q = "approved") = b
  /\ q \in {"sent", "approved"} => c # None

-----------------------------------------------------------------------------
\* The quote. Each route reads the order, refuses on what it read, and writes.
Asks(p, op) ==
  /\ asked[p] = None
  /\ asked' = [asked EXCEPT ![p] = op]
  /\ UNCHANGED <<status, quote, price, binding, revision, current, sealed>>
Asked(p, op) ==
  /\ asked[p] = op
  /\ asked' = [asked EXCEPT ![p] = None]
  /\ UNCHANGED <<revision, current, sealed>>
Refused == UNCHANGED <<status, quote, price, binding>>

QuoteReads(p) == quote # "approved" /\ Asks(p, "quote")
\* POST .../quote of both sets of routes; only engineering's may keep a draft.
QuoteWrites(p) ==
  /\ Asked(p, "quote")
  /\ \E cents \in Prices, q \in {"sent", "draft"} :
       IF QuoteAllowed(q, binding, cents)
       THEN quote' = q /\ price' = cents /\ UNCHANGED <<status, binding>>
       ELSE Refused

ApproveReads(p) == quote = "sent" /\ Asks(p, "approve")
\* POST /api/drafting/:id/approve, and the approval of .../quote/respond, which
\* leaves the status alone.
ApproveWrites(p) ==
  /\ Asked(p, "approve")
  /\ IF QuoteAllowed("approved", TRUE, price)
     THEN /\ quote' = "approved" /\ binding' = TRUE
          /\ status' \in {status, IF status = "requested" THEN "accepted" ELSE status}
          /\ UNCHANGED price
     ELSE Refused

\* POST .../quote/respond with a refusal clears the approval it finds.
RejectReads(p) == quote = "sent" /\ Asks(p, "respond")
RejectWrites(p) ==
  /\ Asked(p, "respond")
  /\ quote' = "rejected" /\ binding' = FALSE
  /\ UNCHANGED <<status, price>>

-----------------------------------------------------------------------------
Supersede(s) == IF s \in Undecided THEN "superseded" ELSE s
\* POST /v1/drafting-orders/:id/revisions, under the order's lock.
SubmitRevision ==
  /\ current < MaxRevisions /\ Authorised("client_review")
  /\ revision' = [n \in Numbers |-> IF n = current + 1 THEN "submitted"
                                    ELSE Supersede(revision[n])]
  /\ current' = current + 1
  /\ status' = "client_review"
  /\ UNCHANGED <<quote, price, binding, sealed, asked>>

\* Mutant: only an approval is final.
DecidableAgain(n) == revision[n] \notin {"none", "approved"}
Decidable(n) == revision[n] \notin {"none"} \cup Decisions
\* POST .../revisions/:revisionId/decision, under the revision's lock.
DecideRevision(n) ==
  /\ Decidable(n)
  /\ \E d \in Decisions :
       LET s == IF d = "approved" THEN "approved" ELSE "revision_requested"
       IN /\ Authorised(s)
          /\ revision' = [revision EXCEPT ![n] = d]
          /\ status' = s
  /\ UNCHANGED <<quote, price, binding, current, sealed, asked>>

-----------------------------------------------------------------------------
\* POST /v1/drafting-orders/:id/assign; engineering's assignment only names a person.
Assign ==
  /\ status = "requested"
  /\ status' = "accepted"
  /\ UNCHANGED <<quote, price, binding, revision, current, sealed, asked>>

\* PATCH /api/drafting/:id and PATCH /api/engineering/orders/:id: any status of
\* their own, in any order.
Move(s) ==
  /\ s \in Produced \cup Engineered /\ s # status /\ Authorised(s)
  /\ status' = s
  /\ UNCHANGED <<quote, price, binding, revision, current, sealed, asked>>

\* POST /api/engineering/seals: a seal is never taken back.
Seal(d) ==
  /\ d \notin sealed
  /\ sealed' = sealed \cup {d}
  /\ UNCHANGED <<status, quote, price, binding, revision, current, asked>>

\* POST /api/drafting/:id/deliver, where a service of the order needs a seal: one
\* sealed document is enough.
Deliver(docs) ==
  /\ status # "delivered" /\ Authorised("delivered")
  /\ docs \cap sealed # {}
  /\ status' = "delivered"
  /\ UNCHANGED <<quote, price, binding, revision, current, sealed, asked>>

Next ==
  \/ \E p \in People : \/ QuoteReads(p) \/ ApproveReads(p) \/ RejectReads(p)
                       \/ QuoteWrites(p) \/ ApproveWrites(p) \/ RejectWrites(p)
  \/ SubmitRevision \/ \E n \in Numbers : DecideRevision(n)
  \/ Assign \/ \E s \in Status : Move(s)
  \/ \E d \in Drawings : Seal(d)
  \/ \E docs \in SUBSET Drawings \ {{}} : Deliver(docs)
Spec == Init /\ [][Next]_vars

-----------------------------------------------------------------------------
\* "The database then refuses to let the amount change": while a quote is
\* approved its price stays, though each route that re-prices has looked at an
\* older status.
PriceStands == [][quote = "approved" => price' = price]_<<quote, price>>

\* However many people submit and decide, one revision at most is with the
\* contractor, and it is the newest.
OneUnderReview ==
  /\ \A n \in Numbers : revision[n] = "submitted" => n = current
  /\ \A n \in Numbers : (n <= current) = (revision[n] # "none")

\* The approval history stays intact: a decision is not changed by what is
\* submitted or decided later.
DecisionStands ==
  [][\A n \in Numbers : revision[n] \in Decisions => revision'[n] = revision[n]]_revision
=============================================================================
