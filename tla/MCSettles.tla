------------------------------ MODULE MCSettles ------------------------------
(***************************************************************************)
(* What must come to an end: Stripe's events, and the warning of a licence *)
(* that expires with its emails. The two share no state in these models,   *)
(* so a behaviour is one of theirs, under the fairness of that one.        *)
(***************************************************************************)
EXTENDS Integers, TLC

CONSTANTS i1, k1, v1, u1, None

VARIABLES
  which,
  invoice, sending, payment, refunds, idem, request, asked, stripe, byKey, acted,
  handed, emitted, hook, job, tries, run, redrives, faults,
  licence, crowded, notices, told, mail

Events == INSTANCE Payments WITH
  Invoices <- {v1}, Intents <- {i1}, PayKeys <- {k1}, RefundKeys <- {},
  InvoiceOf <- (k1 :> v1), Total <- (v1 :> 2), Amounts <- {},
  MaxTries <- 2, Reached <- {"processing", "succeeded", "canceled"}, Dashboard <- FALSE,
  MaxRedrives <- 1, MaxFaults <- 1
Warnings == INSTANCE Notices WITH
  Users <- {u1}, Tries <- 2, Renewals <- 2, job <- notices

\* The variables of each.
paying == <<invoice, sending, payment, refunds, idem, request, asked, stripe, byKey, acted,
            handed, emitted, hook, job, tries, run, redrives, faults>>
warning == <<licence, crowded, notices, told, mail>>
all == <<which, paying, warning>>

Init == which \in {"events", "warnings"} /\ Events!Init /\ Warnings!Init

Next ==
  /\ IF which = "events" THEN Events!Next ELSE UNCHANGED paying
  /\ IF which = "warnings" THEN Warnings!Next ELSE UNCHANGED warning
  /\ UNCHANGED which

\* The fairness of each, while it is the one that moves.
Fairness ==
  LET Moves(A) == which = "events" /\ A
  IN /\ \A e \in Events!Events :
          /\ WF_paying(Moves(Events!Deliver(e))) /\ WF_paying(Moves(Events!Handle(e)))
          /\ WF_paying(Moves(Events!RetryFailedWebhook(e)))
          /\ SF_paying(Moves(Events!CommitSuccess(e)))
          /\ WF_paying(Moves(Events!BreakDeadlock(k1, e)))
     /\ WF_paying(Moves(Events!PayRequest(k1)))
     /\ Warnings!JobFairness /\ WF_warning(which = "warnings" /\ Warnings!NextDay)
Spec == Init /\ [][Next]_all /\ Fairness

-----------------------------------------------------------------------------
\* Every event Stripe emits is applied, or its job is dead where an operator can
\* see it.
EventsSettle == Events!EventsSettle

\* src/jobs/handlers/payments.ts:72: "Never walk a terminal state backwards."
NeverWalksBack == Events!NeverWalksBack

\* A licence about to expire is warned of, and the emails that say so come to an
\* end: sent, and then taken by the provider, or given up.
WarnedInTime ==
  /\ Warnings!WarnedInTime
  /\ Warnings!EmailIsSettled
  /\ [][Warnings!SentWasTaken']_all
=============================================================================
