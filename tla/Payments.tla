------------------------------ MODULE Payments ------------------------------
(***************************************************************************)
(* Card payments: the routes that start and refund a payment               *)
(* (src/routes/payments.ts) under their idempotency keys                   *)
(* (src/lib/idempotency.ts), the webhook route that stores Stripe's events  *)
(* (src/routes/webhooks.ts) and the jobs that apply them                   *)
(* (src/jobs/handlers/payments.ts).                                        *)
(*                                                                         *)
(* A request is one database transaction with a call to Stripe in its      *)
(* middle, so it is three steps: read and lock, call, commit.  Row locks    *)
(* are held from the first to the last; a rollback (Abort) undoes           *)
(* everything except what Stripe did.  An event is applied by several       *)
(* transactions, whose reads lock nothing.  Stripe emits an event for each  *)
(* change, and delivers events late, repeatedly and in any order.           *)
(***************************************************************************)
EXTENDS Integers, FiniteSetsExt

CONSTANTS
  Invoices,     \* invoice ids
  Intents,      \* Stripe's payment intents; also the rows of ocs.payments
  PayKeys,      \* Idempotency-Key values of POST /v1/payments/intent
  RefundKeys,   \* Idempotency-Key values of POST /v1/payments/:id/refund
  None,         \* no such object
  InvoiceOf,    \* InvoiceOf[k]: the invoice named in the body sent with key k
  Total,        \* Total[v]: total_cents
  Amounts,      \* the amounts a refund may be for
  MaxTries,     \* attempts of a payments.process_webhook job
  Reached,      \* bound: the statuses intents reach at Stripe
  Dashboard,    \* are refunds also made in Stripe's own dashboard?
  MaxRedrives,  \* bound: runs of system.retry_failed_webhooks on one event
  MaxFaults     \* bound: rollbacks, failed handlers and killed workers

Keys == PayKeys \cup RefundKeys

IntentStatus == {"requires_payment_method", "processing", "succeeded", "canceled"}

\* Stripe's events: an intent reached a status, or a charge has been refunded
\* up to an amount.
Events == [kind : {"intent"}, intent : Intents, status : IntentStatus]
            \cup [kind : {"refund"}, intent : Intents, amount : Amounts]

\* Stripe's record of an intent, and the row of ocs.payments.
StripeIntents == [status : IntentStatus, invoice : Invoices, amount : Nat, refunded : Nat]
PaymentRows ==
  [status : IntentStatus \cup {"refunded", "partially_refunded"}, refunded : Nat,
   key : PayKeys \cup {None}]

VARIABLES
  invoice,   \* invoice[v]: status and amount_paid_cents
  sending,   \* drafts read by a send that has not written yet
  payment,   \* payment[i]: the row for intent i, or None
  refunds,   \* refund keys with a row in ocs.refunds
  idem,      \* keys with a completed row in ocs.idempotency_keys
  request,   \* request[k]: the transaction holding key k: "idle", "locked" or "called"
  asked,     \* asked[f]: payment and amount in the body sent with key f, or None
  stripe,    \* stripe[i]: Stripe's own record of intent i, or None
  byKey,     \* byKey[k]: the intent Stripe made for key k, or None
  acted,     \* the refund keys Stripe has acted on
  handed,    \* intents whose client secret reached a browser
  emitted,   \* events Stripe has emitted
  hook,      \* hook[e]: status of the row in ocs.webhook_events, or "none"
  job,       \* job[e]: "none", "pending" or "dead"
  tries,     \* tries[e]: attempts of the job so far
  run,       \* run[e]: the handler at work on e, Resting if there is none
  redrives,  \* redrives[e]: times e was queued again after its job died
  faults     \* faults so far

rows == <<invoice, sending, payment, refunds>>
requests == <<idem, request, asked>>
provider == <<stripe, byKey, acted, handed, emitted>>
jobs == <<hook, job, tries, run, redrives>>
vars == <<rows, requests, provider, jobs, faults>>

Resting == [pc |-> "resting", seen |-> "none", sum |-> 0]

-----------------------------------------------------------------------------
Init ==
  /\ invoice = [v \in Invoices |-> [status |-> "none", paid |-> 0]]
  /\ sending = {}
  /\ payment = [i \in Intents |-> None]
  /\ refunds = {}
  /\ idem = {}
  /\ request = [k \in Keys |-> "idle"]
  /\ asked = [f \in RefundKeys |-> None]
  /\ stripe = [i \in Intents |-> None]
  /\ byKey = [k \in PayKeys |-> None]
  /\ acted = {}
  /\ handed = {}
  /\ emitted = {}
  /\ hook = [e \in Events |-> "none"]
  /\ job = [e \in Events |-> "none"]
  /\ tries = [e \in Events |-> 0]
  /\ run = [e \in Events |-> Resting]
  /\ redrives = [e \in Events |-> 0]
  /\ faults = 0

Fault == faults < MaxFaults /\ faults' = faults + 1

\* The lock of "for update" on an invoice: a payment request holds it to its end.
InvoiceFree(v) == \A k \in PayKeys : request[k] # "idle" => InvoiceOf[k] # v

\* Mutant: the refund reads the payment without "for update".
FreeOfHandlers(i) ==
  \A e \in Events : run[e].pc \in {"written", "summed"} => e.intent # i

\* The row lock on a payment: a refund holds it from its read, a handler from
\* its write to its commit.
PaymentFree(i) ==
  /\ \A f \in RefundKeys : request[f] # "idle" => asked[f].intent # i
  /\ \A e \in Events : run[e].pc \in {"written", "summed"} => e.intent # i

-----------------------------------------------------------------------------
\* POST /v1/invoices issues at once; POST /api/billing/invoices makes a draft.
CreateInvoice(v, s) ==
  /\ invoice[v].status = "none"
  /\ invoice' = [invoice EXCEPT ![v].status = s]
  /\ UNCHANGED <<sending, payment, refunds, requests, provider, jobs, faults>>

\* POST /api/billing/invoices/:id/send reads the status without a lock...
SendReads(v) ==
  /\ invoice[v].status = "draft"
  /\ sending' = sending \cup {v}
  /\ UNCHANGED <<invoice, payment, refunds, requests, provider, jobs, faults>>

\* ...and writes whatever has happened since.
SendWrites(v) ==
  /\ v \in sending
  /\ InvoiceFree(v)
  /\ invoice' = [invoice EXCEPT ![v].status = "open"]
  /\ sending' = sending \ {v}
  /\ UNCHANGED <<payment, refunds, requests, provider, jobs, faults>>

\* withIdempotency claims the key by inserting its row; a second request with
\* the key waits on that row, then replays the answer or claims the key itself.
ClaimKey(k) ==
  /\ k \notin idem
  /\ request[k] = "idle"
  /\ request' = [request EXCEPT ![k] = "locked"]

Payable(v) == invoice[v].status \notin {"none", "paid", "void"} /\ invoice[v].paid < Total[v]

\* Bound: the intents left in the model.
IntentLeft(k) == byKey[k] # None \/ \E i \in Intents : stripe[i] = None

\* POST /v1/payments/intent up to its call to Stripe.
BeginIntent(k) ==
  /\ ClaimKey(k)
  /\ InvoiceFree(InvoiceOf[k])
  /\ Payable(InvoiceOf[k])
  /\ IntentLeft(k)
  /\ UNCHANGED <<idem, asked, rows, provider, jobs, faults>>

\* createPaymentIntent: Stripe answers a repeated key with the same intent.
StripeCreates(k, i) ==
  LET v == InvoiceOf[k]
  IN /\ k \in PayKeys
     /\ request[k] = "locked"
     /\ \/ byKey[k] = i /\ UNCHANGED stripe
        \/ /\ byKey[k] = None
           /\ stripe[i] = None
           /\ stripe' = [stripe EXCEPT ![i] =
                [status |-> "requires_payment_method", invoice |-> v,
                 amount |-> Total[v] - invoice[v].paid, refunded |-> 0]]
     /\ byKey' = [byKey EXCEPT ![k] = i]
     /\ request' = [request EXCEPT ![k] = "called"]
     /\ UNCHANGED <<idem, asked, acted, handed, emitted, rows, jobs, faults>>

\* Mutant: the index is missing.
NoKeyIndex(k, i) == k \in PayKeys /\ i \in Intents

\* payments_idempotency_key: one payment row per key.
KeyUnused(k, i) == \A j \in Intents \ {i} : payment[j] # None => payment[j].key # k

\* The rest of POST /v1/payments/intent: the payment row, the stored answer and
\* the client secret in it.  Stripe's answer is the one it gave at first.
CommitIntent(k) ==
  LET i == byKey[k]
  IN /\ k \in PayKeys
     /\ request[k] = "called"
     /\ PaymentFree(i)
     /\ payment' = [payment EXCEPT ![i] =
          IF @ = None THEN [status |-> "requires_payment_method", refunded |-> 0, key |-> k]
          ELSE [@ EXCEPT !.status = "requires_payment_method"]]
     /\ payment[i] = None => KeyUnused(k, i)
     /\ idem' = idem \cup {k}
     /\ request' = [request EXCEPT ![k] = "idle"]
     /\ handed' = handed \cup {i}
     /\ UNCHANGED <<invoice, sending, refunds, asked, stripe, byKey, acted, emitted, jobs, faults>>

\* The insert meets the index: the key made another payment before.
IndexRefuses(k) ==
  /\ k \in PayKeys
  /\ request[k] = "called"
  /\ payment[byKey[k]] = None
  /\ ~KeyUnused(k, byKey[k])
  /\ request' = [request EXCEPT ![k] = "idle"]
  /\ UNCHANGED <<idem, asked, rows, provider, jobs, faults>>

\* The transaction rolls back: an error, a timeout or a crash.  Stripe keeps
\* what it has done, and the client may send the request again.
Abort(k) ==
  /\ request[k] # "idle"
  /\ Fault
  /\ request' = [request EXCEPT ![k] = "idle"]
  /\ UNCHANGED <<idem, asked, rows, provider, jobs>>

\* system.cleanup_idempotency, 24 hours later; Stripe may by then have dropped
\* the key too.
CleanupIdempotency(k) ==
  /\ k \in idem
  /\ Fault
  /\ idem' = idem \ {k}
  /\ \/ UNCHANGED byKey
     \/ k \in PayKeys /\ byKey' = [byKey EXCEPT ![k] = None]
  /\ acted' \in {acted, acted \ {k}}
  /\ UNCHANGED <<request, asked, rows, stripe, handed, emitted, jobs>>

-----------------------------------------------------------------------------
\* POST /v1/payments/:id/refund up to its call to Stripe.
BeginRefund(f, i, amount) ==
  /\ ClaimKey(f)
  /\ asked[f] \in {None, [intent |-> i, amount |-> amount]}
  /\ asked' = [asked EXCEPT ![f] = [intent |-> i, amount |-> amount]]
  /\ PaymentFree(i)
  /\ payment[i] # None
  /\ payment[i].status \in {"succeeded", "partially_refunded"}
  /\ amount <= stripe[i].amount - payment[i].refunded
  /\ UNCHANGED <<idem, rows, provider, jobs, faults>>

\* createRefund: a repeated key gets the first answer again.
StripeRefunds(f) ==
  LET i == asked[f].intent
      total == stripe[i].refunded + asked[f].amount
  IN /\ f \in RefundKeys
     /\ request[f] = "locked"
     /\ \/ f \in acted /\ UNCHANGED <<stripe, emitted>>
        \/ /\ f \notin acted
           /\ total <= stripe[i].amount
           /\ stripe' = [stripe EXCEPT ![i].refunded = total]
           /\ emitted' = emitted \cup {[kind |-> "refund", intent |-> i, amount |-> total]}
     /\ acted' = acted \cup {f}
     /\ request' = [request EXCEPT ![f] = "called"]
     /\ UNCHANGED <<idem, asked, byKey, handed, rows, jobs, faults>>

\* Stripe has less left to refund than our row says: an error, so a rollback.
StripeRefuses(f) ==
  /\ f \in RefundKeys \ acted
  /\ request[f] = "locked"
  /\ stripe[asked[f].intent].refunded + asked[f].amount > stripe[asked[f].intent].amount
  /\ request' = [request EXCEPT ![f] = "idle"]
  /\ UNCHANGED <<idem, asked, rows, provider, jobs, faults>>

\* A refund made in Stripe's dashboard.
DashboardRefund(i, amount) ==
  /\ Dashboard
  /\ stripe[i] # None
  /\ stripe[i].status = "succeeded"
  /\ LET total == stripe[i].refunded + amount
     IN /\ total <= stripe[i].amount
        /\ stripe' = [stripe EXCEPT ![i].refunded = total]
        /\ emitted' = emitted \cup {[kind |-> "refund", intent |-> i, amount |-> total]}
  /\ UNCHANGED <<byKey, acted, handed, rows, requests, jobs, faults>>

RefundStatus(i, total, otherwise) ==
  IF total >= stripe[i].amount THEN "refunded"
  ELSE IF total > 0 THEN "partially_refunded" ELSE otherwise

\* refunds_idempotency_key: one refund row per key.
\* payments_refund_within_amount: no refund beyond the payment.
RefundFits(f) ==
  /\ f \notin refunds
  /\ payment[asked[f].intent].refunded + asked[f].amount <= stripe[asked[f].intent].amount

\* The rest of POST /v1/payments/:id/refund...
CommitRefund(f) ==
  LET i == asked[f].intent
      total == payment[i].refunded + asked[f].amount
  IN /\ f \in RefundKeys
     /\ request[f] = "called"
     /\ RefundFits(f)
     /\ refunds' = refunds \cup {f}
     /\ payment' = [payment EXCEPT ![i].refunded = total,
                                   ![i].status = RefundStatus(i, total, @)]
     /\ idem' = idem \cup {f}
     /\ request' = [request EXCEPT ![f] = "idle"]
     /\ UNCHANGED <<invoice, sending, asked, provider, jobs, faults>>

\* ...or the database refuses what Stripe has done.
RefundMisfits(f) ==
  /\ f \in RefundKeys
  /\ request[f] = "called"
  /\ ~RefundFits(f)
  /\ request' = [request EXCEPT ![f] = "idle"]
  /\ UNCHANGED <<idem, asked, rows, provider, jobs, faults>>

-----------------------------------------------------------------------------
\* What happens to an intent at Stripe: the customer confirms it in the browser,
\* the bank answers, or somebody cancels it.
Moves ==
  {<<"requires_payment_method", "processing">>, <<"requires_payment_method", "succeeded">>,
   <<"processing", "succeeded">>, <<"processing", "requires_payment_method">>,
   <<"requires_payment_method", "canceled">>}

StripeMoves(i, s) ==
  /\ stripe[i] # None
  /\ <<stripe[i].status, s>> \in Moves
  /\ s \in Reached
  /\ i \in handed \/ s = "canceled"
  /\ stripe' = [stripe EXCEPT ![i].status = s]
  /\ emitted' = emitted \cup {[kind |-> "intent", intent |-> i, status |-> s]}
  /\ UNCHANGED <<byKey, acted, handed, rows, requests, jobs, faults>>

\* POST /v1/webhooks/stripe: the event and its job are stored together; a
\* redelivery finds the row and changes nothing.
Deliver(e) ==
  /\ e \in emitted
  /\ hook[e] = "none"
  /\ hook' = [hook EXCEPT ![e] = "received"]
  /\ job' = [job EXCEPT ![e] = "pending"]
  /\ UNCHANGED <<tries, run, redrives, rows, requests, provider, faults>>

-----------------------------------------------------------------------------
At(e, pc) == run[e].pc = pc
Goto(e, pc) == run' = [run EXCEPT ![e].pc = pc]

\* Mutant: an event that is being processed counts as applied.
SeenBefore(e) == hook[e] \in {"processing", "processed"}

AlreadyApplied(e) == hook[e] = "processed"

\* processWebhook loads the event and marks it as being processed.
Start(e) ==
  /\ job[e] = "pending"
  /\ At(e, "resting")
  /\ tries' = [tries EXCEPT ![e] = @ + 1]
  /\ \/ /\ AlreadyApplied(e)
        /\ job' = [job EXCEPT ![e] = "none"]
        /\ UNCHANGED <<hook, run>>
     \/ /\ ~AlreadyApplied(e)
        /\ hook' = [hook EXCEPT ![e] = "processing"]
        /\ Goto(e, "started")
        /\ UNCHANGED job
  /\ UNCHANGED <<redrives, rows, requests, provider, faults>>

\* applyPaymentIntent reads the payment's status; nothing is locked.
ReadPayment(e) ==
  /\ At(e, "started")
  /\ e.kind = "intent"
  /\ run' = [run EXCEPT ![e].pc = "read",
               ![e].seen = IF payment[e.intent] = None THEN "none" ELSE payment[e.intent].status]
  /\ UNCHANGED <<hook, job, tries, redrives, rows, requests, provider, faults>>

\* Never walk a terminal state backwards: decided from what was read.
Terminal(status) == status = "succeeded"

NothingToDo(e) ==
  /\ At(e, "read")
  /\ Terminal(run[e].seen)
  /\ Goto(e, "applied")
  /\ UNCHANGED <<hook, job, tries, redrives, rows, requests, provider, faults>>

\* The row applyPaymentIntent writes: an update of the row it saw or, the unique
\* index on the intent permitting, a new one.
Written(e) ==
  IF run[e].seen = "none" THEN [status |-> e.status, refunded |-> 0, key |-> None]
  ELSE [payment[e.intent] EXCEPT !.status = e.status]

MayWrite(e) ==
  /\ At(e, "read")
  /\ ~Terminal(run[e].seen)
  /\ PaymentFree(e.intent)
  /\ run[e].seen = "none" => payment[e.intent] = None

\* Any status but succeeded: the write is the whole transaction.
WriteStatus(e) ==
  /\ MayWrite(e)
  /\ e.status # "succeeded"
  /\ payment' = [payment EXCEPT ![e.intent] = Written(e)]
  /\ Goto(e, "applied")
  /\ UNCHANGED <<hook, job, tries, redrives, invoice, sending, refunds, requests, provider, faults>>

\* A success is written and then applied to the invoice before the commit.
WriteSuccess(e) ==
  /\ MayWrite(e)
  /\ e.status = "succeeded"
  /\ Goto(e, "written")
  /\ UNCHANGED <<hook, job, tries, redrives, rows, requests, provider, faults>>

\* Mutant: the sum forgets to ask for succeeded payments.
CountsAnyStatus(e) ==
  LET asked_for == {i \in Intents : stripe[i] # None /\ stripe[i].invoice = stripe[e.intent].invoice
                                      /\ (i = e.intent \/ payment[i] # None)}
      amount(i) == stripe[i].amount
  IN MapThenSumSet(amount, asked_for)

\* Mutant: the sum does not see the row its own transaction has written.
CountsOthers(e) ==
  LET others == {i \in Intents \ {e.intent} :
                   payment[i] # None /\ stripe[i].invoice = stripe[e.intent].invoice
                     /\ payment[i].status = "succeeded"}
      amount(i) == stripe[i].amount
  IN MapThenSumSet(amount, others)

\* What the invoice's payments add up to, in the handler's snapshot: rows other
\* transactions have committed and its own.
Counted(e) ==
  LET v == stripe[e.intent].invoice
      sees(i) == IF i = e.intent THEN Written(e) ELSE payment[i]
      paid == {i \in Intents : stripe[i] # None /\ stripe[i].invoice = v /\ sees(i) # None
                                 /\ sees(i).status = "succeeded"}
      net(i) == stripe[i].amount - sees(i).refunded
  IN MapThenSumSet(net, paid)

\* The invoice's update takes its snapshot, then waits for the row...
SumPayments(e) ==
  /\ At(e, "written")
  /\ run' = [run EXCEPT ![e].pc = "summed", ![e].sum = Counted(e)]
  /\ UNCHANGED <<hook, job, tries, redrives, rows, requests, provider, faults>>

\* ...and the transaction commits.
CommitSuccess(e) ==
  LET v == stripe[e.intent].invoice
  IN /\ At(e, "summed")
     /\ InvoiceFree(v)
     /\ payment' = [payment EXCEPT ![e.intent] = Written(e)]
     /\ invoice' = [invoice EXCEPT ![v].paid = run[e].sum,
                                   ![v].status = IF run[e].sum >= Total[v] THEN "paid" ELSE @]
     /\ Goto(e, "applied")
     /\ UNCHANGED <<hook, job, tries, redrives, sending, refunds, requests, provider, faults>>

\* applyRefund: Stripe's total replaces ours.
ApplyRefund(e) ==
  LET i == e.intent
  IN /\ At(e, "started")
     /\ e.kind = "refund"
     /\ \/ payment[i] = None /\ UNCHANGED payment
        \/ /\ payment[i] # None
           /\ PaymentFree(i)
           /\ payment' = [payment EXCEPT ![i].refunded = e.amount,
                                         ![i].status = RefundStatus(i, e.amount, @)]
     /\ Goto(e, "applied")
     /\ UNCHANGED <<hook, job, tries, redrives, invoice, sending, refunds, requests, provider, faults>>

Rest(e) == run' = [run EXCEPT ![e] = Resting]

\* markProcessed...
MarkProcessed(e) ==
  /\ At(e, "applied")
  /\ hook' = [hook EXCEPT ![e] = "processed"]
  /\ Goto(e, "marked")
  /\ UNCHANGED <<job, tries, redrives, rows, requests, provider, faults>>

\* ...and the worker records the job as succeeded.
JobSucceeds(e) ==
  /\ At(e, "marked")
  /\ job' = [job EXCEPT ![e] = "none"]
  /\ Rest(e)
  /\ UNCHANGED <<hook, tries, redrives, rows, requests, provider, faults>>

\* Mutant: one try too many.
BuryLate(e) == job' = [job EXCEPT ![e] = IF tries[e] > MaxTries THEN "dead" ELSE "pending"]

RetryOrBury(e) == job' = [job EXCEPT ![e] = IF tries[e] >= MaxTries THEN "dead" ELSE "pending"]

\* The handler throws; its open transaction is rolled back and the event marked
\* as failed.
HandlerFails(e) ==
  /\ run[e].pc \in {"started", "read", "written", "summed", "applied"}
  /\ Fault
  /\ hook' = [hook EXCEPT ![e] = "failed"]
  /\ RetryOrBury(e)
  /\ Rest(e)
  /\ UNCHANGED <<tries, redrives, rows, requests, provider>>

\* The insert meets a row another transaction made since the read.
InsertConflicts(e) ==
  /\ At(e, "read")
  /\ run[e].seen = "none"
  /\ payment[e.intent] # None
  /\ hook' = [hook EXCEPT ![e] = "failed"]
  /\ RetryOrBury(e)
  /\ Rest(e)
  /\ UNCHANGED <<tries, redrives, rows, requests, provider, faults>>

\* The worker is killed; the event stays as it is and the reaper frees the job.
WorkerDies(e) ==
  /\ ~At(e, "resting")
  /\ Fault
  /\ RetryOrBury(e)
  /\ Rest(e)
  /\ UNCHANGED <<hook, tries, redrives, rows, requests, provider>>

\* A request holds the invoice and wants its payment's row, which the handler
\* holds while it wants the invoice; Postgres rolls one of the two back.
BreakDeadlock(k, e) ==
  /\ k \in PayKeys
  /\ request[k] = "called"
  /\ At(e, "summed")
  /\ byKey[k] = e.intent
  /\ InvoiceOf[k] = stripe[e.intent].invoice
  /\ \/ /\ request' = [request EXCEPT ![k] = "idle"]
        /\ UNCHANGED <<hook, job, run>>
     \/ /\ hook' = [hook EXCEPT ![e] = "failed"]
        /\ RetryOrBury(e)
        /\ Rest(e)
        /\ UNCHANGED request
  /\ UNCHANGED <<idem, asked, tries, redrives, rows, provider, faults>>

\* system.retry_failed_webhooks: the job's dedupe key refuses a second live job.
RetryFailedWebhook(e) ==
  /\ hook[e] = "failed"
  /\ job[e] # "pending"
  /\ redrives[e] < MaxRedrives
  /\ redrives' = [redrives EXCEPT ![e] = @ + 1]
  /\ job' = [job EXCEPT ![e] = "pending"]
  /\ tries' = [tries EXCEPT ![e] = 0]
  /\ UNCHANGED <<hook, run, rows, requests, provider, faults>>

-----------------------------------------------------------------------------
PayRequest(k) ==
  (\E i \in Intents : StripeCreates(k, i)) \/ CommitIntent(k) \/ IndexRefuses(k)

RefundRequest(f) == StripeRefunds(f) \/ StripeRefuses(f) \/ CommitRefund(f) \/ RefundMisfits(f)

Handle(e) ==
  \/ Start(e)
  \/ ReadPayment(e) \/ NothingToDo(e) \/ WriteStatus(e) \/ InsertConflicts(e)
  \/ WriteSuccess(e) \/ SumPayments(e) \/ CommitSuccess(e)
  \/ ApplyRefund(e)
  \/ MarkProcessed(e) \/ JobSucceeds(e)

Next ==
  \/ \E v \in Invoices :
       (\E s \in {"draft", "open"} : CreateInvoice(v, s)) \/ SendReads(v) \/ SendWrites(v)
  \/ \E k \in PayKeys : BeginIntent(k) \/ PayRequest(k)
  \/ \E f \in RefundKeys :
       (\E i \in Intents, a \in Amounts : BeginRefund(f, i, a)) \/ RefundRequest(f)
  \/ \E k \in Keys : Abort(k) \/ CleanupIdempotency(k)
  \/ \E k \in PayKeys, e \in Events : BreakDeadlock(k, e)
  \/ \E i \in Intents :
       \/ \E s \in IntentStatus : StripeMoves(i, s)
       \/ \E a \in Amounts : DashboardRefund(i, a)
  \/ \E e \in Events :
       Deliver(e) \/ Handle(e) \/ HandlerFails(e) \/ WorkerDies(e) \/ RetryFailedWebhook(e)

Spec == Init /\ [][Next]_vars

\* Stripe delivers, the queue runs a pending job, and a transaction ends; a row
\* lock is granted in the order it was asked for, so a handler waiting for the
\* invoice gets it (SF), and Postgres looks for deadlocks.
Fairness ==
  /\ \A e \in Events : WF_vars(Deliver(e)) /\ WF_vars(Handle(e)) /\ WF_vars(RetryFailedWebhook(e))
                       /\ SF_vars(CommitSuccess(e))
  /\ \A k \in PayKeys, e \in Events : WF_vars(BreakDeadlock(k, e))
  /\ \A k \in PayKeys : WF_vars(PayRequest(k))
  /\ \A f \in RefundKeys : WF_vars(RefundRequest(f))

FairSpec == Spec /\ Fairness

-----------------------------------------------------------------------------
\* Every variable has its type: rows, Stripe's objects and the requests and events
\* at work stay within the values the columns and the API can hold.
TypeOK ==
  /\ invoice \in [Invoices -> [status : {"none", "draft", "open", "paid"}, paid : Nat]]
  /\ sending \subseteq Invoices
  /\ payment \in [Intents -> PaymentRows \cup {None}]
  /\ refunds \subseteq RefundKeys
  /\ idem \subseteq Keys
  /\ request \in [Keys -> {"idle", "locked", "called"}]
  /\ \A f \in RefundKeys : asked[f] # None => asked[f] \in [intent : Intents, amount : Amounts]
  /\ stripe \in [Intents -> StripeIntents \cup {None}]
  /\ byKey \in [PayKeys -> Intents \cup {None}]
  /\ acted \subseteq RefundKeys
  /\ handed \subseteq Intents
  /\ emitted \subseteq Events
  /\ hook \in [Events -> {"none", "received", "processing", "processed", "failed"}]
  /\ job \in [Events -> {"none", "pending", "dead"}]
  /\ tries \in [Events -> 0 .. MaxTries]
  /\ \A e \in Events :
       run[e].pc \in {"resting", "started", "read", "written", "summed", "applied", "marked"}
  /\ redrives \in [Events -> 0 .. MaxRedrives]
  /\ faults \in 0 .. MaxFaults

\* An invoice is paid only with money Stripe has: whatever is replayed, reordered
\* or applied twice, amount_paid is never more than its succeeded intents.
PaidIsCovered ==
  \A v \in Invoices :
    LET got == {i \in Intents : stripe[i] # None /\ stripe[i].invoice = v
                                  /\ stripe[i].status = "succeeded"}
        amount(i) == stripe[i].amount
    IN /\ invoice[v].paid <= MapThenSumSet(amount, got)
       /\ invoice[v].status = "paid" => got # {}

\* "A double-clicked Pay button reuses the key and the second insert loses the
\* race instead of charging twice": one payment per key, across rollbacks after
\* Stripe's answer and the clean-up of old keys on both sides.
OnePaymentPerKey ==
  \A i, j \in Intents :
    (i # j /\ payment[i] # None /\ payment[j] # None /\ payment[i].key = payment[j].key)
      => payment[i].key = None

\* Once a success is recorded in full, the invoice asks for no more money, even
\* when a late "send" reopened it or two successes were summed at once.
PaidNotAskedAgain ==
  \A i \in Intents :
    (payment[i] # None /\ payment[i].status = "succeeded" /\ payment[i].refunded = 0)
      => ~Payable(stripe[i].invoice)

\* Once Stripe has refunded money, our record of it fits the payment: neither a
\* second request, a retry after a lost transaction nor the refund's own event
\* arriving first makes the constraint refuse it.
RefundsWithinPayment ==
  \A f \in RefundKeys :
    (request[f] = "called" /\ f \notin refunds)
      => payment[asked[f].intent].refunded + asked[f].amount <= stripe[asked[f].intent].amount

\* No intent is made for an invoice with a recorded success: the outstanding
\* balance read by a request is still the balance when Stripe is called.
MakesNoIntentOncePaid ==
  \A i \in Intents :
    (stripe[i] = None /\ stripe'[i] # None)
      => \A j \in Intents :
           (payment[j] # None /\ stripe[j].invoice = stripe'[i].invoice)
             => payment[j].status # "succeeded" \/ payment[j].refunded > 0

\* Every event Stripe emits is applied, or its job is dead where an operator can
\* see it: none is lost to a killed worker, a rollback or a duplicate.
EventsSettle == \A e \in Events : e \in emitted ~> (hook[e] = "processed" \/ job[e] = "dead")

\* "Never walk a terminal state backwards": money that has arrived is not
\* reported as not arrived.
NeverWalksBack ==
  [][\A i \in Intents :
       (payment[i] # None /\ payment[i].status \in {"succeeded", "partially_refunded", "refunded"})
         => payment'[i].status \in {"succeeded", "partially_refunded", "refunded"}]_vars
=============================================================================
