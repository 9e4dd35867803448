------------------------------ MODULE MCOffice ------------------------------
(***************************************************************************)
(* The components about money, documents and orders, side by side. They    *)
(* share no state in these models, so a behaviour is one of theirs: which  *)
(* says whose, and the variables of the others stay as they began.         *)
(* Payments is looked at three times: two intents that take their time,    *)
(* two requests that are rolled back, and one payment and its refunds; the *)
(* outbox twice (two tabs, and one tab that sends again), and so are the   *)
(* documents (their versions, and the other upload routes).                *)
(***************************************************************************)
EXTENDS Integers, TLC

CONSTANTS
  \* Who asks: two who are interchangeable, or one alone.
  Pair, Single,
  \* What the components hold: intents, permits, places; invoices, visits, projects;
  \* documents, drawings, notaries.
  i0, i1, i2, k0, v1, d1,
  \* Refunds: the amounts asked for, of payments of so much; handlers rolled back.
  Amounts, Price, Faults,
  \* The outbox: what a supervisor does, at which visit, and of which kind.
  Actions, VisitOf, KindOf, Required, ManySends,
  \* Documents: versions begun, and uploads of the other routes.
  MaxVersions, MaxInline,
  MaxRequests,                         \* signature requests ever sent
  MaxMailings, Attempts, Days,         \* mailings, tries of each, and the days
  Notaries,
  MaxPrice, MaxRevisions, Drawings,    \* orders
  MaxHeld,                             \* retainers
  Checks, Writes,                      \* calls of an agency
  None

ASSUME OutboxAssumption == Actions \subseteq Nat \ {0}
ASSUME CountsAssumption == MaxVersions \in Nat \ {0} /\ MaxInline \in Nat /\ MaxRequests \in Nat
ASSUME DaysAssumption == Days \in Nat \ {0} /\ Attempts \in Nat \ {0} /\ MaxMailings \in Nat
ASSUME OrdersAssumption == MaxPrice \in Nat /\ MaxRevisions \in Nat /\ MaxHeld \in Nat

VARIABLES
  which,
  invoice, sending, payment, refunds, idem, request, asked, stripe, byKey, acted,
  handed, emitted, hook, job, tries, run, redrives, faults,
  outbox, made, discarded, page, sends, landed, refused, evidence, closed, ours,
  doc, state, number, count, current, files, completing, purging, inline, orphans,
  agreement, signature, opening,
  paper, post, row, letter, carrier, today,
  act, reading,
  order, quote, price, binding, revision, latest, sealed, orderAsked,
  plan, paid, top, held, waiting, planAsked, overlapped,
  token, requesting, call, took,
  place, reference, reply, word, says,
  filed, standing, works, items, shown, wish, pulling,
  form, key, server, cached, loaded, flight, carried, step, phase, went, due, over, minutes,
  failed,
  thread, said, members, posting, bell, seen, feed, clock,
  pipeline, board, scope, query,
  entry, site, filings

Charges == INSTANCE Payments WITH
  Invoices <- {v1}, Intents <- {i1, i2}, PayKeys <- Pair, RefundKeys <- {},
  InvoiceOf <- [k \in Pair |-> v1], Total <- (v1 :> 2), Amounts <- {},
  MaxTries <- 1, Reached <- {"processing", "succeeded"}, Dashboard <- FALSE,
  MaxRedrives <- 0, MaxFaults <- 0
Rollbacks == INSTANCE Payments WITH
  Invoices <- {v1}, Intents <- {i1, i2}, PayKeys <- Pair, RefundKeys <- {},
  InvoiceOf <- [k \in Pair |-> v1], Total <- (v1 :> 2), Amounts <- {},
  MaxTries <- 1, Reached <- {"succeeded"}, Dashboard <- FALSE,
  MaxRedrives <- 0, MaxFaults <- 2
Refunds == INSTANCE Payments WITH
  Invoices <- {v1}, Intents <- {i0}, PayKeys <- Single, RefundKeys <- Pair,
  InvoiceOf <- [k \in Single |-> v1], Total <- [v \in {v1} |-> Price],
  MaxTries <- 1, Reached <- {"succeeded"}, Dashboard <- TRUE,
  MaxRedrives <- 0, MaxFaults <- Faults
\* A key is of one route; amounts are whole cents; None is no object of Stripe's.
ASSUME RefundsAssumption ==
  /\ Single \cap Pair = {} /\ Amounts \subseteq Nat /\ Price \in Nat
  /\ None # i0 /\ None \notin Refunds!StripeIntents /\ None \notin Refunds!PaymentRows

\* The outbox and the documents are looked at twice.
PhoneLooks == {"two tabs", "one tab"}
OneVisit == [a \in Actions |-> v1]
Kinds == (1 :> "check-in" @@ 2 :> "photo" @@ 3 :> "sign-off")
Phone(w) == INSTANCE FieldOutbox WITH
  Pages <- IF w = "one tab" THEN Single ELSE Pair,
  MaxSends <- IF w = "one tab" THEN ManySends ELSE 1
StoreLooks == {"versions", "uploads"}
Store(w) == INSTANCE Documents WITH
  Uploaders <- Pair,
  MaxVersions <- IF w = "uploads" THEN 1 ELSE MaxVersions,
  MaxInline <- IF w = "uploads" THEN MaxInline ELSE 0

Agreement == INSTANCE Signing WITH
  Clients <- Pair, status <- agreement, evidence <- signature
Letters == INSTANCE Mailings WITH Clerks <- Pair, doc <- paper
OneAct == INSTANCE Notary WITH Clerks <- Pair
Order == INSTANCE Orders WITH
  People <- Pair, status <- order, current <- latest, asked <- orderAsked
Retainer == INSTANCE Retainers WITH Staff <- Pair, asked <- planAsked
Calls == INSTANCE Agency WITH held <- token, asking <- requesting
ASSUME CallsAssumption ==
  /\ Checks \cap Writes = {}
  /\ None \notin 1 .. Attempts /\ None \notin Calls!Tokens /\ None \notin Calls!Outcome
Answer == INSTANCE Statuses WITH MaxWords <- 2
Folders == INSTANCE Portal WITH
  Docs <- {d1}, Permits <- {i1, i2}, Projects <- {v1}, ProjectOf <- [p \in {i1, i2} |-> v1],
  Stored <- {"drawing", "correction_notice", "license"}, MaxOpen <- 0, People <- {},
  Requests <- {}, doc <- filed, permit <- standing, project <- works, open <- items,
  read <- shown, request <- wish, asked <- pulling
Queue == INSTANCE Portal WITH
  Docs <- {}, Permits <- {}, Projects <- {}, ProjectOf <- <<>>, Stored <- {"drawing"},
  MaxOpen <- 1, People <- Pair, Requests <- Single, doc <- filed, permit <- standing,
  project <- works, open <- items, read <- shown, request <- wish, asked <- pulling
Screen == INSTANCE Screens WITH MaxChanges <- 1
Talk == INSTANCE Threads WITH
  Contractors <- {k0, v1}, Staff <- {d1}, Reader <- k0, Shown <- 2, MaxTime <- 4,
  messages <- said, active <- members, shown <- seen, now <- clock
Dashboard == INSTANCE Board WITH
  Many <- 2, Company <- (1 :> k0 @@ 2 :> v1),
  Statuses <- {"corrections_required", "approved", "closed"}, Late <- {0, 8},
  Expiries <- {"never", "past"}, Limit <- 2, permit <- pipeline, step <- query
Outlook == INSTANCE Roadmap WITH
  Places <- {k0, v1}, MaxPermits <- 4, MaxVolume <- 5,
  Found <- {k0 :> "accela" @@ v1 :> "accela", k0 :> "custom" @@ v1 :> "custom",
            k0 :> "custom" @@ v1 :> "unmatched", k0 :> "energov" @@ v1 :> "custom"},
  kind <- entry, row <- site, volume <- filings

\* The variables of each.
paying == <<invoice, sending, payment, refunds, idem, request, asked, stripe, byKey, acted,
            handed, emitted, hook, job, tries, run, redrives, faults>>
sendingOn == <<outbox, made, discarded, page, sends, landed, refused, evidence, closed, ours>>
storing == <<doc, state, number, count, current, files, completing, purging, inline, orphans>>
signing == <<agreement, signature, opening>>
mailing == <<paper, post, row, letter, carrier, today>>
notarizing == <<act, reading>>
ordering == <<order, quote, price, binding, revision, latest, sealed, orderAsked>>
retaining == <<plan, paid, top, held, waiting, planAsked, overlapped>>
calling == <<token, requesting, call, took>>
answering == <<place, reference, reply, word, says>>
showing == <<filed, standing, works, items, shown, wish, pulling>>
watching == <<form, key, server, cached, loaded, flight, carried, step, phase, went, due, over,
              minutes, failed>>
talking == <<thread, said, members, posting, bell, seen, feed, clock>>
surveying == <<pipeline, board, scope, query>>
foreseeing == <<entry, site, filings>>
all == <<which, paying, sendingOn, storing, signing, mailing, notarizing, ordering, retaining,
         calling, answering, showing, watching, talking, surveying, foreseeing>>

Looks == PhoneLooks \cup StoreLooks \cup
  {"charges", "rollbacks", "refunds", "agreement", "letters", "act", "order", "retainer",
   "agency", "statuses", "folders", "queue", "screens", "threads", "board", "roadmap"}

\* What is not looked at begins as in one of its looks.
Init ==
  /\ which \in Looks
  /\ IF which = "refunds" THEN Refunds!Init ELSE Charges!Init
  /\ \E w \in PhoneLooks :
       /\ w = which \/ (which \notin PhoneLooks /\ w = "two tabs")
       /\ Phone(w)!Init
  /\ \E w \in StoreLooks :
       /\ w = which \/ (which \notin StoreLooks /\ w = "versions")
       /\ Store(w)!Init
  /\ Agreement!Init /\ Letters!Init /\ OneAct!Init /\ Retainer!Init
  /\ Order!Init
  /\ which # "order" => quote = "none"
  /\ Calls!Init /\ Answer!Init
  /\ IF which = "folders" THEN Folders!Init ELSE Queue!Init
  /\ Screen!Init /\ Talk!Init /\ Dashboard!Init
  /\ Outlook!Init
  /\ which # "roadmap" => entry = (k0 :> "accela" @@ v1 :> "accela") /\ ~site[k0].portalUrl
                           /\ ~site[v1].portalUrl
  /\ which # "screens" => form = Screen!Hold /\ key = "client"

Next ==
  /\ CASE which = "charges" -> Charges!Next
       [] which = "rollbacks" -> Rollbacks!Next
       [] which = "refunds" -> Refunds!Next
       [] OTHER -> UNCHANGED paying
  /\ \/ \E w \in PhoneLooks : which = w /\ Phone(w)!Next
     \/ which \notin PhoneLooks /\ UNCHANGED sendingOn
  /\ \/ \E w \in StoreLooks : which = w /\ Store(w)!Next
     \/ which \notin StoreLooks /\ UNCHANGED storing
  /\ IF which = "agreement" THEN Agreement!Next ELSE UNCHANGED signing
  /\ IF which = "letters" THEN Letters!Next ELSE UNCHANGED mailing
  /\ IF which = "act" THEN OneAct!Next ELSE UNCHANGED notarizing
  /\ IF which = "order" THEN Order!Next ELSE UNCHANGED ordering
  /\ IF which = "retainer" THEN Retainer!Next ELSE UNCHANGED retaining
  /\ IF which = "agency" THEN Calls!Next ELSE UNCHANGED calling
  /\ IF which = "statuses" THEN Answer!Next ELSE UNCHANGED answering
  /\ CASE which = "folders" -> Folders!Next
       [] which = "queue" -> Queue!Next
       [] OTHER -> UNCHANGED showing
  /\ IF which = "screens" THEN Screen!Next ELSE UNCHANGED watching
  /\ IF which = "threads" THEN Talk!Next ELSE UNCHANGED talking
  /\ IF which = "board" THEN Dashboard!Next ELSE UNCHANGED surveying
  /\ IF which = "roadmap" THEN Outlook!Next ELSE UNCHANGED foreseeing
  /\ UNCHANGED which

Spec == Init /\ [][Next]_all

Symmetry == Permutations(Pair)

-----------------------------------------------------------------------------
\* Every variable of every component keeps its type.
TypeOK ==
  CASE which = "charges" -> Charges!TypeOK
    [] which = "rollbacks" -> Rollbacks!TypeOK
    [] which = "refunds" -> Refunds!TypeOK
    [] which \in PhoneLooks -> \A w \in PhoneLooks : which = w => Phone(w)!TypeOK
    [] which \in StoreLooks -> \A w \in StoreLooks : which = w => Store(w)!TypeOK
    [] which = "agreement" -> Agreement!TypeOK
    [] which = "letters" -> Letters!TypeOK
    [] which = "act" -> OneAct!TypeOK
    [] which = "order" -> Order!TypeOK
    [] which = "retainer" -> Retainer!TypeOK
    [] which = "agency" -> Calls!TypeOK
    [] which = "statuses" -> Answer!TypeOK
    [] which = "folders" -> Folders!TypeOK
    [] which = "queue" -> Queue!TypeOK
    [] which = "screens" -> Screen!TypeOK
    [] which = "threads" -> Talk!TypeOK
    [] which = "board" -> Dashboard!TypeOK
    [] which = "roadmap" -> Outlook!TypeOK

\* An invoice is paid only with money Stripe has: whatever is replayed, reordered
\* or applied twice, amount_paid is never more than its succeeded intents, each
\* key has one payment, and nothing more is asked for what is recorded in full.
PaidIsCovered ==
  which \in {"charges", "rollbacks"} =>
    Charges!PaidIsCovered /\ Charges!OnePaymentPerKey /\ Charges!PaidNotAskedAgain

\* An invoice is charged once: no new intent after a success that is recorded in full.
ChargedOnce ==
  [][(which \in {"charges", "rollbacks"}) => Charges!MakesNoIntentOncePaid]_all

\* Money goes out only where it is: refunds fit their payment, and of a retainer
\* no more is released than is held, nor onboarding charged twice.
MoneyIsThere ==
  /\ which = "refunds" => Refunds!RefundsWithinPayment
  /\ which = "retainer" => Retainer!OnboardingPaidOnce /\ Retainer!NotOverdrawn

\* What a supervisor did on site stays on the phone until the server has it or a
\* person gave it up, and goes out in the order it was done.
OutboxKept ==
  \A w \in PhoneLooks :
    which = w => Phone(w)!NothingIsLost /\ Phone(w)!OnlyRefusalsAreSkipped

\* A document and its files agree: each upload has a number of its own, what can
\* be read has its file, what was purged has none.
FilesAreThere ==
  \A w \in StoreLooks : which = w =>
    /\ Store(w)!NumbersDistinct /\ Store(w)!LiveHasFiles
    /\ Store(w)!PurgedHasNoFile /\ Store(w)!CurrentIsUploaded

\* Nothing is on record that did not happen so: no letter twice, no delivery of
\* one that was not delivered, no act beyond its notary's commission, no two
\* agreements or revisions open at once; nothing booked twice with an agency, and no
\* failure of a call called by another's name.
NoFalseRecord ==
  CASE which = "letters" -> Letters!OneLetterEach /\ Letters!NoFalseProof
    [] which = "act" -> OneAct!ActIsGood
    [] which = "agreement" -> Agreement!OneOpenRequest
    [] which = "order" -> Order!OneUnderReview
    [] which = "agency" -> /\ Calls!WrittenOnce /\ Calls!KindsAreTrue
                           /\ Calls!AskedForSomebody /\ Calls!CallsGiveUp
    [] OTHER -> TRUE

\* What somebody has agreed to, attested or decided stands, whatever a request
\* does that had read it earlier.
AgreementsStand ==
  /\ Agreement!SignedStands /\ Agreement!WithdrawnByMistake
  /\ OneAct!ActStands
  /\ Order!PriceStands /\ Order!DecisionStands
  /\ Letters!FirstDateStands

\* What the rules make of the facts is what the facts say: a status no agency gave
\* is not reported, no work it asks for is missed, and what a contractor is shown
\* is what is there, once, with what stops the work first;
\* a screen shows what the person at it has just done, and in time what others have,
\* and offers what the server takes;
\* a thread's counters and pages are right and its notes stay inside, and the
\* dashboard counts every permit once; the roadmap's figures add up, and what it
\* calls quick is.
RulesAgree ==
  CASE which = "statuses" -> Answer!RulesAgree
    [] which = "folders" -> Folders!ShownRight
    [] which = "queue" -> Queue!ShownRight
    [] which = "screens" -> Screen!ScreensRight
    [] which = "threads" -> Talk!ThreadsRight
    [] which = "board" -> Dashboard!BoardRight
    [] which = "roadmap" -> Outlook!RoadmapRight
    [] OTHER -> TRUE
=============================================================================
