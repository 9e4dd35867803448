# Verification of the One Contractor Solutions backend

TLA+ models of the parts of this repository whose correctness depends on order
and timing, the TLC runs that check them on small instances, and TLAPS proofs of
the results that matter most. Paths in this file are relative to `src/` of the
repository unless they start with `web/` or `db/`; `0012:495` means line 495 of
`db/migrations/0012_*.sql`, and `compat/` is `src/routes/compat/`.

To repeat the checks, in this directory:

    tlc -workers 2 -config SiteVisits.cfg MCSiteVisits     # any run of PROJECT.json
    tlapm SiteVisitsProofs.tla                             # any *Proofs module

- [The system](#the-system): every component, its state and what is hard about it
- [The models](#the-models): which module stands for what, and how
- [The runs](#the-runs): what TLC checks, with which bounds
- [The proofs](#the-proofs)
- [Known disagreements](#known-disagreements) between the code and what it says of itself
- [Plan](#plan): what comes next
- [Not modelled](#not-modelled), and why

## The system

A Fastify API (`index.ts`), a worker process (`worker.ts`) and a React
application (`web/`) over one Postgres database with row-level security. Files
are in object storage; money moves at Stripe, letters at Lob, email at Resend,
and permits at municipal portals. Two generations of routes write the same
tables: `/v1` (`routes`) and `/api` (`compat`).

Every access to the database is one READ COMMITTED transaction (`withTenant`,
`withServiceContext`, `withWorkerTenant` in `db/tenant.ts`). A statement
sees what was committed when it started, and nothing else is promised: what one
statement read may be stale for the next, unless a lock was taken. Most of what
is hard in this code follows from that, and from calls to other systems in the
middle of, or between, transactions.

| Component | Modules | State | What is hard | What makes it correct |
|---|---|---|---|---|
| **Job queue and workers** `jobs/queue.ts`, `runner.ts` | `JobQueue`, `DurableQueue` | `jobs`: status, attempts, lock; calls in flight | claim, handler and answer are three steps; answers later than the reaper | an accepted job ends as done or dead; one live row per dedupe key; attempts bounded; one attempt at a time |
| **Recurring schedules** `runner.ts:121` | `JobScheduler` | `job_schedules.next_run_at` | the reaper is a job of the queue it repairs; a crash between two transactions | each schedule runs again and again; one pending run each |
| **Payments and webhooks** `routes/payments.ts`, `webhooks.ts`, `lib/idempotency.ts`, `jobs/handlers/payments.ts` | `Payments` | invoices, payments, refunds, keys, events | Stripe is called inside the transaction and not rolled back with it; events are duplicated and reordered | no invoice is paid with money nobody has; a repeated key makes one payment; refunds fit; each event is applied or dead |
| **Billing** `compat/billing.ts`, `compat/invoices.ts` | `Retainers`, `Numbering` | subscription, `retainer_ledger`, numbers | balance read without a lock | nothing charged twice; no more released than held |
| **Supervision engagements** `routes/supervision.ts`, `compat/supervision.ts`, `0012` | `Engagements` | licences, supervisors, engagements | triggers count rows they do not lock; two routes with different guards | capacity limits; completion only after supervision |
| **Site visits and photographs** same, `0013` | `VisitPlan`, `SiteVisits` | visits, photographs, documents, files | some routes lock, others do not; a trigger keeps a count; a watch writes by id | a sign-off stands; the count is that of the photographs; the purge destroys nothing in use |
| **Field outbox** `web/src/lib/fieldQueue.ts` | `FieldOutbox` | IndexedDB on the phone | lost answers, several tabs, reloads | nothing a supervisor did is lost; order within a visit |
| **Sessions** `auth/`, `compat/auth.ts` | `Sessions` | refresh tokens, `token_version`, second factor, cookies | rotation under concurrent tabs with a grace period; reuse as theft | what ends a session ends it; tabs never lose their cookie |
| **Accounts and roles** `compat/api.ts`, `compat/auth.ts`, `routes/admin.ts` | `Accounts`, `Members` | `app_users`, memberships, links | a roster counted before it is written | somebody administers; a claimed account is not taken |
| **Permits** `routes/permits.ts`, `jobs/handlers/permitStatus.ts`, `compat/corrections.ts`, `compat/inspections.ts` | `Permits`, `Inspections` | status, history, corrections, inspections, requirements | the check reads, asks the municipality, then writes | no history that cannot be; an end stands; failures are booked again |
| **Permit applications** `routes/permitApplications.ts`, `0010` | `Intake` | facts, checklist, subcontractors | facts edited while a subcontractor is named | one permit per application; uploads are kept |
| **Compliance** `compat/compliance.ts`, `jobs/handlers/compliance.ts` | `Filing`, `Notices` | certificates, holds, licences | the day in Florida and in UTC; scans and edits | nobody is cleared whom the screens block; an expiry is told |
| **Documents** `routes/documents.ts`, `compat/documents.ts` | `Documents` | rows, versions, files | abandoned and overtaken uploads; the purge | what can be read has its file, what was purged has none |
| **Signatures, acts, letters** `compat/signing.ts`, `compat/notary.ts`, `compat/mailings.ts` | `Signing`, `Notary`, `Mailings` | requests, acts, letters | a stale request writes by id; the carrier's events in any order | what was signed or sealed stands; one letter per mailing, no false proof |
| **Orders** `routes/drafting.ts`, `compat/drafting.ts`, `compat/engineering.ts` | `Orders` | quote, revisions, seals | three sets of routes for one row | an accepted price and a decision stand |
| **Municipal adapters** `routes/municipalIntegration.ts`, `services/municipalities/` | `Jurisdictions`, `Agency`, `Statuses` | mapping, verification, tokens | a shared token; retries of writes; words of an agency | nothing booked twice; no status nobody gave |
| **Tenancy** `db/tenant.ts`, `db/pool.ts`, `0008` | `Tenancy` | pooled connections, their settings, policies | a connection that keeps what its last borrower set | a request reads and writes its company's rows |
| **Schema migrations, numbers** `db/migrate.ts`, `0002` | `Migrations`, `Numbering` | applied files; own numbers | instances that start at once | each file once and in order; numbers without gaps |
| **Messages, support, notifications** `routes/messages.ts`, `compat/support.ts`, `services/notifications.ts`, `0005`, `0018` | `Threads`, `Desk`, `Notices` | threads, tickets, deliveries | counters kept by triggers; pages read while more comes in | notes stay inside; counters are right; the turn is whose it is |
| **Portal, dashboard, roadmap** `compat/portal.ts`, `compat/api.ts`, `compat/mapping.ts`, `shared/portal.ts`, `shared/integration.ts` | `Portal`, `Board`, `Roadmap` | derived from rows, in several statements | the rows change between the statements | each thing is shown once, and where it belongs; figures add up |
| **Web application** `web/src` | `Screens`, `Sessions` | query cache, forms | answers in flight when a form is sent | a person sees what they did, and in time what others did |

How they meet: a route that starts work in the background inserts a row of
`ocs.jobs` in its own transaction, so the queue sees it exactly if the
transaction commits. The schedules insert rows of the same table, the reaper
included. Stripe and Lob come back through `routes/webhooks.ts`, Stripe by way of
the queue. The field screen reaches the `/api` routes of the site visits, and
the visits' photographs are documents, with the documents' life. Every route
runs in a transaction of `Tenancy`. Where one component needs another, its module has
the other's part that it depends on (the visits in `Engagements`, the documents
in `SiteVisits`, the queue in `Payments` and `Notices`), and names it there.

## The models

Each state variable and each action carries the name of the code's column or
function where there is one; `PROJECT.json` gives the lines of every definition.
A `\* Mutant` comment precedes a plausible bug of the definition that follows;
no specification uses it. The mutants show that each property can fail.

The pattern of nearly all of them: a person, tab, clerk or connection has one
request at a time; a request that reads, and writes on the strength of what it
read, is two actions with what it read in between (`asked[p]`, `reading`,
`posting[p]`), unless it holds the row's lock, when the second waits for it. A
single conditional UPDATE is one action.

### Job queue: `JobQueue`, `DurableQueue`

`JobQueue` has the rows of one named queue (`status`, `key`, `attempts`,
`lockedBy`) and the worker processes with their `processJob` calls (`run`).
Every queue operation is a single statement and therefore one action; what is
not atomic, the life of an attempt, is one action each for `Claim`,
`HandlerEnds`, `CompleteJob` or `FailJob`. Time is two comparisons of the SQL
with `now()`: `due` and `expired`. `CompleteThrows` and `FailThrows` are the
error paths of `processJob`, including a commit whose acknowledgement is lost.
`Crash`, `Shutdown`, `Exit` and `Start` are the process's life.

`LateAnswers` divides what can be promised. The reaper's timeout and the
worker's own timer are the same number of seconds. If a live worker records its
answer before its row is reaped (`LateAnswers = FALSE`), the queue implements
`DurableQueue`; an acknowledgement of `completeJob` can be lost all the same. If
not, `failJob`, which has no ownership condition, can disturb a row that is no
longer its own, and only the properties of the run `queue_late` remain.

`DurableQueue` is the promise itself, without workers, locks or time. What it says of
a done job is what the code keeps: `unheard` are the done jobs whose worker was not
told so and is still there, and that worker may undo one, once (`Undo`), because it
takes the lost acknowledgement for a failure. Nobody else brings a done job back.

### Schedules: `JobScheduler`

Extends `JobQueue` with `tickScheduler`: `TickSelect` is its first transaction,
`TickEnqueue` one of those that follow, and `TickThrows`, `Crash` and `Exit` end
a tick in between. The reaper's handler is a job (`ReaperReturns`). The table of
jobs has no end and the model's has: `Forget` gives back a settled row no call works
on, and does so before anything else happens. A lost acknowledgement is possible here
as in `JobQueue`, so a run that succeeded may come back.

### Payments: `Payments`

A request is a transaction with a call to Stripe inside: `Begin...` (read and
lock), `Stripe...` (the call), `Commit...`, or `Abort` at any point, which undoes
everything but what Stripe did. Applying an event is a chain of steps because
`applyPaymentIntent` reads without a lock, writes the payment, then sums and
writes the invoice. `PaymentFree` and `InvoiceFree` are the row locks, and
`BreakDeadlock` is Postgres ending the one cycle they can form. Stripe
(`StripeMoves`, `DashboardRefund`, `byKey`) is external: it honours idempotency
keys and emits an event per change; delivery is in any order, and redelivery
changes nothing because the event's id is unique.

### Site visits: `VisitPlan`, `SiteVisits`

`VisitPlan` is the abstract specification of a visit's row: the moves between
statuses, each in one step. `SiteVisits` is the routes. A check-in, a sign-off
and an upload through `/api` hold the visit `for update` from their read to
their commit and are two actions; adding and removing a photograph through
`/v1` read without a lock, and the recounting trigger of `0013` counts when its
statement starts and writes when it gets the row, so each is three actions.
Scheduling and waiving are single statements. The visit watch is one
transaction that selects and then writes by id. A photograph is also a document
(`document`) and a file (`file`): promised by a signed URL, stored, and deleted
by the purge outside the transaction that deletes its rows. Neither route's
sign-off relies on its own look at the photographs: what decides is the trigger
and the constraint at its statement (`Accepts`).

Two locks of Postgres decide what can interleave. Inserting a photograph takes
`for key share` on the visit (the foreign key), which `for update` waits for and
which other inserts and an update of `photo_count` do not: `KeyShared`, `Held`.

Choices: the assignment of a visit to a supervisor only refuses requests and is
left out here (`FieldOutbox` has it). Selecting the documents to purge and
deleting their files is one step, since an expired document never leaves that
state: its restoration is refused. Confirming a photograph only writes
`upload_state`, which no visit's route reads. An ad-hoc visit names documents
that no other visit has as photographs. The narrative of a visit
(`PATCH /api/supervision/visits/:id`) is not modelled.

### Engagements: `Engagements`

Licences, supervisors, engagements and their plans. Activation and completion
lock their engagement, run a trigger that looks at rows it does not lock, and
are seen at their commit: `Begin...` and `Commit...`, with the uncommitted change
in `pending`. The visits move as `VisitPlan` says (an instance over the pairs of
engagement and milestone), whether or not the engagement looks. `settled`
remembers the visits that were ever signed off or waived: the code has no such
column, the property needs it. An engagement has one trade, whose milestones
are `Template[t]`, and a licence and a supervisor must cover it; the connections
are those of both pools of every process. Ad-hoc visits are not part of a plan
and are left out.

### Field outbox: `FieldOutbox`

The IndexedDB store, the pages that flush it, and the three routes it is sent
to, as far as they accept or refuse. A flush reads the store once and works on
what it read. `SendLands` with the answer `lost` is the request that was carried
out without the phone knowing. A blocked action is one the server refused for
good (4xx but 408 and 429). The screen's own count of photographs may lag behind
the server's; that makes `Offered` stricter, never laxer.

### People and their sessions: `Sessions`, `Accounts`, `Members`, `Tenancy`

`Sessions` is one account: its refresh tokens, the columns of `app_users` that
decide whether a session is good (`version`, `active`, `factor`), and browsers
with a cookie and tabs. Rotation is two transactions (`consumeRefreshToken`,
`issueRefreshToken`) and the cookie changes only when the answer arrives.
`ends` counts what ended the sessions of the account; each grant carries the
count it was made under (`era`), which the code has not and the properties need.
`overrun` marks that a set-up wrote over a factor it had not read, or that a code
was taken after the factor was switched off (`auth/native.ts:520`).

`Accounts` is the roster of the firm and of its contractors' teams (`/api`),
`Members` that of a company (`/v1`). A request that counts who else administers
takes at most the lock of the row it changes, so counting and writing are two
steps; `stale` marks requests whose roster changed in between.

`Tenancy` is the transaction itself: a connection of the pool, `begin`, the
settings local to the transaction (`local`, over what the session has,
`Over`), statements, the end; and one table for each kind of policy in `0008`.
A connection that is given back is blank.

### Permits: `Permits`, `Inspections`, `Intake`, `Filing`, `Jurisdictions`, `Agency`, `Statuses`

`Permits` moves one permit by the three routes (with the table of transitions
under a lock, by force, and through `/api`), by logging corrections, by the
nightly check (`run`: read, ask, write) and deletes it on an unlocked look.
`Inspections` has what follows filing; both its PATCH routes look and then write.
`Intake` is one application with its checklist. `Filing` is whether a permit may
be started: the same question answered by a route in JavaScript and by a view in
SQL, with Florida's day and UTC's evening in between (`evening`).

`Jurisdictions` is the way to automated checks: configure (read `api_config`,
merge, write the whole), try, verify, switch on. `Agency` is the client of an
agency's interface: one token shared by all calls, one request for it at a time,
a single retry after a refusal, repeated reads and writes sent once.
`Statuses` is what becomes of an answer: the choice of an adapter, its check, and
the ordered rules that turn words into a status. A text is the set of the kinds
of word in it.

### Money and orders: `Retainers`, `Numbering`, `Orders`

Subscription, onboarding and the retainer's ledger read their balance without a
lock (`waiting` holds what was read). `Numbering` is the trigger with its
advisory lock, and the office's invoice numbers, which have none. `Orders` is
one drafting order under three sets of routes.

### Paper: `Documents`, `Signing`, `Notary`, `Mailings`

`Documents` is one document with its versions: row, file and completion in three
requests, deletion, restoration and a purge that goes file by file, and the
routes that take the bytes with the request. `Signing` is the requests for one
kind of agreement; opening reads in one statement and writes in another that looks
at nothing but the id. `Notary` is one act with the two triggers that keep it.
`Mailings` posts a document: read, row, letter (with retries under one key),
answer, each committed before the next, and the carrier's events in any order.

### What is told and shown: `Notices`, `Threads`, `Desk`, `Portal`, `Board`, `Roadmap`, `Screens`

`Notices` is the warning that a licence expires: the scan, the job that tells
the company's people and stamps the licence, the email of each. A scan takes the 1000
items with the fewest days left: `crowded` says that as many of other people's come
before the licence, which `OthersChange` may make so and undo at any time. An email's
attempt may be abandoned by `runWithTimeout` and go on beside the next one
(`DeliverTimesOut`, `AbandonedRecords`). `Threads` is a
thread of messages with its counters, notes among the staff and closing, and the
feed of notifications read a page at a time by a cursor that is precise to the
millisecond. `Desk` is the support tickets and whose turn they are.

`Portal` is the contractor's folders and list of things to do; `Board` the
dashboard and list of permits, with the translation between the two vocabularies
of a permit's status. Each answer is put together from several statements, and the
office goes on working in between: what a statement read is in `read` or `board`.
`Roadmap` is the ranking of jurisdictions by what stands between us and a better
channel; one statement reads it all, so the model is its arithmetic over rows
that people edit. Shares of volume are kept as whole permits: the code's are
floating point, and a sum of three or more shares that is exactly four fifths
may round below it and count one jurisdiction more.

`Screens` is a browser: one form, its requests one after the other with the
answers that can be lost or refused, and one of the queries of its page, with
the rules of the query cache (an answer that is older than an invalidation is
asked again, hidden tabs aside). `Forms` gives, for each of the pages, what its
form sends and which queries it tells the cache of, `Watched` which of its
queries is looked at; `LeftToTheMinute` names the forms that do not tell of a
query they change and leave it to the refetch of every minute. A form also has the
roles its page offers it to, and each request those the server takes it from, each
written down where the code does so: `can` in the page, `requireCapability`,
`refuseReadOnly` and `portalScope` in the route, over the one table of
`shared/permissions.ts`. `OfferedIsTaken` compares the two and is exact:
`RefusedAnyway` lists every form that is offered to a role the server refuses.
`ContractorIsAnswered` says that no query of a contractor's pages is refused. Whether
a role is asked for is the model's; the rows a role may see are `Tenancy`'s.

### Start-up: `Migrations`

Instances that boot at once, each reading the list of applied files before it
waits for the advisory lock, and a crash between two files.

## The runs

Every run has its own question; because many components share no state, three
of the MC modules put components side by side: a variable `which` chooses whose
behaviour it is, and the others stay as they began. Their properties are sums
too: `RulesAgree` of `MCOffice`, say, is what `Statuses`, `Portal`, `Screens`,
`Threads`, `Board` and `Roadmap` promise, each where it is `which`.

| Run | Question | Instance |
|---|---|---|
| `queue_timely` | With timely answers, does the queue keep its promise, crashes, deploys and operators included, and is every accepted job settled? | 2 rows, 1 key, 2 workers of 1 slot, 1 crash or deploy, 1 revival; 100 000 states |
| `queue_late` | What still holds when answers arrive after the reaper? | the same, no crash; 1.1 million |
| `queue_attempts` | Violation: `failJob` revives a row that is not its own | 8 000 |
| `scheduler` | Do schedules keep running whatever dies, the reaper included? | 3 rows, 2 schedules, 1 worker, 1 crash; 30 000 |
| `payments_terminal` | Violation: a stale event walks a success back | the instance of `settles`; stops after some thousands |
| `settles` | Does every Stripe event, and every warning of an expiry, come to an end? | 1 intent, 1 fault, 1 re-drive; 1 person, 2 tries, 2 renewals; 30 000 states |
| `visits` | Do the interleaved routes follow the plan, does a sign-off stand, does the purge spare what is in use? | 1 planned and 1 ad-hoc visit, 2 photographs, 3 requests at once; 780 000 up to symmetry |
| `engagements` | Is overshoot bounded, and completion supervised? | 4 engagements, 2 trades, 2 licences with a limit of 1, 2 connections; 1.5 million up to symmetry |
| `visit_photo_count` | Violation: two photographs added at once are counted as one | 1 visit, 2 photographs, 2 requests |
| `engagement_capacity` | Violation: two activations pass one limit | 1 licence |
| `access` | What people may do: sessions (two tabs that race, two whose sessions are ended, one with a second factor), accounts, members, one permit, one application, bookings and resolutions, a jurisdiction, certificates of two kinds, numbers, deploys, tickets, pooled connections | two people, tabs or requests each; 718 000 states up to symmetry |
| `office` | What the office records and shows: charges, rollbacks, refunds, the outbox (two tabs, and one that sends again), documents (versions, and the inline routes), an agreement, letters, an act, an order, a retainer, an agency, its words, folders and list, screens, a thread, the dashboard, the roadmap | two people, tabs, keys or permits each; 474 000 states up to symmetry |

`access` checks: what ends sessions ends them all (`SessionsEnd`), no dead cookie
(`CookieIsFresh`), administrators and claimed accounts are kept
(`AccountsKept`), histories are possible and ends stand (`HistoryKept`), failures
are booked again (`FailureIsRebooked`), once means once (`HappensOnce`), decisions
hold (`DecisionsHold`) and rows are a company's own (`OwnRowsOnly`). `office`
checks: money (`PaidIsCovered`, `ChargedOnce`, `MoneyIsThere`), the outbox
(`OutboxKept`), files (`FilesAreThere`), records (`NoFalseRecord`,
`AgreementsStand`) and what is made of facts (`RulesAgree`).

Several properties except what an overlap of two requests can do (`stale`,
`overlapped`, `overrun`, `WithdrawnByMistake`): there the code takes no lock, the
disagreement is listed below, and the property says that nothing less than that
overlap does it.

Bounds, and why they are enough. Every race in these components is between two
or three parties over one row: two slots claim and answer for one row while the
reaper or an operator moves it; two requests and the handler of an event meet on
one invoice; a sign-off meets the addition and the removal of a photograph
(three requests); two tabs meet in one rotation and a third token shows the
grace period. Counters that have no end in the code are cut off by named
constants: `AttemptCap`, `MaxRestarts`, `MaxRevivals`, `MaxTries`, `MaxRedrives`,
`MaxFaults`, `MaxSends`, `MaxEnds`, `MaxFactors`, `MaxRequests`, `MaxCycles`,
`MaxVersions`, `MaxMailings`, `MaxHeld`, `MaxChanges`, `MaxTime`, `Days`,
`Requests`, `Connections` (the pool's size, a bound the code has). `Engagements`
needs three engagements and two connections for a licence to be over its limit by
one. `Board` has three statuses (one that waits for the
contractor, one decided, one at an end) and `Roadmap` four pairs of reference
entries, of eight kinds. Symmetry is used for safety only.

`CHECK_DEADLOCK FALSE` stands where the system may rest: all rows settled, no
request sent, the outbox empty. The scheduler never rests, and its run checks
for deadlock.

Fairness. `FairSpec` of `JobQueue` asks that processes restart, loops poll,
handlers end by return or by the timer, and the reaper runs; not that a handler
succeeds. `FairSchedSpec` drops the last, because showing that the reaper runs is the
point, and asks that a tick or a reaper's run that is tried again and again
once gets through (SF), and that a row claimable again and again is claimed
(claims are ordered by priority and `run_at`). `Fairness` of `Payments` asks that
Stripe delivers, that the queue runs pending jobs, that transactions end, and
that a lock waited for is granted (SF for `CommitSuccess`: Postgres grants row
locks in order). `Fairness` of `Notices` asks that days pass, that the daily scan
reaches the licence where it can (WF: a licence that is crowded out is not scanned, and
`WarnedInTime` promises nothing to one that is crowded out again and again) and that a
job tried again and again succeeds once; nothing of an abandoned handler. No fairness
is asked of people, faults or restarts beyond that.

## The proofs

All of the following hold for every value of the constants that meets the
modules' named assumptions: any number of rows, workers, visits, photographs,
requests, engagements, people, tabs, tokens, companies, connections, files, actions
on a phone, versions of a document, letters, refunds. Every property of the run
`access` but its types is a theorem, and so is every one of `office` but its types,
the sums of payments and `RulesAgree`.

| Module | Theorem | Says |
|---|---|---|
| `JobQueueProofs` | `TypeCorrect`, `KeysStayUnique`, `SuccessIsEarned`, `LocksMatch`, `ResultsComeFromTheOwner` | types; one live row per dedupe key; no success without a finished handler; a row names a worker exactly while it runs; only who holds a row makes it succeed; all with late answers too |
| | `OneAttemptAtATime`, `AttemptsStayBounded`, `QueueIsDurable` | with timely answers: one attempt at a time, no more than the maximum; the queue implements `DurableQueue`, so that a done job comes back only by the worker that was not told of its success |
| | `SchedulesRunOnce` | each schedule has at most one live job, of `JobScheduler` |
| `SiteVisitsProofs` | `TypeCorrect`, `FilesAreKept` | types; the purge spares what is in use |
| | `VisitsFollowThePlan` | `SiteVisits` implements `VisitPlan` |
| | `SignOffsStand` | no request undoes a sign-off, and the watch only of a visit it had selected |
| `EngagementsProofs` | `TypeCorrect`, `OvershootIsBounded`, `CompletedWereSupervised` | types; limit plus connections less one; no completion without supervision |
| `IdentityProofs` | `SessionsEndForGood`, `CookiesStayFresh` | what ended a session ended it; tabs keep a cookie that works |
| | `RequestsKeepToTheirRows` | a request reads and leaves its company's rows |
| `AccessProofs` | `WhatHappensHappensOnce` | one permit of an application, own numbers, each file of the schema once and in order, cycles counted |
| | `FailuresAreRebooked`, `DecisionsStand` | each failure has its re-inspection; what was decided is gone by |
| | `HistoryStays`, `SomebodyAdministers` | histories are possible, ends stand; no firm or company without its administrator |
| `OfficeProofs` | `AgreementsAreKept`, `RecordsAreTrue` | what was signed, attested, priced, sealed or delivered stands; nothing is on record that did not happen so |
| | `DocumentsHaveFiles`, `OutboxIsKept` | what can be read has its file; what was done on site stays on the phone until it was carried out, and goes out in its order |
| | `MoneyIsKept` | a refund Stripe has made fits its payment; a retainer pays out no more than it holds |

Assumptions. `JobQueue`, `SiteVisits` and `Engagements` name theirs where they
declare their constants. `MCAccess` has: each tab is of a browser
(`BrowsersAssumption`); counts are natural numbers (`TriesAssumption`,
`CountsAssumption`, `DaysAssumption`); there is a company with accounts
(`AccountsAssumption`: somebody has to employ the first contractor); and `None` is
none of the values it stands in for (`SessionNone`, `MembersNone`, `IsolationNone`,
`AccountsAssumption`). The last is how SQL's `null` is told from a value; nothing
is assumed of how many of anything there are. `MCOffice` has the same kinds: actions
are numbered in the order they are made (`OutboxAssumption`), counts and amounts are
natural numbers, no call of an agency is a check and a write (`CallsAssumption`), and
no idempotency key is of a payment and a refund (`RefundsAssumption`: the key's index
has the endpoint in it). Its theorem on refunds is about one payment, with any number
of refunds of any amounts and of handlers rolled back (which the run has in its look at
rollbacks); payments share no row but the invoice's, which a refund
does not touch.

The inductive invariants, and why they are needed:

- `TimelyInv` (`JobQueue`). "One attempt at a time" is not inductive: a claim
  makes a second call on a row only if a first survived its row's release. The
  invariant says that each call is current (its row is running, with its host
  and its attempt number, or its success was recorded and not acknowledged) and that
  rows are in order (attempts within the maximum, lock and status agree).
  `ResultFromOwner` needs none: the guard of
  `completeJob` is enough, which is what `failJob` lacks.
- `SchedInv` (`JobScheduler`). A tick has selected a schedule that another tick has
  enqueued since, so "once" rests on the index of the dedupe key alone: a live row
  has the key of its schedule (the reaper's has none), and no two live rows have
  one key.
- `ReadsStand` (`SiteVisits`). To implement a step of `VisitPlan` at the commit,
  what was read before must still be so: a request that holds a visit finds it
  open, and no two requests hold the same one. This is where the locks are used:
  every writer of `status`, the watch with all it selected included, either holds
  the visit or waits for whoever does. `Typed` adds to the types that a request at
  work is about a visit, and a photograph, of the model.
- `OvershootBounded` is inductive with the types because it counts the pending
  activations (`Load`). When one begins, the trigger has seen at most
  limit - 1 committed ones, and at most connections - 1 others are pending.
- `OnItsWay` (`Engagements`). At its commit a completion relies on what the
  trigger saw: the visits of its plan existed and the mandatory ones were
  settled. They may move before the commit, but `settled` and existence remain.
- `SessionInv` (`Sessions`). A session is accepted where its version is the
  account's, and what is asked is whether any end passed since it was granted:
  so every grant anywhere, in a tab, a row or an answer in flight, carries as many
  ends as its version counts (`Granted`), and one that passed the second factor
  names the factor the account has while its version is current (`Verified`).
  `Owned` says that a token belongs to one browser, wherever it is; `Fresh`, that
  a cookie whose token has been rotated has an answer on its way to it, in a tab of
  its browser. A tab that loses that answer is the one case where it has not, and
  puts its browser in `lost`.
- `TenancyInv` (`Tenancy`). A connection is lent to the request that has it and
  to no other (`Lent`); before the settings are made it has none, and while
  statements run it has those of its borrower (`Scoped`); and what is written but
  not committed is the request's to leave (`Written`). A company cannot see
  another's rows because the session's own settings are never made:
  `set_config(..., true)` is what the proof uses of `withTenant`.
- `SchemaInv` (`Migrations`). An instance reads what is applied before it has the
  lock, so its list is out of date; but a file that nobody has applied is on it, and
  no file is applied before an earlier one. The primary key does the rest.
- `NumbersInv` (`Numbering`). The numbers of a table are 1 to n, and the one row
  being inserted has n + 1 and the lock. An office invoice has no lock and is left out.
- `CyclesInv` (`Permits`). The next number is the largest there is and one more,
  which is unique because the highest number is the count of those there are.
- `BookedInv` (`Inspections`). Recording a failure books the re-inspection unless
  the row that was read was failed already. That it is safe to skip it depends on
  what was read before: a request that read a failure is about a row whose
  re-inspection is booked, and stays so, since no inspection is removed.
- `DecisionsInv`. `TurnInv`: as long as nobody triaged a ticket, whom it waits for
  follows from who has spoken, and it is not resolved. `CertifiedInv` is types only:
  both answers to "may this permit be started" look at the same rows in one
  statement, and what the proof is about is the days. `ClaimInv` has the types of the
  accounts and whom each request under way is about.
- `PermitInv` (`Permits`). A lock is held from the look to the write
  (`FOR UPDATE`), so at most one request changes a status, and the transition
  it looked up is still one when it writes; a deletion has no lock, and what
  it saw was not live; a check began with a permit that was.
- `ApplicationInv`, `ResolveInv`: what a permit was converted with is on the
  checklist; a request to resolve is one of the three the route takes.
- `FirmInv` and `MemberInv`. The rosters are counted before they are written, so
  "somebody administers" needs that what a request read, unless another
  overtook it, is still so (`StillRead`, `RosterRead`): who changes somebody else is
  an administrator, who changes their own row leaves it one, and a company has
  another owner than the one being demoted. Without the exception (`stale`) the
  property is false, and TLC shows two administrators removing each other.

- `SigningInv` (`Signing`). A request is signed exactly when it has its evidence, and
  one at most waits for its signer. The one write that does not look is that of an
  opening page: it may show a withdrawn request as viewed (`RevivedByOpening`), never
  a signed one as open.
- `OrderInv` (`Orders`). The price is binding exactly while the quote is approved, and
  one revision at most is under review. What a request has read is not in it: the
  statements that write a price or a decision ask for the status they rely on in
  their own `WHERE`.
- `LetterInv` (`Mailings`). A clerk at work has a row and a number of tries left, an
  answered one has a letter, and a letter is made once under its row's key; a date
  of delivery or return is the carrier's.
- `CallsInv` (`Agency`). A token is being requested exactly while some call waits for
  it; a call has been sent no oftener than its tries and its one new token allow
  (`GoodCall`); a write is taken once, because what is sent again was refused before
  the agency acted (`GoodWrite`).
- `StoreInv` (`Documents`). Versions are begun in order and a number is never
  ahead of its version, which is why "the highest and one" is free; an uploaded version
  has its file unless its retention has ended, since a completion has seen the file and
  only an expired document is purged, file first.
- `OutboxInv` (`FieldOutbox`). A flush sends what it once read while other tabs
  enqueue, discard and send. What keeps the order is that each action earlier in the
  visit is in the flush's list still, or done (carried out or refused for good), or
  its visit is stalled (`GoodFlush`); and that what is blocked, or was given up,
  has been refused. When a flush reads, an earlier action it does not see is done.
- `RefundsInv` (`Payments`). From its read to its end a refund has the payment to
  itself (`LocksInv`): no second refund, no handler between its write and its
  commit. So what fitted when it was read fits when Stripe has answered, while
  Stripe's amount is fixed once there is an intent (`BeforeIntent` is what is so until
  then, every handler at rest included).
- `RetainerInv` (`Retainers`). As long as no two requests have overlapped there is one
  at most, and what it has read is so.

Three mistakes of the models were found by proving, and put right: a `CASE` of
overlapping guards, which stands for any of its branches, where the code has a
first match; `consumeMfaChallenge`, which does not ask whether the factor is still
on, so the property of the second factor excepts it; and a request of a member that
recorded who asked, which nothing read.

Only model-checked: liveness (`EventuallySettled`, `StuckIsReleased`,
`SchedulesKeepRunning`, `EventsSettle`, `WarnedInTime`), which is beyond this
prover; the types of the runs `access` and `office` as one statement (the invariants above
have those the proofs need); `PaidIsCovered` and `ChargedOnce`, and what `RulesAgree`
says of `Portal`, `Board` and `Roadmap`, which are about sums over sets and need an
induction the prover lacks; and the rest of `RulesAgree`, which is about what fixed
tables make of facts, so that an instance is the table itself.

## Known disagreements

With a run that shows it (a `finding` in `PROJECT.json`):

- `failJob` (`jobs/queue.ts:187`) updates by id alone. A failure recorded
  after the row was reaped, claimed again and finished makes it live again, and
  attempts pass the maximum. Run `queue_attempts`.
- `applyPaymentIntent` (`jobs/handlers/payments.ts:74`) decides from an
  unlocked read and protects only `succeeded`. Run `payments_terminal`.
- `check_engagement_compliance` (`0012:495`) counts without locking, so limits
  can be passed. Run `engagement_capacity`; the run `engagements` and a theorem
  say by how much.
- `photo_count` is kept by a trigger that counts in its own statement's snapshot
  (`0013:141`): two additions at once are each counted without the other, and a
  sign-off is refused although the photographs are there, until the next one is
  counted. Run `visit_photo_count`.

Met while modelling. The models behave so, and a property excepts it where it
would be violated; no run of its own shows these.

The queue

- `processJob` takes any throw of `completeJob` for a failure (`jobs/runner.ts:96`), and
  `failJob` writes by id: where the success was committed and its acknowledgement
  lost, a job that is done runs again, or counts as dead.

Visits and supervision

- A photograph's row counts as evidence from the moment its upload is announced
  (`routes/supervision.ts:973`, `1014`), whether or not its file ever comes.
- An ad-hoc visit is recorded as completed with no photograph at all
  (`compat/supervision.ts:445`), against `0013:156`.
- The status that refuses to change the evidence of a signed-off visit is read
  without a lock (`routes/supervision.ts:1170`), so a photograph can be added
  or removed after the sign-off; deleting and purging its document removes it too.
- The visit watch selects (`jobs/handlers/supervision.ts:130`) and then writes by
  id (`:143`): a visit attended in between becomes `missed`.
- A waived mandatory visit can be checked in to after its engagement was
  completed (`compat/supervision.ts:716`, against `0012:651`).
- `/v1` activates a completed engagement again (`routes/supervision.ts:377`),
  `/api` refuses (`compat/supervision.ts:1650`); `/api` activates an active one
  again, `/v1` refuses.
- The watch's message asks for a missed visit to be rescheduled
  (`jobs/handlers/supervision.ts:194`), which the route refuses
  (`routes/supervision.ts:527`).
- The outbox writes an action back as it was read (`fieldQueue.ts:145`), which
  brings back one discarded meanwhile in another tab (`:163`); and a blocked
  action does not hold up the visit in the next flush (`:133`), whatever the
  comment says of order (`:118`).

Money

- The refund's own event may overtake the commit of the refund
  (`routes/payments.ts:445`, `483`), and the sums then count it twice until the
  constraint refuses. Two keys may each pay one invoice in full (`:308`).
- A webhook event whose worker is killed on its last attempt stays `processing`
  with a dead job; only `failed` events are re-driven
  (`jobs/handlers/system.ts:81`, `89`).
- A Stripe customer may be made twice (`services/stripe.ts:101`); the retainer can
  be overdrawn by two releases at once, and a negative balance then makes plan
  changes fail; the office's invoice number takes no lock.

People

- A refreshed session loses its second factor: `sessionResponse` issues the next
  token without it, against `compat/auth.ts:303`. The ticket between the two steps
  of a sign-in survives a change of password, and its code is taken although the
  factor was switched off since (`auth/native.ts:520`); a sign-out races a refresh in flight;
  the set-up of a factor reads without a lock; a change of password may overwrite a
  reset.
- An invitation to an existing address rewrites its role and company.
  An administrator may reactivate an inactive owner. Two administrators who remove
  each other, or two owners, succeed when their requests overlap.
- Two demo requests of one address at once are both inserted, against "should not
  become two leads": `0016` looks without a lock.

Permits and jurisdictions

- A check that began before a permit was closed writes over it, and on a deleted
  permit too; the observe and check routes do not stamp `closed_at`; the "before"
  of an audit row may be stale.
- A second re-inspection of one failure may be booked. Standing requirements with
  no permit type are duplicated, and `resolved_by` is overwritten.
- Removing the last subcontractor leaves its affidavit required; subcontractors and
  documents change after acceptance; a review may accept a draft never submitted; a
  septic approval can be missed.
- Only `POST /api/permits` asks for the filing hold and the certificates; waived items
  do not clear its check; on a certificate's last day the driver's Date and a bare date
  disagree.
- `PATCH` of the integration through `/api` leaves the verification standing
  (against `routes/municipalIntegration.ts:161`); a verified jurisdiction without
  a mapping may be switched on; its test takes any credential of the company
  (`:305`) where the nightly check takes the platform's.
- `resolveForMunicipality` never passes `appSecret` on, though its comment says so
  (`services/municipalities/vendors/index.ts:77`), so the Accela adapter is never
  chosen. After a refusal with an old token its client drops a fresh one.
- `toInspectionOutcome` and `toDetectedStatus` look for parts of words:
  "Incomplete" has "complete", "Unsatisfactory" has "satisfactory",
  "Disapproved" has "approved".

Paper and orders

- Opening may revive a signature request that was withdrawn, which can then be
  signed; one never opened can be signed too. The first row of each kind decides
  whether an agreement is missing.
- Completing an older version of a document after a newer makes it current, while
  the download takes the highest number. Inline uploads (`compat/documents.ts:337`,
  `:491`, `compat/portal.ts:386`, `compat/supervision.ts:1023`) put the file and then
  ask for the state `stored`, which the schema has not (`0003:373`): they always fail,
  the field photographs with them, and leave a file no row names (`orphans`).
- The provider of a completed act can change by a stale PATCH. A late "in transit"
  writes over "delivered"; events that come before the provider's id is stored are
  answered 200 and lost; a mailing queued when the process died is never resumed; a
  void document may be posted by a request that read it earlier.
- An approved quote can be rejected by a stale answer; a price approved may differ
  from the one shown; a superseded revision can be decided; `PATCH` of engineering
  to `delivered` passes the seal by; one sealed document is enough.

What is told and shown

- A notification whose email job is deduplicated leaves its delivery queued for
  ever; a stale job stamps a licence that was just renewed. An email attempt abandoned
  at its timeout may write `failed` over the `sent` of the next.
- The scan takes 1000 items, fewest days first (`jobs/handlers/compliance.ts:71`).
  Permits are not stamped when they are told of (against `:9`), so one past its day and
  still `issued` is in every scan, before any licence; enough of them keep the others
  out for as long as nobody moves them on.
- The cursor of a page carries milliseconds (`lib/pagination.ts:70`), the rows
  microseconds: rows of the millisecond a page ended in are left out, though the
  comment (`:4`) says that walking pages skips nothing.
- A thread shows its oldest 500 messages (`routes/messages.ts:141`); its count and last
  time include the notes among the staff; nobody is told of the message a thread begins
  with; a message begun before the closing lands after it.
- A document of a permit in the category `license` or `contract`, one without a
  permit in `drawing` or `photo`, and one of a deleted permit are in no folder of
  the portal. An upload into "Product approvals" shows under Plans, one into
  "Correction responses" under Submittal. The list of things to do puts a
  certificate that expires before a signature that blocks. Nothing triages the
  portal's requests for permits, and one that was declined can still be withdrawn.
- `GET /api/permits` limits its rows before it looks at their stage
  (`compat/api.ts:404`, `450`); a closed permit whose expiry has passed is at risk;
  `daysInStage` counts from `updated_at`, which each nightly check moves, so a
  permit that is checked is never late.
- The dashboard takes approvals at the first pass from the history of statuses, the
  Reports page from correction cycles; a correction logged at an end, or a move by
  hand, makes them differ.
- The roadmap takes a jurisdiction without reference data for one on paper
  (`compat/api.ts:669`), the list of jurisdictions asks its platform (`:596`).
  A jurisdiction that is automated on a portal without an address is worse at its
  target than today, and no blocker says why (`shared/integration.ts:174`); house
  credentials do not count as credentials; `toIntegrationTier` answers `api`, which
  `pathwayForTier` does not know; with no permits at all, four fifths of them are in
  every jurisdiction.
- A contractor's approval of a drawing does not tell the badge of the portal, which
  shows it for up to a minute. When one of several photographs of a permit fails,
  the queue keeps those already sent and sends them again. A new project stays when
  its permit is refused. The tab of rates replaces an unsaved draft when a refetch
  brings a change.
- Some forms are offered to a role the server refuses, against "the UI never offers a
  control that would be refused" (`PortalTeam.tsx:46`): a ticket, a reply and a
  certificate to a reader; a request for a permit, its withdrawal and a member's
  invitation to an administrator, on the contractor's pages, which do not say for
  whom; a contractor
  with `portal:pay` is offered a card whose route wants `billing:manage`
  (`Onboarding.tsx:720`, `compat/invoices.ts:529`). The contractor also lacks
  `supervision:read`, which `/api`'s route for accepting the terms of an engagement asks
  for (`compat/supervision.ts:1790`); the portal takes the one of `/v1`.
- `PortalDashboard.tsx` is a page no route shows; it is not modelled.

## Plan

Done: a model of every component but the rules without state, and proofs of what
every run checks but types, sums and fixed tables. What could follow, most
consequential first:

1. `Payments`: that no payer is charged twice (`ChargedOnce`), from the keys alone.
   With more than one payment, it wants a lemma on sums over sets for each handler.
2. Types of `MCAccess` and `MCOffice` as one statement, from those that the
   invariants of their components have.
3. An abstract specification of a session that is signed in or not, which `Sessions`
   implements; the calendar, prices and risk as functions against reference
   definitions.

## Not modelled

- Rendering, templates, prices, holidays and requirement tables: no behaviour over
  time, and unit tests that enumerate them. Of the reference data of jurisdictions,
  only what the roadmap tells apart.
- Stripe, Lob, Resend, storage, Accela, municipal portals and the query library of
  the browser: external; modelled by what the code relies on where a component
  needs it.
- Heartbeats, statistics, audit rows and fees: written in the same transactions as
  the modelled changes and read by none of them.
- Settings, profiles, notes and comments: one row, one statement, no reader that
  depends on an order.
- Layout and wording of the web application, and the public site.
