------------------------------ MODULE MCAccess ------------------------------
(***************************************************************************)
(* The components about people, permits and applications, side by side.    *)
(* They share no state in these models, so a behaviour is one of theirs:   *)
(* which says whose, and the variables of the others stay as they began.   *)
(* Sessions is looked at three times: two tabs of one browser whose        *)
(* sessions are ended, two that refresh at once, and one whose account has *)
(* a second factor; inspections twice: bookings, and the corrections and   *)
(* standing requirements that resolve without one.                         *)
(***************************************************************************)
EXTENDS Integers, TLC

CONSTANTS
  \* Who asks: two who are interchangeable, one alone, and the people of a firm.
  Pair, Single, Users,
  \* Sessions: browsers and whose each tab is, refresh tokens, wrong codes allowed.
  Browsers, BrowserOf, FewTokens, ManyTokens, MaxTries, MaxEnds, MaxFactors,
  \* Accounts and members: the companies with accounts, the requests ever made.
  Employers, MaxAccountRequests, MaxMemberRequests,
  MaxSubs,                             \* subcontractors of an application
  \* Permits and inspections: status runs, cycles, statuses and corrections.
  Runs, MaxCycles, Used, Corrections, MaxInspections, MaxRequirements,
  \* A jurisdiction's versions; the days and permits of a certificate.
  MaxVersions, Days, MaxPermits,
  \* Companies with rows of their own, what is numbered, from where and how often.
  Companies, Numbered, Base, MaxRows,
  Files,                               \* migrations
  AppConns, ServiceConns, MaxWrites,   \* the pools, and rows a transaction changes
  None

ASSUME BrowsersAssumption == BrowserOf \in [Pair \cup Single -> Browsers]
ASSUME TriesAssumption == MaxTries \in Nat
ASSUME CountsAssumption == MaxCycles \in Nat /\ Files \in Nat /\ MaxInspections \in Nat
ASSUME DaysAssumption == Days \in Nat \ {0} /\ MaxPermits \in Nat

VARIABLES
  which,
  version, active, factor, mfaOn, token, ticket, cookie, access, call,
  ends, secrets, overrun, lost,
  account, accountAsked, accountRequests, accountStale,
  member, memberAsked, memberRequests, memberStale,
  permit, deleted, cycles, logged, job, run, permitAsked,
  application, facts, subs, checklist, converted, carried, applicationAsked,
  inspections, correction, requirements, inspectionAsked,
  mapping, connection, verified, enabled, note, approved, jurisdictionAsked,
  item, hold, permits, filing, today, evening,
  numbers, gone, open,
  applied, lock, pending, phase,
  support, resolved, portal, said, triaged, found,
  separate, conn, req, rows

\* Sessions are looked at three times.
SessionLooks == {"shared browser", "racing tabs", "second factor"}
TabsOf(w) == IF w = "second factor" THEN Single ELSE Pair
TokensOf(w) == IF w = "racing tabs" THEN ManyTokens ELSE FewTokens
OneBrowser == [t \in Pair \cup Single |-> CHOOSE b \in Browsers : TRUE]
Session(w) == INSTANCE Sessions WITH
  Tabs <- TabsOf(w), Tokens <- TokensOf(w),
  MaxEnds <- IF w = "racing tabs" THEN 0 ELSE MaxEnds,
  MaxFactors <- IF w = "second factor" THEN MaxFactors ELSE 0
\* None is none of what a session is made of.
ASSUME SessionNone == \A w \in SessionLooks :
  None \notin (0 .. MaxTries) \cup TokensOf(w) \cup
              Session(w)!Grant \cup Session(w)!Row \cup Session(w)!Call

\* Certificates twice.
CoverLooks == {"liability", "compensation"}
Certificate(w) == INSTANCE Filing WITH
  Clerks <- Single,
  Kinds <- IF w = "liability" THEN {"GENERAL_LIABILITY"}
           ELSE {"WORKERS_COMP", "WORKERS_COMP_EXEMPTION"}

\* And inspections: bookings, and what is resolved without one.
VisitLooks == {"bookings", "resolutions"}
Visits(w) == INSTANCE Inspections WITH
  People <- Pair,
  Corrections <- IF w = "bookings" THEN {} ELSE Corrections,
  MaxInspections <- IF w = "bookings" THEN MaxInspections ELSE 0,
  MaxRequirements <- IF w = "bookings" THEN 0 ELSE MaxRequirements,
  asked <- inspectionAsked

AccountsOf == INSTANCE Accounts WITH
  Companies <- Employers, MaxRequests <- MaxAccountRequests,
  asked <- accountAsked, requests <- accountRequests, stale <- accountStale
ASSUME AccountsAssumption == Employers # {} /\ None \notin Employers \cup AccountsOf!Row
MembersOf == INSTANCE Members WITH
  People <- Users, MaxRequests <- MaxMemberRequests,
  asked <- memberAsked, requests <- memberRequests, stale <- memberStale
ASSUME MembersNone == None \notin [role : MembersOf!Roles, active : BOOLEAN]
OnePermit == INSTANCE Permits WITH
  People <- Pair, status <- permit, asked <- permitAsked
Application == INSTANCE Intake WITH
  People <- Single, status <- application, permits <- converted, asked <- applicationAsked
Jurisdiction == INSTANCE Jurisdictions WITH Admins <- Single, asked <- jurisdictionAsked
Numbers == INSTANCE Numbering WITH Clerks <- Pair, Kinds <- Numbered
Deploys == INSTANCE Migrations WITH Instances <- Pair
Isolation == INSTANCE Tenancy WITH Requests <- Pair
ASSUME IsolationNone == None \notin Companies \cup Pair \cup AppConns \cup ServiceConns \cup {"on"}
Support == INSTANCE Desk WITH Callers <- Pair, Tickets <- Pair, status <- support

\* The variables of each.
sessions == <<version, active, factor, mfaOn, token, ticket, cookie, access, call,
              ends, secrets, overrun, lost>>
accounts == <<account, accountAsked, accountRequests, accountStale>>
members == <<member, memberAsked, memberRequests, memberStale>>
permitting == <<permit, deleted, cycles, logged, job, run, permitAsked>>
applying == <<application, facts, subs, checklist, converted, carried,
              applicationAsked>>
inspecting == <<inspections, correction, requirements, inspectionAsked>>
onboarding == <<mapping, connection, verified, enabled, note, approved,
                jurisdictionAsked>>
certifying == <<item, hold, permits, filing, today, evening>>
numbering == <<numbers, gone, open>>
deploying == <<applied, lock, pending, phase>>
supporting == <<support, resolved, portal, said, triaged, found>>
isolating == <<separate, conn, req, rows>>

Looks == SessionLooks \cup CoverLooks \cup VisitLooks \cup
  {"accounts", "members", "permit", "application", "jurisdiction", "numbers",
   "deploys", "support", "isolation"}

\* What is not looked at begins as in one of its looks.
Init ==
  /\ which \in Looks
  /\ \E w \in SessionLooks :
       /\ w = which \/ (which \notin SessionLooks /\ w = "shared browser")
       /\ Session(w)!Init
  /\ AccountsOf!Init
  /\ which # "accounts" => \A u \in Users : account[u] = None
  /\ MembersOf!Init
  /\ OnePermit!Init
  /\ Application!Init
  /\ which # "application" => facts = CHOOSE f \in Application!Facts : TRUE
  /\ which # "application" => "septic approval" \notin Application!Listed
  /\ \E w \in VisitLooks :
       /\ w = which \/ (which \notin VisitLooks /\ w = "bookings")
       /\ Visits(w)!Init
  /\ Jurisdiction!Init
  /\ \E w \in CoverLooks :
       /\ w = which \/ (which \notin CoverLooks /\ w = "liability")
       /\ Certificate(w)!Init
  /\ Numbers!Init
  /\ Deploys!Init
  /\ which # "deploys" => \A v \in Deploys!Versions : applied[v] = 1
  /\ Support!Init
  /\ Isolation!Init /\ (which # "isolation" => separate)

Next ==
  /\ \/ \E w \in SessionLooks : which = w /\ Session(w)!Next
     \/ which \notin SessionLooks /\ UNCHANGED sessions
  /\ IF which = "accounts" THEN AccountsOf!Next ELSE UNCHANGED accounts
  /\ IF which = "members" THEN MembersOf!Next ELSE UNCHANGED members
  /\ IF which = "permit" THEN OnePermit!Next ELSE UNCHANGED permitting
  /\ IF which = "application" THEN Application!Next ELSE UNCHANGED applying
  /\ \/ \E w \in VisitLooks : which = w /\ Visits(w)!Next
     \/ which \notin VisitLooks /\ UNCHANGED inspecting
  /\ IF which = "jurisdiction" THEN Jurisdiction!Next ELSE UNCHANGED onboarding
  /\ \/ \E w \in CoverLooks : which = w /\ Certificate(w)!Next
     \/ which \notin CoverLooks /\ UNCHANGED certifying
  /\ IF which = "numbers" THEN Numbers!Next ELSE UNCHANGED numbering
  /\ IF which = "deploys" THEN Deploys!Next ELSE UNCHANGED deploying
  /\ IF which = "support" THEN Support!Next ELSE UNCHANGED supporting
  /\ IF which = "isolation" THEN Isolation!Next ELSE UNCHANGED isolating
  /\ UNCHANGED which

all == <<which, sessions, accounts, members, permitting,
         applying, inspecting, onboarding, certifying,
         numbering, deploying, supporting, isolating>>
Spec == Init /\ [][Next]_all

Symmetry == Permutations(Pair)

-----------------------------------------------------------------------------
\* Every variable of every component keeps its type.
TypeOK ==
  /\ which \in Looks
  /\ \A w \in SessionLooks : which = w => Session(w)!TypeOK
  /\ \A w \in VisitLooks : which = w => Visits(w)!TypeOK
  /\ \A w \in CoverLooks : which = w => Certificate(w)!TypeOK
  /\ which = "accounts" => AccountsOf!TypeOK
  /\ which = "members" => MembersOf!TypeOK
  /\ which = "permit" => OnePermit!TypeOK
  /\ which = "application" => Application!TypeOK
  /\ which = "jurisdiction" => Jurisdiction!TypeOK
  /\ which = "numbers" => Numbers!TypeOK
  /\ which = "deploys" => Deploys!TypeOK
  /\ which = "support" => Support!TypeOK
  /\ which = "isolation" => Isolation!TypeOK

\* A session stands only while what it was granted on does: what ended an account's
\* sessions (a password changed or reset, a deactivation, a stolen token) ended them
\* all, in whatever order requests answer, and one that passes for verified was
\* verified by the factor the account has.
SessionsEnd ==
  \A w \in SessionLooks : which = w => Session(w)!SessionsEnd /\ Session(w)!VerifiedStanding

\* Two tabs that refresh at once never leave their browser with a dead cookie.
CookieIsFresh ==
  \A w \in SessionLooks : which = w => Session(w)!CookieIsFresh

\* What a step of theirs keeps.
KeepsAccounts ==
  /\ which = "accounts" =>
       [/\ AccountsOf!KeepsAdministrator /\ AccountsOf!KeepsCompanyAdmin
        /\ AccountsOf!TakesNoClaimed]_accounts
  /\ which = "members" => [MembersOf!KeepsOwner]_members
KeepsHistory ==
  /\ which = "permit" =>
       /\ [OnePermit!MovesPossibly /\ OnePermit!KeepsEnd]_permit
       /\ [OnePermit!KeepsLive]_deleted
  /\ which = "application" =>
       /\ [Application!KeepsUploads]_<<checklist, carried>>
       /\ [Application!FollowsFacts]_applying
  /\ which = "resolutions" => Visits("resolutions")!KeepsFirstResolution

\* Neither the firm nor a company is left without somebody to administer it by
\* requests each of which left somebody, and an address is never handed to somebody
\* else once its owner has claimed it.
AccountsKept == [][KeepsAccounts]_all

\* A permit's history is possible, its end stands and its obligation is not deleted,
\* whoever moves it: a person, the contractor's request, the nightly check. Nor does
\* a request undo what came before it: no upload to an application is dropped, its
\* papers are those its facts ask for, and the day a correction was first resolved
\* is not moved by resolving it again.
HistoryKept == [][KeepsHistory]_all

\* "A failure nobody re-books is a permit that quietly stalls": each has its
\* re-inspection, and no result is of the future.
FailureIsRebooked ==
  which = "bookings" =>
    Visits("bookings")!FailureIsRebooked /\ Visits("bookings")!CompletedNotFuture

\* What must happen once happens once, whoever asks for it at the same time: the
\* permit of an application, the number of a record, each step of the schema, the
\* count of a cycle of corrections.
HappensOnce ==
  CASE which = "application" -> Application!OnePermit
    [] which = "numbers" -> Numbers!OwnNumbers
    [] which = "deploys" -> Deploys!SchemaIsWhole
    [] which = "permit" -> OnePermit!CyclesCounted
    [] OTHER -> TRUE

\* What a person decided is what the system goes by: no check of a jurisdiction
\* nobody has looked at, no ticket that waits for whom it does not, no certificate
\* that is replaced or expired, no password reset for an address nobody claimed.
DecisionsHold ==
  CASE which = "jurisdiction" -> Jurisdiction!NothingUnreviewed
    [] which = "support" -> Support!TurnWasTaken
    [] which = "accounts" -> AccountsOf!ResetIsForClaimed
    [] which = "compensation" -> Certificate("compensation")!ClearedIsCovered
    [] which = "liability" -> Certificate("liability")!ClearedIsCovered
    [] OTHER -> TRUE

\* A request works with the rows of its company whoever had its connection before,
\* and leaves nothing behind that is not its company's or that failed.
OwnRowsOnly ==
  which = "isolation" => Isolation!OwnRowsOnly
=============================================================================
