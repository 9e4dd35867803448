------------------------------ MODULE Screens ------------------------------
(***************************************************************************)
(* What a browser shows of the server. A page reads what it shows through  *)
(* a cache of queries, which it asks again every minute; a form sends its  *)
(* requests, one after the other, and tells the cache which queries their  *)
(* answers have made stale. One form is on screen, and one of the queries  *)
(* of its page is watched: the queries of a page do not touch each other.  *)
(* A page offers a form to those whose role lets them use it, and the      *)
(* server asks the same of each of the form's requests once more.          *)
(*                                                                         *)
(* "Live syncing without a socket: everything refetches on an interval     *)
(*  and whenever the tab regains focus, so a coordinator and a contractor  *)
(*  looking at the same permit converge within a minute."                  *)
(***************************************************************************)
EXTENDS Naturals, Sequences

CONSTANT MaxChanges     \* bound on the changes of what is watched

VARIABLES
  form,      \* the form on screen,
  key,       \* and the query that is watched
  server,    \* how often the server's answer has changed
  cached,    \* the change the cache is at,
  loaded,    \* once it has had an answer
  flight,    \* a request for it in flight: "none", "asked", or "read" by the server
  carried,   \* the change its answer carries
  step,      \* the request of the form that is next
  phase,     \* "idle", "sending", "failed" or "done"
  went,      \* some request of the form has succeeded
  due,       \* the change the screen owes to the person who made it
  over,      \* the request in flight was there when the last minute was up: it takes no other
  minutes,   \* the minutes since the server last changed
  failed     \* a request for it has failed since the screen was up to date
vars == <<form, key, server, cached, loaded, flight, carried, step, phase, went, due, over,
          minutes, failed>>

-----------------------------------------------------------------------------
\* What the roles may do. An account without a role yet is shown a wall.
Staff == {"ADMIN", "PERMIT_TECH", "SITE_SUPERVISOR", "ENGINEER", "VIEWER"}
Contractor == {"CLIENT"}
Roles == Staff \cup Contractor
SupervisorCapabilities ==
  {"permit:read", "client:read", "document:read", "document:upload", "inspection:read",
   "inspection:record", "supervision:read", "supervision:log", "jurisdiction:read"}
EngineerCapabilities ==
  {"permit:read", "client:read", "document:read", "document:upload", "jurisdiction:read",
   "compliance:read", "drafting:read", "drafting:quote", "drafting:produce", "engineering:seal"}
ViewerCapabilities ==
  {"permit:read", "client:read", "compliance:read", "document:read", "inspection:read",
   "supervision:read", "drafting:read", "billing:read", "jurisdiction:read",
   "connector:read", "settings:read"}
TechCapabilities == ViewerCapabilities \cup
  {"permit:create", "permit:edit", "permit:submit", "client:create", "client:edit",
   "compliance:review", "document:upload", "inspection:schedule", "inspection:record",
   "supervision:log", "drafting:request", "drafting:quote", "drafting:produce",
   "document:generate", "document:record", "jurisdiction:edit", "connector:run", "user:read"}
\* Mutant: a contractor may not read its own company's record.
OwnReadsButCompany ==
  {"permit:read", "document:read", "document:upload", "inspection:read", "compliance:read",
   "drafting:read", "billing:read", "jurisdiction:read"}
OwnReads ==
  {"client:read", "permit:read", "document:read", "document:upload", "inspection:read",
   "compliance:read", "drafting:read", "billing:read", "jurisdiction:read"}
ContractorCapabilities == OwnReads \cup
  {"portal:read_own", "portal:upload_own", "portal:request_drafting",
   "portal:sign_documents", "portal:pay", "portal:request_permit"}
\* An administrator may do everything.
Can(role, capability) ==
  CASE role = "ADMIN" -> TRUE
    [] role = "PERMIT_TECH" -> capability \in TechCapabilities
    [] role = "SITE_SUPERVISOR" -> capability \in SupervisorCapabilities
    [] role = "ENGINEER" -> capability \in EngineerCapabilities
    [] role = "VIEWER" -> capability \in ViewerCapabilities
    [] OTHER -> capability \in ContractorCapabilities
Having(capability) == {role \in Roles : Can(role, capability)}
\* refuseReadOnly. Mutant: nobody is refused for reading only.
AnyRole == Roles
Writers == Roles \ {"VIEWER"}
\* The portal's routes: staff must say which contractor, and no page of theirs does.
OfOwnCompany(capability) == Having(capability) \cap Contractor

\* The queries of the pages, by the first words of their keys.
ShellShows == {"clients", "portal actions"}
ContractorShows == {"client", "subscription"}
ComplianceTabShows == {"compliance"}
ContractorTabsShow == {"documents", "signing", "permits", "invoices", "siteVisits"}
ContractorsShows == {"clients", "compliance", "permits", "invoices"}
DraftingShows == {"drafting", "clients"}
EngineersShows == {"engineering"}
RequestShows == {"projects"}
CardShows == {"users"}
TicketsShows == {"tickets", "clients"}
TicketShows == {"users"}
InspectionsShows == {"inspections", "permits"}
InvoicesShows == {"invoices", "clients"}
InvoiceFormShows == {"clients", "permits"}
PhotosShows == {"permit", "documents"}
JurisdictionsShows == {"jurisdictions"}
NotaryShows == {"notary", "clients", "documents"}
OnboardingShows == {"client", "compliance", "signing"}
PermitShows == {"permit"}
PipelineShows == {"permits", "jurisdictions"}
FilesShows == {"portal tree", "portal folder"} \cup ShellShows
PortalPermitShows == {"permit"} \cup ShellShows
MessagesShows == {"portal messages"}
RequestsShows == {"portal permit-requests"} \cup ShellShows
TeamShows == {"portal team"} \cup ShellShows
ProjectsShows == {"projects", "permits", "jurisdictions"}
RatesShows == {"rates"}
VisitsShows == {"permits", "siteVisits", "clients", "supervisionVerdict"}
UsersShows == {"users", "clients"}
GeneratedShows == {"generatedDocuments", "generatedDocumentKinds", "clients"}
MailShows == {"mailQuote", "mailings"}
DashboardShows == {"dashboard", "jurisdictions"}
DocumentsShows == {"compliance", "clients", "permits", "documents"}
ConnectorsShows == {"integrations", "jurisdictions"}
ReportsShows == {"permits", "corrections", "jurisdictions"}
HomeShows == {"permits", "inspections", "invoices", "portal tree"} \cup ShellShows
NewPermitShows == {"clients", "jurisdictions", "projects", "compliance", "qualifiers", "users"}
SignatureShows == {"signing"}
BillingShows == {"portal subscription", "portal invoices"} \cup ShellShows

\* What the queries of a contractor's pages ask of the role.
AskedOf(query) ==
  CASE query \in {"client", "clients"} -> "client:read"
    [] query \in {"permit", "permits", "projects", "tickets"} -> "permit:read"
    [] query \in {"documents", "signing"} -> "document:read"
    [] query = "compliance" -> "compliance:read"
    [] query = "drafting" -> "drafting:read"
    [] query = "inspections" -> "inspection:read"
    [] query = "jurisdictions" -> "jurisdiction:read"
    [] query \in {"invoices", "portal subscription", "portal invoices"} -> "billing:read"
    [] OTHER -> "portal:read_own"
Answered(query) == Having(AskedOf(query))
\* A query only a staff session makes.
StaffAsk == {"users"}

\* A request of a form: what it changes in the answers of the queries, and whose the
\* server takes. A form: to whom it is offered, what is on screen around it, its
\* requests, what it tells the cache to ask again, and the requests it survives.
Send(changes, takes) == [changes |-> changes, takes |-> takes]
Form(name, to, shows, sends, asks, spares) ==
  [name |-> name, to |-> to, shows |-> shows, sends |-> sends, asks |-> asks, spares |-> spares]
Saves(name, to, shows, changes, takes, asks) ==
  Form(name, to, shows, <<Send(changes, takes)>>, asks, {})
Watches(name, to, shows) == Form(name, to, shows, <<>>, {}, {})
Document == {"documents"}
Upload == Send(Document, Having("document:upload"))
Uploaders == Having("document:upload") \cup Having("portal:upload_own")

\* Pages without a form, and what the others show beside theirs.
Watchers ==
  {Watches("dashboard", Staff, DashboardShows), Watches("documents", Roles, DocumentsShows),
   Watches("connectors", Staff, ConnectorsShows), Watches("reports", Staff, ReportsShows),
   Watches("home", Contractor, HomeShows), Watches("billing", Contractor, BillingShows),
   Watches("tabs", Staff, ContractorTabsShow)}

Hold == Saves("hold", Staff \cap Having("client:suspend"), ContractorShows,
              {"client", "clients"}, Having("client:suspend"), {"client", "clients"})
Waived == Saves("waive", Staff \cap Having("compliance:waive"),
                ContractorShows \cup ComplianceTabShows, {"compliance"},
                Having("compliance:waive"), {"compliance", "clients"})
\* Mutant: a reviewed certificate is told of to the list of contractors only.
ReviewedQuietly ==
  Saves("review", Staff \cap Having("compliance:review"),
        ContractorShows \cup ComplianceTabShows, {"compliance"},
        Having("compliance:review"), {"clients"})
Reviewed ==
  Saves("review", Staff \cap Having("compliance:review"),
        ContractorShows \cup ComplianceTabShows, {"compliance"},
        Having("compliance:review"), {"compliance", "clients"})
\* The tab has no form before its query is answered.
RecordSent == Send({"compliance"}, Writers \cap Having("compliance:read"))
Submitted == Form("submit", Staff \cap Uploaders \cap Answered("compliance"),
                  ContractorShows \cup ComplianceTabShows,
                  <<Upload, RecordSent>>, {"compliance", "clients"}, {})
\* A login for the contractor is asked for too by those who may; it does not matter
\* to the record that was made whether it is given.
ContractorMade == Saves("contractor", Staff \cap Having("client:create"), ContractorsShows,
                        {"clients"}, Having("client:create"), {"clients", "users"})
ContractorInvited ==
  Form("contractor with login", Staff \cap Having("client:create") \cap Having("user:invite"),
       ContractorsShows, <<Send({"clients"}, Having("client:create")),
                           Send({"users", "clients"}, Having("user:invite"))>>,
       {"clients", "users"}, {2})
Produced == Saves("produce", Staff \cap Having("document:generate"), GeneratedShows,
                  {"generatedDocuments"}, Having("document:generate"), {"generatedDocuments"})
Mailed == Saves("mail", Staff \cap Having("document:generate"), GeneratedShows \cup MailShows,
                {"mailings"}, Having("document:record"), {"mailings"})
Assigned == Saves("assign", Staff \cap Having("drafting:assign"), DraftingShows \cup EngineersShows,
                  {"engineering", "drafting"}, Having("drafting:assign"),
                  {"engineering", "drafting"})
Moved == Saves("move", Staff \cap Having("drafting:produce"), DraftingShows \cup CardShows,
               {"drafting"}, Having("drafting:produce"), {"drafting"})
Approved == Saves("approve", Contractor \cap Having("portal:request_drafting"),
                  DraftingShows \cup ShellShows, {"drafting", "portal actions"},
                  Writers \cap Having("drafting:read"), {"drafting"})
Requested == Form("request", Having("drafting:request") \cup Having("portal:request_drafting"),
                  DraftingShows \cup RequestShows,
                  <<Upload, Send({"drafting"}, Writers \cap Having("drafting:read"))>>,
                  {"drafting"}, {})
Quoted == Saves("quote", Staff \cap Having("drafting:quote"), DraftingShows, {"drafting"},
                Having("drafting:quote"), {"drafting"})
Delivered == Form("deliver", Staff \cap Having("drafting:produce"), DraftingShows,
                  <<Upload, Send({"drafting"} \cup Document, Having("drafting:produce"))>>,
                  {"drafting"} \cup Document, {})
Recorded == Saves("record", Having("inspection:record"), InspectionsShows, {"inspections"},
                  Having("inspection:record"), {"inspections", "permits", "dashboard"})
Scheduled == Saves("schedule", Having("inspection:schedule"), InspectionsShows, {"inspections"},
                   Having("inspection:schedule"), {"inspections"})
InvoiceSent == Saves("send invoice", Having("billing:manage"), InvoicesShows, {"invoices"},
                     Having("billing:manage"), {"invoices"})
InvoiceMade == Saves("invoice", Having("billing:manage"), InvoicesShows \cup InvoiceFormShows,
                     {"invoices"}, Having("billing:manage"), {"invoices"})
PhotoSent == Send(Document \cup {"permit"}, Having("document:upload"))
PhotosSent == Form("photos", Uploaders, PhotosShows, <<PhotoSent, PhotoSent>>,
                   Document \cup {"permit"}, {})
JurisdictionSaved == Saves("jurisdiction", Having("jurisdiction:edit"), JurisdictionsShows,
                           {"jurisdictions"}, Having("jurisdiction:edit"), {"jurisdictions"})
NotaryPlanned == Saves("notary", Staff \cap Having("document:upload"), NotaryShows, {"notary"},
                       Having("document:upload"), {"notary"})
NotaryDone == Saves("notarized", Staff \cap Having("document:upload"), NotaryShows, {"notary"},
                    Having("document:upload"), {"notary"})
NotaryAsked == Saves("ask notary", Staff \cap Having("document:upload"), NotaryShows, {"notary"},
                     Having("document:upload"), {"notary"})
\* Its cards are there for whoever has an answer of what is on file.
CertificateSent == Form("certificate", Answered("compliance"), OnboardingShows,
                        <<Upload, RecordSent>>, {"compliance"}, {})
AgreementSent == Saves("agreement", Staff \cap Having("client:edit"), OnboardingShows, {"signing"},
                       Having("document:generate"), {"signing"})
AgreementSigned == Saves("sign", Contractor \cap Having("portal:sign_documents"),
                         OnboardingShows \cup SignatureShows, {"signing"},
                         Contractor \cap Having("portal:sign_documents"), {"signing"})
CardAsked == Saves("card", Having("portal:pay") \cup Having("billing:manage"), OnboardingShows,
                   {"client"}, Having("billing:manage"), {})
PermitAsks == {"permit", "permits", "dashboard"}
RequirementMet == Saves("requirement", Staff \cap Having("document:upload"), PermitShows,
                        {"permit"}, Having("document:upload"), PermitAsks)
Promoted == Saves("promote", Staff \cap Having("permit:edit") \cap Having("jurisdiction:edit"),
                  PermitShows, {"permit"},
                  Having("permit:edit") \cap Having("jurisdiction:edit"), PermitAsks)
Resolved == Saves("resolve", Staff \cap Having("permit:edit"), PermitShows, {"permit"},
                  Having("permit:edit"), PermitAsks)
ResultGiven == Saves("result", Staff \cap Having("inspection:record"), PermitShows, {"permit"},
                     Having("inspection:record"), PermitAsks)
Synced == Saves("sync", Staff \cap Having("permit:edit"), PermitShows, {"permit"},
                Having("permit:edit"), PermitAsks)
Advanced == Saves("advance", Having("permit:edit"), PipelineShows, {"permits"},
                  Having("permit:edit"), {"permits", "dashboard"})
\* The folders of a company are shown to its own people only.
FileAdded == Send({"portal tree", "portal folder"}, OfOwnCompany("portal:upload_own"))
FilesAdded == Form("files", Uploaders \cap OfOwnCompany("portal:read_own"), FilesShows,
                   <<FileAdded, FileAdded>>,
                   {"portal tree", "portal folder", "portal actions"} \cup Document, {1, 2})
PermitFileAdded == Send({"permit"}, OfOwnCompany("portal:upload_own"))
PermitFilesAdded == Form("permit files", Contractor \cap Uploaders, PortalPermitShows,
                         <<PermitFileAdded, PermitFileAdded>>,
                         {"permit", "portal tree", "portal folder", "portal actions"}, {1, 2})
MessageSent == Saves("message", Contractor \cap (Having("portal:read_own") \cup Having("permit:read")),
                     PortalPermitShows \cup MessagesShows, {"portal messages"},
                     OfOwnCompany("portal:read_own"), {"portal messages"})
PermitRequested == Saves("permit request", Having("portal:request_permit"), RequestsShows,
                         {"portal permit-requests"}, OfOwnCompany("portal:read_own"),
                         {"portal permit-requests", "portal actions"})
RequestWithdrawn == Saves("withdraw", Having("portal:request_permit"), RequestsShows,
                          {"portal permit-requests"}, OfOwnCompany("portal:read_own"),
                          {"portal permit-requests"})
\* Of a company's people, those who administer it; staff are shown no members here.
MemberSwitched == Saves("member", OfOwnCompany("portal:read_own"), TeamShows, {"portal team"},
                        OfOwnCompany("portal:read_own"), {"portal team"})
MemberInvited == Saves("invite member", Contractor \cup Having("portal:manage_team"), TeamShows,
                       {"portal team"}, OfOwnCompany("portal:read_own"), {"portal team"})
ProjectMade == Saves("project", Having("permit:create"), ProjectsShows \cup {"clients"},
                     {"projects"}, Having("permit:create"), {"projects"})
RatesSaved == Saves("rates", Staff \cap Having("billing:manage"), RatesShows, {"rates"},
                    Having("billing:manage"), {"rates"})
VisitAsks == {"siteVisits", "supervisionVerdict"}
VisitLogged == Form("visit", Staff \cap Having("supervision:log"), VisitsShows,
                    <<Upload, Send(VisitAsks, Having("supervision:log"))>>, VisitAsks, {})
VisitAmended == Saves("amend", Staff \cap Having("supervision:amend"), VisitsShows, VisitAsks,
                      Having("supervision:log"), VisitAsks)
Replied == Saves("reply", Having("permit:read"), TicketsShows \cup TicketShows, {"tickets"},
                 Writers \cap Having("permit:read"), {"tickets"})
Triaged == Saves("triage", Having("permit:edit"), TicketsShows \cup TicketShows, {"tickets"},
                 Staff \cap Having("permit:edit"), {"tickets"})
TicketOpened == Saves("ticket", Roles, TicketsShows \cup {"permits"}, {"tickets"},
                      Writers \cap Having("permit:read"), {"tickets"})
UserChanged == Saves("user", {"ADMIN"} \cap Having("user:assign_role"), UsersShows, {"users"},
                     Having("user:assign_role"), {"users"})
UserInvited == Saves("invite", {"ADMIN"} \cap Having("user:invite"), UsersShows, {"users"},
                     Having("user:invite"), {"users"})
NewPermit == Form("new permit", Having("permit:create"), NewPermitShows,
                  <<Send({"projects"}, Having("permit:create")),
                    Send({}, Having("permit:create"))>>, {}, {})

Forms == Watchers \cup
  {Hold, Waived, Reviewed, Submitted, ContractorMade, ContractorInvited, CardAsked, Produced, Mailed, Assigned, Moved,
   Approved, Requested, Quoted, Delivered, Recorded, Scheduled, InvoiceSent, InvoiceMade,
   PhotosSent, JurisdictionSaved, NotaryPlanned, NotaryDone, NotaryAsked, CertificateSent,
   AgreementSent, AgreementSigned, RequirementMet, Promoted, Resolved, ResultGiven, Synced,
   Advanced, FilesAdded, PermitFilesAdded, MessageSent, PermitRequested, RequestWithdrawn,
   MemberSwitched, MemberInvited, ProjectMade, RatesSaved, VisitLogged, VisitAmended,
   Replied, Triaged, TicketOpened, UserChanged, UserInvited, NewPermit}
Changes(f) == UNION {f.sends[i].changes : i \in DOMAIN f.sends}
Watched(f) == IF f.sends = <<>> THEN f.shows ELSE f.shows \cap (Changes(f) \cup f.asks)

\* What a form changes on its own screen and leaves to the minute: a quote that is
\* approved goes from the contractor's list of things to do no sooner, and a project
\* that was made with its first permit is listed no sooner, nor a card that is asked for.
LeftToTheMinute ==
  {<<"approve", "portal actions">>, <<"new permit", "projects">>, <<"card", "client">>}

TypeOK ==
  /\ form.to \subseteq Roles /\ key \in Watched(form)
  /\ {server, cached, carried, due} \subseteq 0 .. MaxChanges
  /\ {loaded, went, over, failed} \subseteq BOOLEAN
  /\ flight \in {"none", "asked", "read"} /\ phase \in {"idle", "sending", "failed", "done"}
  /\ step \in 0 .. Len(form.sends) + 1 /\ minutes \in 0 .. 4

Init ==
  /\ form \in Forms /\ key \in Watched(form)
  /\ server = 0 /\ cached = 0 /\ carried = 0 /\ due = 0
  /\ loaded = FALSE /\ went = FALSE /\ over = FALSE /\ failed = FALSE
  /\ flight = "asked" /\ phase = "idle" /\ step = 1 /\ minutes = 0

-----------------------------------------------------------------------------
\* The cache.
Asking == flight' = "asked" /\ over' = FALSE
Quiet == UNCHANGED <<form, key, server, step, phase, went, due>>
ServerReads ==
  /\ flight = "asked" /\ flight' = "read" /\ carried' = server
  /\ Quiet /\ UNCHANGED <<cached, loaded, over, minutes, failed>>
Arrives ==
  /\ flight = "read" /\ flight' = "none" /\ cached' = carried /\ loaded' = TRUE
  /\ failed' = (failed /\ carried # server) /\ over' = FALSE
  /\ Quiet /\ UNCHANGED <<carried, minutes>>
\* Twice more after a failure, unless it was a refusal: it fails for good.
FetchFails ==
  /\ flight # "none" /\ flight' = "none" /\ failed' = TRUE /\ over' = FALSE
  /\ Quiet /\ UNCHANGED <<cached, loaded, carried, minutes>>
\* The tab has the focus again, and what it has is older than staleTime.
Focus ==
  /\ flight = "none" /\ Asking
  /\ Quiet /\ UNCHANGED <<cached, loaded, carried, minutes, failed>>
\* Mutant: a query is asked again when there is something wrong with it only.
PollsIfWrong == IF flight = "none" /\ (~loaded \/ failed) THEN flight' = "asked" /\ over' = TRUE
                ELSE over' = (flight # "none") /\ UNCHANGED flight
Polls == flight' = (IF flight = "none" THEN "asked" ELSE flight) /\ over' = TRUE
\* A minute is up; no request takes longer.
Minute ==
  /\ ~over /\ Polls
  /\ minutes' = IF cached # server /\ minutes < 4 THEN minutes + 1 ELSE minutes
  /\ Quiet /\ UNCHANGED <<cached, loaded, carried, failed>>
\* invalidateQueries: what is in flight is given up and asked again, unless it is
\* the first time the query is asked.
Invalidated(told) ==
  IF key \notin told \/ (~loaded /\ flight # "none") THEN UNCHANGED <<flight, over>>
  ELSE Asking

-----------------------------------------------------------------------------
\* The server's answer changes.
Changed(who) ==
  IF who THEN /\ server < MaxChanges /\ server' = server + 1 /\ minutes' = 0
  ELSE UNCHANGED <<server, minutes>>
OtherChanges ==
  /\ Changed(TRUE)
  /\ UNCHANGED <<form, key, cached, loaded, flight, carried, step, phase, went, due, over, failed>>

\* The form.
Sending == UNCHANGED <<form, key, cached, loaded, carried, failed>>
Submit ==
  /\ form.sends # <<>> /\ phase \in {"idle", "failed"}
  /\ phase' = "sending" /\ step' = 1 /\ went' = FALSE
  /\ Sending /\ UNCHANGED <<server, flight, due, over, minutes>>
\* onSuccess, onDone, onUploaded.
Finishes(ok) ==
  IF ok
  THEN /\ phase' = "done" /\ Invalidated(form.asks)
       /\ due' = IF loaded /\ key \in Changes(form)
                     /\ <<form.name, key>> \notin LeftToTheMinute THEN server' ELSE due
  ELSE phase' = "failed" /\ UNCHANGED <<flight, due, over>>
Goes == UNCHANGED <<phase, flight, due, over>>
LastOne == step = Len(form.sends)
RequestDone ==
  /\ phase = "sending" /\ Changed(key \in form.sends[step].changes)
  /\ went' = TRUE /\ step' = step + 1
  /\ IF LastOne THEN Finishes(TRUE) ELSE Goes
  /\ Sending
\* A request is refused, or its answer is lost on the way back.
RequestFails(done) ==
  /\ phase = "sending" /\ Changed(done /\ key \in form.sends[step].changes)
  /\ step' = step + 1 /\ UNCHANGED went
  /\ IF step \notin form.spares THEN Finishes(FALSE)
     ELSE IF LastOne THEN Finishes(went) ELSE Goes
  /\ Sending
RequestRefused == RequestFails(FALSE)
AnswerLost == RequestFails(TRUE)

Next ==
  \/ ServerReads \/ Arrives \/ FetchFails \/ Focus \/ Minute \/ OtherChanges
  \/ Submit \/ RequestDone \/ RequestRefused \/ AnswerLost

Spec == Init /\ [][Next]_vars

-----------------------------------------------------------------------------
\* Whoever has been told that a form is done sees it on the screen as soon as nothing
\* is being asked for any more, whatever was in flight when it was sent and whatever
\* others did meanwhile; only the first answer of a query may be older.
ShowsItsChange ==
  phase = "done" /\ flight = "none" /\ ~failed => cached >= due

\* "A coordinator and a contractor looking at the same permit converge": what anyone
\* changed is on every screen before the third minute since is up, or the fourth if
\* the person's own form has asked anew, unless a request for it has failed.
ConvergesInTime ==
  loaded /\ cached # server /\ ~failed => minutes <= (IF phase = "done" THEN 3 ELSE 2)

\* The screens "never offer a control that would be refused" (PortalTeam.tsx): whoever is
\* offered a form has a role whose requests the server takes, one and all. The exceptions
\* are the forms that are offered to whoever sees the page: those a reader sees, the
\* contractor's own which an administrator can open too, and the contractor's card.
RefusedAnyway ==
  {<<"reply", "VIEWER">>, <<"ticket", "VIEWER">>, <<"certificate", "VIEWER">>,
   <<"permit request", "ADMIN">>, <<"withdraw", "ADMIN">>, <<"invite member", "ADMIN">>,
   <<"card", "CLIENT">>}
OfferedIsTaken ==
  \A role \in form.to :
    (\A i \in DOMAIN form.sends : role \in form.sends[i].takes)
      <=> <<form.name, role>> \notin RefusedAnyway

\* A contractor's pages are answered: the server refuses none of the queries that a
\* page with something for a contractor makes.
ContractorIsAnswered ==
  "CLIENT" \in form.to => \A query \in form.shows \ StaffAsk : Can("CLIENT", AskedOf(query))

ScreensRight == ShowsItsChange /\ ConvergesInTime /\ OfferedIsTaken /\ ContractorIsAnswered
=============================================================================
