------------------------------- MODULE Portal -------------------------------
(***************************************************************************)
(* What a contractor is shown: a tree of folders derived from the rows of  *)
(* its documents, projects and permits, the queue of what waits for it,    *)
(* and its requests for permits. Each answer is put together from several  *)
(* statements, and the office goes on working in between.                  *)
(*                                                                         *)
(* "Every folder is derived from data, never created by hand."             *)
(***************************************************************************)
EXTENDS Naturals, FiniteSets, FiniteSetsExt, Sequences, SequencesExt

CONSTANTS Docs, Permits, Projects, ProjectOf,
          Stored,      \* the categories of documents, as they are stored
          MaxOpen,     \* bound on the open items of each kind
          People, Requests, None

VARIABLES
  doc,         \* each document that is filed: its permit, if any, and its category
  permit,      \* the life of each permit,
  project,     \* and of each project: a row is deleted once, and stays deleted
  open,        \* how many items of each kind wait for the contractor
  read,        \* what the answer in progress has read so far
  request,     \* the status of each request for a permit
  asked        \* the request each person is about to withdraw
vars == <<doc, permit, project, open, read, request, asked>>

\* CATEGORY_TO_PORTAL.
toPortalCategory(stored) ==
  CASE stored = "permit_application" -> "SUBMITTAL"
    [] stored = "drawing" -> "PLAN_SET"
    [] stored \in {"approved_plan", "inspection_report", "correction_notice"} -> "AGENCY_ISSUED"
    [] stored = "photo" -> "JOB_PHOTO"
    [] stored \in {"license", "insurance"} -> "COMPLIANCE"
    [] stored = "contract" -> "SIGNED_AGREEMENT"
    [] OTHER -> "OTHER"
\* Mutant: what the agency sent is with the plans, too.
PlansOfTheAgency(key) ==
  CASE key = "plans" -> {"PLAN_SET", "AGENCY_ISSUED"}
    [] key = "from-agency" -> {"AGENCY_ISSUED"}
    [] OTHER -> {}
\* PERMIT_SECTIONS.
Categories(key) ==
  CASE key = "plans" -> {"PLAN_SET"}
    [] key = "submittal" -> {"SUBMITTAL"}
    [] key = "product-approval" -> {"PRODUCT_APPROVAL"}
    [] key = "corrections" -> {"CORRECTION_RESPONSE"}
    [] key = "photos" -> {"JOB_PHOTO", "SUPERVISION_PHOTO"}
    [] key = "from-agency" -> {"AGENCY_ISSUED"}
Sections == {"plans", "submittal", "product-approval", "corrections", "photos", "from-agency"}
\* The folders of the company itself.
CompanyCategory(key) ==
  CASE key = "compliance" -> "COMPLIANCE"
    [] key = "agreements" -> "SIGNED_AGREEMENT"
    [] key = "tax" -> "OTHER"
CompanyFolders == {"compliance", "agreements", "tax"}

Kinds == {"correction", "quote", "overdue", "due"}
Nothing == [at |-> "idle", docs |-> {}, projects |-> {}, permits |-> {},
            open |-> [k \in Kinds |-> 0]]
Lives == {"none", "live", "deleted"}
Live(rows) == {x \in DOMAIN rows : rows[x] = "live"}
Filed == [permit : Permits \cup {None}, category : Stored]

TypeOK ==
  /\ doc \in [Docs -> Filed \cup {None}]
  /\ permit \in [Permits -> Lives] /\ project \in [Projects -> Lives]
  /\ open \in [Kinds -> 0 .. MaxOpen]
  /\ read.at \in {"idle", "docs", "projects", "tree", "corrections", "invoices", "queue"}
  /\ read.docs \subseteq Docs \X Filed /\ read.projects \subseteq Projects
  /\ read.permits \subseteq Permits /\ read.open \in [Kinds -> 0 .. MaxOpen]
  /\ request \in [Requests -> {"none", "submitted", "withdrawn"}]
  /\ asked \in [People -> Requests \cup {None}]

Init ==
  /\ doc = [d \in Docs |-> None]
  /\ permit = [p \in Permits |-> "none"] /\ project = [j \in Projects |-> "none"]
  /\ open = [k \in Kinds |-> 0] /\ read = Nothing
  /\ request = [r \in Requests |-> "none"] /\ asked = [p \in People |-> None]

-----------------------------------------------------------------------------
\* The office: projects, permits and documents come and are deleted, each apart
\* from the others, and what waits for the contractor comes and goes.
ProjectMade ==
  /\ \E j \in Projects : project[j] = "none" /\ project' = [project EXCEPT ![j] = "live"]
  /\ UNCHANGED <<doc, permit, open, read, request, asked>>
ProjectDeleted ==
  /\ \E j \in Live(project) : project' = [project EXCEPT ![j] = "deleted"]
  /\ UNCHANGED <<doc, permit, open, read, request, asked>>
PermitMade ==
  /\ \E p \in Permits :
       /\ permit[p] = "none" /\ ProjectOf[p] \in Live(project)
       /\ permit' = [permit EXCEPT ![p] = "live"]
  /\ UNCHANGED <<doc, project, open, read, request, asked>>
PermitDeleted ==
  /\ \E p \in Live(permit) : permit' = [permit EXCEPT ![p] = "deleted"]
  /\ UNCHANGED <<doc, project, open, read, request, asked>>
DocumentFiled ==
  /\ \E d \in Docs, f \in Filed :
       /\ doc[d] = None /\ f.permit \in Live(permit) \cup {None}
       /\ doc' = [doc EXCEPT ![d] = f]
  /\ UNCHANGED <<permit, project, open, read, request, asked>>
DocumentDeleted ==
  /\ \E d \in Docs : doc[d] # None /\ doc' = [doc EXCEPT ![d] = None]
  /\ UNCHANGED <<permit, project, open, read, request, asked>>
ItemChanges ==
  /\ \E k \in Kinds, n \in 0 .. MaxOpen : open' = [open EXCEPT ![k] = n]
  /\ UNCHANGED <<doc, permit, project, read, request, asked>>

-----------------------------------------------------------------------------
Reads(from, to, what) == read.at = from /\ read' = [what EXCEPT !.at = to]
Reading == UNCHANGED <<doc, permit, project, open, request, asked>>
\* treeInputFor: the documents, then the projects, then the permits.
ReadDocuments ==
  /\ Docs # {}
  /\ Reads("idle", "docs", [Nothing EXCEPT !.docs = {<<d, doc[d]>> : d \in {e \in Docs : doc[e] # None}}])
  /\ Reading
ReadProjects == Reads("docs", "projects", [read EXCEPT !.projects = Live(project)]) /\ Reading
ReadPermits == Reads("projects", "tree", [read EXCEPT !.permits = Live(permit)]) /\ Reading
\* GET /api/portal/actions: the corrections, then the invoices, then the quotes.
ReadCorrections ==
  /\ MaxOpen > 0
  /\ Reads("idle", "corrections", [Nothing EXCEPT !.open.correction = open.correction])
  /\ Reading
ReadInvoices ==
  /\ Reads("corrections", "invoices",
           [read EXCEPT !.open.overdue = open.overdue, !.open.due = open.due])
  /\ Reading
ReadQuotes == Reads("invoices", "queue", [read EXCEPT !.open.quote = open.quote]) /\ Reading
Answers == read.at \in {"tree", "queue"} /\ read' = Nothing /\ Reading

\* A request is made, and pulled by whoever has seen it stand.
RequestPermit ==
  /\ \E r \in Requests : request[r] = "none" /\ request' = [request EXCEPT ![r] = "submitted"]
  /\ UNCHANGED <<doc, permit, project, open, read, asked>>
WithdrawReads(p) ==
  /\ asked[p] = None
  /\ \E r \in Requests : request[r] = "submitted" /\ asked' = [asked EXCEPT ![p] = r]
  /\ UNCHANGED <<doc, permit, project, open, read, request>>
WithdrawWrites(p) ==
  /\ asked[p] # None
  /\ request' = [request EXCEPT ![asked[p]] = "withdrawn"]
  /\ asked' = [asked EXCEPT ![p] = None]
  /\ UNCHANGED <<doc, permit, project, open, read>>

Next ==
  \/ ProjectMade \/ ProjectDeleted \/ PermitMade \/ PermitDeleted
  \/ DocumentFiled \/ DocumentDeleted \/ ItemChanges
  \/ ReadDocuments \/ ReadProjects \/ ReadPermits
  \/ ReadCorrections \/ ReadInvoices \/ ReadQuotes \/ Answers
  \/ RequestPermit
  \/ \E p \in People : WithdrawReads(p) \/ WithdrawWrites(p)

Spec == Init /\ [][Next]_vars

-----------------------------------------------------------------------------
\* buildFolderTree, from what was read.
PickedOf(p, categories) ==
  {d[1] : d \in {e \in read.docs : e[2].permit = p /\ toPortalCategory(e[2].category) \in categories}}
\* Mutant: a permit's folder is there though its project is not.
EveryPermit == read.permits
PermitFolders == {p \in read.permits : ProjectOf[p] \in read.projects}
InSection(p, key) == PickedOf(p, Categories(key))
InCompany(key) == PickedOf(None, {CompanyCategory(key)})

\* rollUp: what the badges show.
PermitTotal(p) == MapThenSumSet(LAMBDA key : Cardinality(InSection(p, key)), Sections)
ProjectTotal(j) == MapThenSumSet(PermitTotal, {p \in PermitFolders : ProjectOf[p] = j})
CompanyTotal == MapThenSumSet(LAMBDA key : Cardinality(InCompany(key)), CompanyFolders)
RootTotal == CompanyTotal + MapThenSumSet(ProjectTotal, read.projects)

\* Mutant: money first.
WeightOfMoney(kind) == CASE kind = "overdue" -> 0 [] kind = "correction" -> 5
                         [] kind = "quote" -> 30 [] OTHER -> 60
\* buildActionQueue, as far as the server gives it anything.
Weight(kind) == CASE kind = "correction" -> 5 [] kind = "quote" -> 30
                  [] kind = "overdue" -> 45 [] OTHER -> 60
Urgency(kind) == CASE kind = "correction" -> "blocking" [] kind = "due" -> "informational"
                   [] OTHER -> "soon"
Unsorted == FlattenSeq([i \in 1 .. 4 |->
              LET kind == <<"correction", "quote", "overdue", "due">>[i]
              IN [n \in 1 .. read.open[kind] |-> kind]])
actions == SortSeq(Unsorted, LAMBDA a, b : Weight(a) < Weight(b))
openCount == Cardinality({r \in Requests : request[r] = "submitted"})

-----------------------------------------------------------------------------
\* Whatever is filed, moved and deleted while the tree is read, a document is in one
\* folder at most, a permit's folder is in its project's, and the badges add up.
TreeAddsUp ==
  read.at = "tree" =>
    LET shown == UNION ({InSection(p, key) : p \in PermitFolders, key \in Sections}
                          \cup {InCompany(key) : key \in CompanyFolders}) IN
    /\ \A p \in PermitFolders : ProjectOf[p] \in read.projects
    /\ RootTotal = Cardinality(shown)

\* "Ordered by what actually stops work": what blocks comes before what does not,
\* and what is late before what is not; each item that was read is there once.
QueueIsOrdered ==
  read.at = "queue" =>
    /\ Len(actions) = MapThenSumSet(LAMBDA k : read.open[k], Kinds)
    /\ \A i, j \in DOMAIN actions : i < j =>
         /\ Urgency(actions[j]) = "blocking" => Urgency(actions[i]) = "blocking"
         /\ Urgency(actions[i]) = "informational" => Urgency(actions[j]) = "informational"

ShownRight == TreeAddsUp /\ QueueIsOrdered
=============================================================================
