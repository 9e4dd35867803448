-------------------------------- MODULE Intake --------------------------------
(***************************************************************************)
(* One permit application: the facts the contractor gives, the checklist   *)
(* of documents they call for, its submission, review and conversion into  *)
(* a permit.                                                               *)
(*                                                                         *)
(* Editing, submitting, reviewing and converting lock the application's    *)
(* row. Naming a subcontractor reads it unlocked and inserts afterwards:   *)
(* the insert's foreign key waits for those locks, and the checklist is    *)
(* then worked out from the row as it was read.                            *)
(***************************************************************************)
EXTENDS Naturals, FiniteSets

CONSTANTS
  People,   \* who may be naming a subcontractor at once
  MaxSubs,  \* bound: subcontractors an application names
  None

VARIABLES
  status,     \* permit_applications.status
  facts,      \* the columns the checklist and the readiness depend on
  subs,       \* application_subcontractors, how many rows
  checklist,  \* application_documents: "none", "missing" or "provided"
  permits,    \* the permits made from the application
  carried,    \* the documents carried across to its permit
  asked       \* the application as each caller naming a subcontractor read it
vars == <<status, facts, subs, checklist, permits, carried, asked>>

\* One document for each kind of rule of requiredDocumentsFor: always called for; by
\* a recorded fact, as drawings, a flood certificate and the jurisdiction's extras
\* are; by the subcontractors; by an answer that is not recorded, as the HOA's is.
Documents == {"license", "notice of commencement", "affidavit", "septic approval"}
\* No route makes an application "withdrawn".
Status == {"draft", "submitted", "in_review", "info_requested", "accepted", "rejected",
           "converted"}
\* Past the notice threshold, notice recorded, and every other blocking field given.
Facts == [costly : BOOLEAN, recorded : BOOLEAN, complete : BOOLEAN]
Listed == {d \in Documents : checklist[d] # "none"}
Missing == {d \in Documents : checklist[d] = "missing"}
Provided == {d \in Documents : checklist[d] = "provided"}

\* requiredDocumentsFor. A question the request leaves out is answered no.
Required(f, hasSubs, hasSeptic) ==
  {"license"} \cup (IF f.costly THEN {"notice of commencement"} ELSE {})
              \cup (IF hasSubs THEN {"affidavit"} ELSE {})
              \cup (IF hasSeptic THEN {"septic approval"} ELSE {})

\* syncChecklist: what is required is listed, and what no longer is goes, unless
\* it was already provided.
\* Mutant: nothing is added to a list once made.
SyncedByRemoval(list, required) ==
  [d \in Documents |-> IF list[d] = "provided" \/ d \in required THEN list[d] ELSE "none"]
Synced(list, required) ==
  [d \in Documents |-> IF list[d] = "provided" THEN "provided"
                       ELSE IF d \in required THEN "missing" ELSE "none"]

TypeOK ==
  /\ status \in Status /\ facts \in Facts
  /\ subs \in 0 .. MaxSubs
  /\ checklist \in [Documents -> {"none", "missing", "provided"}]
  /\ permits \in 0 .. 2 /\ carried \subseteq Documents
  /\ asked \in [People -> Facts \cup {None}]

\* POST /v1/permit-applications: nothing is refused of a draft.
Init ==
  /\ status = "draft" /\ facts \in Facts
  /\ subs = 0
  /\ \E septic \in BOOLEAN :
       checklist = Synced([d \in Documents |-> "none"], Required(facts, FALSE, septic))
  /\ permits = 0 /\ carried = {}
  /\ asked = [p \in People |-> None]

-----------------------------------------------------------------------------
\* PATCH /v1/permit-applications/:id. The septic question is answered, or left out,
\* which is a no.
Edit ==
  /\ status \notin {"accepted", "converted", "rejected"}
  /\ facts' \in Facts
  /\ \E septic \in BOOLEAN :
       checklist' = Synced(checklist, Required(facts', subs > 0, septic))
  /\ UNCHANGED <<status, subs, permits, carried, asked>>

\* POST .../subcontractors, at any status.
AddSubcontractorReads(p) ==
  /\ asked[p] = None
  /\ asked' = [asked EXCEPT ![p] = facts]
  /\ UNCHANGED <<status, facts, subs, checklist, permits, carried>>
AddSubcontractorWrites(p) ==
  /\ asked[p] # None /\ subs < MaxSubs
  /\ subs' = subs + 1
  /\ checklist' = Synced(checklist, Required(asked[p], TRUE, FALSE))
  /\ asked' = [asked EXCEPT ![p] = None]
  /\ UNCHANGED <<status, facts, permits, carried>>
\* DELETE .../subcontractors/:subId leaves the checklist as it is.
RemoveSubcontractor ==
  /\ subs > 0 /\ subs' = subs - 1
  /\ UNCHANGED <<status, facts, checklist, permits, carried, asked>>
\* POST .../documents, at any status.
AttachDocument ==
  /\ \E d \in Documents : checklist' = [checklist EXCEPT ![d] = "provided"]
  /\ UNCHANGED <<status, facts, subs, permits, carried, asked>>

-----------------------------------------------------------------------------
\* assessReadiness, the blocking issues.
CanSubmit == facts.complete /\ (facts.costly => facts.recorded) /\ Missing = {}
Submit ==
  /\ status \in {"draft", "info_requested"} /\ CanSubmit
  /\ status' = "submitted"
  /\ UNCHANGED <<facts, subs, checklist, permits, carried, asked>>

\* Mutant: a review looks at nothing.
ReviewableAlways == TRUE
Reviewable == status # "converted"
\* POST .../review, by staff.
Review ==
  /\ Reviewable
  /\ status' \in {"accepted", "rejected", "info_requested", "in_review"}
  /\ UNCHANGED <<facts, subs, checklist, permits, carried, asked>>

\* POST .../convert, by staff: the permit, its project and its papers.
Convert ==
  /\ status = "accepted" /\ permits < 2
  /\ status' = "converted"
  /\ permits' = permits + 1
  /\ carried' = Provided
  /\ UNCHANGED <<facts, subs, checklist, asked>>

Next ==
  \/ Edit \/ RemoveSubcontractor \/ AttachDocument
  \/ \E p \in People : AddSubcontractorReads(p) \/ AddSubcontractorWrites(p)
  \/ Submit \/ Review \/ Convert
Spec == Init /\ [][Next]_vars

-----------------------------------------------------------------------------
\* "It can run only once": however an application is reviewed again, and however
\* often it is converted, it makes one permit, and made it when it says so.
OnePermit == permits = (IF status = "converted" THEN 1 ELSE 0)

\* A document the contractor uploaded stays on the checklist even when the rules
\* stop asking for it, and its permit keeps every one it was converted with.
KeepsUploads == Provided \subseteq Provided' /\ carried \subseteq Provided'

\* What the recorded facts ask for is on the checklist. It falls off only when a
\* subcontractor is named on the strength of facts edited meanwhile.
FollowsFacts ==
  Required(facts, FALSE, FALSE) \subseteq Listed
    => \/ Required(facts', FALSE, FALSE) \subseteq Listed'
       \/ \E p \in People : asked[p] \notin {None, facts} /\ asked'[p] = None
=============================================================================
