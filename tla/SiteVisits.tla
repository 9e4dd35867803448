----------------------------- MODULE SiteVisits -----------------------------
(***************************************************************************)
(* Site visits and their photographs: the routes of                         *)
(* src/routes/supervision.ts and src/routes/compat/supervision.ts, the      *)
(* triggers of db/migrations/0013_visit_photos.sql, the visit watch of      *)
(* src/jobs/handlers/supervision.ts and the purge of deleted documents.     *)
(*                                                                         *)
(* A check-in, a sign-off and an upload through /api hold their visit       *)
(* "for update" from their read to their commit.  Adding and removing a     *)
(* photograph through /v1 read the visit without a lock; the trigger that   *)
(* recounts the photographs counts when its statement starts and writes     *)
(* when it gets the row.  What a transaction wrote is seen at its commit.   *)
(*                                                                         *)
(* Requests are those of the visit's own supervisor, or of staff: the       *)
(* refusals of anybody else are left out.                                   *)
(***************************************************************************)
EXTENDS Integers, FiniteSets

CONSTANTS
  Visits,         \* visit ids
  AdHoc,          \* those recorded by POST /api/supervision/visits
  Photos,         \* documents; those in photos[v] are photographs
  Requests,       \* bound: requests at work at once
  None,           \* no such visit or photograph
  Required,       \* required_photo_count
  RequiredTypes,  \* required_photo_types
  TypeOf          \* TypeOf[p]: photo_type

ASSUME SiteVisitsAssumption ==
  /\ AdHoc \subseteq Visits
  /\ IsFiniteSet(Photos)
  /\ Required \in Nat
  /\ None \notin Visits \cup Photos

VARIABLES
  status,    \* status[v], "none" before the row exists
  arrived,   \* visits with a checked_in_at
  overdue,   \* visits the watch has selected in the transaction it is in
  photos,    \* photos[v]: the rows of ocs.supervision_visit_photos
  tally,     \* tally[v]: photo_count
  document,  \* document[p]: "none", "live", "deleted", "expired" or "purged"
  file,      \* file[p]: "none", "promised", "stored" or "gone"
  request    \* request[r]: the transaction r runs, Idle if none

visitRows == <<status, arrived, overdue>>
photoRows == <<photos, tally, document, file>>
vars == <<visitRows, photoRows, request>>

Plan == INSTANCE VisitPlan WITH Visits <- Visits,
  status <- status, arrived <- arrived, overdue <- overdue

\* What a request is at: a check-in, a sign-off or an upload that holds its
\* visit; an addition or a removal that has read its visit; one that has
\* counted the photographs.
Idle == [at |-> "idle", visit |-> None, photo |-> None, count |-> 0]

Call(at, v, p) == [at |-> at, visit |-> v, photo |-> p, count |-> 0]

At(r, at) == request[r].at = at

Goes(r, call) == request' = [request EXCEPT ![r] = call]

Init ==
  /\ status = [v \in Visits |-> "none"]
  /\ arrived = {}
  /\ overdue = {}
  /\ photos = [v \in Visits |-> {}]
  /\ tally = [v \in Visits |-> 0]
  /\ document = [p \in Photos |-> "none"]
  /\ file = [p \in Photos |-> "none"]
  /\ request = [r \in Requests |-> Idle]

\* Mutant: the reads are not "for update".
NeverHeld(v) == v \notin Visits

\* The row is held "for update".
Held(v) ==
  \E r \in Requests :
    request[r].visit = v /\ request[r].at \in {"checking in", "signing off", "uploading"}

\* A photograph inserted and not committed keeps "for update" away from its
\* visit: the foreign key holds the visit "for key share".
KeyShared(v) == \E r \in Requests : request[r].visit = v /\ At(r, "added")

\* Mutant: the requests do not look at what they read.
OpenToAll(v) == status[v] # "none"

\* What every request asks of the visit it has read.
Open(v) == status[v] \notin {"none", "completed"}

MovesTo(v, s) == status' = [status EXCEPT ![v] = s]

Unused(p) ==
  /\ document[p] = "none"
  /\ file[p] = "none"
  /\ \A r \in Requests : request[r].photo # p

\* The photograph is in the hands of another transaction.
Taken(p) == \E r \in Requests : request[r].photo = p /\ request[r].at \in {"removed", "purged"}

-----------------------------------------------------------------------------
PlanVisit(v) ==
  /\ v \notin AdHoc
  /\ status[v] = "none"
  /\ MovesTo(v, "required")
  /\ UNCHANGED <<arrived, overdue, photoRows, request>>

\* A document uploaded on another screen, here in one step (see Documents).
UploadDocument(p) ==
  /\ Unused(p)
  /\ document' = [document EXCEPT ![p] = "live"]
  /\ file' = [file EXCEPT ![p] = "stored"]
  /\ UNCHANGED <<visitRows, photos, tally, request>>

\* POST /api/supervision/visits: a completed visit, with the documents named in
\* the body as its photographs, if any; here none that another visit has.
LogAdHoc(v, S) ==
  /\ v \in AdHoc
  /\ status[v] = "none"
  /\ \A p \in S :
       /\ document[p] \notin {"none", "purged"}
       /\ ~Taken(p)
       /\ \A u \in Visits : p \notin photos[u]
  /\ MovesTo(v, "completed")
  /\ arrived' = arrived \cup {v}
  /\ photos' = [photos EXCEPT ![v] = S]
  /\ tally' = [tally EXCEPT ![v] = Cardinality(S)]
  /\ UNCHANGED <<overdue, document, file, request>>

Schedule(v) ==
  /\ status[v] \in {"required", "scheduled"}
  /\ ~Held(v)
  /\ MovesTo(v, "scheduled")
  /\ UNCHANGED <<arrived, overdue, photoRows, request>>

Waive(v) ==
  /\ status[v] \notin {"none", "completed", "waived"}
  /\ ~Held(v)
  /\ MovesTo(v, "waived")
  /\ UNCHANGED <<arrived, overdue, photoRows, request>>

\* supervision.visit_watch is one transaction: it selects visits, of which the
\* model does not say how late they are, and marks them missed by their ids.
WatchReads(S) ==
  /\ overdue = {}
  /\ S # {}
  /\ \A v \in S : status[v] = "scheduled" /\ v \notin arrived
  /\ overdue' = S
  /\ UNCHANGED <<status, arrived, photoRows, request>>

WatchWrites ==
  /\ overdue # {}
  /\ \A v \in overdue : ~Held(v)
  /\ status' = [v \in Visits |-> IF v \in overdue THEN "missed" ELSE status[v]]
  /\ overdue' = {}
  /\ UNCHANGED <<arrived, photoRows, request>>

WatchFails ==
  /\ overdue # {}
  /\ overdue' = {}
  /\ UNCHANGED <<status, arrived, photoRows, request>>

-----------------------------------------------------------------------------
Locks(r, v) == request[r] = Idle /\ ~Held(v) /\ ~KeyShared(v)

BeginCheckIn(r, v) ==
  /\ Locks(r, v)
  /\ Open(v)
  /\ Goes(r, Call("checking in", v, None))
  /\ UNCHANGED <<visitRows, photoRows>>

CheckIn(r) ==
  LET v == request[r].visit
  IN /\ At(r, "checking in")
     /\ MovesTo(v, "in_progress")
     /\ arrived' = arrived \cup {v}
     /\ Goes(r, Idle)
     /\ UNCHANGED <<overdue, photoRows>>

\* Both routes trust photo_count; /v1 also looks for the check-in and the kinds
\* of photographs, which /api leaves to the constraint and the trigger.
BeginSignOff(r, v) ==
  /\ Locks(r, v)
  /\ Open(v)
  /\ tally[v] >= Required
  /\ Goes(r, Call("signing off", v, None))
  /\ UNCHANGED <<visitRows, photoRows>>

\* visits_check_photo_evidence counts the rows.
Evidenced(v) ==
  /\ Cardinality(photos[v]) >= Required
  /\ RequiredTypes \subseteq {TypeOf[p] : p \in photos[v]}

\* visits_completed_requires_evidence and visits_check_photo_evidence.
Accepts(v) == v \in arrived /\ Evidenced(v)

SignOff(r) ==
  LET v == request[r].visit
  IN /\ At(r, "signing off")
     /\ Accepts(v)
     /\ MovesTo(v, "completed")
     /\ Goes(r, Idle)
     /\ UNCHANGED <<arrived, overdue, photoRows>>

SignOffRefused(r) ==
  /\ At(r, "signing off")
  /\ ~Accepts(request[r].visit)
  /\ Goes(r, Idle)
  /\ UNCHANGED <<visitRows, photoRows>>

\* POST /api/supervision/visits/:id/photos: the file goes to storage first.
BeginUpload(r, v, p) ==
  /\ Locks(r, v)
  /\ Open(v)
  /\ Unused(p)
  /\ Goes(r, Call("uploading", v, p))
  /\ UNCHANGED <<visitRows, photoRows>>

\* Its row then says 'stored', which the check on upload_state refuses: all is
\* rolled back, but for the file (Documents!InlineCommits).
UploadRefused(r) ==
  /\ At(r, "uploading")
  /\ file' = [file EXCEPT ![request[r].photo] = "stored"]
  /\ Goes(r, Idle)
  /\ UNCHANGED <<visitRows, photos, tally, document>>

-----------------------------------------------------------------------------
\* POST /v1/supervision/visits/:visitId/photos
AddReads(r, v, p) ==
  /\ request[r] = Idle
  /\ Open(v)
  /\ Unused(p)
  /\ Goes(r, Call("adding", v, p))
  /\ UNCHANGED <<visitRows, photoRows>>

AddInserts(r) ==
  LET v == request[r].visit
  IN /\ At(r, "adding")
     /\ ~Held(v)
     /\ Goes(r, [request[r] EXCEPT !.at = "added", !.count = Cardinality(photos[v]) + 1])
     /\ UNCHANGED <<visitRows, photoRows>>

AddCommits(r) ==
  LET v == request[r].visit
      p == request[r].photo
  IN /\ At(r, "added")
     /\ photos' = [photos EXCEPT ![v] = @ \cup {p}]
     /\ tally' = [tally EXCEPT ![v] = request[r].count]
     /\ document' = [document EXCEPT ![p] = "live"]
     /\ file' = [file EXCEPT ![p] = "promised"]
     /\ Goes(r, Idle)
     /\ UNCHANGED visitRows

\* The client puts the file to the signed URL, which ends before the retention
\* does, or never does; the photograph may have been removed.  Confirming it only
\* writes upload_state, which nothing here reads.
PutPhoto(p) ==
  /\ file[p] = "promised"
  /\ document[p] \in {"live", "deleted"}
  /\ file' = [file EXCEPT ![p] = "stored"]
  /\ UNCHANGED <<visitRows, photos, tally, document, request>>

\* DELETE /v1/supervision/visits/:visitId/photos/:photoId
RemoveReads(r, v, p) ==
  /\ request[r] = Idle
  /\ Open(v)
  /\ p \in photos[v]
  /\ Goes(r, Call("removing", v, p))
  /\ UNCHANGED <<visitRows, photoRows>>

\* Mutant: the photograph may be gone.
DeletesAnyway(r, at, v, p) ==
  /\ ~Taken(p)
  /\ Goes(r, [at |-> at, visit |-> v, photo |-> p, count |-> Cardinality(photos[v]) - 1])
  /\ UNCHANGED <<visitRows, photoRows>>

Deletes(r, at, v, p) ==
  /\ p \in photos[v]
  /\ ~Taken(p)
  /\ Goes(r, [at |-> at, visit |-> v, photo |-> p, count |-> Cardinality(photos[v]) - 1])
  /\ UNCHANGED <<visitRows, photoRows>>

RemoveDeletes(r) ==
  At(r, "removing") /\ Deletes(r, "removed", request[r].visit, request[r].photo)

RemoveFindsNone(r) ==
  /\ At(r, "removing")
  /\ request[r].photo \notin photos[request[r].visit]
  /\ Goes(r, Idle)
  /\ UNCHANGED <<visitRows, photoRows>>

\* system.purge_documents deletes the file and then, in a transaction that may
\* fail, the document, and the photograph with it.
PurgeFile(p) ==
  /\ document[p] = "expired"
  /\ file[p] # "gone"
  /\ file' = [file EXCEPT ![p] = "gone"]
  /\ UNCHANGED <<visitRows, photos, tally, document, request>>

PurgeDeletes(r, v, p) ==
  /\ request[r] = Idle
  /\ document[p] = "expired"
  /\ file[p] = "gone"
  /\ Deletes(r, "purged", v, p)

\* Of a document without a photograph.
PurgeAlone(p) ==
  /\ document[p] = "expired"
  /\ file[p] = "gone"
  /\ \A v \in Visits : p \notin photos[v]
  /\ document' = [document EXCEPT ![p] = "purged"]
  /\ UNCHANGED <<visitRows, photos, tally, file, request>>

RemoveCommits(r) ==
  LET v == request[r].visit
      p == request[r].photo
  IN /\ request[r].at \in {"removed", "purged"}
     /\ ~Held(v)
     /\ photos' = [photos EXCEPT ![v] = @ \ {p}]
     /\ tally' = [tally EXCEPT ![v] = request[r].count]
     /\ document' = IF At(r, "purged") THEN [document EXCEPT ![p] = "purged"] ELSE document
     /\ Goes(r, Idle)
     /\ UNCHANGED <<visitRows, file>>

\* Any of the transactions rolls back.
Abort(r) ==
  /\ request[r] # Idle
  /\ Goes(r, Idle)
  /\ UNCHANGED <<visitRows, photoRows>>

\* DELETE /v1/documents/:documentId, its undoing, and the end of the retention.
DeleteDocument(p) ==
  /\ document[p] = "live"
  /\ document' = [document EXCEPT ![p] = "deleted"]
  /\ UNCHANGED <<visitRows, photos, tally, file, request>>

\* Mutant: the restoration does not ask for the purge date.
RecoverableLate(p) == document[p] \in {"deleted", "expired"}

Recoverable(p) == document[p] = "deleted"

RestoreDocument(p) ==
  /\ Recoverable(p)
  /\ document' = [document EXCEPT ![p] = "live"]
  /\ UNCHANGED <<visitRows, photos, tally, file, request>>

DocumentExpires(p) ==
  /\ document[p] = "deleted"
  /\ document' = [document EXCEPT ![p] = "expired"]
  /\ UNCHANGED <<visitRows, photos, tally, file, request>>

-----------------------------------------------------------------------------
Begin(r, v) ==
  \/ BeginCheckIn(r, v) \/ BeginSignOff(r, v)
  \/ \E p \in Photos :
       BeginUpload(r, v, p) \/ AddReads(r, v, p) \/ RemoveReads(r, v, p) \/ PurgeDeletes(r, v, p)

Continue(r) ==
  \/ CheckIn(r) \/ SignOff(r) \/ SignOffRefused(r) \/ UploadRefused(r)
  \/ AddInserts(r) \/ AddCommits(r)
  \/ RemoveDeletes(r) \/ RemoveFindsNone(r) \/ RemoveCommits(r)
  \/ Abort(r)

DocumentStep(p) ==
  \/ UploadDocument(p) \/ PutPhoto(p)
  \/ DeleteDocument(p) \/ RestoreDocument(p) \/ DocumentExpires(p)
  \/ PurgeFile(p) \/ PurgeAlone(p)

Next ==
  \/ \E v \in Visits :
       \/ PlanVisit(v) \/ Schedule(v) \/ Waive(v)
       \/ \E S \in SUBSET Photos : LogAdHoc(v, S)
  \/ \E S \in SUBSET Visits : WatchReads(S)
  \/ WatchWrites \/ WatchFails
  \/ \E r \in Requests : Continue(r) \/ \E v \in Visits : Begin(r, v)
  \/ \E p \in Photos : DocumentStep(p)

Spec == Init /\ [][Next]_vars

-----------------------------------------------------------------------------
\* Every variable has its type.
TypeOK ==
  /\ status \in [Visits -> Plan!VisitStatus]
  /\ arrived \subseteq Visits
  /\ overdue \subseteq Visits
  /\ photos \in [Visits -> SUBSET Photos]
  /\ tally \in [Visits -> Nat]
  /\ document \in [Photos -> {"none", "live", "deleted", "expired", "purged"}]
  /\ file \in [Photos -> {"none", "promised", "stored", "gone"}]
  /\ request \in [Requests ->
       [at : {"idle", "checking in", "signing off", "uploading", "adding", "added",
              "removing", "removed", "purged"},
        visit : Visits \cup {None}, photo : Photos \cup {None}, count : Nat]]

\* However requests, the watch and the recounting trigger interleave, a visit
\* only makes the moves of the visit plan, each as if in one step.
ImplementsVisitPlan == Plan!Spec

\* No request undoes a sign-off: whatever was sent before it or after it, a
\* completed visit stays completed, unless the watch marks it missed.
SignOffStands ==
  [][\A v \in Visits :
       status[v] = "completed" => status'[v] = "completed" \/ v \in overdue]_vars

\* db/migrations/0013_visit_photos.sql:129: "Keep the visit's photo_count honest
\* without a per-read aggregate."  Once nobody is at work on a visit, the number that
\* both routes decide a sign-off by is that of its photographs.
CountIsHonest ==
  \A v \in Visits :
    (\A r \in Requests : request[r].visit # v) => tally[v] = Cardinality(photos[v])

\* The purge destroys nothing that is, or can again be, in use: a document that
\* can be read or restored still has whatever file it had, although the purge
\* deletes files outside its transactions.
FilesOutliveRetention ==
  \A p \in Photos : document[p] \in {"live", "deleted"} => file[p] # "gone"
=============================================================================
