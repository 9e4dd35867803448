------------------------------ MODULE Documents -------------------------------
(***************************************************************************)
(* One document with its versions: rows in the database, files in object   *)
(* storage. A version's row is written first, its file is put by the       *)
(* browser, and its completion is told in a third request. A deleted       *)
(* document may be restored until its retention ends; then a daily job     *)
(* removes file after file. The other upload routes put the file           *)
(* themselves, within the transaction that writes the rows.                *)
(***************************************************************************)
EXTENDS Integers, FiniteSetsExt

CONSTANTS Uploaders, None,
          MaxVersions,   \* bound on the uploads begun
          MaxInline      \* bound on the uploads of the other routes

VARIABLES
  doc,         \* documents: "none", "live", "deleted", "expired", "gone"
  state,       \* document_versions.upload_state, "none" before and "gone" after
  number,      \* document_versions.version_number
  count,       \* documents.version_count
  current,     \* documents.current_version_id
  files,       \* the versions whose file is in storage
  completing,  \* the version each uploader found pending and arrived
  purging,     \* the versions the purge has listed, and its file just deleted
  inline,      \* the other routes' uploads: in hand, kept
  orphans      \* files in storage no row will ever name
vars == <<doc, state, number, count, current, files, completing, purging, inline, orphans>>

Versions == 1 .. MaxVersions
Rows == {v \in Versions : state[v] \in {"pending", "uploaded"}}

TypeOK ==
  /\ doc \in {"none", "live", "deleted", "expired", "gone"}
  /\ state \in [Versions -> {"none", "pending", "uploaded", "gone"}]
  /\ number \in [Versions -> 0 .. MaxVersions] /\ count \in 0 .. MaxVersions
  /\ current \in Versions \cup {None} /\ files \subseteq Versions
  /\ completing \in [Uploaders -> Versions \cup {None}]
  /\ purging.listed \subseteq Versions /\ purging.deleted \in Versions \cup {None}
  /\ inline.inhand \in 0 .. MaxInline /\ inline.kept \in 0 .. MaxInline
  /\ orphans \in 0 .. MaxInline

Init ==
  /\ doc = "none"
  /\ state = [v \in Versions |-> "none"] /\ number = [v \in Versions |-> 0]
  /\ count = 0 /\ current = None /\ files = {}
  /\ completing = [u \in Uploaders |-> None]
  /\ purging = [listed |-> {}, deleted |-> None]
  /\ inline = [inhand |-> 0, kept |-> 0] /\ orphans = 0

-----------------------------------------------------------------------------
\* Mutant: the next number is the count's, which completing advances.
CountedNumber == count + 1
NextNumber == Max({Max({0} \cup {number[v] : v \in Rows}) + 1, count + 1})

\* POST /v1/documents/upload-init, of a new document or of one it locks.
UploadInit(v) ==
  /\ doc \in {"none", "live"} /\ doc' = "live"
  /\ state[v] = "none" /\ (v > 1 => state[v - 1] # "none")
  /\ state' = [state EXCEPT ![v] = "pending"]
  /\ number' = [number EXCEPT ![v] = NextNumber]
  /\ UNCHANGED <<count, current, files, completing, purging, inline, orphans>>

\* The browser's PUT, with the signed URL: long before a deletion's term is up.
PutFile(v) ==
  /\ state[v] = "pending" /\ doc \in {"live", "deleted"}
  /\ v \notin files /\ files' = files \cup {v}
  /\ UNCHANGED <<doc, state, number, count, current, completing, purging, inline, orphans>>

\* Mutant: the client's word is taken.
ArrivedByWord(v) == TRUE
\* headObject: what arrived is looked at before the row says so.
Arrived(v) == v \in files
\* POST .../complete reads, asks storage, and writes in a second transaction.
CompleteReads(u, v) ==
  /\ completing[u] = None /\ state[v] = "pending" /\ Arrived(v)
  /\ completing' = [completing EXCEPT ![u] = v]
  /\ UNCHANGED <<doc, state, number, count, current, files, purging, inline, orphans>>
CompleteWrites(u) ==
  /\ completing[u] # None
  /\ LET v == completing[u]
     IN IF v \in Rows
        THEN /\ state' = [state EXCEPT ![v] = "uploaded"]
             /\ current' = v
             /\ count' = Max({count, number[v]})
        ELSE UNCHANGED <<state, current, count>>
  /\ completing' = [completing EXCEPT ![u] = None]
  /\ UNCHANGED <<doc, number, files, purging, inline, orphans>>

\* DELETE and .../restore, one conditional UPDATE each; time is up in between.
Delete ==
  /\ doc = "live" /\ doc' = "deleted"
  /\ UNCHANGED <<state, number, count, current, files, completing, purging, inline, orphans>>
RetentionEnds ==
  /\ doc = "deleted" /\ doc' = "expired"
  /\ UNCHANGED <<state, number, count, current, files, completing, purging, inline, orphans>>
\* Mutant: whatever still has its row comes back.
RecoverableWhileListed == doc \in {"deleted", "expired"}
Recoverable == doc = "deleted"
Restore ==
  /\ Recoverable /\ doc' = "live"
  /\ UNCHANGED <<state, number, count, current, files, completing, purging, inline, orphans>>

-----------------------------------------------------------------------------
\* purgeDeletedDocuments: the list, then for each version the file and the rows.
\* A storage failure skips the version; the job may die anywhere and run again.
PurgeLists ==
  /\ doc = "expired" /\ purging.listed = {} /\ Rows # {}
  /\ purging' = [listed |-> Rows, deleted |-> None]
  /\ UNCHANGED <<doc, state, number, count, current, files, completing, inline, orphans>>
\* Mutant: the row goes whether the file did or not.
FileMayGo(v) == {files, files \ {v}}
FileGoes(v) == {files \ {v}}
PurgeFile(v) ==
  /\ v \in purging.listed /\ purging.deleted = None
  /\ files' \in FileGoes(v)
  /\ purging' = [listed |-> purging.listed \ {v}, deleted |-> v]
  /\ UNCHANGED <<doc, state, number, count, current, completing, inline, orphans>>
PurgeSkips(v) ==
  /\ v \in purging.listed /\ purging.deleted = None
  /\ purging' = [purging EXCEPT !.listed = @ \ {v}]
  /\ UNCHANGED <<doc, state, number, count, current, files, completing, inline, orphans>>
PurgeRows ==
  /\ purging.deleted # None
  /\ state' = [state EXCEPT ![purging.deleted] = "gone"]
  /\ current' = IF current = purging.deleted THEN None ELSE current
  /\ doc' = IF Rows = {purging.deleted} THEN "gone" ELSE doc
  /\ purging' = [purging EXCEPT !.deleted = None]
  /\ UNCHANGED <<number, count, files, completing, inline, orphans>>
PurgeDies ==
  /\ purging.listed # {} \/ purging.deleted # None
  /\ purging' = [listed |-> {}, deleted |-> None]
  /\ UNCHANGED <<doc, state, number, count, current, files, completing, inline, orphans>>

-----------------------------------------------------------------------------
\* POST /api/documents, /api/documents/photos, /api/portal/folders/*: the file is
\* put, and the version inserted as 'stored'.
\* The states the table's check on upload_state allows.
AllowedStates == {"pending", "uploaded", "failed"}
InlineStores ==
  /\ inline.inhand + inline.kept + orphans < MaxInline
  /\ inline' = [inline EXCEPT !.inhand = @ + 1]
  /\ UNCHANGED <<doc, state, number, count, current, files, completing, purging, orphans>>
InlineCommits ==
  /\ inline.inhand > 0
  /\ IF "stored" \in AllowedStates
     THEN inline' = [inline EXCEPT !.inhand = @ - 1, !.kept = @ + 1] /\ UNCHANGED orphans
     ELSE inline' = [inline EXCEPT !.inhand = @ - 1] /\ orphans' = orphans + 1
  /\ UNCHANGED <<doc, state, number, count, current, files, completing, purging>>

Next ==
  \/ \E v \in Versions : UploadInit(v) \/ PutFile(v) \/ PurgeFile(v) \/ PurgeSkips(v)
  \/ \E u \in Uploaders : CompleteWrites(u) \/ \E v \in Versions : CompleteReads(u, v)
  \/ Delete \/ RetentionEnds \/ Restore
  \/ PurgeLists \/ PurgeRows \/ PurgeDies
  \/ InlineStores \/ InlineCommits
Spec == Init /\ [][Next]_vars

-----------------------------------------------------------------------------
\* Two uploads of one document never take the same number, one of them abandoned
\* or not: the table would refuse the second "permanently, for that document".
NumbersDistinct == \A v, w \in Rows : number[v] = number[w] => v = w

\* A restored row never "points at nothing": every uploaded version of a document
\* that is not beyond recovery has its file, whatever the purge was doing.
LiveHasFiles ==
  doc \in {"live", "deleted"} => \A v \in Rows : state[v] = "uploaded" => v \in files

\* The purge never leaves "a file nobody can find or delete, forever": where the
\* version's row is gone, its file is, wherever the job died.
PurgedHasNoFile == \A v \in Versions : state[v] = "gone" => v \notin files

\* A document's current version has been uploaded, and is one of its rows.
CurrentIsUploaded == current # None => state[current] = "uploaded"
=============================================================================
