------------------------------ MODULE Permits -------------------------------
(***************************************************************************)
(* One permit: its status, moved by people through three routes, by the    *)
(* corrections logged on it and by the automated check of the              *)
(* municipality's portal, and its deletion.                                *)
(*                                                                         *)
(* The check reads the permit in one transaction, asks the portal, and     *)
(* writes in another; the route that follows the table of transitions      *)
(* reads the row FOR UPDATE and holds the lock until it writes; deletion   *)
(* reads without a lock.                                                   *)
(***************************************************************************)
EXTENDS Naturals, FiniteSetsExt

CONSTANTS People, Runs,   \* callers, and runs of the check's handler
          Used,           \* bound on the statuses visited: "draft" and some others
          MaxCycles,      \* bound on the corrections logged
          None

VARIABLES
  status,      \* permits.status
  deleted,     \* permits.deleted_at is set
  cycles,      \* permits.correction_cycles
  logged,      \* permit_corrections: how many carry each cycle number
  job,         \* the permit.status_check job: "none", "queued", "running"
  run,         \* what each run of it has read and heard
  asked        \* what each caller has read and waits to write
vars == <<status, deleted, cycles, logged, job, run, asked>>

Terminal == {"closed", "withdrawn", "rejected", "expired"}
Live == {"issued", "inspections"}
Detected == {"submitted", "under_review", "corrections_required", "approved", "issued",
             "inspections", "closed", "rejected", "expired"}
Status == Used \cap (Detected \cup {"draft", "ready_to_submit", "resubmitted", "withdrawn"})
Transitions ==
  [draft |-> {"ready_to_submit", "withdrawn"},
   ready_to_submit |-> {"submitted", "draft", "withdrawn"},
   submitted |-> {"under_review", "corrections_required", "approved", "rejected", "withdrawn"},
   under_review |-> {"corrections_required", "approved", "rejected", "withdrawn"},
   corrections_required |-> {"resubmitted", "withdrawn"},
   resubmitted |-> {"under_review", "corrections_required", "approved", "rejected"},
   approved |-> {"issued", "expired", "withdrawn"},
   issued |-> {"inspections", "closed", "expired"},
   inspections |-> {"closed", "expired"},
   closed |-> {}, expired |-> {}, rejected |-> {}, withdrawn |-> {}]

TypeOK ==
  /\ status \in Status /\ deleted \in BOOLEAN
  /\ cycles \in 0 .. MaxCycles
  /\ logged \in [1 .. MaxCycles -> 0 .. MaxCycles]
  /\ job \in {"none", "queued", "running"}
  /\ run \in [Runs -> [read : Status, heard : Detected \cup {"unknown", None}] \cup {None}]
  /\ \A p \in People : asked[p] = None \/ asked[p].op \in {"status", "delete", "correct"}

Init ==
  /\ status = "draft" /\ deleted = FALSE
  /\ cycles = 0 /\ logged = [c \in 1 .. MaxCycles |-> 0]
  /\ job = "none" /\ run = [r \in Runs |-> None]
  /\ asked = [p \in People |-> None]

\* Mutant: the row is read without FOR UPDATE.
Unlocked == FALSE
\* The row's lock, held by a status change between its read and its write.
Locked == \E p \in People : asked[p] # None /\ asked[p].op = "status"
Asks(p, request) == asked[p] = None /\ asked' = [asked EXCEPT ![p] = request]
Asked(p, op) == asked[p] # None /\ asked[p].op = op
Answered(p) == asked' = [asked EXCEPT ![p] = None]

-----------------------------------------------------------------------------
\* POST /v1/permits/:id/status. An administrator may force what the table forbids.
ChangeStatusReads(p) ==
  /\ ~deleted /\ ~Locked
  /\ \E s \in Status \ {status}, force \in BOOLEAN :
       /\ force \/ s \in Transitions[status]
       /\ Asks(p, [op |-> "status", to |-> s, force |-> force])
  /\ UNCHANGED <<status, deleted, cycles, logged, job, run>>
ChangeStatusWrites(p) ==
  /\ Asked(p, "status")
  /\ status' = asked[p].to
  /\ Answered(p)
  /\ UNCHANGED <<deleted, cycles, logged, job, run>>

\* POST /api/permits/:id/advance: to any stage, from the board.
Advance ==
  /\ ~deleted /\ ~Locked
  /\ status' \in Status \ {status}
  /\ UNCHANGED <<deleted, cycles, logged, job, run, asked>>

\* POST /api/permits/:id/status: the portal's words, as a person read them there.
ObserveStatus ==
  /\ ~deleted /\ ~Locked
  /\ status' \in (Detected \cap Used) \ {status}
  /\ UNCHANGED <<deleted, cycles, logged, job, run, asked>>

\* Mutant: what was issued may go.
MayDeleteIssued == status # "inspections"
MayDelete == status \notin Live
\* DELETE /v1/permits/:id refuses a live permit on the strength of a plain read.
DeleteReads(p) ==
  /\ ~deleted /\ MayDelete
  /\ Asks(p, [op |-> "delete", read |-> status])
  /\ UNCHANGED <<status, deleted, cycles, logged, job, run>>
DeleteWrites(p) ==
  /\ Asked(p, "delete") /\ ~Locked
  /\ deleted' = TRUE
  /\ Answered(p)
  /\ UNCHANGED <<status, cycles, logged, job, run>>

-----------------------------------------------------------------------------
\* POST /api/corrections looks for the permit, then inserts. The triggers number
\* the cycle under the permit's lock, count it, and return the permit unless it
\* is at an end.
LogCorrectionReads(p) ==
  /\ ~deleted
  /\ Asks(p, [op |-> "correct", cycle |-> cycles])
  /\ UNCHANGED <<status, deleted, cycles, logged, job, run>>
\* max(cycle) + 1, counted after the lock was granted.
NextCycle(p) == Max({0} \cup {c \in 1 .. MaxCycles : logged[c] > 0}) + 1
LogCorrectionWrites(p) ==
  /\ Asked(p, "correct") /\ ~Locked
  /\ NextCycle(p) <= MaxCycles
  /\ logged' = [logged EXCEPT ![NextCycle(p)] = @ + 1]
  /\ cycles' = NextCycle(p)
  /\ status' = IF status \in Terminal THEN status ELSE "corrections_required"
  /\ Answered(p)
  /\ UNCHANGED <<deleted, job, run>>

-----------------------------------------------------------------------------
\* sweep: a due permit that is filed and not at an end gets one job, at most.
Checkable == ~deleted /\ status \notin Terminal \cup {"draft", "ready_to_submit"}
Sweep ==
  /\ Checkable /\ ~Locked
  /\ job = "none" /\ job' = "queued"
  /\ UNCHANGED <<status, deleted, cycles, logged, run, asked>>

\* Mutant: the sweep's own test is taken to be enough.
NotAskedIfDeleted == deleted
NotAsked == deleted \/ status \in Terminal
\* checkOne: a deleted permit, or one at an end, is not asked about.
CheckReads(r) ==
  /\ job = "queued" /\ run[r] = None
  /\ IF NotAsked
     THEN job' = "none" /\ UNCHANGED run
     ELSE /\ job' = "running"
          /\ run' = [run EXCEPT ![r] = [read |-> status, heard |-> None]]
  /\ UNCHANGED <<status, deleted, cycles, logged, asked>>
\* The adapter answers, or fails in a way it reports as unknown.
PortalAnswers(r) ==
  /\ run[r] # None /\ run[r].heard = None
  /\ \E d \in (Detected \cap Used) \cup {"unknown"} : run' = [run EXCEPT ![r].heard = d]
  /\ UNCHANGED <<status, deleted, cycles, logged, job, asked>>
\* What was heard is compared with what was read before asking, and written.
Changed(r) == run[r].heard \notin {"unknown", run[r].read}
CheckWrites(r) ==
  /\ run[r] # None /\ run[r].heard # None /\ ~Locked
  /\ status' = IF Changed(r) THEN run[r].heard ELSE status
  /\ run' = [run EXCEPT ![r] = None]
  /\ job' = IF job = "running" THEN "none" ELSE job
  /\ UNCHANGED <<deleted, cycles, logged, asked>>
\* The job's time runs out, or its worker dies: it is queued again, and a run
\* that only overran goes on.
CheckTimesOut ==
  /\ job = "running" /\ job' = "queued"
  /\ \/ UNCHANGED run
     \/ \E r \in Runs : run[r] # None /\ run' = [run EXCEPT ![r] = None]
  /\ UNCHANGED <<status, deleted, cycles, logged, asked>>

Next ==
  \/ \E p \in People :
       \/ ChangeStatusReads(p) \/ ChangeStatusWrites(p)
       \/ DeleteReads(p) \/ DeleteWrites(p)
       \/ LogCorrectionReads(p) \/ LogCorrectionWrites(p)
  \/ Advance \/ ObserveStatus
  \/ Sweep \/ CheckTimesOut
  \/ \E r \in Runs : CheckReads(r) \/ PortalAnswers(r) \/ CheckWrites(r)
Spec == Init /\ [][Next]_vars

-----------------------------------------------------------------------------
\* The system cannot record an impossible history through the route that guards
\* it: whatever else moves the permit meanwhile, a change nobody forced is a
\* transition of the table from the status it replaces.
MovesPossibly ==
  \A p \in People :
    Asked(p, "status") /\ ~asked[p].force /\ asked'[p] = None
      => status' \in Transitions[status]

\* "Those three facts must never disagree": the cycles counted on the permit are
\* the corrections logged on it, however many are logged at once.
CyclesCounted == \A c \in 1 .. MaxCycles : logged[c] = (IF c <= cycles THEN 1 ELSE 0)

\* A permit at an end is moved on only by a person, or by a check that had begun
\* when it was not: no check starts from a closed permit, however often its job
\* is queued and run again.
KeepsEnd ==
  status' # status /\ status \in Terminal =>
    \/ asked' # asked \/ run' = run
    \/ \E r \in Runs : run[r] # None /\ run'[r] = None /\ run[r].read \notin Terminal

\* An issued permit, "a live obligation with the jurisdiction", is not deleted
\* by a request that saw it issued; one may be issued behind a deletion's back.
KeepsLive ==
  ~deleted /\ deleted' /\ status \in Live =>
    \E p \in People : Asked(p, "delete") /\ asked'[p] = None /\ asked[p].read # status
=============================================================================
