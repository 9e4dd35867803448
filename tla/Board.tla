-------------------------------- MODULE Board --------------------------------
(***************************************************************************)
(* The dashboard and the list of permits: what is made of the status, the  *)
(* dates and the history of each permit. The dashboard asks for the        *)
(* permits and for the decisions in two statements of one transaction, and *)
(* people and the nightly checks change both in between.                   *)
(***************************************************************************)
EXTENDS Naturals, Sequences, SequencesExt, FiniteSetsExt

CONSTANTS Many,          \* permits 1 .. Many, in the order in which they are made
          Company,       \* Company[p]: the contractor whose permit it is
          Statuses,      \* the statuses the permits pass through here
          Late,          \* the days past a stage's window that are looked at
          Expiries,      \* what there is of "never", "later", "soon" and "past"
          Limit          \* the rows a list asks for

VARIABLES
  permit,  \* its status, "none" before it is made; whether it was ever stamped issued,
           \* and ever in corrections; the days past its stage's typical window; its expiry
  board,   \* the statuses the dashboard has read, and who it has read next as decided,
           \* and as decided at the first pass
  scope,   \* the company the dashboard is narrowed to, or All
  step     \* "idle", "permits" once those are read, or "done"
vars == <<permit, board, scope, step>>

-----------------------------------------------------------------------------
\* The translation, both ways.
STATUS_TO_STAGE ==
  [draft |-> "DRAFT", ready_to_submit |-> "READY_TO_SUBMIT", submitted |-> "SUBMITTED",
   under_review |-> "IN_REVIEW", corrections_required |-> "CORRECTIONS_REQUIRED",
   resubmitted |-> "RESUBMITTED", approved |-> "APPROVED", issued |-> "ISSUED",
   inspections |-> "INSPECTIONS", closed |-> "CLOSED", expired |-> "EXPIRED",
   withdrawn |-> "WITHDRAWN", rejected |-> "DENIED"]
PERMIT_STAGES ==
  {"DRAFT", "READY_TO_SUBMIT", "SUBMITTED", "INTAKE_REVIEW", "IN_REVIEW",
   "CORRECTIONS_REQUIRED", "RESUBMITTED", "APPROVED", "ISSUED", "INSPECTIONS", "CLOSED",
   "EXPIRED", "WITHDRAWN", "DENIED"}
TERMINAL_STAGES == {"CLOSED", "EXPIRED", "WITHDRAWN", "DENIED"}
Known == DOMAIN STATUS_TO_STAGE
toStage(status) == IF status \in Known THEN STATUS_TO_STAGE[status] ELSE "DRAFT"
fromStage(stage) == {s \in Known : STATUS_TO_STAGE[s] = stage}
isActiveStage(stage) == stage \notin TERMINAL_STAGES
\* The stages with a typical window.
STAGE_BASELINE_DAYS ==
  {"SUBMITTED", "INTAKE_REVIEW", "IN_REVIEW", "CORRECTIONS_REQUIRED", "RESUBMITTED", "APPROVED"}

Overdue(f) == IF toStage(f.status) \in STAGE_BASELINE_DAYS THEN Min({60, 2 * f.late}) ELSE 0
\* Mutant: outstanding corrections weigh nothing of their own.
NoWeight(f) == 0
Outstanding(f) == IF toStage(f.status) = "CORRECTIONS_REQUIRED" THEN 25 ELSE 0
Expiring(f) == CASE f.expires = "past" -> 50 [] f.expires = "soon" -> 20 [] OTHER -> 0
assessRisk(f) == Overdue(f) + Outstanding(f) + Expiring(f)
Level(f) ==
  LET score == assessRisk(f) IN
  IF score >= 60 THEN "CRITICAL"
  ELSE IF score >= 35 THEN "AT_RISK"
  ELSE IF score >= 15 THEN "WATCH" ELSE "ON_TRACK"

-----------------------------------------------------------------------------
Permits == 1 .. Many
All == "all"
Scopes == {All} \cup {Company[p] : p \in Permits}
Made == {p \in Permits : permit[p].status # "none"}

TypeOK ==
  /\ permit \in [Permits -> [status : Statuses \cup {"none"}, issued : BOOLEAN,
                             corrected : BOOLEAN, late : Late, expires : Expiries]]
  /\ scope \in Scopes /\ step \in {"idle", "permits", "done"}
  /\ DOMAIN board.rows \subseteq Permits /\ Range(board.rows) \subseteq Statuses
  /\ board.first \subseteq board.decided /\ board.decided \subseteq Permits

Init ==
  /\ permit = [p \in Permits |-> [status |-> "none", issued |-> FALSE, corrected |-> FALSE,
                                  late |-> 0, expires |-> "never"]]
  /\ scope = All /\ step = "idle" /\ board = [rows |-> <<>>, decided |-> {}, first |-> {}]

\* A permit is made, or its status changes: a trigger writes its history, and the row
\* has just been touched. Not every route stamps it as issued.
Moves(p, status, stamped) ==
  /\ status # permit[p].status /\ \A q \in 1 .. p - 1 : q \in Made
  /\ permit' = [permit EXCEPT ![p].status = status, ![p].late = 0,
                              ![p].issued = @ \/ (status = "issued" /\ stamped),
                              ![p].corrected = @ \/ status = "corrections_required"]
  /\ UNCHANGED <<board, scope, step>>
\* Days pass over it, or it is written again: daysInStage counts from updated_at, which
\* every check moves.
daysInStage(p, days) ==
  /\ p \in Made /\ days # permit[p].late
  /\ permit' = [permit EXCEPT ![p].late = days]
  /\ UNCHANGED <<board, scope, step>>
Dated(p, expires) ==
  /\ p \in Made /\ expires # permit[p].expires
  /\ permit' = [permit EXCEPT ![p].expires = expires, ![p].late = 0]
  /\ UNCHANGED <<board, scope, step>>

\* GET /api/dashboard
InScope(s) == {p \in Made : s \in {All, Company[p]}}
ReadPermits(s) ==
  /\ step # "permits" /\ step' = "permits" /\ scope' = s
  /\ board' = [rows |-> [p \in InScope(s) |-> permit[p].status], decided |-> {}, first |-> {}]
  /\ UNCHANGED permit
Decided(p) ==
  permit[p].issued \/ permit[p].status \in {"approved", "issued", "inspections", "closed"}
\* Mutant: a permit that has no corrections outstanding was approved at once.
NoneOutstanding(p) == permit[p].status # "corrections_required"
FirstPass(p) == ~permit[p].corrected
ReadDecisions ==
  /\ step = "permits" /\ step' = "done"
  /\ LET decided == {p \in InScope(scope) : Decided(p)} IN
       board' = [board EXCEPT !.decided = decided, !.first = {p \in decided : FirstPass(p)}]
  /\ UNCHANGED <<permit, scope>>

Next ==
  \/ \E p \in Permits :
       \/ \E s \in Statuses : \E stamped \in {TRUE, s # "issued"} : Moves(p, s, stamped)
       \/ \E d \in Late : daysInStage(p, d)
       \/ \E e \in Expiries : Dated(p, e)
  \/ \E s \in Scopes : ReadPermits(s)
  \/ ReadDecisions

Spec == Init /\ [][Next]_vars

-----------------------------------------------------------------------------
\* What is made of the rows: the pipeline, with every stage in it, what wants
\* attention, worst first, and the list of a stage, whose rows are limited before
\* their stages are looked at.
emptyPipeline == [s \in PERMIT_STAGES |-> 0]
\* Mutant: a permit that is done with is left out of the pipeline.
OpenOnly(stage) ==
  {p \in DOMAIN board.rows : toStage(board.rows[p]) = stage /\ isActiveStage(stage)}
InStage(stage) == {p \in DOMAIN board.rows : toStage(board.rows[p]) = stage}
pipelineByStage == [s \in DOMAIN emptyPipeline |-> Cardinality(InStage(s))]
activePermits == Cardinality({p \in DOMAIN board.rows : isActiveStage(toStage(board.rows[p]))})
needsAttention ==
  SetToSortSeq({p \in Made : Level(permit[p]) \in {"AT_RISK", "CRITICAL"}},
               LAMBDA p, q : assessRisk(permit[p]) > assessRisk(permit[q]))
Listed(stage) ==
  {p \in Made : Cardinality({q \in Made : q > p}) < Limit /\ toStage(permit[p].status) = stage}

\* The two vocabularies stand for each other: no status is shown as another's stage,
\* and a stage that is written comes back as it was.
StagesAgree ==
  \A s \in Known : toStage(s) \in PERMIT_STAGES /\ fromStage(toStage(s)) = {s}

\* Each permit of the company is in the pipeline once, and in nobody else's; those
\* whose stage is no end are the active ones.
PipelineAddsUp ==
  /\ SumFunction(pipelineByStage) = Cardinality(DOMAIN board.rows)
  /\ activePermits + SumFunctionOnSet(pipelineByStage, TERMINAL_STAGES)
       = Cardinality(DOMAIN board.rows)
  /\ scope # All => \A p \in DOMAIN board.rows \cup board.decided : Company[p] = scope

\* Work that waits for the contractor a week past its window, or whose permit has run
\* out, is among what wants attention, whatever stage it is in; the worst is first.
AttentionRight ==
  /\ \A p \in Made :
       \/ permit[p].status = "corrections_required" /\ permit[p].late >= 8
       \/ permit[p].expires = "past"
       => Contains(needsAttention, p)
  /\ \A i, j \in DOMAIN needsAttention :
       i < j => assessRisk(permit[needsAttention[i]]) >= assessRisk(permit[needsAttention[j]])

\* What was once sent back for corrections is no approval at the first pass, even if it
\* was approved between the two statements.
FirstPassIsFirst ==
  \A p \in DOMAIN board.rows :
    toStage(board.rows[p]) = "CORRECTIONS_REQUIRED" => p \notin board.first

\* A list of a stage has all of its permits, as long as no more than Limit are newer.
ListIsWhole ==
  \A p \in Made : Cardinality(Made) <= Limit => p \in Listed(toStage(permit[p].status))

BoardRight == StagesAgree /\ PipelineAddsUp /\ AttentionRight /\ FirstPassIsFirst /\ ListIsWhole
=============================================================================
