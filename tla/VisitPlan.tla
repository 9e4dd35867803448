----------------------------- MODULE VisitPlan -----------------------------
(***************************************************************************)
(* What the supervision routes promise about the site visits of a visit     *)
(* plan: which moves between statuses a row of ocs.supervision_visits makes *)
(* (db/migrations/0012_supervision.sql), each in one step.  SiteVisits      *)
(* shows that the requests which make them, with their locks and their      *)
(* photographs, implement this.                                             *)
(***************************************************************************)
CONSTANT Visits  \* visit ids

VARIABLES
  status,   \* status[v], "none" before the row exists
  arrived,  \* visits with a checked_in_at
  overdue   \* visits the watch has selected in the transaction it is in

vars == <<status, arrived, overdue>>

VisitStatus ==
  {"none", "required", "scheduled", "in_progress", "completed", "missed", "waived"}

Init ==
  /\ status = [v \in Visits |-> "none"]
  /\ arrived = {}
  /\ overdue = {}

MovesTo(v, s) == status' = [status EXCEPT ![v] = s]

\* Activation copies the milestone templates, "on conflict do nothing".
PlanVisit(v) ==
  /\ status[v] = "none"
  /\ MovesTo(v, "required")
  /\ UNCHANGED <<arrived, overdue>>

\* A visit nobody planned is recorded when it is over.
LogAdHoc(v) ==
  /\ status[v] = "none"
  /\ MovesTo(v, "completed")
  /\ arrived' = arrived \cup {v}
  /\ UNCHANGED overdue

Schedule(v) ==
  /\ status[v] \in {"required", "scheduled"}
  /\ MovesTo(v, "scheduled")
  /\ UNCHANGED <<arrived, overdue>>

\* Both check-ins accept whatever is not completed, a waived visit included.
CheckIn(v) ==
  /\ status[v] \notin {"none", "completed"}
  /\ MovesTo(v, "in_progress")
  /\ arrived' = arrived \cup {v}
  /\ UNCHANGED overdue

\* visits_completed_requires_evidence: no sign-off without a check-in.
SignOff(v) ==
  /\ v \in arrived
  /\ status[v] \notin {"none", "completed"}
  /\ MovesTo(v, "completed")
  /\ UNCHANGED <<arrived, overdue>>

Waive(v) ==
  /\ status[v] \notin {"none", "completed", "waived"}
  /\ MovesTo(v, "waived")
  /\ UNCHANGED <<arrived, overdue>>

\* supervision.visit_watch selects visits that are a day late...
WatchReads(S) ==
  /\ overdue = {}
  /\ S # {}
  /\ \A v \in S : status[v] = "scheduled" /\ v \notin arrived
  /\ overdue' = S
  /\ UNCHANGED <<status, arrived>>

\* ...and then writes each by its id, whatever has become of it, in the same
\* transaction...
WatchWrites ==
  /\ overdue # {}
  /\ status' = [v \in Visits |-> IF v \in overdue THEN "missed" ELSE status[v]]
  /\ overdue' = {}
  /\ UNCHANGED arrived

\* ...which may roll back.
WatchFails ==
  /\ overdue # {}
  /\ overdue' = {}
  /\ UNCHANGED <<status, arrived>>

VisitStep(v) == Schedule(v) \/ CheckIn(v) \/ SignOff(v) \/ Waive(v)

Next ==
  \/ \E v \in Visits : PlanVisit(v) \/ LogAdHoc(v) \/ VisitStep(v)
  \/ \E S \in SUBSET Visits : WatchReads(S)
  \/ WatchWrites \/ WatchFails

Spec == Init /\ [][Next]_vars
=============================================================================
