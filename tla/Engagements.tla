---------------------------- MODULE Engagements ----------------------------
(***************************************************************************)
(* Supervision engagements: requesting one, accepting its terms, activating *)
(* it under a licence and a supervisor, stopping and completing it          *)
(* (src/routes/supervision.ts, src/routes/compat/supervision.ts), with the  *)
(* compliance and completion triggers of db/migrations/0012_supervision.sql *)
(* and the licence watch of src/jobs/handlers/supervision.ts.  The visits   *)
(* of the plan move as VisitPlan says.                                      *)
(*                                                                         *)
(* Activating and completing lock the row of their engagement, let a        *)
(* trigger look at rows they do not lock, and are seen when they commit.    *)
(* Visits outside the plan (POST /api/supervision/visits) are SiteVisits'.  *)
(***************************************************************************)
EXTENDS Integers, FiniteSets

CONSTANTS
  Engagements,  \* engagement ids
  Licences,     \* service licence ids
  Supervisors,  \* supervisor ids
  Trades,       \* trade ids
  TradeOf,      \* TradeOf[e]: the trade of an engagement
  Covers,       \* Covers[l]: the trade of a licence
  Milestones,   \* milestones, of every trade
  Template,     \* Template[t]: the milestones of a trade
  Mandatory,    \* those that are mandatory
  None,         \* no such licence or supervisor
  Limit,        \* Limit[l]: max_active_engagements of a licence
  Limits,       \* the values max_active_engagements of a supervisor takes
  Connections   \* connections of the database pools, all told

ASSUME EngagementsAssumption ==
  /\ IsFiniteSet(Engagements)
  /\ TradeOf \in [Engagements -> Trades]
  /\ Covers \in [Licences -> Trades]
  /\ Template \in [Trades -> SUBSET Milestones]
  /\ Mandatory \subseteq Milestones
  /\ None \notin Licences \cup Supervisors
  /\ Limit \in [Licences -> Nat \ {0}]
  /\ Limits \subseteq Nat \ {0}
  /\ Connections \in Nat \ {0}

VARIABLES
  licence,     \* licence[l]: "none", "active" or "expired"
  lapsed,      \* licences whose expires_on has passed
  roster,      \* roster[s]: limit and trades of a supervisor, or None
  engagement,  \* engagement[e]: status, licence, supervisor and terms
  pending,     \* pending[e]: the change to e that has not been committed
  status,      \* status[<<e, m>>] of the visits of the plan, as are
  arrived,     \* those with a checked_in_at,
  overdue,     \* those the watch has selected, and
  settled      \* those ever signed off or waived

staff == <<licence, lapsed, roster>>
visits == <<status, arrived, overdue, settled>>
vars == <<staff, engagement, pending, visits>>

\* The milestones of an engagement are those of its trade.
PlanOf(e) == Template[TradeOf[e]]

Visits == {v \in Engagements \X Milestones : v[2] \in PlanOf(v[1])}
Plan == INSTANCE VisitPlan WITH Visits <- Visits,
  status <- status, arrived <- arrived, overdue <- overdue

Untouched == [does |-> "nothing", licence |-> None, supervisor |-> None]

Init ==
  /\ licence = [l \in Licences |-> "none"]
  /\ lapsed = {}
  /\ roster = [s \in Supervisors |-> None]
  /\ engagement = [e \in Engagements |->
       [status |-> "none", licence |-> None, supervisor |-> None, terms |-> FALSE]]
  /\ pending = [e \in Engagements |-> Untouched]
  /\ Plan!Init
  /\ settled = {}

-----------------------------------------------------------------------------
\* POST /api/supervision/licenses and POST /v1/admin/supervision/licenses, with
\* any expiry date.
AddLicence(l) ==
  /\ licence[l] = "none"
  /\ licence' = [licence EXCEPT ![l] = "active"]
  /\ UNCHANGED <<lapsed, roster, engagement, pending, visits>>

LicenceLapses(l) ==
  /\ l \notin lapsed
  /\ lapsed' = lapsed \cup {l}
  /\ UNCHANGED <<licence, roster, engagement, pending, visits>>

Usable(l) == licence[l] = "active" /\ l \notin lapsed

\* Mutant: the watch suspends them.
Suspension(l) == IF licence[l] = "active" /\ l \in lapsed THEN "suspended" ELSE licence[l]

\* supervision.license_watch marks the licences that have lapsed.
Expiry(l) == IF licence[l] = "active" /\ l \in lapsed THEN "expired" ELSE licence[l]

LicenceWatch ==
  /\ \E l \in lapsed : licence[l] = "active"
  /\ licence' = [l \in Licences |-> Expiry(l)]
  /\ UNCHANGED <<lapsed, roster, engagement, pending, visits>>

\* Recording a supervisor again changes the trades and, through /api only, the
\* limit.
RecordSupervisor(s, n, trades) ==
  /\ roster' = [roster EXCEPT ![s] = [limit |-> n, trades |-> trades]]
  /\ UNCHANGED <<licence, lapsed, engagement, pending, visits>>

-----------------------------------------------------------------------------
\* A request needs a licence for the trade; /api also records the one that
\* expires first (chosen # None), here any of them.
RequestEngagement(e, chosen) ==
  /\ engagement[e].status = "none"
  /\ \E l \in Licences : Usable(l) /\ Covers[l] = TradeOf[e] /\ chosen \in {None, l}
  /\ engagement' = [engagement EXCEPT ![e].status = "requested", ![e].licence = chosen]
  /\ UNCHANGED <<staff, pending, visits>>

\* Nobody has written the row, or locked it, without committing.
Free(e) == pending[e] = Untouched

AcceptTerms(e) ==
  /\ engagement[e].status # "none"
  /\ ~engagement[e].terms
  /\ Free(e)
  /\ engagement' = [engagement EXCEPT
       ![e].terms = TRUE,
       ![e].status = IF @ = "requested" THEN "accepted" ELSE @]
  /\ UNCHANGED <<staff, pending, visits>>

Active(e) == engagement[e].status = "active"

\* Mutant: the trigger does not count.
NoLimit(l, e) == l \in Licences /\ e \in Engagements

\* check_engagement_compliance, on what has been committed.
LicenceHasRoom(l, e) ==
  Cardinality({f \in Engagements \ {e} : Active(f) /\ engagement[f].licence = l}) < Limit[l]

SupervisorHasRoom(s, e) ==
  Cardinality({f \in Engagements \ {e} : Active(f) /\ engagement[f].supervisor = s})
    < roster[s].limit

\* No trades are all of them.
Competent(s, t) == roster[s].trades = {} \/ t \in roster[s].trades

Compliant(l, s, e) ==
  /\ Covers[l] = TradeOf[e]
  /\ Usable(l)
  /\ LicenceHasRoom(l, e)
  /\ roster[s] # None
  /\ Competent(s, TradeOf[e])
  /\ SupervisorHasRoom(s, e)

\* Every transaction holds a connection until it ends.
Busy == Cardinality({e \in Engagements : pending[e] # Untouched})

\* The engagement is held "for update": /v1 refuses an active one, /api one that
\* is completed, and either takes what the other refuses.
BeginActivate(e, l, s) ==
  /\ engagement[e].status # "none"
  /\ Free(e)
  /\ Busy < Connections
  /\ engagement[e].terms
  /\ Compliant(l, s, e)
  /\ pending' = [pending EXCEPT ![e] = [does |-> "activate", licence |-> l, supervisor |-> s]]
  /\ UNCHANGED <<staff, engagement, visits>>

\* The visits a plan gets: those it does not have yet.
Planned(e) ==
  [v \in Visits |-> IF v[1] = e /\ status[v] = "none" THEN "required" ELSE status[v]]

CommitActivate(e) ==
  /\ pending[e].does = "activate"
  /\ engagement' = [engagement EXCEPT
       ![e].status = "active",
       ![e].licence = pending[e].licence,
       ![e].supervisor = pending[e].supervisor]
  /\ status' = Planned(e)
  /\ pending' = [pending EXCEPT ![e] = Untouched]
  /\ UNCHANGED <<staff, arrived, overdue, settled>>

\* Mutant: a missed visit is over too.
OverMissed(e) ==
  \A m \in Mandatory \cap PlanOf(e) : status[<<e, m>>] \in {"none", "completed", "waived", "missed"}

\* check_engagement_completion
NothingOutstanding(e) ==
  \A m \in Mandatory \cap PlanOf(e) : status[<<e, m>>] \in {"none", "completed", "waived"}

BeginComplete(e) ==
  /\ Active(e)
  /\ Free(e)
  /\ Busy < Connections
  /\ NothingOutstanding(e)
  /\ pending' = [pending EXCEPT ![e] = [Untouched EXCEPT !.does = "complete"]]
  /\ UNCHANGED <<staff, engagement, visits>>

CommitComplete(e) ==
  /\ pending[e].does = "complete"
  /\ engagement' = [engagement EXCEPT ![e].status = "completed"]
  /\ pending' = [pending EXCEPT ![e] = Untouched]
  /\ UNCHANGED <<staff, visits>>

Rollback(e) ==
  /\ pending[e] # Untouched
  /\ pending' = [pending EXCEPT ![e] = Untouched]
  /\ UNCHANGED <<staff, engagement, visits>>

\* An incident of severity stop_work.
StopWork(e) ==
  /\ Active(e)
  /\ Free(e)
  /\ engagement' = [engagement EXCEPT ![e].status = "on_hold"]
  /\ UNCHANGED <<staff, pending, visits>>

-----------------------------------------------------------------------------
\* The requests about visits do not look at the engagement...
VisitMoves(v) ==
  /\ Plan!VisitStep(v)
  /\ settled' = IF status'[v] \in {"completed", "waived"} THEN settled \cup {v} ELSE settled
  /\ UNCHANGED <<staff, engagement, pending>>

\* ...but the watch does, when it selects.
WatchSelects(S) ==
  /\ \A v \in S : Active(v[1])
  /\ Plan!WatchReads(S)
  /\ UNCHANGED <<staff, engagement, pending, settled>>

WatchEnds ==
  /\ Plan!WatchWrites \/ Plan!WatchFails
  /\ UNCHANGED <<staff, engagement, pending, settled>>

-----------------------------------------------------------------------------
Next ==
  \/ \E l \in Licences : AddLicence(l) \/ LicenceLapses(l)
  \/ LicenceWatch
  \/ \E s \in Supervisors, n \in Limits, T \in SUBSET Trades : RecordSupervisor(s, n, T)
  \/ \E e \in Engagements :
       \/ \E l \in Licences \cup {None} : RequestEngagement(e, l)
       \/ AcceptTerms(e) \/ StopWork(e)
       \/ \E l \in Licences, s \in Supervisors : BeginActivate(e, l, s)
       \/ CommitActivate(e) \/ BeginComplete(e) \/ CommitComplete(e) \/ Rollback(e)
  \/ \E v \in Visits : VisitMoves(v)
  \/ \E S \in SUBSET Visits : WatchSelects(S)
  \/ WatchEnds

Spec == Init /\ [][Next]_vars

-----------------------------------------------------------------------------
Statuses == {"none", "requested", "accepted", "active", "on_hold", "completed"}

\* Every variable has its type.
TypeOK ==
  /\ licence \in [Licences -> {"none", "active", "expired"}]
  /\ lapsed \subseteq Licences
  /\ roster \in [Supervisors -> [limit : Limits, trades : SUBSET Trades] \cup {None}]
  /\ engagement \in [Engagements ->
       [status : Statuses, licence : Licences \cup {None},
        supervisor : Supervisors \cup {None}, terms : BOOLEAN]]
  /\ pending \in [Engagements ->
       [does : {"nothing", "activate", "complete"}, licence : Licences \cup {None},
        supervisor : Supervisors \cup {None}]]
  /\ status \in [Visits -> Plan!VisitStatus]
  /\ arrived \subseteq Visits
  /\ overdue \subseteq Visits
  /\ settled \subseteq Visits

\* The engagements a licence carries, or will when what is pending commits.
Load(l) ==
  {e \in Engagements :
     \/ Active(e) /\ engagement[e].licence = l
     \/ pending[e].does = "activate" /\ pending[e].licence = l}

\* Activations that overlap each see the others' work too late, but cannot take
\* a licence further past its limit than there are other connections to the
\* database.
OvershootBounded ==
  \A l \in Licences : Cardinality(Load(l)) <= Limit[l] + Connections - 1

\* An active or completed engagement has a visit for every milestone of its trade
\* (its template is not edited meanwhile), and every
\* mandatory visit of a completed one was signed off or waived at some time,
\* whatever the visits did while the completion was on its way.
CompletedWasSupervised ==
  \A e \in Engagements : \A m \in PlanOf(e) :
    /\ engagement[e].status \in {"active", "on_hold", "completed"} => status[<<e, m>>] # "none"
    /\ engagement[e].status = "completed" /\ m \in Mandatory => <<e, m>> \in settled

-----------------------------------------------------------------------------
\* What a comment says and the code does not do.

\* db/migrations/0012_supervision.sql:492: the qualifier's active workload must
\* stay within their stated limit.
CapacityKept ==
  \A l \in Licences :
    Cardinality({e \in Engagements : Active(e) /\ engagement[e].licence = l}) <= Limit[l]
=============================================================================
