-------------------------- MODULE EngagementsProofs --------------------------
(***************************************************************************)
(* Theorems about Engagements for every number of engagements, licences,    *)
(* supervisors and connections, and every set of milestone templates.       *)
(***************************************************************************)
EXTENDS Engagements, FiniteSetTheorems, TLAPS

-----------------------------------------------------------------------------
\* A change that has not been committed.
Change ==
  [does : {"nothing", "activate", "complete"}, licence : Licences \cup {None},
   supervisor : Supervisors \cup {None}]

\* The row of an engagement.
Row ==
  [status : Statuses, licence : Licences \cup {None}, supervisor : Supervisors \cup {None},
   terms : BOOLEAN]

\* To have nothing pending is a value of its type.
LEMMA UntouchedIsAChange == Untouched \in Change
BY DEF Untouched, Change

\* The types hold at the start.
LEMMA TypedInit == Init => TypeOK
<1> SUFFICES ASSUME Init PROVE TypeOK
  OBVIOUS
<1>1. pending \in [Engagements -> Change]
  BY UntouchedIsAChange DEF Init
<1> QED BY <1>1 DEF Init, TypeOK, Change, Statuses, Plan!Init, Plan!VisitStatus

\* A step of the visits keeps their types, and makes no visit disappear.
LEMMA VisitsTyped ==
  ASSUME TypeOK, NEW v \in Visits, Plan!VisitStep(v)
  PROVE  /\ status' \in [Visits -> Plan!VisitStatus]
         /\ arrived' \subseteq Visits
         /\ overdue' \subseteq Visits
         /\ \A u \in Visits : status[u] # "none" => status'[u] # "none"
         /\ \A u \in Visits : u = v \/ status'[u] = status[u]
BY DEF TypeOK, Plan!VisitStep, Plan!Schedule, Plan!CheckIn, Plan!SignOff, Plan!Waive,
       Plan!MovesTo, Plan!VisitStatus

\* The watch keeps the types, makes no visit disappear and settles none.
LEMMA WatchTyped ==
  ASSUME TypeOK, (\E S \in SUBSET Visits : WatchSelects(S)) \/ WatchEnds
  PROVE  /\ UNCHANGED <<staff, engagement, pending, settled>>
         /\ status' \in [Visits -> Plan!VisitStatus]
         /\ arrived' \subseteq Visits
         /\ overdue' \subseteq Visits
         /\ \A u \in Visits : status'[u] \in {status[u], "missed"}
BY DEF TypeOK, WatchSelects, WatchEnds, Plan!WatchReads, Plan!WatchWrites, Plan!WatchFails,
       Plan!VisitStatus

\* Every step keeps the types.
LEMMA TypedNext == TypeOK /\ [Next]_vars => TypeOK'
<1> SUFFICES ASSUME TypeOK, [Next]_vars PROVE TypeOK'
  OBVIOUS
<1>0. pending \in [Engagements -> Change]
  BY DEF TypeOK, Change
<1>a. engagement \in [Engagements -> Row]
  BY DEF TypeOK, Row
<1>1. ASSUME NEW l \in Licences, AddLicence(l) \/ LicenceLapses(l) PROVE TypeOK'
  BY <1>1 DEF TypeOK, AddLicence, LicenceLapses, visits
<1>2. CASE LicenceWatch
  BY <1>2 DEF TypeOK, LicenceWatch, Expiry, visits
<1>3. ASSUME NEW s \in Supervisors, NEW n \in Limits, NEW T \in SUBSET Trades,
             RecordSupervisor(s, n, T)
      PROVE TypeOK'
  BY <1>3 DEF TypeOK, RecordSupervisor, visits
<1>4. ASSUME NEW e \in Engagements, NEW l \in Licences \cup {None}, RequestEngagement(e, l)
      PROVE TypeOK'
  <2> DEFINE row == [engagement[e] EXCEPT !.status = "requested", !.licence = l]
  <2>1. engagement' \in [Engagements -> Row]
    <3>1. row \in Row
      BY <1>a DEF Row, Statuses
    <3>2. engagement' = [engagement EXCEPT ![e] = row]
      BY <1>4 DEF RequestEngagement
    <3> HIDE DEF row
    <3> QED BY <1>a, <3>1, <3>2
  <2> QED BY <1>4, <2>1 DEF TypeOK, RequestEngagement, Row, staff, visits
<1>5. ASSUME NEW e \in Engagements, AcceptTerms(e) \/ StopWork(e) PROVE TypeOK'
  <2>1. engagement' \in [Engagements -> Row]
    <3>1. CASE AcceptTerms(e)
      <4> DEFINE s == IF engagement[e].status = "requested" THEN "accepted" ELSE engagement[e].status
      <4>1. s \in Statuses /\ engagement[e] \in Row
        BY <1>a DEF Row, Statuses
      <4>2. engagement' = [engagement EXCEPT ![e] = [engagement[e] EXCEPT !.terms = TRUE, !.status = s]]
        BY <1>a, <3>1 DEF AcceptTerms, Row
      <4>3. [engagement[e] EXCEPT !.terms = TRUE, !.status = s] \in Row
        BY <4>1 DEF Row
      <4> HIDE DEF s
      <4> QED BY <1>a, <4>2, <4>3
    <3>2. CASE StopWork(e)
      BY <1>a, <3>2 DEF StopWork, Row, Statuses
    <3> QED BY <1>5, <3>1, <3>2
  <2> QED BY <1>5, <2>1 DEF TypeOK, AcceptTerms, StopWork, Row, staff, visits
<1>6. ASSUME NEW e \in Engagements, NEW l \in Licences, NEW s \in Supervisors,
             BeginActivate(e, l, s)
      PROVE TypeOK'
  <2>1. pending' \in [Engagements -> Change]
    BY <1>0, <1>6 DEF BeginActivate, Change
  <2> QED BY <1>6, <2>1 DEF TypeOK, BeginActivate, Change, staff, visits
<1>7. ASSUME NEW e \in Engagements, BeginComplete(e) \/ Rollback(e) PROVE TypeOK'
  <2>1. pending' \in [Engagements -> Change]
    BY <1>0, <1>7, UntouchedIsAChange DEF BeginComplete, Rollback, Change, Untouched
  <2> QED BY <1>7, <2>1 DEF TypeOK, BeginComplete, Rollback, Change, staff, visits
<1>8. ASSUME NEW e \in Engagements, CommitActivate(e) \/ CommitComplete(e) PROVE TypeOK'
  <2>1. pending' \in [Engagements -> Change]
    BY <1>0, <1>8, UntouchedIsAChange DEF CommitActivate, CommitComplete
  <2>2. status' \in [Visits -> Plan!VisitStatus]
    BY <1>8 DEF TypeOK, CommitActivate, CommitComplete, Planned, visits, Plan!VisitStatus
  <2>3. engagement' \in [Engagements -> Row]
    <3>1. pending[e].licence \in Licences \cup {None} /\ pending[e].supervisor \in Supervisors \cup {None}
      BY <1>0 DEF Change
    <3> QED BY <1>a, <1>8, <3>1 DEF CommitActivate, CommitComplete, Row, Statuses
  <2>4. UNCHANGED <<staff, arrived, overdue, settled>>
    BY <1>8 DEF CommitActivate, CommitComplete, visits
  <2> QED BY <2>1, <2>2, <2>3, <2>4 DEF TypeOK, Change, Row, staff
<1>9. ASSUME NEW v \in Visits, VisitMoves(v) PROVE TypeOK'
  BY <1>9, VisitsTyped DEF TypeOK, VisitMoves, staff
<1>10. CASE (\E S \in SUBSET Visits : WatchSelects(S)) \/ WatchEnds
  BY <1>10, WatchTyped DEF TypeOK, staff
<1>11. CASE UNCHANGED vars
  BY <1>11 DEF TypeOK, vars, staff, visits
<1> QED BY <1>1, <1>2, <1>3, <1>4, <1>5, <1>6, <1>7, <1>8, <1>9, <1>10, <1>11 DEF Next

\* Every variable keeps its type.
THEOREM TypeCorrect == Spec => []TypeOK
BY TypedInit, TypedNext, PTL DEF Spec

-----------------------------------------------------------------------------
\* Sets of engagements are finite, and their sizes are ordered as they are.
LEMMA Sizes ==
  ASSUME NEW S \in SUBSET Engagements, NEW T \in SUBSET Engagements
  PROVE  /\ IsFiniteSet(S) /\ IsFiniteSet(T)
         /\ Cardinality(S) \in Nat /\ Cardinality(T) \in Nat
         /\ S \subseteq T => Cardinality(S) <= Cardinality(T)
         /\ Cardinality(S \cup T) <= Cardinality(S) + Cardinality(T)
<1>1. IsFiniteSet(S) /\ IsFiniteSet(T)
  BY FS_Subset, EngagementsAssumption
<1>2. Cardinality(S) \in Nat /\ Cardinality(T) \in Nat /\ Cardinality(S \cap T) \in Nat
  BY <1>1, FS_Intersection, FS_CardinalityType
<1>3. S \subseteq T => Cardinality(S) <= Cardinality(T)
  BY <1>1, FS_Subset
<1>4. Cardinality(S \cup T) = Cardinality(S) + Cardinality(T) - Cardinality(S \cap T)
  BY <1>1, FS_Union
<1> QED BY <1>1, <1>2, <1>3, <1>4

\* A step that adds no engagement to a licence keeps the bound.
LEMMA NoMoreLoad ==
  ASSUME TypeOK, OvershootBounded, \A l \in Licences : Load(l)' \subseteq Load(l)
  PROVE  OvershootBounded'
<1> SUFFICES ASSUME NEW l \in Licences
             PROVE  Cardinality(Load(l)') <= Limit[l] + Connections - 1
  BY DEF OvershootBounded
<1>1. Load(l) \in SUBSET Engagements /\ Load(l)' \in SUBSET Engagements
  BY DEF Load
<1>2. /\ Cardinality(Load(l)') \in Nat
      /\ Cardinality(Load(l)) \in Nat
      /\ Cardinality(Load(l)') <= Cardinality(Load(l))
  BY <1>1, Sizes
<1>3. Cardinality(Load(l)) <= Limit[l] + Connections - 1
  BY DEF OvershootBounded
<1> QED BY <1>2, <1>3, EngagementsAssumption

\* An activation that begins found room on its licence, and fewer transactions
\* at work than there are connections.
LEMMA BoundedActivate ==
  ASSUME TypeOK, OvershootBounded, NEW e \in Engagements, NEW k \in Licences,
         NEW s \in Supervisors, BeginActivate(e, k, s)
  PROVE  OvershootBounded'
<1> DEFINE others == {f \in Engagements \ {e} : Active(f) /\ engagement[f].licence = k}
           busy == {f \in Engagements : pending[f] # Untouched}
<1>1. Cardinality(others) < Limit[k] /\ Cardinality(busy) < Connections
  BY DEF BeginActivate, Compliant, LicenceHasRoom, Busy
<1>2. /\ engagement' = engagement
      /\ pending' = [pending EXCEPT ![e] = [does |-> "activate", licence |-> k, supervisor |-> s]]
  BY DEF BeginActivate
<1>3. ASSUME NEW l \in Licences, l # k PROVE Load(l)' \subseteq Load(l)
  BY <1>2, <1>3 DEF Load, Active, TypeOK
<1>4. Load(k)' \subseteq (others \cup busy) \cup {e}
  BY <1>2 DEF Load, Active, TypeOK, Untouched
<1>5. Cardinality(Load(k)') <= Limit[k] + Connections - 1
  <2>1. others \in SUBSET Engagements /\ busy \in SUBSET Engagements
          /\ {e} \in SUBSET Engagements /\ Load(k)' \in SUBSET Engagements
    BY DEF Load
  <2> HIDE DEF others, busy
  <2>2. Cardinality({e}) = 1
    BY FS_Singleton
  <2>3. /\ Cardinality(others \cup busy) <= Cardinality(others) + Cardinality(busy)
        /\ Cardinality(others) \in Nat /\ Cardinality(busy) \in Nat
    BY <2>1, Sizes
  <2>4. /\ Cardinality((others \cup busy) \cup {e}) <= Cardinality(others \cup busy) + Cardinality({e})
        /\ Cardinality(others \cup busy) \in Nat
    BY <2>1, Sizes
  <2>5. /\ Cardinality(Load(k)') <= Cardinality((others \cup busy) \cup {e})
        /\ Cardinality(Load(k)') \in Nat /\ Cardinality((others \cup busy) \cup {e}) \in Nat
    BY <2>1, <1>4, Sizes
  <2> QED BY <1>1, <2>2, <2>3, <2>4, <2>5, EngagementsAssumption
<1>6. ASSUME NEW l \in Licences, l # k PROVE Cardinality(Load(l)') <= Limit[l] + Connections - 1
  <2>1. Load(l) \in SUBSET Engagements /\ Load(l)' \in SUBSET Engagements
    BY DEF Load
  <2>2. /\ Cardinality(Load(l)') \in Nat
        /\ Cardinality(Load(l)) \in Nat
        /\ Cardinality(Load(l)') <= Cardinality(Load(l))
    BY <2>1, <1>3, <1>6, Sizes
  <2>3. Cardinality(Load(l)) <= Limit[l] + Connections - 1
    BY DEF OvershootBounded
  <2> QED BY <2>2, <2>3, EngagementsAssumption
<1> QED BY <1>5, <1>6 DEF OvershootBounded

\* A licence never carries more engagements than its limit and the connections,
\* less one, however the activations overlap.
THEOREM OvershootIsBounded == Spec => []OvershootBounded
<1>1. Init => OvershootBounded
  <2> SUFFICES ASSUME Init, NEW l \in Licences
               PROVE  Cardinality(Load(l)) <= Limit[l] + Connections - 1
    BY DEF OvershootBounded
  <2>1. Load(l) = {}
    BY DEF Init, Load, Active, Untouched
  <2> QED BY <2>1, FS_EmptySet, EngagementsAssumption
<1>2. TypeOK /\ OvershootBounded /\ [Next]_vars => OvershootBounded'
  <2> SUFFICES ASSUME TypeOK, OvershootBounded, [Next]_vars PROVE OvershootBounded'
    OBVIOUS
  <2>1. UNCHANGED <<engagement, pending>> => OvershootBounded'
    BY NoMoreLoad DEF Load, Active
  <2>2. ASSUME NEW e \in Engagements,
               \/ \E l \in Licences \cup {None} : RequestEngagement(e, l)
               \/ AcceptTerms(e) \/ StopWork(e)
        PROVE  OvershootBounded'
    <3>1. pending' = pending
      BY <2>2 DEF RequestEngagement, AcceptTerms, StopWork
    <3>2. \A f \in Engagements : f # e => engagement'[f] = engagement[f]
      BY <2>2 DEF RequestEngagement, AcceptTerms, StopWork, TypeOK
    <3>3. engagement'[e].status = "active" => engagement'[e] .licence = engagement[e].licence
                                               /\ engagement[e].status = "active"
      BY <2>2 DEF RequestEngagement, AcceptTerms, StopWork, Active, TypeOK
    <3>4. \A l \in Licences : Load(l)' \subseteq Load(l)
      BY <3>1, <3>2, <3>3 DEF Load, Active
    <3> QED BY <3>4, NoMoreLoad
  <2>3. ASSUME NEW e \in Engagements, NEW l \in Licences, NEW s \in Supervisors,
               BeginActivate(e, l, s)
        PROVE  OvershootBounded'
    BY <2>3, BoundedActivate
  <2>4. ASSUME NEW e \in Engagements, CommitActivate(e) PROVE OvershootBounded'
    <3>1. \A l \in Licences : Load(l)' \subseteq Load(l)
      BY <2>4 DEF CommitActivate, Load, Active, TypeOK, Untouched
    <3> QED BY <3>1, NoMoreLoad
  <2>5. ASSUME NEW e \in Engagements, BeginComplete(e) \/ CommitComplete(e) \/ Rollback(e)
        PROVE  OvershootBounded'
    <3>1. /\ \A f \in Engagements : pending'[f].does = "activate" => pending'[f] = pending[f]
          /\ \A f \in Engagements :
               engagement'[f].status = "active" => engagement'[f] = engagement[f]
      BY <2>5 DEF BeginComplete, CommitComplete, Rollback, TypeOK, Untouched
    <3>2. \A l \in Licences : Load(l)' \subseteq Load(l)
      BY <3>1 DEF Load, Active
    <3> QED BY <3>2, NoMoreLoad
  <2>6. ASSUME \/ \E l \in Licences : AddLicence(l) \/ LicenceLapses(l)
               \/ LicenceWatch
               \/ \E s \in Supervisors, n \in Limits, T \in SUBSET Trades : RecordSupervisor(s, n, T)
               \/ \E v \in Visits : VisitMoves(v)
               \/ \E S \in SUBSET Visits : WatchSelects(S)
               \/ WatchEnds \/ UNCHANGED vars
        PROVE  UNCHANGED <<engagement, pending>>
    BY <2>6 DEF AddLicence, LicenceLapses, LicenceWatch, RecordSupervisor, VisitMoves,
                WatchSelects, WatchEnds, vars
  <2> QED BY <2>1, <2>2, <2>3, <2>4, <2>5, <2>6 DEF Next
<1> QED BY <1>1, <1>2, TypeCorrect, PTL DEF Spec

-----------------------------------------------------------------------------
\* What a completion on its way relies on: the visits of its plan exist, and
\* the mandatory ones were settled when it looked; they may move, but what was
\* settled once stays so.
OnItsWay ==
  /\ \A v \in Visits : status[v] \in {"completed", "waived"} => v \in settled
  /\ \A e \in Engagements : \A m \in PlanOf(e) :
       pending[e].does = "complete" =>
         /\ status[<<e, m>>] # "none"
         /\ m \in Mandatory => <<e, m>> \in settled

Supervised == CompletedWasSupervised /\ OnItsWay

\* The milestones of an engagement's template are its visits.
LEMMA MilestonesAreVisits ==
  \A e \in Engagements : \A m \in PlanOf(e) : <<e, m>> \in Visits
BY EngagementsAssumption DEF Visits, PlanOf

\* Visits that only come into being and are only settled disturb nothing.
LEMMA VisitsGrow ==
  ASSUME TypeOK, Supervised, UNCHANGED <<engagement, pending>>, settled \subseteq settled',
         \A v \in Visits : status[v] # "none" => status'[v] # "none",
         \A v \in Visits : status'[v] \in {"completed", "waived"} => v \in settled'
  PROVE  Supervised'
<1>1. CompletedWasSupervised'
  BY MilestonesAreVisits DEF Supervised, CompletedWasSupervised
<1>2. OnItsWay'
  BY MilestonesAreVisits DEF Supervised, OnItsWay
<1> QED BY <1>1, <1>2 DEF Supervised

\* An active or completed engagement has its plan, and no engagement is
\* completed whose mandatory visits were never signed off or waived.
THEOREM CompletedWereSupervised == Spec => []CompletedWasSupervised
<1>1. Init => Supervised
  BY MilestonesAreVisits
  DEF Init, Supervised, CompletedWasSupervised, OnItsWay, Untouched, Plan!Init
<1>2. TypeOK /\ Supervised /\ [Next]_vars => Supervised'
  <2> SUFFICES ASSUME TypeOK, Supervised, [Next]_vars PROVE Supervised'
    OBVIOUS
  <2>1. UNCHANGED <<engagement, pending, status, settled>> => Supervised'
    BY DEF Supervised, CompletedWasSupervised, OnItsWay
  <2>2. ASSUME NEW e \in Engagements,
               \/ \E l \in Licences \cup {None} : RequestEngagement(e, l)
               \/ AcceptTerms(e) \/ StopWork(e)
        PROVE  Supervised'
    <3>1. UNCHANGED <<pending, status, settled>>
      BY <2>2 DEF RequestEngagement, AcceptTerms, StopWork, visits
    <3>2. \A f \in Engagements : f # e => engagement'[f] = engagement[f]
      BY <2>2 DEF RequestEngagement, AcceptTerms, StopWork, TypeOK
    <3>3. /\ engagement'[e].status \in {"active", "on_hold", "completed"} =>
               engagement[e].status \in {"active", "on_hold", "completed"}
          /\ engagement'[e].status = "completed" => engagement[e].status = "completed"
      BY <2>2 DEF RequestEngagement, AcceptTerms, StopWork, Active, TypeOK
    <3>4. CompletedWasSupervised'
      BY <3>1, <3>2, <3>3 DEF Supervised, CompletedWasSupervised
    <3> QED BY <3>1, <3>4 DEF Supervised, OnItsWay
  <2>3. ASSUME NEW e \in Engagements, NEW l \in Licences, NEW s \in Supervisors,
               BeginActivate(e, l, s)
        PROVE  Supervised'
    <3>1. UNCHANGED <<engagement, status, settled>>
      BY <2>3 DEF BeginActivate, visits
    <3>2. \A f \in Engagements : pending'[f].does = "complete" => pending[f].does = "complete"
      BY <2>3 DEF BeginActivate, TypeOK
    <3> QED BY <3>1, <3>2 DEF Supervised, CompletedWasSupervised, OnItsWay
  <2>4. ASSUME NEW e \in Engagements, CommitActivate(e) PROVE Supervised'
    <3>1. /\ \A f \in Engagements : f # e => engagement'[f] = engagement[f]
          /\ engagement'[e].status = "active"
          /\ settled' = settled
      BY <2>4 DEF CommitActivate, TypeOK
    <3>2. /\ \A v \in Visits : status[v] # "none" => status'[v] = status[v]
          /\ \A v \in Visits : status'[v] \in {status[v], "required"}
          /\ \A m \in PlanOf(e) : status'[<<e, m>>] # "none"
      BY <2>4, MilestonesAreVisits DEF CommitActivate, Planned, TypeOK
    <3>3. \A f \in Engagements : pending'[f].does = "complete" => pending[f].does = "complete"
      BY <2>4 DEF CommitActivate, TypeOK, Untouched
    <3>4. CompletedWasSupervised'
      BY <3>1, <3>2, MilestonesAreVisits DEF Supervised, CompletedWasSupervised
    <3>5. OnItsWay'
      BY <3>1, <3>2, <3>3, MilestonesAreVisits DEF Supervised, OnItsWay
    <3> QED BY <3>4, <3>5 DEF Supervised
  <2>5. ASSUME NEW e \in Engagements, BeginComplete(e) PROVE Supervised'
    <3>1. UNCHANGED <<engagement, status, settled>>
      BY <2>5 DEF BeginComplete, visits
    <3>2. \A f \in Engagements \ {e} : pending'[f] = pending[f]
      BY <2>5 DEF BeginComplete, TypeOK
    <3>3. \A m \in PlanOf(e) :
            status[<<e, m>>] # "none" /\ (m \in Mandatory => <<e, m>> \in settled)
      BY <2>5, MilestonesAreVisits
      DEF BeginComplete, NothingOutstanding, Active, Supervised, CompletedWasSupervised, OnItsWay
    <3>4. OnItsWay'
      BY <3>1, <3>2, <3>3 DEF Supervised, OnItsWay
    <3> QED BY <3>1, <3>4 DEF Supervised, CompletedWasSupervised
  <2>6. ASSUME NEW e \in Engagements, CommitComplete(e) PROVE Supervised'
    <3>1. /\ UNCHANGED <<status, settled>>
          /\ \A f \in Engagements \ {e} : engagement'[f] = engagement[f]
          /\ \A f \in Engagements : pending'[f].does = "complete" => pending[f].does = "complete"
      BY <2>6 DEF CommitComplete, visits, TypeOK, Untouched
    <3>2. CompletedWasSupervised'
      BY <2>6, <3>1 DEF CommitComplete, Supervised, CompletedWasSupervised, OnItsWay
    <3>3. OnItsWay'
      BY <3>1 DEF Supervised, OnItsWay
    <3> QED BY <3>2, <3>3 DEF Supervised
  <2>7. ASSUME NEW e \in Engagements, Rollback(e) PROVE Supervised'
    <3>1. /\ UNCHANGED <<engagement, status, settled>>
          /\ \A f \in Engagements : pending'[f].does = "complete" => pending[f].does = "complete"
      BY <2>7 DEF Rollback, visits, TypeOK, Untouched
    <3> QED BY <3>1 DEF Supervised, CompletedWasSupervised, OnItsWay
  <2>8. ASSUME NEW v \in Visits, VisitMoves(v) PROVE Supervised'
    <3>1. /\ UNCHANGED <<engagement, pending>>
          /\ settled \subseteq settled'
          /\ status'[v] \in {"completed", "waived"} => v \in settled'
      BY <2>8 DEF VisitMoves
    <3>2. /\ \A u \in Visits : status[u] # "none" => status'[u] # "none"
          /\ \A u \in Visits : u = v \/ status'[u] = status[u]
      BY <2>8, VisitsTyped DEF VisitMoves
    <3>3. \A u \in Visits : status'[u] \in {"completed", "waived"} => u \in settled'
      BY <3>1, <3>2 DEF Supervised, OnItsWay
    <3> QED BY <3>1, <3>2, <3>3, VisitsGrow
  <2>9. ASSUME \/ \E l \in Licences : AddLicence(l) \/ LicenceLapses(l)
               \/ LicenceWatch
               \/ \E s \in Supervisors, n \in Limits, T \in SUBSET Trades : RecordSupervisor(s, n, T)
               \/ UNCHANGED vars
        PROVE  UNCHANGED <<engagement, pending, status, settled>>
    BY <2>9 DEF AddLicence, LicenceLapses, LicenceWatch, RecordSupervisor, vars, visits
  <2>10. CASE (\E S \in SUBSET Visits : WatchSelects(S)) \/ WatchEnds
    <3>1. \A u \in Visits : status'[u] \in {"completed", "waived"} => u \in settled'
      BY <2>10, WatchTyped DEF Supervised, OnItsWay
    <3> QED BY <2>10, <3>1, WatchTyped, VisitsGrow
  <2> QED BY <2>1, <2>2, <2>3, <2>4, <2>5, <2>6, <2>7, <2>8, <2>9, <2>10 DEF Next
<1> QED BY <1>1, <1>2, TypeCorrect, PTL DEF Spec, Supervised
=============================================================================
