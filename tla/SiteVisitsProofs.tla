-------------------------- MODULE SiteVisitsProofs --------------------------
(***************************************************************************)
(* Theorems about SiteVisits for every set of visits, photographs and       *)
(* requests, and for every evidence rule.                                   *)
(***************************************************************************)
EXTENDS SiteVisits, FiniteSetTheorems, TLAPS

-----------------------------------------------------------------------------
\* A request at work is about a visit, and about a photograph if it handles one.
Concerns ==
  \A r \in Requests :
    /\ ~At(r, "idle") => request[r].visit \in Visits
    /\ ~At(r, "idle") /\ ~At(r, "checking in") /\ ~At(r, "signing off")
         => request[r].photo \in Photos

Typed == TypeOK /\ Concerns

CallType ==
  [at : {"idle", "checking in", "signing off", "uploading", "adding", "added",
         "removing", "removed", "purged"},
   visit : Visits \cup {None}, photo : Photos \cup {None}, count : Nat]

\* The number of photographs of a visit is a number, and at least one if there
\* is one to remove.
LEMMA Counts ==
  ASSUME TypeOK, NEW v \in Visits
  PROVE  /\ Cardinality(photos[v]) \in Nat
         /\ \A p \in photos[v] : Cardinality(photos[v]) - 1 \in Nat
<1>1. photos[v] \in SUBSET Photos
  BY DEF TypeOK
<1>2. IsFiniteSet(photos[v])
  BY <1>1, FS_Subset, SiteVisitsAssumption
<1>3. Cardinality(photos[v]) \in Nat
  BY <1>2, FS_CardinalityType
<1>4. \A p \in photos[v] : Cardinality(photos[v]) # 0
  BY <1>2, FS_EmptySet
<1> QED BY <1>3, <1>4

\* A request that moves on to a call about a visit of the model.
LEMMA Moving ==
  ASSUME Typed, NEW r \in Requests, NEW call \in CallType, Goes(r, call),
         call.at # "idle" => call.visit \in Visits,
         call.at \notin {"idle", "checking in", "signing off"} => call.photo \in Photos
  PROVE  request' \in [Requests -> CallType] /\ Concerns'
<1>1. request' = [request EXCEPT ![r] = call] /\ request \in [Requests -> CallType]
  BY DEF Typed, TypeOK, CallType, Goes
<1>2. \A q \in Requests : request'[q] = IF q = r THEN call ELSE request[q]
  BY <1>1
<1> QED BY <1>1, <1>2 DEF Typed, Concerns, At

\* What a request is that has nothing to do.
LEMMA IdleIsACall == Idle \in CallType /\ Idle.at = "idle"
  BY DEF Idle, CallType

\* The types hold at the start.
LEMMA TypedInit == Init => Typed
<1> SUFFICES ASSUME Init PROVE Typed
  OBVIOUS
<1>1. request \in [Requests -> CallType]
  BY IdleIsACall DEF Init
<1>2. Concerns
  BY DEF Init, Concerns, At, Idle
<1> QED BY <1>1, <1>2 DEF Init, Typed, TypeOK, CallType, Plan!VisitStatus

\* Starting a request.
LEMMA TypedBegin ==
  ASSUME Typed, NEW r \in Requests, NEW v \in Visits, Begin(r, v)
  PROVE  Typed'
<1> USE DEF Typed
<1>1. \A p \in Photos \cup {None}, at \in {"checking in", "signing off", "uploading", "adding", "removing"} :
        Call(at, v, p) \in CallType /\ Call(at, v, p).at = at
          /\ Call(at, v, p).visit = v /\ Call(at, v, p).photo = p
  BY DEF Call, CallType
<1>2. CASE BeginCheckIn(r, v) \/ BeginSignOff(r, v)
  <2>1. PICK at \in {"checking in", "signing off"} : Goes(r, Call(at, v, None))
    BY <1>2 DEF BeginCheckIn, BeginSignOff
  <2>2. request' \in [Requests -> CallType] /\ Concerns'
    <3> DEFINE call == Call(at, v, None)
    <3>1. call \in CallType /\ call.at \in {"checking in", "signing off"} /\ call.visit = v
      BY DEF Call, CallType
    <3>2. Goes(r, call)
      BY <2>1
    <3> HIDE DEF call
    <3> QED BY <3>1, <3>2, Moving
  <2> QED BY <1>2, <2>2 DEF BeginCheckIn, BeginSignOff, TypeOK, CallType, visitRows, photoRows
<1>3. ASSUME NEW p \in Photos, BeginUpload(r, v, p) \/ AddReads(r, v, p) \/ RemoveReads(r, v, p)
      PROVE Typed'
  <2>1. PICK at \in {"uploading", "adding", "removing"} : Goes(r, Call(at, v, p))
    BY <1>3 DEF BeginUpload, AddReads, RemoveReads
  <2>2. request' \in [Requests -> CallType] /\ Concerns'
    <3> DEFINE call == Call(at, v, p)
    <3>1. call \in CallType /\ call.visit = v /\ call.photo = p
      BY DEF Call, CallType
    <3>2. Goes(r, call)
      BY <2>1
    <3> HIDE DEF call
    <3> QED BY <3>1, <3>2, Moving
  <2> QED BY <1>3, <2>2
          DEF BeginUpload, AddReads, RemoveReads, TypeOK, CallType, visitRows, photoRows
<1>4. ASSUME NEW p \in Photos, PurgeDeletes(r, v, p) PROVE Typed'
  <2> DEFINE call == [at |-> "purged", visit |-> v, photo |-> p, count |-> Cardinality(photos[v]) - 1]
  <2>1. Goes(r, call) /\ p \in photos[v] /\ UNCHANGED <<visitRows, photoRows>>
    BY <1>4 DEF PurgeDeletes, Deletes
  <2>2. call \in CallType
    BY <2>1, Counts DEF CallType
  <2>3. request' \in [Requests -> CallType] /\ Concerns'
    BY <2>1, <2>2, Moving
  <2> QED BY <2>1, <2>3 DEF TypeOK, CallType, visitRows, photoRows
<1> QED BY <1>2, <1>3, <1>4 DEF Begin

\* Carrying a request on.
LEMMA TypedContinue ==
  ASSUME Typed, NEW r \in Requests, Continue(r)
  PROVE  Typed'
<1> USE DEF Typed
<1> DEFINE v == request[r].visit
           p == request[r].photo
<1>0. /\ request[r] \in CallType
      /\ ~At(r, "idle") => v \in Visits
      /\ Goes(r, Idle) => request' \in [Requests -> CallType] /\ Concerns'
  BY Moving, IdleIsACall DEF TypeOK, CallType, Concerns
<1>1. CASE CheckIn(r) \/ SignOff(r)
  <2>1. v \in Visits
    BY <1>0, <1>1 DEF CheckIn, SignOff, At
  <2> QED BY <1>0, <1>1, <2>1
          DEF CheckIn, SignOff, MovesTo, TypeOK, CallType, photoRows, Plan!VisitStatus
<1>2. CASE SignOffRefused(r) \/ RemoveFindsNone(r) \/ Abort(r)
  BY <1>0, <1>2
  DEF SignOffRefused, RemoveFindsNone, Abort, TypeOK, CallType, visitRows, photoRows
<1>7. CASE UploadRefused(r)
  BY <1>0, <1>7 DEF UploadRefused, TypeOK, CallType, visitRows
<1>3. CASE AddInserts(r)
  <2> DEFINE call == [request[r] EXCEPT !.at = "added", !.count = Cardinality(photos[v]) + 1]
  <2>1. v \in Visits /\ p \in Photos
    BY <1>0, <1>3 DEF AddInserts, Concerns, At
  <2>2. call \in CallType /\ call.visit = v /\ call.photo = p
    <3>1. Cardinality(photos[v]) + 1 \in Nat
      BY <2>1, Counts
    <3> QED BY <1>0, <3>1 DEF CallType
  <2>3. Goes(r, call) /\ UNCHANGED <<visitRows, photoRows>>
    BY <1>3 DEF AddInserts
  <2>4. request' \in [Requests -> CallType] /\ Concerns'
    BY <2>1, <2>2, <2>3, Moving
  <2> QED BY <2>3, <2>4 DEF TypeOK, CallType, visitRows, photoRows
<1>4. CASE AddCommits(r)
  <2>1. v \in Visits /\ p \in Photos /\ request[r].count \in Nat
    BY <1>0, <1>4 DEF AddCommits, Concerns, At, CallType
  <2> QED BY <1>0, <1>4, <2>1 DEF AddCommits, TypeOK, CallType, visitRows
<1>5. CASE RemoveDeletes(r)
  <2> DEFINE call == [at |-> "removed", visit |-> v, photo |-> p, count |-> Cardinality(photos[v]) - 1]
  <2>1. Goes(r, call) /\ p \in photos[v] /\ UNCHANGED <<visitRows, photoRows>>
    BY <1>5 DEF RemoveDeletes, Deletes
  <2>2. v \in Visits /\ p \in Photos
    BY <1>0, <1>5 DEF RemoveDeletes, Concerns, At
  <2>3. call \in CallType
    BY <2>1, <2>2, Counts DEF CallType
  <2>4. request' \in [Requests -> CallType] /\ Concerns'
    BY <2>1, <2>2, <2>3, Moving
  <2> QED BY <2>1, <2>4 DEF TypeOK, CallType, visitRows, photoRows
<1>6. CASE RemoveCommits(r)
  <2>1. v \in Visits /\ p \in Photos /\ request[r].count \in Nat
    BY <1>0, <1>6 DEF RemoveCommits, Concerns, At, CallType
  <2> QED BY <1>0, <1>6, <2>1 DEF RemoveCommits, TypeOK, CallType, visitRows
<1> QED BY <1>1, <1>2, <1>3, <1>4, <1>5, <1>6, <1>7 DEF Continue

\* Every step keeps the types.
LEMMA TypedNext == Typed /\ [Next]_vars => Typed'
<1> SUFFICES ASSUME Typed, [Next]_vars PROVE Typed'
  OBVIOUS
<1>0. UNCHANGED request => Concerns'
  BY DEF Typed, Concerns, At
<1> USE DEF Typed, TypeOK, CallType, Plan!VisitStatus, visitRows, photoRows
<1>1. ASSUME NEW v \in Visits, PlanVisit(v) \/ Schedule(v) \/ Waive(v) PROVE Typed'
  BY <1>0, <1>1 DEF PlanVisit, Schedule, Waive, MovesTo
<1>2. ASSUME NEW v \in Visits, NEW S \in SUBSET Photos, LogAdHoc(v, S) PROVE Typed'
  <2>1. Cardinality(S) \in Nat
    BY FS_Subset, FS_CardinalityType, SiteVisitsAssumption
  <2> QED BY <1>0, <1>2, <2>1 DEF LogAdHoc, MovesTo
<1>3. ASSUME NEW S \in SUBSET Visits, WatchReads(S) \/ WatchWrites \/ WatchFails PROVE Typed'
  <2>1. UNCHANGED <<arrived, photoRows, request>>
    BY <1>3 DEF WatchReads, WatchWrites, WatchFails
  <2>2. overdue' \subseteq Visits
    BY <1>3 DEF WatchReads, WatchWrites, WatchFails
  <2>3. status' \in [Visits -> Plan!VisitStatus]
    <3>1. CASE WatchReads(S) \/ WatchFails
      BY <3>1 DEF WatchReads, WatchFails
    <3>2. CASE WatchWrites
      BY <3>2 DEF WatchWrites
    <3> QED BY <1>3, <3>1, <3>2
  <2> QED BY <1>0, <2>1, <2>2, <2>3
<1>4. ASSUME NEW p \in Photos, DocumentStep(p) PROVE Typed'
  <2>1. UNCHANGED <<visitRows, photos, tally, request>>
    BY <1>4
    DEF DocumentStep, UploadDocument, PutPhoto, DeleteDocument, RestoreDocument, DocumentExpires,
        PurgeFile, PurgeAlone
  <2>2. /\ \/ document' = document
           \/ \E s \in {"live", "deleted", "expired", "purged"} :
                document' = [document EXCEPT ![p] = s]
        /\ \/ file' = file
           \/ \E s \in {"stored", "gone"} : file' = [file EXCEPT ![p] = s]
    BY <1>4
    DEF DocumentStep, UploadDocument, PutPhoto, DeleteDocument, RestoreDocument, DocumentExpires,
        PurgeFile, PurgeAlone
  <2>3. document' \in [Photos -> {"none", "live", "deleted", "expired", "purged"}]
    BY <2>2
  <2>4. file' \in [Photos -> {"none", "promised", "stored", "gone"}]
    BY <2>2
  <2> QED BY <1>0, <2>1, <2>3, <2>4
<1>5. CASE UNCHANGED vars
  BY <1>0, <1>5 DEF vars
<1> QED BY <1>1, <1>2, <1>3, <1>4, <1>5, TypedBegin, TypedContinue DEF Next

\* Every variable keeps its type: in particular a recount never ends below zero.
THEOREM TypeCorrect == Spec => []TypeOK
<1>1. Spec => []Typed
  BY TypedInit, TypedNext, PTL DEF Spec
<1> QED BY <1>1, PTL DEF Typed

-----------------------------------------------------------------------------
\* A check-in, a sign-off or an upload between its read and its commit.
Holds(r) == request[r].at \in {"checking in", "signing off", "uploading"}

\* What such a request found is still so when it commits: its visit is open, and
\* nobody else holds it.
ReadsStand ==
  /\ \A r \in Requests : Holds(r) => Open(request[r].visit)
  /\ \A r, q \in Requests :
       Holds(r) /\ Holds(q) /\ request[r].visit = request[q].visit => r = q

\* A request other than r keeps what it found if the visit it holds is not the
\* one the step writes.
LEMMA OthersStand ==
  ASSUME Typed, ReadsStand, NEW r \in Requests, NEW call \in CallType, Goes(r, call),
         \A q \in Requests \ {r} :
           Holds(q) => status'[request[q].visit] = status[request[q].visit],
         call.at \in {"checking in", "signing off", "uploading"} =>
           /\ ~Held(call.visit)
           /\ status'[call.visit] \notin {"none", "completed"}
  PROVE  ReadsStand'
<1>1. \A q \in Requests : request'[q] = IF q = r THEN call ELSE request[q]
  BY DEF Typed, TypeOK, Goes
<1>2. \A q \in Requests : q # r => (Holds(q)' <=> Holds(q))
  BY <1>1 DEF Holds
<1>3. Holds(r)' <=> call.at \in {"checking in", "signing off", "uploading"}
  BY <1>1 DEF Holds
<1>4. \A q \in Requests : Holds(q)' => Open(request[q].visit)'
  BY <1>1, <1>2, <1>3 DEF ReadsStand, Open
<1>5. ASSUME NEW q \in Requests, NEW s \in Requests, Holds(q)', Holds(s)',
             request'[q].visit = request'[s].visit
      PROVE  q = s
  <2>1. CASE q # r /\ s # r
    BY <1>1, <1>2, <1>5, <2>1 DEF ReadsStand
  <2>2. ASSUME NEW t \in Requests, t # r, Holds(r)', Holds(t)', request'[t].visit = request'[r].visit
        PROVE  FALSE
    BY <1>1, <1>2, <1>3, <2>2 DEF Held, Holds
  <2> QED BY <1>5, <2>1, <2>2
<1> QED BY <1>4, <1>5 DEF ReadsStand

\* A step of none of the requests: the visit it writes is held by none.
LEMMA NobodyMoves ==
  ASSUME ReadsStand, UNCHANGED request,
         \A q \in Requests :
           Holds(q) => status'[request[q].visit] = status[request[q].visit]
  PROVE  ReadsStand'
BY DEF ReadsStand, Holds, Open

\* Nobody holds a visit at the start.
LEMMA StandInit == Init => ReadsStand
<1>1. Init => \A r \in Requests : request[r].at = "idle"
  BY IdleIsACall DEF Init
<1> QED BY <1>1 DEF ReadsStand, Holds, At

\* Starting a request leaves what the others found.
LEMMA StandBegin ==
  ASSUME Typed, ReadsStand, NEW r \in Requests, NEW v \in Visits, Begin(r, v)
  PROVE  ReadsStand'
<1>1. ASSUME NEW call \in CallType, Goes(r, call), UNCHANGED <<visitRows, photoRows>>,
             call.at \in {"checking in", "signing off", "uploading"} =>
               /\ ~Held(call.visit)
               /\ Open(call.visit)
      PROVE  ReadsStand'
  BY <1>1, OthersStand DEF visitRows, Open
<1>2. \A p \in Photos \cup {None}, at \in {"checking in", "signing off", "uploading", "adding", "removing"} :
        Call(at, v, p) \in CallType /\ Call(at, v, p).at = at /\ Call(at, v, p).visit = v
  BY DEF Call, CallType
<1> HIDE DEF CallType
<1>3. CASE BeginCheckIn(r, v)
  BY <1>1, <1>2, <1>3 DEF BeginCheckIn, Locks
<1>4. CASE BeginSignOff(r, v)
  BY <1>1, <1>2, <1>4 DEF BeginSignOff, Locks
<1>5. ASSUME NEW p \in Photos, BeginUpload(r, v, p) PROVE ReadsStand'
  BY <1>1, <1>2, <1>5 DEF BeginUpload, Locks
<1>6. ASSUME NEW p \in Photos, AddReads(r, v, p) \/ RemoveReads(r, v, p) PROVE ReadsStand'
  BY <1>1, <1>2, <1>6 DEF AddReads, RemoveReads
<1>7. ASSUME NEW p \in Photos, PurgeDeletes(r, v, p) PROVE ReadsStand'
  <2> DEFINE call == [at |-> "purged", visit |-> v, photo |-> p, count |-> Cardinality(photos[v]) - 1]
  <2>1. Goes(r, call) /\ p \in photos[v] /\ UNCHANGED <<visitRows, photoRows>>
    BY <1>7 DEF PurgeDeletes, Deletes
  <2>2. call \in CallType /\ call.at = "purged"
    BY <2>1, Counts DEF CallType, Typed
  <2> HIDE DEF call
  <2> QED BY <1>1, <2>1, <2>2
<1> QED BY <1>3, <1>4, <1>5, <1>6, <1>7 DEF Begin

\* Carrying a request on leaves what the others found.
LEMMA StandContinue ==
  ASSUME Typed, ReadsStand, NEW r \in Requests, Continue(r)
  PROVE  ReadsStand'
<1> DEFINE v == request[r].visit
           p == request[r].photo
<1>0. ~At(r, "idle") => v \in Visits
  BY DEF Typed, Concerns
<1>1. CASE CheckIn(r) \/ SignOff(r)
  <2>1. \A q \in Requests \ {r} : Holds(q) => request[q].visit # v
    BY <1>1 DEF CheckIn, SignOff, At, Holds, ReadsStand
  <2>2. \A q \in Requests \ {r} : Holds(q) => status'[request[q].visit] = status[request[q].visit]
    <3>1. \A u : u # v => status'[u] = status[u] \/ u \notin Visits
      BY <1>1 DEF CheckIn, SignOff, MovesTo, Typed, TypeOK
    <3>2. \A q \in Requests : Holds(q) => request[q].visit \in Visits
      BY DEF Typed, Concerns, Holds, At
    <3> QED BY <2>1, <3>1, <3>2
  <2>3. Goes(r, Idle)
    BY <1>1 DEF CheckIn, SignOff
  <2> QED BY <2>2, <2>3, OthersStand, IdleIsACall
<1>2. CASE SignOffRefused(r) \/ RemoveFindsNone(r) \/ Abort(r) \/ UploadRefused(r) \/ AddCommits(r)
             \/ RemoveCommits(r)
  <2>1. Goes(r, Idle) /\ UNCHANGED visitRows
    BY <1>2 DEF SignOffRefused, RemoveFindsNone, Abort, UploadRefused, AddCommits, RemoveCommits
  <2> QED BY <2>1, OthersStand, IdleIsACall DEF visitRows
<1>3. CASE AddInserts(r)
  <2> DEFINE call == [request[r] EXCEPT !.at = "added", !.count = Cardinality(photos[v]) + 1]
  <2>1. v \in Visits
    BY <1>0, <1>3 DEF AddInserts, At
  <2>2. call \in CallType /\ call.at = "added"
    <3>1. Cardinality(photos[v]) + 1 \in Nat
      BY <2>1, Counts DEF Typed
    <3> QED BY <3>1 DEF CallType, Typed, TypeOK
  <2>3. Goes(r, call) /\ UNCHANGED visitRows
    BY <1>3 DEF AddInserts
  <2> HIDE DEF call
  <2> QED BY <2>2, <2>3, OthersStand DEF visitRows
<1>4. CASE RemoveDeletes(r)
  <2> DEFINE call == [at |-> "removed", visit |-> v, photo |-> p, count |-> Cardinality(photos[v]) - 1]
  <2>1. Goes(r, call) /\ p \in photos[v] /\ UNCHANGED visitRows
    BY <1>4 DEF RemoveDeletes, Deletes
  <2>2. v \in Visits /\ p \in Photos
    BY <1>4 DEF RemoveDeletes, Typed, Concerns, At
  <2>3. call \in CallType /\ call.at = "removed"
    BY <2>1, <2>2, Counts DEF CallType, Typed
  <2> HIDE DEF call
  <2> QED BY <2>1, <2>3, OthersStand DEF visitRows
<1> QED BY <1>1, <1>2, <1>3, <1>4 DEF Continue

\* Every step leaves what the requests that hold a visit found.
LEMMA StandNext == Typed /\ ReadsStand /\ [Next]_vars => ReadsStand'
<1> SUFFICES ASSUME Typed, ReadsStand, [Next]_vars PROVE ReadsStand'
  OBVIOUS
<1>1. ASSUME NEW v \in Visits, ~Held(v) \/ status[v] = "none", NEW s, MovesTo(v, s),
             UNCHANGED request
      PROVE  ReadsStand'
  <2>1. \A q \in Requests : Holds(q) => request[q].visit # v
    BY <1>1 DEF Held, Holds, ReadsStand, Open
  <2>2. \A q \in Requests : Holds(q) => request[q].visit \in Visits
    BY DEF Typed, Concerns, Holds, At
  <2>3. \A u \in Visits : u # v => status'[u] = status[u]
    BY <1>1 DEF MovesTo, Typed, TypeOK
  <2> QED BY <1>1, <2>1, <2>2, <2>3, NobodyMoves
<1>2. ASSUME NEW v \in Visits, PlanVisit(v) PROVE ReadsStand'
  BY <1>1, <1>2 DEF PlanVisit
<1>3. ASSUME NEW v \in Visits, Schedule(v) \/ Waive(v) PROVE ReadsStand'
  BY <1>1, <1>3 DEF Schedule, Waive
<1>4. ASSUME NEW v \in Visits, NEW S \in SUBSET Photos, LogAdHoc(v, S) PROVE ReadsStand'
  BY <1>1, <1>4 DEF LogAdHoc
<1>5. CASE (\E S \in SUBSET Visits : WatchReads(S)) \/ WatchFails \/ UNCHANGED vars
  BY <1>5, NobodyMoves DEF WatchReads, WatchFails, vars, visitRows
<1>6. CASE WatchWrites
  <2>1. \A q \in Requests : Holds(q) => request[q].visit \in Visits \ overdue
    BY <1>6 DEF WatchWrites, Held, Holds, Typed, Concerns, At
  <2>2. \A q \in Requests : Holds(q) => status'[request[q].visit] = status[request[q].visit]
    BY <1>6, <2>1 DEF WatchWrites
  <2> QED BY <1>6, <2>2, NobodyMoves DEF WatchWrites
<1>7. ASSUME NEW p \in Photos, DocumentStep(p) PROVE ReadsStand'
  BY <1>7, NobodyMoves
  DEF DocumentStep, UploadDocument, PutPhoto, DeleteDocument, RestoreDocument, DocumentExpires,
      PurgeFile, PurgeAlone, visitRows
<1> QED BY <1>2, <1>3, <1>4, <1>5, <1>6, <1>7, StandBegin, StandContinue DEF Next

-----------------------------------------------------------------------------
\* What does not check in or sign off writes no visit, and what only starts a
\* request writes nothing at all.
LEMMA Elsewhere ==
  /\ \A r \in Requests, v \in Visits : Begin(r, v) => UNCHANGED <<visitRows, photoRows>>
  /\ \A r \in Requests : Continue(r) => CheckIn(r) \/ SignOff(r) \/ UNCHANGED visitRows
  /\ \A p \in Photos : DocumentStep(p) => UNCHANGED visitRows
  /\ UNCHANGED vars => UNCHANGED <<visitRows, photoRows>>
<1>1. ASSUME NEW r \in Requests, NEW v \in Visits, Begin(r, v)
      PROVE  UNCHANGED <<visitRows, photoRows>>
  BY <1>1
  DEF Begin, BeginCheckIn, BeginSignOff, BeginUpload, AddReads, RemoveReads, PurgeDeletes, Deletes
<1>2. ASSUME NEW r \in Requests, Continue(r), ~CheckIn(r), ~SignOff(r) PROVE UNCHANGED visitRows
  BY <1>2
  DEF Continue, SignOffRefused, UploadRefused, AddInserts, AddCommits, RemoveDeletes, RemoveFindsNone,
      RemoveCommits, Deletes, Abort
<1>3. ASSUME NEW p \in Photos, DocumentStep(p) PROVE UNCHANGED visitRows
  BY <1>3
  DEF DocumentStep, UploadDocument, PutPhoto, DeleteDocument, RestoreDocument, DocumentExpires,
      PurgeFile, PurgeAlone
<1> QED BY <1>1, <1>2, <1>3 DEF vars

\* Every step is a step of the visit plan, or leaves the visits alone.
LEMMA PlanNext == Typed /\ ReadsStand /\ [Next]_vars => [Plan!Next]_(Plan!vars)
<1> SUFFICES ASSUME Typed, ReadsStand, [Next]_vars PROVE [Plan!Next]_(Plan!vars)
  OBVIOUS
<1>1. ASSUME NEW v \in Visits,
             \/ PlanVisit(v) \/ Schedule(v) \/ Waive(v)
             \/ \E S \in SUBSET Photos : LogAdHoc(v, S)
      PROVE  Plan!Next
  BY <1>1
  DEF PlanVisit, Schedule, Waive, LogAdHoc, MovesTo, Plan!Next, Plan!VisitStep,
      Plan!PlanVisit, Plan!LogAdHoc, Plan!Schedule, Plan!Waive, Plan!MovesTo
<1>2. CASE (\E S \in SUBSET Visits : WatchReads(S)) \/ WatchWrites \/ WatchFails
  BY <1>2
  DEF WatchReads, WatchWrites, WatchFails, Plan!Next, Plan!WatchReads, Plan!WatchWrites,
      Plan!WatchFails
<1>3. ASSUME NEW r \in Requests, CheckIn(r) \/ SignOff(r) PROVE Plan!Next
  <2> DEFINE v == request[r].visit
  <2>1. v \in Visits /\ Open(v) /\ (SignOff(r) => v \in arrived)
    BY <1>3 DEF CheckIn, SignOff, Accepts, At, Typed, Concerns, ReadsStand, Holds
  <2>2. Plan!CheckIn(v) \/ Plan!SignOff(v)
    BY <1>3, <2>1
    DEF CheckIn, SignOff, MovesTo, Open, Plan!CheckIn, Plan!SignOff, Plan!MovesTo
  <2> QED BY <2>1, <2>2 DEF Plan!Next, Plan!VisitStep
<1> QED BY <1>1, <1>2, <1>3, Elsewhere DEF Next, visitRows, Plan!vars

\* The inductive invariant the theorems below rest on.
LEMMA AlwaysStands == Spec => [](Typed /\ ReadsStand)
BY TypedInit, TypedNext, StandInit, StandNext, PTL DEF Spec

\* The routes, the watch and the trigger, interleaved in any way, make only the
\* moves of the visit plan.
THEOREM VisitsFollowThePlan == Spec => ImplementsVisitPlan
<1>1. Init => Plan!Init
  BY DEF Init, Plan!Init
<1> QED BY <1>1, AlwaysStands, PlanNext, PTL DEF Spec, ImplementsVisitPlan, Plan!Spec

\* No request undoes a sign-off; only the watch can, and only of a visit it had
\* selected before.
THEOREM SignOffsStand == Spec => SignOffStands
<1>1. Typed /\ ReadsStand /\ [Next]_vars =>
        [\A v \in Visits : status[v] = "completed" => status'[v] = "completed" \/ v \in overdue]_vars
  <2> SUFFICES ASSUME Typed, ReadsStand, [Next]_vars, NEW v \in Visits, status[v] = "completed"
               PROVE  status'[v] = "completed" \/ v \in overdue
    OBVIOUS
  <2>1. [Plan!Next]_(Plan!vars) /\ status \in [Visits -> Plan!VisitStatus]
    BY PlanNext DEF Typed, TypeOK
  <2> QED BY <2>1
      DEF Plan!Next, Plan!VisitStep, Plan!PlanVisit, Plan!LogAdHoc, Plan!Schedule, Plan!Waive,
          Plan!WatchReads, Plan!WatchWrites, Plan!WatchFails, Plan!CheckIn, Plan!SignOff,
          Plan!MovesTo, Plan!vars
<1> QED BY <1>1, AlwaysStands, PTL DEF Spec, SignOffStands

\* The purge deletes no file that a document in use, or one that can still be
\* restored, needs.
THEOREM FilesAreKept == Spec => []FilesOutliveRetention
<1>1. Init => FilesOutliveRetention
  BY DEF Init, FilesOutliveRetention
<1>2. Typed /\ FilesOutliveRetention /\ [Next]_vars => FilesOutliveRetention'
  <2> SUFFICES ASSUME Typed, FilesOutliveRetention, [Next]_vars PROVE FilesOutliveRetention'
    OBVIOUS
  <2> USE DEF FilesOutliveRetention
  <2>0. /\ document \in [Photos -> {"none", "live", "deleted", "expired", "purged"}]
        /\ file \in [Photos -> {"none", "promised", "stored", "gone"}]
    BY DEF Typed, TypeOK
  <2>1. ASSUME NEW p \in Photos, DocumentStep(p) PROVE FilesOutliveRetention'
    BY <2>0, <2>1
    DEF DocumentStep, UploadDocument, PutPhoto, DeleteDocument, RestoreDocument, Recoverable,
        DocumentExpires, PurgeFile, PurgeAlone
  <2>2. ASSUME NEW v \in Visits,
               \/ PlanVisit(v) \/ Schedule(v) \/ Waive(v)
               \/ \E S \in SUBSET Photos : LogAdHoc(v, S)
        PROVE UNCHANGED <<document, file>>
    BY <2>2 DEF PlanVisit, Schedule, Waive, LogAdHoc, photoRows
  <2>3. ASSUME NEW r \in Requests, AddCommits(r) \/ UploadRefused(r) \/ RemoveCommits(r)
        PROVE FilesOutliveRetention'
    BY <2>0, <2>3 DEF AddCommits, UploadRefused, RemoveCommits
  <2>4. ASSUME UNCHANGED <<document, file>> PROVE FilesOutliveRetention'
    BY <2>4
  <2>5. (\E S \in SUBSET Visits : WatchReads(S)) \/ WatchWrites \/ WatchFails
          => UNCHANGED <<document, file>>
    BY DEF WatchReads, WatchWrites, WatchFails, photoRows
  <2>6. UNCHANGED vars \/ (\E r \in Requests, v \in Visits : Begin(r, v))
          => UNCHANGED <<document, file>>
    BY Elsewhere DEF photoRows
  <2>7. ASSUME NEW r \in Requests, Continue(r), ~AddCommits(r), ~UploadRefused(r), ~RemoveCommits(r)
        PROVE UNCHANGED <<document, file>>
    BY <2>7
    DEF Continue, CheckIn, SignOff, SignOffRefused, AddInserts, RemoveDeletes,
        RemoveFindsNone, Deletes, Abort, photoRows
  <2> QED BY <2>1, <2>2, <2>3, <2>4, <2>5, <2>6, <2>7 DEF Next
<1>3. Spec => []Typed
  BY TypedInit, TypedNext, PTL DEF Spec
<1> QED BY <1>1, <1>2, <1>3, PTL DEF Spec
=============================================================================
