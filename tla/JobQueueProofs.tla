--------------------------- MODULE JobQueueProofs ---------------------------
(***************************************************************************)
(* Theorems about JobQueue and JobScheduler for every set of rows, keys,   *)
(* workers, slots and schedules.                                           *)
(***************************************************************************)
EXTENDS JobScheduler, TLAPS

-----------------------------------------------------------------------------
\* Every variable keeps its type.
LEMMA TypeInit == Init => TypeOK
  BY RowAssumption, WorkerAssumption, BoundAssumption DEF Init, TypeOK, Status

LEMMA TypeNext == TypeOK /\ [Next]_vars => TypeOK'
<1> SUFFICES ASSUME TypeOK, [Next]_vars PROVE TypeOK'
  OBVIOUS
<1> USE DEF TypeOK, Status, rowVars, workerVars
<1>1. ASSUME NEW j \in Jobs, NEW k \in Keys \cup {NoKey}, Enqueue(j, k) PROVE TypeOK'
  BY <1>1 DEF Enqueue
<1>2. ASSUME NEW j \in Jobs, BecomeDue(j) PROVE TypeOK'
  BY <1>2 DEF BecomeDue
<1>3. ASSUME NEW j \in Jobs, LockExpires(j) PROVE TypeOK'
  BY <1>3 DEF LockExpires
<1>4. ASSUME NEW j \in Jobs, RetryDeadJob(j) PROVE TypeOK'
  BY <1>4 DEF RetryDeadJob
<1>5. ASSUME NEW s \in Slots, NEW o \in {"returned", "threw", "gave_up"}, HandlerEnds(s, o)
      PROVE TypeOK'
  <2>1. run[s] \in Call
    BY <1>5 DEF HandlerEnds, IsIdle
  <2>2. run' \in [Slots -> Call \cup {Idle}]
    BY <1>5, <2>1 DEF HandlerEnds, Call
  <2>3. ran' \in SUBSET Jobs
    BY <1>5, <2>1 DEF HandlerEnds, Call
  <2> QED BY <1>5, <2>2, <2>3 DEF HandlerEnds
<1>6. ASSUME NEW s \in Slots, CompleteJob(s) PROVE TypeOK'
  <2>1. run[s] \in Call
    BY <1>6 DEF CompleteJob, Answering, IsIdle
  <2> QED BY <1>6, <2>1, WorkerAssumption DEF CompleteJob, RecordSuccess, Release, Call
<1>7. ASSUME NEW s \in Slots, CompleteThrows(s) PROVE TypeOK'
  <2>1. run[s] \in Call
    BY <1>7 DEF CompleteThrows, Answering, IsIdle
  <2>2. run' \in [Slots -> Call \cup {Idle}]
    BY <1>7, <2>1 DEF CompleteThrows, Call
  <2> QED BY <1>7, <2>1, <2>2 DEF CompleteThrows, RecordSuccess, Call
<1>8. ASSUME NEW s \in Slots, FailJob(s) PROVE TypeOK'
  <2>1. run[s] \in Call
    BY <1>8 DEF FailJob, Answering, IsIdle
  <2> QED BY <1>8, <2>1 DEF FailJob, Release, Call
<1>9. ASSUME NEW s \in Slots, FailThrows(s) PROVE TypeOK'
  BY <1>9 DEF FailThrows, Release
<1>10. ASSUME NEW w \in Workers, Claim(w) PROVE TypeOK'
  <2>1. PICK taken \in SUBSET FreeSlots(w) :
          \E jobOf \in [taken -> Claimable] : ClaimBatch(w, taken, jobOf)
    BY <1>10 DEF Claim
  <2>2. PICK jobOf \in [taken -> Claimable] : ClaimBatch(w, taken, jobOf)
    BY <2>1
  <2>3. \A s \in taken : jobOf[s] \in Jobs
    BY DEF Claimable
  <2>4. status' \in [Jobs -> Status] /\ due' \in [Jobs -> BOOLEAN]
    BY <2>2 DEF ClaimBatch
  <2>5. attempts' \in [Jobs -> Nat]
    BY <2>2 DEF ClaimBatch
  <2>6. lockedBy' \in [Jobs -> Workers \cup {NoWorker}]
    BY <2>2 DEF ClaimBatch
  <2>7. run' \in [Slots -> Call \cup {Idle}]
    BY <2>2, <2>3 DEF Call, ClaimBatch
  <2> QED BY <1>10, <2>4, <2>5, <2>6, <2>7 DEF Claim
<1>11. ASSUME NEW w \in Workers, Crash(w) PROVE TypeOK'
  BY <1>11 DEF Crash, Vanish
<1>12. ASSUME NEW w \in Workers, Shutdown(w) PROVE TypeOK'
  BY <1>12 DEF Shutdown
<1>13. ASSUME NEW w \in Workers, Exit(w) PROVE TypeOK'
  BY <1>13 DEF Exit, Vanish
<1>14. ASSUME NEW w \in Workers, Start(w) PROVE TypeOK'
  BY <1>14 DEF Start
<1>15. CASE Reap
  BY <1>15 DEF Reap, ReapRows
<1>16. CASE UNCHANGED vars
  BY <1>16 DEF vars
<1> QED
  BY <1>1, <1>2, <1>3, <1>4, <1>5, <1>6, <1>7, <1>8, <1>9, <1>10, <1>11, <1>12, <1>13,
     <1>14, <1>15, <1>16 DEF Next, Row, ProcessJob, Process

\* The rows of ocs.jobs, the calls in flight and the processes keep their types.
THEOREM TypeCorrect == Spec => []TypeOK
<1> QED
  BY TypeInit, TypeNext, PTL DEF Spec

-----------------------------------------------------------------------------
\* A step that makes no row live and changes no key keeps the keys unique.
LEMMA NoNewLiveRow ==
  ASSUME DedupeUnique, key' = key, \A j \in Jobs : status'[j] \in Live => status[j] \in Live
  PROVE  DedupeUnique'
  BY DEF DedupeUnique

\* The three steps that can make a row live ask the unique index first.
LEMMA OneNewLiveRow ==
  ASSUME TypeOK, DedupeUnique, NEW j \in Jobs, IndexAllows(j, key'[j]),
         \A i \in Jobs \ {j} : key'[i] = key[i] /\ (status'[i] \in Live => status[i] \in Live)
  PROVE  DedupeUnique'
  BY DEF DedupeUnique, IndexAllows

LEMMA DedupeNext == TypeOK /\ DedupeUnique /\ [Next]_vars => DedupeUnique'
<1> SUFFICES ASSUME TypeOK, DedupeUnique, [Next]_vars PROVE DedupeUnique'
  OBVIOUS
<1> USE DEF rowVars, workerVars
<1>1. ASSUME NEW j \in Jobs, NEW k \in Keys \cup {NoKey}, Enqueue(j, k) PROVE DedupeUnique'
  BY <1>1, OneNewLiveRow DEF Enqueue, TypeOK
<1>2. ASSUME NEW j \in Jobs, BecomeDue(j) \/ LockExpires(j) PROVE DedupeUnique'
  BY <1>2, NoNewLiveRow DEF BecomeDue, LockExpires
<1>3. ASSUME NEW j \in Jobs, RetryDeadJob(j) PROVE DedupeUnique'
  BY <1>3, OneNewLiveRow DEF RetryDeadJob, TypeOK
<1>4. ASSUME NEW s \in Slots, NEW o \in {"returned", "threw", "gave_up"}, HandlerEnds(s, o)
      PROVE DedupeUnique'
  BY <1>4, NoNewLiveRow DEF HandlerEnds
<1>5. ASSUME NEW s \in Slots, CompleteJob(s) \/ CompleteThrows(s) \/ FailThrows(s)
      PROVE DedupeUnique'
  <2>1. key' = key /\ \A j \in Jobs : status'[j] \in Live => status[j] \in Live
    BY <1>5 DEF CompleteJob, CompleteThrows, FailThrows, RecordSuccess, TypeOK, Live
  <2> QED BY <2>1, NoNewLiveRow
<1>6. ASSUME NEW s \in Slots, FailJob(s) PROVE DedupeUnique'
  <2> DEFINE j == run[s].job
  <2>1. j \in Jobs
    BY <1>6 DEF FailJob, Answering, IsIdle, TypeOK, Call
  <2>2. CASE Exhausted(s)
    <3>1. key' = key /\ \A i \in Jobs : status'[i] \in Live => status[i] \in Live
      BY <1>6, <2>1, <2>2 DEF FailJob, TypeOK, Live
    <3> QED BY <3>1, NoNewLiveRow
  <2>3. CASE ~Exhausted(s)
    BY <1>6, <2>1, <2>3, OneNewLiveRow DEF FailJob, TypeOK
  <2> QED BY <2>2, <2>3
<1>7. ASSUME NEW w \in Workers, Claim(w) PROVE DedupeUnique'
  <2>1. key' = key /\ \A j \in Jobs : status'[j] \in Live => status[j] \in Live
    BY <1>7 DEF Claim, ClaimBatch, Claimable, Live
  <2> QED BY <2>1, NoNewLiveRow
<1>8. ASSUME NEW w \in Workers, Crash(w) \/ Shutdown(w) \/ Exit(w) \/ Start(w)
      PROVE DedupeUnique'
  BY <1>8, NoNewLiveRow DEF Crash, Shutdown, Exit, Start
<1>9. CASE Reap
  BY <1>9, NoNewLiveRow DEF Reap, ReapRows, Stuck, Live
<1>10. CASE UNCHANGED vars
  BY <1>10, NoNewLiveRow DEF vars
<1> QED
  BY <1>1, <1>2, <1>3, <1>4, <1>5, <1>6, <1>7, <1>8, <1>9, <1>10
     DEF Next, Row, ProcessJob, Process

\* At most one live row per dedupe key, whether or not answers are timely.
THEOREM KeysStayUnique == Spec => []DedupeUnique
<1>1. Init => DedupeUnique
  BY DEF Init, DedupeUnique, Live
<1> QED
  BY <1>1, DedupeNext, TypeCorrect, PTL DEF Spec

-----------------------------------------------------------------------------
\* The strengthening of SucceededMeansRan: a call about to report success has
\* been through its handler.
ReportsMeanRan ==
  /\ SucceededMeansRan
  /\ \A s \in Slots : (~IsIdle(s) /\ run[s].pc = "returned") => run[s].job \in ran

LEMMA ReportsNext == TypeOK /\ ReportsMeanRan /\ [Next]_vars => ReportsMeanRan'
<1> SUFFICES ASSUME TypeOK, ReportsMeanRan, [Next]_vars PROVE ReportsMeanRan'
  OBVIOUS
<1> USE DEF rowVars, workerVars, ReportsMeanRan, SucceededMeansRan, IsIdle
<1>1. ASSUME NEW j \in Jobs, Row(j) PROVE ReportsMeanRan'
  BY <1>1 DEF Row, Enqueue, BecomeDue, LockExpires, RetryDeadJob, TypeOK
<1>2. ASSUME NEW s \in Slots, NEW o \in {"returned", "threw", "gave_up"}, HandlerEnds(s, o)
      PROVE ReportsMeanRan'
  <2>1. run[s] \in Call /\ run' = [run EXCEPT ![s] = [run[s] EXCEPT !.pc = o]]
    BY <1>2 DEF HandlerEnds, TypeOK
  <2>2. run'[s].job = run[s].job /\ run'[s].pc = o
    BY <2>1 DEF TypeOK, Call
  <2>3. \A t \in Slots \ {s} : run'[t] = run[t]
    BY <2>1 DEF TypeOK
  <2>4. ran \subseteq ran' /\ (o = "returned" => run[s].job \in ran') /\ status' = status
    BY <1>2 DEF HandlerEnds
  <2> QED BY <2>1, <2>2, <2>3, <2>4
<1>3. ASSUME NEW s \in Slots, CompleteJob(s) \/ CompleteThrows(s) PROVE ReportsMeanRan'
  <2>1. run[s] \in Call /\ run[s].pc = "returned" /\ run[s].job \in ran /\ ran' = ran
    BY <1>3 DEF CompleteJob, CompleteThrows, Answering, TypeOK
  <2>2. \A j \in Jobs : status'[j] = "succeeded" => status[j] = "succeeded" \/ j = run[s].job
    BY <1>3 DEF CompleteJob, CompleteThrows, RecordSuccess, TypeOK
  <2>3. \A t \in Slots \ {s} : run'[t] = run[t]
    BY <1>3 DEF CompleteJob, CompleteThrows, Release, TypeOK
  <2>4. run'[s] = Idle \/ run'[s].pc = "threw"
    BY <1>3, <2>1 DEF CompleteJob, CompleteThrows, Release, TypeOK, Call
  <2> QED BY <2>1, <2>2, <2>3, <2>4
<1>4. ASSUME NEW s \in Slots, FailJob(s) \/ FailThrows(s) PROVE ReportsMeanRan'
  BY <1>4 DEF FailJob, FailThrows, Release, TypeOK
<1>5. ASSUME NEW w \in Workers, Claim(w) PROVE ReportsMeanRan'
  <2>1. PICK taken \in SUBSET FreeSlots(w) :
          \E jobOf \in [taken -> Claimable] : ClaimBatch(w, taken, jobOf)
    BY <1>5 DEF Claim
  <2>2. PICK jobOf \in [taken -> Claimable] : ClaimBatch(w, taken, jobOf)
    BY <2>1
  <2>3. \A j \in Jobs : status'[j] = "succeeded" => status[j] = "succeeded"
    BY <2>2 DEF ClaimBatch
  <2>4. \A s \in Slots : run'[s] = run[s] \/ run'[s].pc = "handling"
    BY <2>2 DEF ClaimBatch
  <2>5. ran' = ran
    BY <1>5 DEF Claim
  <2> QED BY <2>3, <2>4, <2>5
<1>6. ASSUME NEW w \in Workers, Crash(w) \/ Shutdown(w) \/ Exit(w) \/ Start(w)
      PROVE ReportsMeanRan'
  BY <1>6 DEF Crash, Shutdown, Exit, Start, Vanish
<1>7. CASE Reap
  BY <1>7 DEF Reap, ReapRows
<1>8. CASE UNCHANGED vars
  BY <1>8 DEF vars
<1> QED
  BY <1>1, <1>2, <1>3, <1>4, <1>5, <1>6, <1>7, <1>8 DEF Next, ProcessJob, Process

\* No row is reported as succeeded before its handler has run to the end.
THEOREM SuccessIsEarned == Spec => []SucceededMeansRan
<1>1. Init => ReportsMeanRan
  BY DEF Init, ReportsMeanRan, SucceededMeansRan, IsIdle
<1>2. ReportsMeanRan => SucceededMeansRan
  BY DEF ReportsMeanRan
<1> QED
  BY <1>1, <1>2, ReportsNext, TypeCorrect, PTL DEF Spec

-----------------------------------------------------------------------------
(***************************************************************************)
(* Timely answers.  Each lemma below is one action's share of the induction *)
(* on TimelyInv.                                                           *)
(***************************************************************************)
\* Steps that leave slots alone.
LEMMA TimelyRow ==
  ASSUME ~LateAnswers, TypeOK, TimelyInv, NEW j \in Jobs, Row(j)
  PROVE  TimelyInv'
<1> USE RowAssumption DEF TypeOK, TimelyInv, CallsAreCurrent, RowsInOrder, ExclusiveRun,
      AttemptsBounded, OwnsRow, Unaware, Holds, IsIdle, rowVars, workerVars
<1>1. ASSUME NEW k \in Keys \cup {NoKey}, Enqueue(j, k) PROVE TimelyInv'
  BY <1>1 DEF Enqueue
<1>2. CASE BecomeDue(j)
  BY <1>2 DEF BecomeDue
<1>3. CASE LockExpires(j)
  BY <1>3 DEF LockExpires
<1>4. CASE RetryDeadJob(j)
  BY <1>4 DEF RetryDeadJob
<1> QED BY <1>1, <1>2, <1>3, <1>4 DEF Row

\* An answer frees one slot and moves only the row of that slot.
LEMMA TimelyProcessJob ==
  ASSUME ~LateAnswers, TypeOK, TimelyInv, NEW s \in Slots, ProcessJob(s)
  PROVE  TimelyInv'
<1> USE RowAssumption, WorkerAssumption
<1> DEFINE j == run[s].job
<1>0. /\ run[s] \in Call /\ run[s] # Idle /\ j \in Jobs
      /\ OwnsRow(s) \/ Unaware(s)
      /\ status[j] \in {"running", "succeeded"}
      /\ run[s].attempt = attempts[j] /\ ~expired[j]
  BY DEF ProcessJob, HandlerEnds, CompleteJob, CompleteThrows, FailJob, FailThrows, Answering,
         IsIdle, TypeOK, TimelyInv, CallsAreCurrent, OwnsRow, Unaware, Call
<1>1. \A t \in Slots \ {s} : run[t] # Idle => run[t].job # j
  BY <1>0 DEF TimelyInv, ExclusiveRun, Holds
<1>2. CASE \E o \in {"returned", "threw", "gave_up"} : HandlerEnds(s, o)
  <2>1. PICK o \in {"returned", "threw", "gave_up"} : HandlerEnds(s, o)
    BY <1>2
  <2>2. /\ run'[s].job = j /\ run'[s].attempt = run[s].attempt
        /\ \A t \in Slots \ {s} : run'[t] = run[t]
        /\ UNCHANGED rowVars
    BY <1>0, <2>1 DEF HandlerEnds, TypeOK, Call
  <2>3. OwnsRow(s)
    BY <1>0, <2>1 DEF HandlerEnds, Unaware
  <2> QED BY <1>0, <2>2, <2>3
          DEF TimelyInv, CallsAreCurrent, RowsInOrder, ExclusiveRun, AttemptsBounded,
              OwnsRow, Unaware, Holds, IsIdle, rowVars
<1>3. CASE CompleteThrows(s)
  <2>1. /\ run'[s].job = j /\ run'[s].attempt = run[s].attempt /\ run'[s].pc = "threw"
        /\ \A t \in Slots \ {s} : run'[t] = run[t]
        /\ attempts' = attempts
    BY <1>0, <1>3 DEF CompleteThrows, RecordSuccess, TypeOK, Call, rowVars
  <2>2. /\ \A i \in Jobs \ {j} : /\ status'[i] = status[i] /\ lockedBy'[i] = lockedBy[i]
                                /\ expired'[i] = expired[i]
        /\ ~expired'[j]
    BY <1>0, <1>3 DEF CompleteThrows, RecordSuccess, TypeOK, rowVars
  <2>3. OwnsRow(s) /\ (OwnsRow(s)' \/ Unaware(s)') /\ status'[j] \in {"running", "succeeded"}
    BY <1>0, <1>3, <2>1
       DEF CompleteThrows, RecordSuccess, Answering, OwnsRow, Unaware, TypeOK, rowVars
  <2>4. ExclusiveRun'
    BY <1>0, <2>1 DEF TimelyInv, ExclusiveRun, Holds
  <2>5. \A t \in Slots \ {s} : run'[t] # Idle => run'[t].job \in Jobs \ {j}
    BY <1>1, <2>1 DEF TypeOK, Call
  <2>6. CallsAreCurrent'
    BY <1>0, <2>1, <2>2, <2>3, <2>5 DEF TimelyInv, CallsAreCurrent, OwnsRow, Unaware, IsIdle
  <2>7. RowsInOrder'
    BY <2>1, <2>2, <2>3 DEF TimelyInv, RowsInOrder
  <2>8. AttemptsBounded'
    BY <2>1 DEF TimelyInv, AttemptsBounded
  <2> QED BY <2>4, <2>6, <2>7, <2>8 DEF TimelyInv
<1>4. CASE CompleteJob(s) \/ FailJob(s) \/ FailThrows(s)
  <2>1. run'[s] = Idle /\ \A t \in Slots \ {s} : run'[t] = run[t]
    BY <1>4 DEF CompleteJob, FailJob, FailThrows, Release, TypeOK
  <2>2. /\ \A i \in Jobs \ {j} : /\ status'[i] = status[i] /\ lockedBy'[i] = lockedBy[i]
                                /\ expired'[i] = expired[i]
        /\ attempts' = attempts
    BY <1>0, <1>4 DEF CompleteJob, FailJob, FailThrows, RecordSuccess, TypeOK, rowVars
  <2>3. /\ status'[j] # "none"
        /\ status'[j] \in {"queued", "failed"} => attempts[j] < MaxAttempts[j]
        /\ ~expired'[j]
    BY <1>0, <1>4
       DEF CompleteJob, FailJob, FailThrows, RecordSuccess, OwnsRow, TypeOK, rowVars, Exhausted
  <2>4. ExclusiveRun'
    BY <2>1 DEF TimelyInv, ExclusiveRun, Holds
  <2>5. \A t \in Slots : run'[t] # Idle => run'[t].job \in Jobs \ {j}
    BY <1>1, <2>1 DEF TypeOK, Call
  <2>6. CallsAreCurrent'
    BY <2>1, <2>2, <2>5 DEF TimelyInv, CallsAreCurrent, OwnsRow, Unaware, IsIdle
  <2>7. RowsInOrder'
    BY <2>2, <2>3 DEF TimelyInv, RowsInOrder
  <2>8. AttemptsBounded'
    BY <2>2 DEF TimelyInv, AttemptsBounded
  <2> QED BY <2>4, <2>6, <2>7, <2>8 DEF TimelyInv
<1> QED BY <1>2, <1>3, <1>4 DEF ProcessJob

\* A claim starts calls only on rows no call was working on.
LEMMA TimelyClaim ==
  ASSUME TypeOK, TimelyInv, NEW w \in Workers, Claim(w)
  PROVE  TimelyInv'
<1> USE RowAssumption, WorkerAssumption
<1>1. PICK taken \in SUBSET FreeSlots(w) :
        \E jobOf \in [taken -> Claimable] : ClaimBatch(w, taken, jobOf)
  BY DEF Claim
<1>2. PICK jobOf \in [taken -> Claimable] : ClaimBatch(w, taken, jobOf)
  BY <1>1
<1> DEFINE batch == {jobOf[s] : s \in taken}
<1>3. batch \subseteq Claimable /\ Claimable \subseteq Jobs
  BY DEF Claimable
<1>4. \A j \in batch : /\ status'[j] = "running" /\ lockedBy'[j] = w
                       /\ attempts'[j] = attempts[j] + 1
                       /\ attempts[j] < MaxAttempts[j]
  BY <1>2, <1>3 DEF ClaimBatch, Claimable, TimelyInv, RowsInOrder
<1>5. \A j \in Jobs \ batch : /\ status'[j] = status[j] /\ lockedBy'[j] = lockedBy[j]
                              /\ attempts'[j] = attempts[j]
  BY <1>2 DEF ClaimBatch
<1>6. expired' = expired
  BY DEF Claim
<1>7. \A s \in taken : /\ s \in Slots /\ Host[s] = w /\ jobOf[s] \in batch
                       /\ run'[s].job = jobOf[s]
                       /\ run'[s].attempt = attempts[jobOf[s]] + 1
  BY <1>1, <1>2 DEF ClaimBatch, FreeSlots
<1>8. \A s \in Slots \ taken : run'[s] = run[s]
  BY <1>2 DEF ClaimBatch
<1>9. \A s \in Slots \ taken : run[s] # Idle => run[s].job \in Jobs \ batch
  BY <1>3 DEF TimelyInv, CallsAreCurrent, OwnsRow, Unaware, Claimable, IsIdle, TypeOK, Call
<1>10. \A j \in batch : ~expired'[j]
  BY <1>3, <1>6 DEF TimelyInv, RowsInOrder, Claimable
<1>11. ExclusiveRun'
  <2> SUFFICES ASSUME NEW s \in Slots, NEW t \in Slots, NEW j \in Jobs,
                      Holds(s, j)', Holds(t, j)'
               PROVE  s = t
    BY DEF ExclusiveRun
  <2>1. CASE s \in taken /\ t \in taken
    BY <1>2, <1>7, <2>1 DEF ClaimBatch, Holds
  <2>2. CASE s \notin taken /\ t \notin taken
    BY <1>8, <2>2 DEF TimelyInv, ExclusiveRun, Holds
  <2>3. CASE s \in taken /\ t \notin taken
    BY <1>7, <1>8, <1>9, <2>3 DEF Holds
  <2>4. CASE s \notin taken /\ t \in taken
    BY <1>7, <1>8, <1>9, <2>4 DEF Holds
  <2> QED BY <2>1, <2>2, <2>3, <2>4
<1>12. CallsAreCurrent'
  <2> SUFFICES ASSUME NEW s \in Slots, run'[s] # Idle
               PROVE  /\ OwnsRow(s)' \/ Unaware(s)'
                      /\ run'[s].attempt = attempts'[run'[s].job]
                      /\ ~expired'[run'[s].job]
    BY DEF CallsAreCurrent, IsIdle
  <2>1. CASE s \in taken
    BY <1>4, <1>7, <1>10, <2>1 DEF OwnsRow
  <2>2. CASE s \notin taken
    BY <1>5, <1>6, <1>8, <1>9, <2>2
       DEF TimelyInv, CallsAreCurrent, OwnsRow, Unaware, IsIdle
  <2> QED BY <2>1, <2>2
<1>13. AttemptsBounded'
  BY <1>3, <1>4, <1>5 DEF TimelyInv, AttemptsBounded, TypeOK
<1>14. RowsInOrder'
  BY <1>4, <1>5, <1>6, <1>10 DEF TimelyInv, RowsInOrder
<1> QED BY <1>11, <1>12, <1>13, <1>14 DEF TimelyInv

\* The reaper finds only rows whose process is gone; a process that ends takes
\* its calls with it.
LEMMA TimelyProcess ==
  ASSUME TypeOK, TimelyInv, NEW w \in Workers, Process(w)
  PROVE  TimelyInv'
<1>1. CASE Claim(w)
  BY <1>1, TimelyClaim
<1>2. CASE Crash(w) \/ Exit(w)
  <2>1. UNCHANGED rowVars /\ \A s \in Slots : run'[s] = run[s] \/ run'[s] = Idle
    BY <1>2 DEF Crash, Exit, Vanish
  <2>2. ExclusiveRun'
    BY <2>1 DEF TimelyInv, ExclusiveRun, Holds
  <2>3. CallsAreCurrent'
    BY <2>1 DEF TimelyInv, CallsAreCurrent, OwnsRow, Unaware, IsIdle, rowVars
  <2>4. AttemptsBounded' /\ RowsInOrder'
    BY <2>1 DEF TimelyInv, AttemptsBounded, RowsInOrder, rowVars
  <2> QED
    BY <2>2, <2>3, <2>4 DEF TimelyInv
<1>3. CASE Shutdown(w) \/ Start(w)
  BY <1>3 DEF Shutdown, Start, TimelyInv, CallsAreCurrent, RowsInOrder, ExclusiveRun, AttemptsBounded, OwnsRow, Unaware,
              Holds, IsIdle, rowVars
<1> QED BY <1>1, <1>2, <1>3 DEF Process

LEMMA TimelyReap == ASSUME TypeOK, TimelyInv, Reap PROVE TimelyInv'
<1>1. \A s \in Slots : run[s] # Idle => run[s].job \in Jobs \ Stuck
  BY DEF TimelyInv, CallsAreCurrent, OwnsRow, Unaware, Stuck, IsIdle, TypeOK, Call
<1>2. \A j \in Jobs \ Stuck : /\ status'[j] = status[j] /\ lockedBy'[j] = lockedBy[j]
                             /\ expired'[j] = expired[j]
  BY DEF Reap, ReapRows
<1>3. UNCHANGED <<run, attempts>>
  BY DEF Reap, ReapRows, workerVars
<1>4. ASSUME NEW j \in Stuck
      PROVE  /\ j \in Jobs
             /\ status'[j] = "dead" \/ (status'[j] = "failed" /\ attempts[j] < MaxAttempts[j])
             /\ ~expired'[j]
  <2>1. j \in Jobs
    BY DEF Stuck
  <2>2. status'[j] = IF attempts[j] >= MaxAttempts[j] THEN "dead" ELSE "failed"
    BY <2>1 DEF Reap, ReapRows
  <2>3. ~expired'[j]
    BY <2>1 DEF Reap, ReapRows
  <2> QED BY <2>1, <2>2, <2>3, RowAssumption DEF TypeOK
<1>5. RowsInOrder'
  <2> SUFFICES ASSUME NEW j \in Jobs
               PROVE  /\ status'[j] = "none" => attempts'[j] = 0
                      /\ status'[j] \in {"queued", "failed"} => attempts'[j] < MaxAttempts[j]
                      /\ expired'[j] => status'[j] = "running"
    BY DEF RowsInOrder
  <2>1. CASE j \in Stuck
    BY <1>3, <1>4, <2>1
  <2>2. CASE j \notin Stuck
    BY <1>2, <1>3, <2>2 DEF TimelyInv, RowsInOrder
  <2> QED BY <2>1, <2>2
<1>6. ExclusiveRun'
  BY <1>3 DEF TimelyInv, ExclusiveRun, Holds
<1>7. CallsAreCurrent'
  BY <1>1, <1>2, <1>3 DEF TimelyInv, CallsAreCurrent, OwnsRow, Unaware, IsIdle
<1>8. AttemptsBounded'
  BY <1>3 DEF TimelyInv, AttemptsBounded
<1> QED
  BY <1>5, <1>6, <1>7, <1>8 DEF TimelyInv

LEMMA TimelyNext == ~LateAnswers /\ TypeOK /\ TimelyInv /\ [Next]_vars => TimelyInv'
<1> SUFFICES ASSUME ~LateAnswers, TypeOK, TimelyInv, [Next]_vars PROVE TimelyInv'
  OBVIOUS
<1>1. CASE UNCHANGED vars
  BY <1>1 DEF vars, rowVars, workerVars, TimelyInv, CallsAreCurrent, RowsInOrder,
              ExclusiveRun, AttemptsBounded, OwnsRow, Unaware, Holds, IsIdle
<1> QED
  BY <1>1, TimelyRow, TimelyProcessJob, TimelyProcess, TimelyReap DEF Next

LEMMA TimelyInit == Init => TimelyInv
  BY RowAssumption DEF Init, TimelyInv, CallsAreCurrent, RowsInOrder, ExclusiveRun, AttemptsBounded, Holds, IsIdle

\* With timely answers TimelyInv is an invariant of the queue.
LEMMA TimelyHolds == ~LateAnswers => (Spec => []TimelyInv)
<1> SUFFICES ASSUME ~LateAnswers PROVE Spec => []TimelyInv
  OBVIOUS
<1>1. TypeOK /\ TimelyInv /\ [Next]_vars => TimelyInv'
  BY TimelyNext
<1> QED
  BY <1>1, TimelyInit, TypeCorrect, PTL DEF Spec

\* With timely answers there are never two processJob calls for one row, in one
\* worker or in two, across reaping, retries and restarts.
THEOREM OneAttemptAtATime == ~LateAnswers => (Spec => []ExclusiveRun)
<1>1. TimelyInv => ExclusiveRun
  BY DEF TimelyInv
<1> QED
  BY <1>1, TimelyHolds, PTL

\* With timely answers no row is claimed more than max_attempts times between two
\* retries by an operator.
THEOREM AttemptsStayBounded == ~LateAnswers => (Spec => []AttemptsBounded)
<1>1. TimelyInv => AttemptsBounded
  BY DEF TimelyInv
<1> QED
  BY <1>1, TimelyHolds, PTL

-----------------------------------------------------------------------------
(***************************************************************************)
(* The refinement.  A step of the queue moves phase, key, ran and unheard as *)
(* one action of DurableQueue does, or leaves the four alone.              *)
(***************************************************************************)
LEMMA SameUnheard ==
  ASSUME \A j \in Jobs : status'[j] = "succeeded" <=> status[j] = "succeeded",
         \A j \in Jobs : status[j] = "succeeded"
                           => \A s \in Slots : Holds(s, j)' <=> Holds(s, j)
  PROVE  unheard' = unheard
  BY DEF unheard

LEMMA PhaseUnchanged ==
  ASSUME status' = status, key' = key, ran' = ran, run' = run
  PROVE  UNCHANGED Durable!vars
<1>1. unheard' = unheard
  BY SameUnheard DEF Holds
<1> QED BY <1>1 DEF Durable!vars, phase

LEMMA KeyFreeFromIndex ==
  ASSUME TypeOK, NEW j \in Jobs, NEW k, IndexAllows(j, k)
  PROVE  Durable!KeyFree(j, k)
  BY DEF IndexAllows, Durable!KeyFree, phase, Live, TypeOK, Status

LEMMA RefineRow ==
  ASSUME TypeOK, NEW j \in Jobs, Row(j)
  PROVE  [Durable!Next]_(Durable!vars)
<1>0. unheard' = unheard
  BY SameUnheard
     DEF Row, Enqueue, BecomeDue, LockExpires, RetryDeadJob, TypeOK, Holds, workerVars
<1>1. ASSUME NEW k \in Keys \cup {NoKey}, Enqueue(j, k) PROVE Durable!Accept(j, k)
  <2>1. status' = [status EXCEPT ![j] = "queued"] /\ status[j] = "none"
    BY <1>1 DEF Enqueue
  <2>2. phase[j] = "none" /\ phase' = [phase EXCEPT ![j] = "pending"]
    BY <2>1 DEF phase, Live, TypeOK
  <2> QED BY <1>0, <1>1, <2>2, KeyFreeFromIndex DEF Enqueue, Durable!Accept
<1>2. ASSUME RetryDeadJob(j) PROVE Durable!Revive(j)
  <2>1. status' = [status EXCEPT ![j] = "queued"] /\ status[j] = "dead"
    BY <1>2 DEF RetryDeadJob
  <2>2. phase[j] = "dead" /\ phase' = [phase EXCEPT ![j] = "pending"]
    BY <2>1 DEF phase, Live, TypeOK
  <2>3. Durable!KeyFree(j, key[j])
    BY <1>2, KeyFreeFromIndex DEF RetryDeadJob
  <2> QED BY <1>0, <1>2, <2>2, <2>3 DEF RetryDeadJob, Durable!Revive
<1>3. ASSUME BecomeDue(j) \/ LockExpires(j) PROVE UNCHANGED Durable!vars
  BY <1>3, PhaseUnchanged DEF BecomeDue, LockExpires, workerVars
<1> QED BY <1>1, <1>2, <1>3 DEF Row, Durable!Next

\* A call works on one row, alone: its row is unheard of exactly when the success
\* is recorded, and the other rows do not notice what it does.
LEMMA CallsAlone ==
  ASSUME TypeOK, TimelyInv, NEW s \in Slots, ~IsIdle(s)
  PROVE  /\ run[s] \in Call /\ run[s].job \in Jobs
         /\ OwnsRow(s) \/ Unaware(s)
         /\ \A t \in Slots \ {s} : ~Holds(t, run[s].job)
         /\ run[s].job \in unheard <=> Unaware(s)
<1>1. run[s] \in Call /\ run[s].job \in Jobs /\ Holds(s, run[s].job)
  BY DEF TypeOK, IsIdle, Call, Holds
<1>2. OwnsRow(s) \/ Unaware(s)
  BY DEF TimelyInv, CallsAreCurrent
<1>3. \A t \in Slots \ {s} : ~Holds(t, run[s].job)
  BY <1>1 DEF TimelyInv, ExclusiveRun
<1>4. run[s].job \in unheard <=> Unaware(s)
  BY <1>1, <1>2 DEF unheard, OwnsRow, Unaware
<1> QED BY <1>1, <1>2, <1>3, <1>4

\* The call ends: its row is heard of, or no longer done.
LEMMA CallEnds ==
  ASSUME TypeOK, TimelyInv, NEW s \in Slots, ~IsIdle(s), Release(s),
         \A i \in Jobs \ {run[s].job} : status'[i] = status[i]
  PROVE  unheard' = unheard \ {run[s].job}
<1>1. \A t \in Slots \ {s} : run'[t] = run[t] /\ ~Holds(t, run[s].job)
  BY CallsAlone DEF Release, TypeOK
<1>2. run'[s] = Idle
  BY DEF Release, TypeOK
<1>3. run[s].job \notin unheard'
  BY <1>1, <1>2 DEF unheard, Holds
<1>4. \A i \in Jobs \ {run[s].job} : \A t \in Slots : Holds(t, i)' <=> Holds(t, i)
  BY <1>1, <1>2 DEF Holds
<1> QED BY <1>3, <1>4 DEF unheard

LEMMA RefineProcessJob ==
  ASSUME TypeOK, TimelyInv, ReportsMeanRan, NEW s \in Slots, ProcessJob(s)
  PROVE  [Durable!Next]_(Durable!vars)
<1> DEFINE j == run[s].job
<1>0. /\ ~IsIdle(s) /\ run[s] \in Call /\ j \in Jobs
      /\ OwnsRow(s) \/ Unaware(s)
      /\ \A t \in Slots \ {s} : ~Holds(t, j)
      /\ j \in unheard <=> Unaware(s)
  <2>1. ~IsIdle(s)
    BY DEF ProcessJob, HandlerEnds, CompleteJob, CompleteThrows, FailJob, FailThrows, Answering
  <2> QED BY <2>1, CallsAlone
<1>1. /\ OwnsRow(s) => status[j] = "running" /\ phase[j] = "pending"
      /\ Unaware(s) => status[j] = "succeeded" /\ phase[j] = "done"
  BY <1>0 DEF OwnsRow, Unaware, phase, Live
<1>2. ASSUME NEW o \in {"returned", "threw", "gave_up"}, HandlerEnds(s, o)
      PROVE  Durable!Execute(j) \/ UNCHANGED Durable!vars
  <2>1. OwnsRow(s) /\ UNCHANGED <<status, key>>
    BY <1>0, <1>2 DEF HandlerEnds, Unaware, rowVars
  <2>2. phase' = phase
    BY <2>1 DEF phase
  <2>3. \A i \in Jobs \ {j} : \A t \in Slots : Holds(t, i)' <=> Holds(t, i)
    BY <1>0, <1>2 DEF HandlerEnds, Holds, IsIdle, TypeOK, Call
  <2>4. unheard' = unheard
    BY <1>1, <2>1, <2>3, SameUnheard
  <2> QED BY <1>0, <1>1, <1>2, <2>1, <2>2, <2>4 DEF HandlerEnds, Durable!Execute, Durable!vars
<1>3. ASSUME CompleteJob(s) PROVE Durable!Finish(j)
  <2>1. OwnsRow(s) /\ RecordSuccess(j)
    BY <1>0, <1>3 DEF CompleteJob, Answering, Unaware
  <2>2. phase' = [phase EXCEPT ![j] = "done"]
    BY <1>0, <2>1 DEF RecordSuccess, phase, Live, TypeOK
  <2>3. j \in ran
    BY <1>3 DEF CompleteJob, Answering, ReportsMeanRan
  <2>4. unheard' = unheard
    <3>1. unheard' = unheard \ {j}
      BY <1>0, <1>3, <2>1, CallEnds DEF CompleteJob, RecordSuccess, TypeOK
    <3>2. j \notin unheard
      BY <1>0, <1>3 DEF CompleteJob, Answering, Unaware
    <3> QED BY <3>1, <3>2
  <2> QED BY <1>1, <1>3, <2>1, <2>2, <2>3, <2>4 DEF CompleteJob, RecordSuccess, Durable!Finish
<1>4. ASSUME CompleteThrows(s) PROVE Durable!Finish(j) \/ UNCHANGED Durable!vars
  <2>1. OwnsRow(s) /\ j \in ran /\ ran' = ran
    BY <1>0, <1>4 DEF CompleteThrows, Answering, Unaware, ReportsMeanRan
  <2>2. \A i \in Jobs : \A t \in Slots : Holds(t, i)' <=> Holds(t, i)
    <3>1. run'[s] \in Call /\ run'[s].job = j
      BY <1>0, <1>4 DEF CompleteThrows, TypeOK, Call
    <3>2. run'[s] # Idle
      BY <3>1, WorkerAssumption
    <3>3. \A t \in Slots \ {s} : run'[t] = run[t]
      BY <1>4 DEF CompleteThrows, TypeOK
    <3> QED BY <1>0, <3>1, <3>2, <3>3 DEF Holds, IsIdle
  <2>3. CASE UNCHANGED rowVars
    <3>1. unheard' = unheard
      BY <2>2, <2>3, SameUnheard DEF rowVars
    <3> QED BY <2>1, <2>3, <3>1 DEF rowVars, Durable!vars, phase
  <2>4. CASE RecordSuccess(j)
    <3>1. phase' = [phase EXCEPT ![j] = "done"]
      BY <1>0, <2>4 DEF RecordSuccess, phase, Live, TypeOK
    <3>2. unheard' = unheard \cup {j}
      <4>1. Holds(s, j)
        BY <1>0 DEF Holds, IsIdle
      <4>2. \A i \in Jobs : status'[i] = IF i = j THEN "succeeded" ELSE status[i]
        BY <1>0, <2>4 DEF RecordSuccess, TypeOK
      <4> QED BY <1>0, <2>2, <4>1, <4>2 DEF unheard
    <3> QED BY <1>1, <2>1, <2>4, <3>1, <3>2 DEF RecordSuccess, Durable!Finish
  <2> QED BY <1>4, <2>3, <2>4 DEF CompleteThrows
<1>5. ASSUME FailJob(s)
      PROVE  Durable!Bury({j}) \/ Durable!Undo(j) \/ UNCHANGED Durable!vars
  <2>1. /\ key' = key /\ ran' = ran
        /\ status' = [status EXCEPT ![j] = IF Exhausted(s) THEN "dead" ELSE "failed"]
    BY <1>5 DEF FailJob
  <2>2. unheard' = unheard \ {j}
    BY <1>0, <1>5, <2>1, CallEnds DEF FailJob, TypeOK
  <2>3. phase' = [phase EXCEPT ![j] = IF Exhausted(s) THEN "dead" ELSE "pending"]
    BY <1>0, <2>1 DEF phase, Live, TypeOK
  <2>4. CASE Unaware(s)
    <3>1. Exhausted(s) \/ Durable!KeyFree(j, key[j])
      BY <1>0, <1>5, KeyFreeFromIndex DEF FailJob
    <3> QED BY <1>0, <1>1, <2>1, <2>2, <2>3, <2>4, <3>1 DEF Durable!Undo
  <2>5. CASE ~Unaware(s)
    <3>1. unheard' = unheard /\ phase[j] = "pending"
      BY <1>0, <1>1, <2>2, <2>5
    <3>2. CASE Exhausted(s)
      <4>1. phase' = [i \in Jobs |-> IF i \in {j} THEN "dead" ELSE phase[i]]
        BY <2>3, <3>2 DEF phase
      <4> QED BY <2>1, <3>1, <4>1 DEF Durable!Bury
    <3>3. CASE ~Exhausted(s)
      <4>1. phase' = phase
        BY <2>3, <3>1, <3>3 DEF phase
      <4> QED BY <2>1, <3>1, <4>1 DEF Durable!vars
    <3> QED BY <3>2, <3>3
  <2> QED BY <2>4, <2>5
<1>6. ASSUME FailThrows(s) PROVE Durable!Subside({j})
  <2>1. UNCHANGED <<status, key, ran>>
    BY <1>6 DEF FailThrows, rowVars
  <2>2. unheard' = unheard \ {j}
    BY <1>0, <1>6, <2>1, CallEnds DEF FailThrows
  <2> QED BY <2>1, <2>2 DEF phase, Durable!Subside
<1> QED BY <1>0, <1>2, <1>3, <1>4, <1>5, <1>6 DEF ProcessJob, Durable!Next

LEMMA RefineProcess ==
  ASSUME TypeOK, NEW w \in Workers, Process(w)
  PROVE  [Durable!Next]_(Durable!vars)
<1>1. ASSUME Claim(w) PROVE UNCHANGED Durable!vars
  <2>1. PICK taken \in SUBSET FreeSlots(w) :
          \E jobOf \in [taken -> Claimable] : ClaimBatch(w, taken, jobOf)
    BY <1>1 DEF Claim
  <2>2. PICK jobOf \in [taken -> Claimable] : ClaimBatch(w, taken, jobOf)
    BY <2>1
  <2>3. \A i \in {jobOf[s] : s \in taken} : i \in Jobs /\ status[i] \in Live \ {"running"}
    BY DEF Claimable, Live
  <2>4. \A i \in Jobs : status'[i] = status[i] \/ (status[i] \in Live /\ status'[i] \in Live)
    BY <2>2, <2>3 DEF ClaimBatch, Live
  <2>5. phase' = phase
    BY <2>4 DEF phase
  <2>6. \A i \in Jobs : status[i] = "succeeded"
          => \A s \in Slots : Holds(s, i)' <=> Holds(s, i)
    <3> SUFFICES ASSUME NEW i \in Jobs, status[i] = "succeeded", NEW s \in Slots
                 PROVE  Holds(s, i)' <=> Holds(s, i)
      OBVIOUS
    <3>1. CASE s \in taken
      <4>1. ~Holds(s, i)
        BY <3>1 DEF FreeSlots, IsIdle, Holds
      <4>2. run'[s].job = jobOf[s] /\ jobOf[s] # i
        BY <2>2, <2>3, <3>1 DEF ClaimBatch, Live
      <4> QED BY <4>1, <4>2 DEF Holds
    <3>2. CASE s \notin taken
      BY <2>2, <3>2 DEF ClaimBatch, Holds
    <3> QED BY <3>1, <3>2
  <2>7. unheard' = unheard
    BY <2>4, <2>6, SameUnheard DEF Live
  <2> QED BY <1>1, <2>5, <2>7 DEF Claim, Durable!vars
<1>2. ASSUME Crash(w) \/ Exit(w) PROVE \E S \in SUBSET Jobs : Durable!Subside(S)
  <2>1. /\ UNCHANGED <<status, key, ran>>
        /\ \A s \in Slots : run'[s] = run[s] \/ run'[s] = Idle
    BY <1>2 DEF Crash, Exit, Vanish, rowVars
  <2>2. unheard' \subseteq unheard /\ unheard \subseteq Jobs
    BY <2>1 DEF unheard, Holds
  <2>3. Durable!Subside(unheard \ unheard')
    BY <2>1, <2>2 DEF phase, Durable!Subside
  <2> QED BY <2>2, <2>3
<1>3. ASSUME Shutdown(w) \/ Start(w) PROVE UNCHANGED Durable!vars
  BY <1>3, PhaseUnchanged DEF Shutdown, Start, rowVars
<1> QED BY <1>1, <1>2, <1>3 DEF Process, Durable!Next

LEMMA RefineReap ==
  ASSUME TypeOK, Reap
  PROVE  [Durable!Next]_(Durable!vars)
<1> DEFINE S == {j \in Stuck : attempts[j] >= MaxAttempts[j]}
<1>1. S \subseteq Jobs /\ \A j \in S : phase[j] = "pending"
  BY DEF Stuck, phase, Live
<1>2. phase' = [j \in Jobs |-> IF j \in S THEN "dead" ELSE phase[j]]
  <2>1. \A j \in Jobs : phase'[j] = IF j \in S THEN "dead" ELSE phase[j]
    BY DEF Reap, ReapRows, Stuck, phase, Live
  <2> QED BY <2>1 DEF phase
<1>3. unheard' = unheard
  BY SameUnheard DEF Reap, ReapRows, Stuck, Holds, workerVars
<1>4. Durable!Bury(S)
  BY <1>1, <1>2, <1>3 DEF Reap, ReapRows, Durable!Bury
<1> QED BY <1>1, <1>4 DEF Durable!Next

\* With timely answers every behaviour of the queue is one DurableQueue allows: a
\* succeeded job comes back only by the worker that was not told of its success, and
\* a dead one only through an operator.
THEOREM QueueIsDurable == ~LateAnswers => (Spec => ImplementsDurableQueue)
<1> SUFFICES ASSUME ~LateAnswers PROVE Spec => ImplementsDurableQueue
  OBVIOUS
<1>1. Init => Durable!Init
  BY DEF Init, Durable!Init, phase, unheard, Live
<1>2. TypeOK /\ TimelyInv /\ ReportsMeanRan /\ [Next]_vars => [Durable!Next]_(Durable!vars)
  <2> SUFFICES ASSUME TypeOK, TimelyInv, ReportsMeanRan, [Next]_vars
               PROVE  [Durable!Next]_(Durable!vars)
    OBVIOUS
  <2>1. CASE UNCHANGED vars
    BY <2>1, PhaseUnchanged DEF vars, rowVars, workerVars
  <2> QED
    BY <2>1, RefineRow, RefineProcessJob, RefineProcess, RefineReap DEF Next
<1>3. Init => ReportsMeanRan
  BY DEF Init, ReportsMeanRan, SucceededMeansRan, IsIdle
<1>4. TypeOK /\ TimelyInv /\ [Next]_vars => TimelyInv'
  BY TimelyNext
<1> QED
  BY <1>1, <1>2, <1>3, <1>4, TimelyInit, ReportsNext, TypeCorrect, PTL
     DEF Spec, ImplementsDurableQueue, Durable!Spec

-----------------------------------------------------------------------------
LEMMA LockedNext == TypeOK /\ LockedWhileRunning /\ [Next]_vars => LockedWhileRunning'
<1> SUFFICES ASSUME TypeOK, LockedWhileRunning, [Next]_vars PROVE LockedWhileRunning'
  OBVIOUS
<1> USE WorkerAssumption DEF LockedWhileRunning, TypeOK, rowVars, workerVars
<1>1. ASSUME NEW j \in Jobs, Row(j) PROVE LockedWhileRunning'
  BY <1>1 DEF Row, Enqueue, BecomeDue, LockExpires, RetryDeadJob
<1>2. ASSUME NEW s \in Slots, ProcessJob(s) PROVE LockedWhileRunning'
  <2>1. CASE CompleteJob(s) \/ CompleteThrows(s)
    BY <2>1 DEF CompleteJob, CompleteThrows, RecordSuccess
  <2>2. CASE FailJob(s)
    BY <2>2 DEF FailJob
  <2>3. CASE FailThrows(s) \/ \E o \in {"returned", "threw", "gave_up"} : HandlerEnds(s, o)
    BY <2>3 DEF FailThrows, HandlerEnds
  <2> QED BY <1>2, <2>1, <2>2, <2>3 DEF ProcessJob
<1>3. ASSUME NEW w \in Workers, Claim(w) PROVE LockedWhileRunning'
  <2>1. PICK taken \in SUBSET FreeSlots(w) :
          \E jobOf \in [taken -> Claimable] : ClaimBatch(w, taken, jobOf)
    BY <1>3 DEF Claim
  <2>2. PICK jobOf \in [taken -> Claimable] : ClaimBatch(w, taken, jobOf)
    BY <2>1
  <2> QED BY <2>2 DEF ClaimBatch
<1>4. ASSUME NEW w \in Workers, Crash(w) \/ Shutdown(w) \/ Exit(w) \/ Start(w)
      PROVE LockedWhileRunning'
  BY <1>4 DEF Crash, Shutdown, Exit, Start
<1>5. CASE Reap
  BY <1>5 DEF Reap, ReapRows, Stuck
<1>6. CASE UNCHANGED vars
  BY <1>6 DEF vars
<1> QED BY <1>1, <1>2, <1>3, <1>4, <1>5, <1>6 DEF Next, Process

\* A running row always names its worker and no other row does, whether or not
\* answers are timely.
THEOREM LocksMatch == Spec => []LockedWhileRunning
<1>1. Init => LockedWhileRunning
  BY DEF Init, LockedWhileRunning
<1> QED
  BY <1>1, LockedNext, TypeCorrect, PTL DEF Spec

-----------------------------------------------------------------------------
\* A row becomes succeeded only in completeJob, whose where clause asks for the
\* owner; that completeJob answers is the code of processJob.
LEMMA OwnerStep ==
  ASSUME TypeOK, [Next]_vars, NEW j \in Jobs, status[j] # "succeeded", status'[j] = "succeeded"
  PROVE  \E s \in Slots : Holds(s, j) /\ Host[s] = lockedBy[j] /\ run[s].pc = "returned"
<1> USE DEF TypeOK, rowVars
<1>1. ASSUME NEW i \in Jobs, Row(i) PROVE FALSE
  BY <1>1 DEF Row, Enqueue, BecomeDue, LockExpires, RetryDeadJob
<1>2. ASSUME NEW s \in Slots, ProcessJob(s)
      PROVE Holds(s, j) /\ Host[s] = lockedBy[j] /\ run[s].pc = "returned"
  <2>1. CASE CompleteJob(s) \/ CompleteThrows(s)
    <3>1. OwnsRow(s) /\ RecordSuccess(run[s].job) /\ run[s] # Idle /\ run[s].pc = "returned"
      BY <2>1 DEF CompleteJob, CompleteThrows, Answering, IsIdle
    <3>2. j = run[s].job
      BY <3>1 DEF RecordSuccess
    <3> QED BY <3>1, <3>2 DEF OwnsRow, Holds
  <2>2. CASE FailJob(s)
    BY <2>2 DEF FailJob
  <2>3. CASE FailThrows(s) \/ \E o \in {"returned", "threw", "gave_up"} : HandlerEnds(s, o)
    BY <2>3 DEF FailThrows, HandlerEnds
  <2> QED BY <1>2, <2>1, <2>2, <2>3 DEF ProcessJob
<1>3. ASSUME NEW w \in Workers, Process(w) PROVE FALSE
  <2>1. CASE Claim(w)
    BY <2>1 DEF Claim, ClaimBatch
  <2>2. CASE Crash(w) \/ Shutdown(w) \/ Exit(w) \/ Start(w)
    BY <2>2 DEF Crash, Shutdown, Exit, Start
  <2> QED BY <1>3, <2>1, <2>2 DEF Process
<1>4. CASE Reap
  BY <1>4 DEF Reap, ReapRows
<1>5. CASE UNCHANGED vars
  BY <1>5 DEF vars
<1> QED BY <1>1, <1>2, <1>3, <1>4, <1>5 DEF Next

\* A result is accepted only from the worker that holds the row's claim at that
\* moment, late answers or not.
THEOREM ResultsComeFromTheOwner == Spec => ResultFromOwner
<1> DEFINE A == \A j \in Jobs :
       (status[j] # "succeeded" /\ status'[j] = "succeeded")
         => \E s \in Slots : Holds(s, j) /\ Host[s] = lockedBy[j] /\ run[s].pc = "returned"
<1>1. TypeOK /\ [Next]_vars => [A]_vars
  BY OwnerStep
<1> QED
  BY <1>1, TypeCorrect, PTL DEF Spec, ResultFromOwner

-----------------------------------------------------------------------------
(***************************************************************************)
(* The schedules.  One pending run each follows from the unique index once *)
(* a row that came from a schedule is known to carry the schedule's key.   *)
(***************************************************************************)
SourceKeyed ==
  \A j \in Jobs : source[j] \notin {Reaper, NoSchedule} =>
                     source[j] \in Keys /\ key[j] = source[j]

\* What the induction needs of the scheduler's own variables.
SchedTyped ==
  /\ TypeOK
  /\ source \in [Jobs -> Schedules \cup {NoSchedule}]

SchedInv == SchedTyped /\ DedupeUnique /\ SourceKeyed

\* Every step of the scheduler is a step of the queue and leaves the rows' sources
\* alone, but for the insert of a tick, the reaper's handler and Forget.
LEMMA SchedStepKinds ==
  ASSUME [SchedNext]_allVars
  PROVE  \/ [Next]_vars /\ source' = source /\ key' = key
         \/ \E j \in Jobs, c \in Schedules :
              Enqueue(j, DedupeKey(c)) /\ source' = [source EXCEPT ![j] = c]
         \/ \E s \in Slots : ReaperReturns(s)
         \/ \E j \in Jobs : Forget(j)
<1> USE DEF schedVars
<1>1. ASSUME NEW c \in Schedules, ComesDue(c) PROVE UNCHANGED <<vars, source>>
  BY <1>1 DEF ComesDue
<1>2. ASSUME NEW w \in Workers, TickSelect(w) \/ TickThrows(w) PROVE UNCHANGED <<vars, source>>
  BY <1>2 DEF TickSelect, TickThrows
<1>3. ASSUME NEW w \in Workers, NEW c \in Schedules, TickEnqueue(w, c)
      PROVE  \/ UNCHANGED <<vars, source>>
             \/ \E j \in Jobs : Enqueue(j, DedupeKey(c)) /\ source' = [source EXCEPT ![j] = c]
  BY <1>3 DEF TickEnqueue
<1>4. ASSUME NEW w \in Workers, LoopClaim(w) PROVE Next /\ source' = source /\ key' = key
  BY <1>4 DEF LoopClaim, Next, Process, Claim
<1>5. ASSUME NEW w \in Workers, SchedProcess(w) PROVE Next /\ source' = source /\ key' = key
  BY <1>5 DEF SchedProcess, Next, Process, Crash, Exit, Shutdown, Start, rowVars
<1>6. ASSUME NEW s \in Slots, SchedProcessJob(s) PROVE Next /\ source' = source /\ key' = key
  BY <1>6 DEF SchedProcessJob, Next, ProcessJob, HandlerEnds, CompleteJob, CompleteThrows,
              FailJob, FailThrows, RecordSuccess, rowVars
<1>7. ASSUME NEW j \in Jobs, SchedRow(j) PROVE Next /\ source' = source /\ key' = key
  BY <1>7 DEF SchedRow, Next, Row, BecomeDue, LockExpires
<1>8. CASE UNCHANGED allVars
  BY <1>8 DEF allVars, vars, rowVars
<1>9. UNCHANGED vars => key' = key
  BY DEF vars, rowVars
<1> QED
  BY <1>1, <1>2, <1>3, <1>4, <1>5, <1>6, <1>7, <1>8, <1>9 DEF SchedNext

LEMMA SchedStep == SchedInv /\ [SchedNext]_allVars => SchedInv'
<1> SUFFICES ASSUME SchedInv, [SchedNext]_allVars PROVE SchedInv'
  OBVIOUS
<1> USE ScheduleAssumption DEF SchedInv, SchedTyped
<1>1. CASE [Next]_vars /\ source' = source /\ key' = key
  BY <1>1, TypeNext, DedupeNext DEF SourceKeyed
<1>2. ASSUME NEW j \in Jobs, NEW c \in Schedules, Enqueue(j, DedupeKey(c)),
             source' = [source EXCEPT ![j] = c]
      PROVE  SchedInv'
  <2>1. DedupeKey(c) \in Keys \cup {NoKey}
    BY DEF DedupeKey
  <2>2. Next
    BY <1>2, <2>1 DEF Next, Row
  <2>3. key' = [key EXCEPT ![j] = DedupeKey(c)]
    BY <1>2 DEF Enqueue
  <2>4. SourceKeyed'
    BY <1>2, <2>3 DEF SourceKeyed, TypeOK, DedupeKey
  <2> QED BY <1>2, <2>2, <2>4, TypeNext, DedupeNext
<1>3. ASSUME NEW s \in Slots, ReaperReturns(s) PROVE SchedInv'
  <2>1. run[s] \in Call
    BY <1>3 DEF ReaperReturns, Answering, IsIdle, TypeOK
  <2>2. run' \in [Slots -> Call \cup {Idle}] /\ ran' \in SUBSET Jobs
    BY <1>3, <2>1 DEF ReaperReturns, TypeOK, Call
  <2>3. TypeOK'
    BY <1>3, <2>2 DEF ReaperReturns, ReapRows, TypeOK, Status
  <2>4. DedupeUnique'
    BY <1>3, NoNewLiveRow DEF ReaperReturns, ReapRows, Stuck, Live
  <2> QED BY <1>3, <2>3, <2>4 DEF ReaperReturns, ReapRows, schedVars, SourceKeyed
<1>4. ASSUME NEW j \in Jobs, Forget(j) PROVE SchedInv'
  <2>1. TypeOK'
    BY <1>4 DEF Forget, Forgettable, TypeOK, Status, workerVars
  <2>2. \A i \in Jobs : status'[i] \in Live => i # j /\ status[i] \in Live /\ key'[i] = key[i]
    BY <1>4 DEF Forget, Forgettable, TypeOK, Live
  <2>3. DedupeUnique'
    BY <2>2 DEF DedupeUnique
  <2>4. source' \in [Jobs -> Schedules \cup {NoSchedule}] /\ SourceKeyed'
    BY <1>4 DEF Forget, Forgettable, SourceKeyed, TypeOK
  <2> QED BY <2>1, <2>3, <2>4
<1> QED
  BY <1>1, <1>2, <1>3, <1>4, SchedStepKinds

\* A schedule other than the reaper has at most one pending run: what the index
\* promises of keys is a promise about schedules, whatever ticks, crashes and
\* corpses of killed workers are in the way.
THEOREM SchedulesRunOnce == SchedSpec => []OneRunPerSchedule
<1>1. SchedInit => SchedInv
  BY TypeInit, ScheduleAssumption
     DEF SchedInit, SchedInv, SchedTyped, Init, DedupeUnique, Live, SourceKeyed
<1>2. SchedInv => OneRunPerSchedule
  BY RowAssumption
     DEF SchedInv, SchedTyped, DedupeUnique, SourceKeyed, OneRunPerSchedule
<1> QED
  BY <1>1, <1>2, SchedStep, PTL DEF SchedSpec
=============================================================================
