------------------------------ MODULE JobQueue ------------------------------
(***************************************************************************)
(* The Postgres job queue (src/jobs/queue.ts) and the worker processes     *)
(* that drain it (processJob, loop and stopWorker of src/jobs/runner.ts).  *)
(*                                                                         *)
(* Every queue operation is one READ COMMITTED transaction with a single   *)
(* statement, so each is one atomic step.  What is not atomic, and is the  *)
(* point of the model, is the life of one attempt: claim, run the handler, *)
(* record the answer.  Between those steps the reaper, an operator, another *)
(* worker or a crash may change the row.                                   *)
(*                                                                         *)
(* Time is abstracted to the two comparisons the SQL makes with now():     *)
(* due[j] is run_at <= now(), expired[j] is locked_at < now() - timeout.   *)
(* The rows are those of one named queue.                                  *)
(***************************************************************************)
EXTENDS Integers

CONSTANTS
  Jobs,          \* ids of the rows of ocs.jobs this instance can insert
  Keys,          \* dedupe keys
  NoKey,         \* dedupe_key is null
  Workers,       \* worker processes
  NoWorker,      \* locked_by is null
  Slots,         \* processJob calls that can be in flight, over all workers
  Host,          \* Host[s]: the worker slot s belongs to
  Idle,          \* a slot with no processJob call in it
  MaxAttempts,   \* max_attempts of each row
  Priority,      \* priority of each row, lower first
  LateAnswers,   \* may a worker's answer arrive after its claim was released?
  AttemptCap,    \* bound: attempts on one row
  MaxRestarts,   \* bound: crashes and deploys of worker processes
  MaxRevivals    \* bound: retries of dead jobs by an operator

\* One processJob call: the JobRow it was given and how far it has got.
Call == [job : Jobs, attempt : Nat, pc : {"handling", "returned", "threw", "gave_up"}]

ASSUME RowAssumption ==
  /\ MaxAttempts \in [Jobs -> Nat \ {0}]
  /\ Priority \in [Jobs -> Int]
  /\ NoKey \notin Keys

ASSUME WorkerAssumption ==
  /\ Host \in [Slots -> Workers]
  /\ NoWorker \notin Workers
  /\ Idle \notin Call

ASSUME BoundAssumption ==
  /\ LateAnswers \in BOOLEAN
  /\ AttemptCap \in Nat
  /\ \A j \in Jobs : MaxAttempts[j] < AttemptCap
  /\ MaxRestarts \in Nat
  /\ MaxRevivals \in Nat

VARIABLES
  status,     \* status[j], "none" before the row is inserted
  key,        \* key[j]: dedupe_key
  attempts,   \* attempts[j]
  lockedBy,   \* lockedBy[j]: locked_by
  due,        \* due[j]: a waiting row whose run_at has passed
  expired,    \* expired[j]: a running row locked for longer than its timeout
  run,        \* run[s]: the processJob call in slot s
  mode,       \* mode[w]: the process is "up", "draining" (SIGTERM) or "down"
  ran,        \* history: the jobs a handler has run to its end
  restarts,   \* crashes and deploys so far
  revivals    \* operator retries so far

rowVars == <<status, key, attempts, lockedBy, due, expired>>
workerVars == <<run, mode, restarts>>
vars == <<rowVars, workerVars, ran, revivals>>

Status == {"none", "queued", "running", "succeeded", "failed", "dead"}

\* The statuses of the partial unique index jobs_dedupe_key.
Live == {"queued", "running", "failed"}

IsIdle(s) == run[s] = Idle

\* Slot s is working on job j.
Holds(s, j) == run[s] # Idle /\ run[s].job = j

-----------------------------------------------------------------------------
Init ==
  /\ status = [j \in Jobs |-> "none"]
  /\ key = [j \in Jobs |-> NoKey]
  /\ attempts = [j \in Jobs |-> 0]
  /\ lockedBy = [j \in Jobs |-> NoWorker]
  /\ due = [j \in Jobs |-> FALSE]
  /\ expired = [j \in Jobs |-> FALSE]
  /\ run = [s \in Slots |-> Idle]
  /\ mode = [w \in Workers |-> "up"]
  /\ ran = {}
  /\ restarts = 0
  /\ revivals = 0

\* Mutant of IndexAllows: the index leaves out the rows waiting for a retry.
IndexSkipsFailed(j, k) ==
  k = NoKey \/ \A i \in Jobs \ {j} : status[i] \in {"queued", "running"} => key[i] # k

\* The unique index: may row j hold key k with a live status?
IndexAllows(j, k) ==
  k = NoKey \/ \A i \in Jobs \ {j} : status[i] \in Live => key[i] # k

\* enqueue: a conflicting insert does nothing, so only the other one is a step.
\* run_at is now() or a later time.
Enqueue(j, k) ==
  /\ status[j] = "none"
  /\ IndexAllows(j, k)
  /\ status' = [status EXCEPT ![j] = "queued"]
  /\ key' = [key EXCEPT ![j] = k]
  /\ \E d \in BOOLEAN : due' = [due EXCEPT ![j] = d]
  /\ UNCHANGED <<attempts, lockedBy, expired, workerVars, ran, revivals>>

\* now() reaches run_at of a waiting row.
BecomeDue(j) ==
  /\ status[j] \in {"queued", "failed"}
  /\ ~due[j]
  /\ due' = [due EXCEPT ![j] = TRUE]
  /\ UNCHANGED <<status, key, attempts, lockedBy, expired, workerVars, ran, revivals>>

\* now() passes locked_at + timeout_seconds of a running row.  The worker's own
\* timer, set when the claim came back, fires at about the same moment: unless
\* LateAnswers, a live worker has recorded its answer by then.
LockExpires(j) ==
  /\ status[j] = "running"
  /\ ~expired[j]
  /\ LateAnswers \/ \A s \in Slots : ~Holds(s, j)
  /\ expired' = [expired EXCEPT ![j] = TRUE]
  /\ UNCHANGED <<status, key, attempts, lockedBy, due, workerVars, ran, revivals>>

-----------------------------------------------------------------------------
FreeSlots(w) == {s \in Slots : Host[s] = w /\ IsIdle(s)}

Claimable == {j \in Jobs : status[j] \in {"queued", "failed"} /\ due[j]}

\* claimJobs, and the loop that starts one processJob per claimed row: jobOf
\* assigns a claimed row to each slot taken.  The batch is as large as
\* the limit (the free slots) allows and takes the lowest priorities first.
ClaimBatch(w, taken, jobOf) ==
  LET batch == {jobOf[s] : s \in taken}
  IN /\ \A s, t \in taken : jobOf[s] = jobOf[t] => s = t
     /\ taken = FreeSlots(w) \/ batch = Claimable
     /\ \A j \in batch, k \in Claimable \ batch : Priority[j] <= Priority[k]
     /\ \A j \in batch : attempts[j] < AttemptCap
     /\ status' = [j \in Jobs |-> IF j \in batch THEN "running" ELSE status[j]]
     /\ attempts' = [j \in Jobs |-> IF j \in batch THEN attempts[j] + 1 ELSE attempts[j]]
     /\ lockedBy' = [j \in Jobs |-> IF j \in batch THEN w ELSE lockedBy[j]]
     /\ due' = [j \in Jobs |-> IF j \in batch THEN FALSE ELSE due[j]]
     /\ run' = [s \in Slots |->
                  IF s \in taken
                  THEN [job |-> jobOf[s], attempt |-> attempts[jobOf[s]] + 1, pc |-> "handling"]
                  ELSE run[s]]

Claim(w) ==
  /\ mode[w] = "up"
  /\ \E taken \in (SUBSET FreeSlots(w)) \ {{}} :
        \E jobOf \in [taken -> Claimable] : ClaimBatch(w, taken, jobOf)
  /\ UNCHANGED <<key, expired, mode, restarts, ran, revivals>>

\* The handler returns, throws (or the timer of runWithTimeout wins the race),
\* or throws a PermanentJobError.
HandlerEnds(s, outcome) ==
  /\ ~IsIdle(s)
  /\ run[s].pc = "handling"
  /\ run' = [run EXCEPT ![s].pc = outcome]
  /\ ran' = IF outcome = "returned" THEN ran \cup {run[s].job} ELSE ran
  /\ UNCHANGED <<rowVars, mode, restarts, revivals>>

\* Mutant of Release: inFlight is never decremented.
SlotLeaks(s) == run' = [run EXCEPT ![s].pc = "ended"]

Release(s) == run' = [run EXCEPT ![s] = Idle]

\* Mutant of OwnsRow: status is checked, locked_by is not.
OwnsAnyRow(s) == status[run[s].job] = "running"

\* The where clause of completeJob.
OwnsRow(s) == status[run[s].job] = "running" /\ lockedBy[run[s].job] = Host[s]

\* Mutant of RecordSuccess: locked_by survives.
SuccessKeepsLock(j) ==
  /\ status' = [status EXCEPT ![j] = "succeeded"]
  /\ UNCHANGED <<key, attempts, due, lockedBy, expired>>

\* The update of completeJob.
RecordSuccess(j) ==
  /\ status' = [status EXCEPT ![j] = "succeeded"]
  /\ lockedBy' = [lockedBy EXCEPT ![j] = NoWorker]
  /\ expired' = [expired EXCEPT ![j] = FALSE]
  /\ UNCHANGED <<key, attempts, due>>

\* Mutant of Answering: the handler is not awaited.
NotAwaited(s, pcs) == ~IsIdle(s)

Answering(s, pcs) == ~IsIdle(s) /\ run[s].pc \in pcs

CompleteJob(s) ==
  /\ Answering(s, {"returned"})
  /\ \/ OwnsRow(s) /\ RecordSuccess(run[s].job)
     \/ ~OwnsRow(s) /\ UNCHANGED rowVars
  /\ Release(s)
  /\ UNCHANGED <<mode, restarts, ran, revivals>>

\* completeJob throws: before its commit, or after a commit whose acknowledgement
\* was lost, however early the answer.  processJob treats both as a failure.
CompleteThrows(s) ==
  /\ Answering(s, {"returned"})
  /\ \/ UNCHANGED rowVars
     \/ OwnsRow(s) /\ RecordSuccess(run[s].job)
  /\ run' = [run EXCEPT ![s].pc = "threw"]
  /\ UNCHANGED <<mode, restarts, ran, revivals>>

\* Mutant of Exhausted: off by one.
ExhaustedLate(s) == run[s].pc = "gave_up" \/ run[s].attempt > MaxAttempts[run[s].job]

\* Exhausted is decided from the JobRow handed out by the claim.
Exhausted(s) == run[s].pc = "gave_up" \/ run[s].attempt >= MaxAttempts[run[s].job]

\* failJob: the update is by id alone, whatever the row's status or owner.
\* Making a row live again is refused by the unique index if its key is taken.
FailJob(s) ==
  /\ Answering(s, {"threw", "gave_up"})
  /\ LET j == run[s].job
     IN /\ Exhausted(s) \/ IndexAllows(j, key[j])
        /\ status' = [status EXCEPT ![j] = IF Exhausted(s) THEN "dead" ELSE "failed"]
        /\ lockedBy' = [lockedBy EXCEPT ![j] = NoWorker]
        /\ due' = [due EXCEPT ![j] = FALSE]
        /\ expired' = [expired EXCEPT ![j] = FALSE]
  /\ Release(s)
  /\ UNCHANGED <<key, attempts, mode, restarts, ran, revivals>>

\* failJob throws; processJob logs it and the row keeps its status.
FailThrows(s) ==
  /\ Answering(s, {"threw", "gave_up"})
  /\ Release(s)
  /\ UNCHANGED <<rowVars, mode, restarts, ran, revivals>>

-----------------------------------------------------------------------------
\* Mutant of Stuck: the timeout is forgotten.
AnyRunning == {j \in Jobs : status[j] = "running"}

\* Mutant of Stuck: only exhausted rows are taken.
StuckExhausted == {j \in Jobs : status[j] = "running" /\ expired[j] /\ attempts[j] >= MaxAttempts[j]}

Stuck == {j \in Jobs : status[j] = "running" /\ expired[j]}

\* reapStuckJobs: one update over every stuck row.
ReapRows ==
  /\ status' = [j \in Jobs |->
                  IF j \notin Stuck THEN status[j]
                  ELSE IF attempts[j] >= MaxAttempts[j] THEN "dead" ELSE "failed"]
  /\ lockedBy' = [j \in Jobs |-> IF j \in Stuck THEN NoWorker ELSE lockedBy[j]]
  /\ due' = [j \in Jobs |-> IF j \in Stuck THEN FALSE ELSE due[j]]
  /\ expired' = [j \in Jobs |-> IF j \in Stuck THEN FALSE ELSE expired[j]]
  /\ UNCHANGED <<key, attempts>>

Reap ==
  /\ Stuck # {}
  /\ ReapRows
  /\ UNCHANGED <<workerVars, ran, revivals>>

\* retryDeadJob and POST /api/admin/jobs/:id/retry.
RetryDeadJob(j) ==
  /\ status[j] = "dead"
  /\ IndexAllows(j, key[j])
  /\ revivals < MaxRevivals
  /\ revivals' = revivals + 1
  /\ status' = [status EXCEPT ![j] = "queued"]
  /\ attempts' = [attempts EXCEPT ![j] = 0]
  /\ due' = [due EXCEPT ![j] = TRUE]
  /\ UNCHANGED <<key, lockedBy, expired, workerVars, ran>>

-----------------------------------------------------------------------------
\* The process and every processJob call in it are gone.
Vanish(w) ==
  /\ run' = [s \in Slots |-> IF Host[s] = w THEN Idle ELSE run[s]]
  /\ mode' = [mode EXCEPT ![w] = "down"]

\* Killed: out of memory, host reclaim.
Crash(w) ==
  /\ mode[w] # "down"
  /\ restarts < MaxRestarts
  /\ restarts' = restarts + 1
  /\ Vanish(w)
  /\ UNCHANGED <<rowVars, ran, revivals>>

\* SIGTERM: stopWorker sets shuttingDown.  The step is the loop's next look at it.
Shutdown(w) ==
  /\ mode[w] = "up"
  /\ restarts < MaxRestarts
  /\ restarts' = restarts + 1
  /\ mode' = [mode EXCEPT ![w] = "draining"]
  /\ UNCHANGED <<rowVars, run, ran, revivals>>

\* The calls in flight are finished or the grace period is over.
Exit(w) ==
  /\ mode[w] = "draining"
  /\ Vanish(w)
  /\ UNCHANGED <<rowVars, restarts, ran, revivals>>

\* A replacement process.  It draws a fresh id; since none of the old process's
\* calls survive, no answer can confuse the two and the model reuses the name.
Start(w) ==
  /\ mode[w] = "down"
  /\ mode' = [mode EXCEPT ![w] = "up"]
  /\ UNCHANGED <<rowVars, run, restarts, ran, revivals>>

-----------------------------------------------------------------------------
ProcessJob(s) ==
  \/ \E outcome \in {"returned", "threw", "gave_up"} : HandlerEnds(s, outcome)
  \/ CompleteJob(s)
  \/ CompleteThrows(s)
  \/ FailJob(s)
  \/ FailThrows(s)

Process(w) == Claim(w) \/ Crash(w) \/ Shutdown(w) \/ Exit(w) \/ Start(w)

Row(j) ==
  \/ \E k \in Keys \cup {NoKey} : Enqueue(j, k)
  \/ BecomeDue(j)
  \/ LockExpires(j)
  \/ RetryDeadJob(j)

Next ==
  \/ \E j \in Jobs : Row(j)
  \/ \E s \in Slots : ProcessJob(s)
  \/ \E w \in Workers : Process(w)
  \/ Reap

Spec == Init /\ [][Next]_vars

\* Clocks advance, a handler ends (runWithTimeout bounds it), an ended call
\* records its answer, the polling loop claims, the reaper's schedule fires and
\* the platform restarts a process that is down.
Fairness ==
  /\ \A j \in Jobs : WF_vars(BecomeDue(j)) /\ WF_vars(LockExpires(j))
  /\ \A s \in Slots : WF_vars(ProcessJob(s))
  /\ \A w \in Workers : WF_vars(Claim(w)) /\ WF_vars(Exit(w)) /\ WF_vars(Start(w))
  /\ WF_vars(Reap)

FairSpec == Spec /\ Fairness

-----------------------------------------------------------------------------
\* Every variable has its type: rows, calls in flight and processes stay within the
\* values the columns and the worker can hold.
TypeOK ==
  /\ status \in [Jobs -> Status]
  /\ key \in [Jobs -> Keys \cup {NoKey}]
  /\ attempts \in [Jobs -> Nat]
  /\ lockedBy \in [Jobs -> Workers \cup {NoWorker}]
  /\ due \in [Jobs -> BOOLEAN]
  /\ expired \in [Jobs -> BOOLEAN]
  /\ run \in [Slots -> Call \cup {Idle}]
  /\ mode \in [Workers -> {"up", "draining", "down"}]
  /\ ran \in SUBSET Jobs
  /\ restarts \in Nat
  /\ revivals \in Nat

\* At most one live row per dedupe key, however enqueue, the failure of a
\* finished row and an operator's retry of a dead one interleave.
DedupeUnique ==
  \A i, j \in Jobs :
    (i # j /\ status[i] \in Live /\ status[j] \in Live /\ key[i] = key[j])
      => key[i] = NoKey

\* A row is reported as succeeded only after a handler ran to its end on it,
\* even when the answer was recorded, lost, and recorded again by another claim.
SucceededMeansRan == \A j \in Jobs : status[j] = "succeeded" => j \in ran

\* A running row always names the worker that must answer for it, so the reaper
\* or completeJob can always take it out of "running"; no other row is locked.
LockedWhileRunning == \A j \in Jobs : (status[j] = "running") <=> (lockedBy[j] # NoWorker)

\* completeJob: a result is accepted only from the worker that holds the row's
\* claim at that moment ("mark a job finished, but only if this worker still
\* owns it").
ResultFromOwner ==
  [][\A j \in Jobs :
       (status[j] # "succeeded" /\ status'[j] = "succeeded")
         => \E s \in Slots : Holds(s, j) /\ Host[s] = lockedBy[j] /\ run[s].pc = "returned"]_vars

\* The two below hold when answers are timely (LateAnswers = FALSE).

\* One attempt at a time: never two processJob calls for one row, in one worker
\* or in two, across reaping, retries and restarts.
ExclusiveRun ==
  \A s, t \in Slots : \A j \in Jobs : (Holds(s, j) /\ Holds(t, j)) => s = t

\* A row is never claimed more than max_attempts times without an operator:
\* "after max_attempts the job becomes dead rather than looping forever".
AttemptsBounded == \A j \in Jobs : attempts[j] <= MaxAttempts[j]

\* The worker of slot s does not know that its success is recorded.
Unaware(s) == status[run[s].job] = "succeeded" /\ run[s].pc = "threw"

\* A call in flight is the last attempt of its row: one that is running, that its
\* worker owns and that the reaper cannot see, or one whose success was recorded
\* and not acknowledged.
CallsAreCurrent ==
  \A s \in Slots : ~IsIdle(s) =>
    /\ OwnsRow(s) \/ Unaware(s)
    /\ run[s].attempt = attempts[run[s].job]
    /\ ~expired[run[s].job]

\* A row that can be claimed has an attempt left; only running rows expire.
RowsInOrder ==
  \A j \in Jobs :
    /\ status[j] = "none" => attempts[j] = 0
    /\ status[j] \in {"queued", "failed"} => attempts[j] < MaxAttempts[j]
    /\ expired[j] => status[j] = "running"

\* Why ExclusiveRun and AttemptsBounded hold: together with these two they are
\* inductive while answers are timely.
TimelyInv == CallsAreCurrent /\ ExclusiveRun /\ AttemptsBounded /\ RowsInOrder

\* Every job accepted, and every job put back, is settled in the end: it succeeds or
\* it is dead, where an operator can see it.  Nothing is dropped by a crash, a lost
\* answer or a failure that could not be recorded.
EventuallySettled ==
  \A j \in Jobs : status[j] \in Live ~> status[j] \in {"succeeded", "dead"}

-----------------------------------------------------------------------------
\* The refinement mapping: a live row is pending whatever its attempt is doing,
\* and a done one is unheard of while a call still works on it.
phase ==
  [j \in Jobs |->
     IF status[j] \in Live THEN "pending"
     ELSE IF status[j] = "succeeded" THEN "done" ELSE status[j]]

unheard == {j \in Jobs : status[j] = "succeeded" /\ \E s \in Slots : Holds(s, j)}

Durable == INSTANCE DurableQueue WITH
  phase <- phase, key <- key, ran <- ran, unheard <- unheard

\* With timely answers the queue, its workers and its reaper keep the promise of
\* DurableQueue: above all, a succeeded job comes back only by the one worker that
\* was not told of its success, and a dead one only through an operator.
ImplementsDurableQueue == Durable!Spec
=============================================================================
