---------------------------- MODULE JobScheduler ----------------------------
(***************************************************************************)
(* The recurring schedules on top of the job queue: tickScheduler of       *)
(* src/jobs/runner.ts promotes rows of ocs.job_schedules into jobs, and the *)
(* reaper that frees the queue's stuck rows is itself such a job.  The      *)
(* table has no end, this model's set of rows has one: Forget makes a       *)
(* settled row available again, and a tick waits until there are rows for   *)
(* it (RoomFor).  Only schedules enqueue here.                              *)
(***************************************************************************)
EXTENDS JobQueue, FiniteSets

CONSTANTS
  Schedules,  \* names of the rows of ocs.job_schedules, all enabled
  Reaper,     \* the schedule of job type system.reap_stuck_jobs
  NoSchedule  \* the source of a row not in use

ASSUME ScheduleAssumption ==
  /\ Reaper \in Schedules
  /\ NoSchedule \notin Schedules
  /\ Schedules \subseteq Keys

VARIABLES
  fireAt,  \* the schedules with next_run_at <= now()
  ticked,  \* ticked[w]: schedules promoted by w and not yet enqueued
  source   \* source[j]: the schedule row j came from, if it is in use

schedVars == <<fireAt, ticked, source>>
allVars == <<vars, schedVars>>

SchedInit ==
  /\ Init
  /\ fireAt = {}
  /\ ticked = [w \in Workers |-> {}]
  /\ source = [j \in Jobs |-> NoSchedule]

ComesDue(c) ==
  /\ c \notin fireAt
  /\ fireAt' = fireAt \cup {c}
  /\ UNCHANGED <<vars, ticked, source>>

\* Mutant of DedupeKey: the reaper is no exception.
DedupeAll(c) == c

\* Mutant of DedupeKey: no schedule has a key.
DedupeNone(c) == NoKey

\* One pending run per schedule at a time, except the reaper.
DedupeKey(c) == IF c = Reaper THEN NoKey ELSE c

\* Would the insert for schedule c go ahead rather than do nothing?
Inserts(c) ==
  LET k == DedupeKey(c)
  IN k = NoKey \/ \A i \in Jobs : status[i] \in Live => key[i] # k

\* Bound: the rows left in the model.
RoomFor(S) ==
  Cardinality({j \in Jobs : status[j] = "none"}) >= Cardinality({c \in S : Inserts(c)})

\* The row an insert makes: which one does not matter.
NewRow(j) == status[j] = "none" /\ j = CHOOSE i \in Jobs : status[i] = "none"

\* First transaction of tickScheduler: next_run_at advances for every due row.
TickSelect(w) ==
  /\ mode[w] = "up"
  /\ ticked[w] = {}
  /\ fireAt # {}
  /\ RoomFor(fireAt)
  /\ ticked' = [ticked EXCEPT ![w] = fireAt]
  /\ fireAt' = {}
  /\ UNCHANGED <<vars, source>>

\* One of the transactions that follow, one per promoted schedule: a new row, or
\* nothing when the key is taken.
TickEnqueue(w, c) ==
  /\ c \in ticked[w]
  /\ \/ \E j \in Jobs :
          /\ NewRow(j)
          /\ Enqueue(j, DedupeKey(c))
          /\ due'[j]
          /\ source' = [source EXCEPT ![j] = c]
     \/ /\ ~Inserts(c)
        /\ UNCHANGED <<vars, source>>
  /\ ticked' = [ticked EXCEPT ![w] = @ \ {c}]
  /\ UNCHANGED fireAt

\* An enqueue throws: the polling loop catches it and drops the other promoted
\* schedules, whose next_run_at has already moved on.
TickThrows(w) ==
  /\ ticked[w] # {}
  /\ ticked' = [ticked EXCEPT ![w] = {}]
  /\ UNCHANGED <<vars, fireAt, source>>

\* The loop claims only after its tick is over.
LoopClaim(w) ==
  /\ ticked[w] = {}
  /\ Claim(w)
  /\ UNCHANGED schedVars

\* The handler of the reaper's job.
ReaperReturns(s) ==
  /\ Answering(s, {"handling"})
  /\ source[run[s].job] = Reaper
  /\ ReapRows
  /\ run' = [run EXCEPT ![s].pc = "returned"]
  /\ ran' = ran \cup {run[s].job}
  /\ UNCHANGED <<mode, restarts, revivals, schedVars>>

\* Any other step of a processJob call.  An answer that cannot be recorded at all
\* leaves a running row as a crash does; here only crashes, which are bounded, do.
SchedProcessJob(s) ==
  /\ \/ /\ ~IsIdle(s)
        /\ \E outcome \in {"returned", "threw"} :
             /\ HandlerEnds(s, outcome)
             /\ outcome = "returned" => source[run[s].job] # Reaper
     \/ CompleteJob(s)
     \/ CompleteThrows(s)
     \/ FailJob(s)
     \/ FailThrows(s) /\ status[run[s].job] # "running"
  /\ UNCHANGED schedVars

\* The end of a process also ends its tick.
SchedProcess(w) ==
  \/ Crash(w) /\ ticked' = [ticked EXCEPT ![w] = {}] /\ UNCHANGED <<fireAt, source>>
  \/ Exit(w) /\ ticked' = [ticked EXCEPT ![w] = {}] /\ UNCHANGED <<fireAt, source>>
  \/ (Shutdown(w) \/ Start(w)) /\ UNCHANGED schedVars

SchedRow(j) ==
  /\ BecomeDue(j) \/ LockExpires(j)
  /\ UNCHANGED schedVars

\* A settled row no call works on: nothing reads it any more.
Forgettable == {j \in Jobs : /\ source[j] # NoSchedule
                             /\ status[j] \in {"succeeded", "dead"}
                             /\ \A s \in Slots : ~Holds(s, j)}

Forget(j) ==
  /\ j \in Forgettable
  /\ status' = [status EXCEPT ![j] = "none"]
  /\ key' = [key EXCEPT ![j] = NoKey]
  /\ attempts' = [attempts EXCEPT ![j] = 0]
  /\ ran' = ran \ {j}
  /\ source' = [source EXCEPT ![j] = NoSchedule]
  /\ UNCHANGED <<lockedBy, due, expired, workerVars, revivals, fireAt, ticked>>

\* Forgetting goes first, which makes no difference to the other steps.
SchedNext ==
  \/ \E j \in Jobs : Forget(j)
  \/ /\ Forgettable = {}
     /\ \/ \E c \in Schedules : ComesDue(c)
        \/ \E w \in Workers :
             \/ TickSelect(w)
             \/ \E c \in Schedules : TickEnqueue(w, c)
             \/ TickThrows(w)
             \/ LoopClaim(w)
             \/ SchedProcess(w)
        \/ \E s \in Slots : ReaperReturns(s) \/ SchedProcessJob(s)
        \/ \E j \in Jobs : SchedRow(j)

SchedSpec == SchedInit /\ [][SchedNext]_allVars

\* A claim that takes row j.
ClaimsRow(j) == \E w \in Workers : LoopClaim(w) /\ status[j] # "running" /\ status'[j] = "running"

\* Schedules come due again and again; a tick eventually gets its enqueue
\* through; the reaper's handler eventually returns, not always throws; claims
\* are ordered by run_at, so a row that is claimable again and again is claimed.
SchedFairness ==
  /\ \A c \in Schedules : WF_allVars(ComesDue(c))
  /\ \A w \in Workers :
       /\ WF_allVars(TickSelect(w))
       /\ \A c \in Schedules : SF_allVars(TickEnqueue(w, c))
       /\ WF_allVars(Exit(w) /\ SchedProcess(w))
       /\ WF_allVars(Start(w) /\ SchedProcess(w))
  /\ \A s \in Slots : SF_allVars(ReaperReturns(s)) /\ WF_allVars(SchedProcessJob(s))
  /\ \A j \in Jobs :
       /\ SF_allVars(ClaimsRow(j))
       /\ WF_allVars(BecomeDue(j) /\ SchedRow(j))
       /\ WF_allVars(LockExpires(j) /\ SchedRow(j))
       /\ WF_allVars(Forget(j))

FairSchedSpec == SchedSpec /\ SchedFairness

-----------------------------------------------------------------------------
\* A schedule other than the reaper has at most one pending run, even when its
\* run is a corpse left by a killed worker.
OneRunPerSchedule ==
  \A i, j \in Jobs :
    (source[i] = source[j] /\ source[i] \notin {Reaper, NoSchedule}
       /\ status[i] \in Live /\ status[j] \in Live) => i = j

\* No row stays in "running" for ever: what a killed worker left behind is always
\* released, also when it was killed while running the reaper itself.
StuckIsReleased == \A j \in Jobs : []<>(status[j] # "running")

\* Background processing never stops: a worker runs every schedule's handler
\* again and again, whatever a killed worker left behind.
SchedulesKeepRunning ==
  \A c \in Schedules : []<>(\E s \in Slots : ~IsIdle(s) /\ source[run[s].job] = c)

-----------------------------------------------------------------------------
\* The smallest instance: one worker, each run tried once.
OneTry == [j \in Jobs |-> 1]
SamePriority == [j \in Jobs |-> 100]
OneHost == [s \in Slots |-> CHOOSE w \in Workers : TRUE]
=============================================================================
