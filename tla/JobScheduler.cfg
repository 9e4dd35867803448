SPECIFICATION FairSchedSpec
CONSTANTS
  Jobs = {j1, j2, j3}
  Keys = {reap, sweep}
  NoKey = NoKey
  Workers = {w1}
  NoWorker = NoWorker
  Slots = {s1}
  Host <- OneHost
  Idle = Idle
  MaxAttempts <- OneTry
  Priority <- SamePriority
  LateAnswers = FALSE
  AttemptCap = 2
  MaxRestarts = 1
  MaxRevivals = 0
  Schedules = {reap, sweep}
  Reaper = reap
  NoSchedule = NoSchedule
INVARIANT OneRunPerSchedule
PROPERTIES StuckIsReleased SchedulesKeepRunning
