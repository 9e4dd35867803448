SPECIFICATION Spec
CONSTANTS
  j1 = j1  j2 = j2  w1 = w1  w2 = w2  s1 = s1  s2 = s2
  Jobs = {j1, j2}
  Keys = {k1}
  NoKey = NoKey
  Workers = {w1, w2}
  NoWorker = NoWorker
  Slots = {s1, s2}
  Host <- MCHostApart
  Idle = Idle
  MaxAttempts <- MCMaxAttempts
  Priority <- MCPriority
  LateAnswers = TRUE
  AttemptCap = 3
  MaxRestarts = 0
  MaxRevivals = 0
INVARIANT AttemptsBounded
CHECK_DEADLOCK FALSE
