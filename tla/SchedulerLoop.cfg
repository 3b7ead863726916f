SPECIFICATION FairSpec
CONSTANTS
  Names = {a}
  Entries = {e1, e2}
  Loop = Loop
  Callers = {}
  Interval = 1
  Limit = 1
  Idle = 2
  MaxTime = 2
  Workers = {w1, w2}
  Nil = Nil
INVARIANTS SleepCovers OneShotOnce
PROPERTIES DueJobRuns CancelEndsStart
CHECK_DEADLOCK FALSE
