SPECIFICATION FairSpec
CONSTANTS
  Jobs = {j1, j2}
  Flushers = {f}
  Closers = {c}
  Workers = 2
  QueueSize = 1
  Tokens = {format, grammar}
  Values = {1, 2}
  MaxLives = 2
  None = None
INVARIANTS WaitsReport SidecarsVouchUnlessHalfClear TempsInUse
PROPERTIES CloseReturns
CHECK_DEADLOCK FALSE
