SPECIFICATION StoppingSpec
CONSTANTS
  Callers = {c1, c2}
  Hooks = {h1, h2, h3}
  Names = {a, b}
  Bounded = TRUE
  Nil = Nil
  MaxRequests = 2
  MaxJobs = 2
  Probes = {n1, n2}
  Deps = {d1}
  Checks = {k1}
INVARIANTS LostByName LastInFirstOut NilMeansAllClosed DoneMeansAllStarted ReportsAreTrue
PROPERTIES ShutdownReturns SignalEndsRun
CHECK_DEADLOCK FALSE
