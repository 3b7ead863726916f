SPECIFICATION LimitsSpec
CONSTANTS
  Callers = {c1, c2}
  Rate = 2
  Burst = 2
  PerToken = 3
  ShortNap = 2
  MaxTime = 4
  Groups = {g1, g2}
  Functions = {f1, f2, f3}
  Room = 1
  Procs = {p1, p2, p3}
  Most = 2
  Nobody = Nobody
  Policies <- SomePolicies
  Unset = Unset
  Engines = {e1, e2}
  Workers = {w1, w2}
  Latencies = {1, 2}
  MaxAnswers = 2
  MaxKeys = 3
  None = None
INVARIANTS WindowBound WaitsAreRight CountsAreRight
PROPERTIES ImplementsTokenBucket WaitsEnd
CHECK_DEADLOCK FALSE
