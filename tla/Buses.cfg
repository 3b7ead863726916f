SPECIFICATION BusesSpec
CONSTANTS
  Subs = {s1}
  Publishers = {p1, p2}
  BufferSizes = {1, 2}
  MaxPublishes = 2
  SyncPublishers = {q1, q2}
  MaxID = 3
  QueueSize = 2
  RingCap = 2
  MaxEvents = 5
INVARIANTS StrandedBound CloseWaitsForEarly NoneLost
PROPERTIES OrderKept CloseEndsUnlessLate PublishEnds QuitEnds
CHECK_DEADLOCK FALSE
