SPECIFICATION StoresSpec
CONSTANTS
  Keys = {k1, k2}
  Values = {v1}
  Callers = {c1}
  TTLs = {0, 1}
  MaxTime = 2
  Absent = Absent
  Requests = {r1, r2}
  Kids = {i1, i2}
  KeyTTL = 1
  Interval = 0
  TTL = 2
  Patience = 1
  LastTick = 5
  MaxVersion = 1
  Never = Never
  None = None
  Writers = {w1, w2}
  MaxWrites = 2
  Rows = {1, 2, 3, 4}
  Sizes = {0, 1, 2, 9, None}
  Default = 0
  Cap = 2
  MaxChanges = 2
  Spans = {s1, s2}
  MaxSets = 2
  MaxEnds = 2
  Names = {a, b}
  Contents = {x, y}
  Depth = 2
  Dir = Dir
  Versions = {1, 3}
  MaxKeys = 3
PROPERTIES ImplementsStore StandInsAreFaithful NothingStale NothingIsMixedUp
SYMMETRY AnyRequest
CHECK_DEADLOCK FALSE
