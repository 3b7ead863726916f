SPECIFICATION Spec
CONSTANTS
  Names = {a}
  Entries = {e1}
  Loop = Loop
  Callers = {c}
  Interval = 1
  Limit = 1
  Idle = 2
  MaxTime = 3
  Workers = {w1, w2}
  Nil = Nil
INVARIANTS NoOverlap
CHECK_DEADLOCK FALSE
