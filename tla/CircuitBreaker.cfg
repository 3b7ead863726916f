SPECIFICATION FairSpec
CONSTANTS
  Callers = {c1, c2, c3}
  Resetters = {r}
  Threshold = 2
  Cooldown = 2
  Nobody = Nobody
INVARIANTS HalfOpenHasProbe ClosedBelowThreshold
PROPERTIES HalfOpenEnds OpenEnds
CHECK_DEADLOCK FALSE
