SPECIFICATION FairSpec
CONSTANTS
  Callers = {c1, c2}
  Hooks = {h1, h2, h3}
  Names = {a, b}
  Bounded = TRUE
  Nil = Nil
INVARIANTS DeregisterRemoves
CHECK_DEADLOCK FALSE
