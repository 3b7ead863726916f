SPECIFICATION FairSpec
CONSTANTS
  Subs = {s1, s2}
  Publishers = {p1}
  BufferSizes = {1}
  MaxPublishes = 1
PROPERTIES CloseEnds
CHECK_DEADLOCK FALSE
