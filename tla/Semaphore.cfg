SPECIFICATION FairSpec
CONSTANTS
  Procs = {p1, p2, p3}
  Capacity = 2
  Sizes = {0, 1, 2, 3}
  NoProc = NoProc
INVARIANTS PermitsAccounted NoLostRelease
PROPERTIES ImplementsPool CancelReturns
