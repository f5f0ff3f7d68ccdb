CONSTANTS
  p1 = p1  p2 = p2
  Procs <- MCProcs
  NMaps = 2
  NProgs = 1
  AutoPin <- MCAutoPin
  Internal <- MCInternal
  MaxIds = 5
  MaxOpens = 3
  Users <- MCProcs
  Queues = {1, 2}
  MaxProgs = 2
  MaxCalls = 5
  MaxFds = 3
SYMMETRY MCSymmetry
SPECIFICATION MCSpec
INVARIANTS FdsAccounted PinnedIsThere ResourcesAccounted ReceiversAreServed LinksRun
PROPERTY FailuresUndoPins
CHECK_DEADLOCK FALSE
