CONSTANTS
  n1 = n1  n2 = n2
  Names <- MCNames
  None = None
  MayFail = TRUE
  MaxWrites = 1
  MaxReplaces = 1
SPECIFICATION Spec
INVARIANTS DeliveredOrPending
PROPERTY LatestReachesCollectors
CHECK_DEADLOCK FALSE
