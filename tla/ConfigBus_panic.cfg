CONSTANTS
  n1 = n1  n2 = n2
  Names <- MCNames
  None = None
  MayFail = TRUE
  MaxWrites = 1
  MaxReplaces = 0
SPECIFICATION Spec
INVARIANT NoPanic
CHECK_DEADLOCK FALSE
