CONSTANTS
  r1 = r1  r2 = r2  p1 = p1  p2 = p2
  Reqs <- MCReqs
  Pids <- MCPids
  None = None
  Levels = {2}
  NSlots = 3
  MaxIOs = 2
SPECIFICATION Spec
INVARIANTS ChargedToOwner CountedOnce
PROPERTY ChargesGetExported
CHECK_DEADLOCK FALSE
