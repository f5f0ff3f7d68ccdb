CONSTANTS
  x1 = x1  x2 = x2
  Exporters <- MCOneExporter
  ChanCap = 2
  MaxEvents = 3
SPECIFICATION Spec
INVARIANT BatchesIntact
CHECK_DEADLOCK FALSE
