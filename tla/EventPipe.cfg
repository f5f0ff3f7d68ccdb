CONSTANTS
  x1 = x1  x2 = x2
  Exporters <- MCExporters
  ChanCap = 1
  MaxEvents = 3
SPECIFICATION Spec
INVARIANTS SentInOrder WrittenAsSent
PROPERTY EveryEventSent
CHECK_DEADLOCK FALSE
