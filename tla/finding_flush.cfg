SPECIFICATION Spec
CONSTANTS
  QueueLength = 2
  MaxStops = 2
INVARIANTS
  StopFlushes
