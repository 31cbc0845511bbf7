SPECIFICATION FairSpec
CONSTANTS
  QueueLength = 2
  MaxStops = 2
INVARIANTS
  StopKept
  StopFlushesItsInterface
  CommandsGenuine
PROPERTIES
  StopServed
