SPECIFICATION ServiceSpec
CONSTANTS
  Values <- MCValues
  Valid <- MCValid
  Default <- Defaults
  NoValue = NoValue
  MaxSequence = 4
  Lines <- MCLines
  QueueLength = 1
INVARIANTS
  RunsOnSaved
  CommandOfItsLine
  RestartsReady
PROPERTIES
  CellSpec
  SetExact
