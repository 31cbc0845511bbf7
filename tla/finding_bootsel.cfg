SPECIFICATION ServiceSpec
CONSTANTS
  Values <- MCValues
  Valid <- MCValid
  Default <- Defaults
  NoValue = NoValue
  MaxSequence = 1
  Lines <- MCLines
  QueueLength = 1
INVARIANTS
  BootselUsbOnly
