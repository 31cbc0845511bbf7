SPECIFICATION Spec
CONSTANTS
  DriverPresent = TRUE
  MicrostepLen = 2
  VelocityUnit = 2
  AgeCap = 2
  CountMod = 8
  Commands <- FaultCommands
  Configs <- ShortConfigs
  DefaultConfig <- ShortConfig
  CalLevels <- NoLevels
  CalSamples = 1
  ButtonInputs <- NoContact
  SgSamples <- Calm
  Overtemps <- HotOrCold
  Elapsed <- Tick
  ConflictHold = 2
  XBound = 3
  MaxGlitches = 1
  MaxBoots = 2
INVARIANTS
  FaultConsistent
  DirectionMatchesState
PROPERTIES
  AxisSpec
  LimitsHeld
  EndsAtRest
CHECK_DEADLOCK FALSE
