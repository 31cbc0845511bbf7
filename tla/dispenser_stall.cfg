SPECIFICATION Spec
CONSTANTS
  DriverPresent = TRUE
  MicrostepLen = 2
  VelocityUnit = 2
  AgeCap = 4
  CountMod = 8
  Commands <- StallCommands
  Configs <- StallConfigs
  DefaultConfig <- StallConfig
  CalLevels <- Levels
  CalSamples = 1
  ButtonInputs <- NoContact
  SgSamples <- LightOrHeavy
  Overtemps <- Cold
  Elapsed <- Tick
  ConflictHold = 2
  XBound = 5
  MaxGlitches = 0
  MaxBoots = 1
INVARIANTS
  StallCaught
  TimedMotion
PROPERTIES
  StallCountFresh
  CalibrationNeverStalls
