SPECIFICATION Spec
CONSTANTS
  DriverPresent = TRUE
  MicrostepLen = 2
  VelocityUnit = 2
  AgeCap = 3
  CountMod = 8
  Commands <- CalCommands
  Configs <- NoFilterConfigs
  DefaultConfig <- NoFilterConfig
  CalLevels <- Levels
  CalSamples = 1
  ButtonInputs <- NoContact
  SgSamples <- Calm
  Overtemps <- Cold
  Elapsed <- Tick
  ConflictHold = 2
  XBound = 5
  MaxGlitches = 0
  MaxBoots = 1
INVARIANTS
  CalibrationSaved
