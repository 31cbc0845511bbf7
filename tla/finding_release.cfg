SPECIFICATION Spec
CONSTANTS
  DriverPresent = TRUE
  MicrostepLen = 2
  VelocityUnit = 2
  AgeCap = 3
  CountMod = 8
  Commands <- NoCommands
  Configs <- OneConfig
  DefaultConfig <- BaseConfig
  CalLevels <- NoLevels
  CalSamples = 1
  ButtonInputs <- PushContact
  SgSamples <- Calm
  Overtemps <- Cold
  Elapsed <- Tick
  ConflictHold = 2
  XBound = 5
  MaxGlitches = 0
  MaxBoots = 1
INVARIANTS
  ReleaseStops
