SPECIFICATION Spec
CONSTANTS
  DriverPresent = TRUE
  MicrostepLen = 2
  VelocityUnit = 2
  AgeCap = 3
  CountMod = 8
  Commands <- ManualCommands
  Configs <- OneConfig
  DefaultConfig <- BaseConfig
  CalLevels <- NoLevels
  CalSamples = 1
  ButtonInputs <- NoContact
  SgSamples <- Calm
  Overtemps <- HotOrCold
  Elapsed <- Tick
  ConflictHold = 2
  XBound = 5
  MaxGlitches = 1
  MaxBoots = 1
INVARIANTS
  LedTellsMotion
