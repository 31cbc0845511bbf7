SPECIFICATION Spec
CONSTANTS
  DriverPresent = TRUE
  MicrostepLen = 2
  VelocityUnit = 2
  AgeCap = 2
  CountMod = 8
  Commands <- ContactCommands
  Configs <- ShortConfigs
  DefaultConfig <- ShortConfig
  CalLevels <- NoLevels
  CalSamples = 1
  ButtonInputs <- Contacts
  SgSamples <- Calm
  Overtemps <- Cold
  Elapsed <- Tick
  ConflictHold = 2
  XBound = 3
  MaxGlitches = 0
  MaxBoots = 2
INVARIANTS
  ConflictStops
