SPECIFICATION Spec
CONSTANTS
  DriverPresent = FALSE
  MicrostepLen = 2
  VelocityUnit = 2
  AgeCap = 3
  CountMod = 8
  Commands <- AckCommands
  Configs <- OneConfig
  DefaultConfig <- BaseConfig
  CalLevels <- NoLevels
  CalSamples = 1
  ButtonInputs <- NoContact
  SgSamples <- Calm
  Overtemps <- Cold
  Elapsed <- Tick
  ConflictHold = 2
  XBound = 5
  MaxGlitches = 0
  MaxBoots = 1
INVARIANTS
  FaultRedetected
