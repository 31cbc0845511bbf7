SPECIFICATION FairSpec
CONSTANTS
  DriverPresent = TRUE
  MicrostepLen = 2
  VelocityUnit = 2
  AgeCap = 3
  CountMod = 8
  Commands <- MotionCommands
  Configs <- MotionConfigs
  DefaultConfig <- MotionConfig
  CalLevels <- NoLevels
  CalSamples = 1
  ButtonInputs <- NoContact
  SgSamples <- Calm
  Overtemps <- Cold
  Elapsed <- Ticks
  ConflictHold = 2
  XBound = 3
  MaxGlitches = 0
  MaxBoots = 1
INVARIANTS
  NoUncommandedMotion
  DoseFits
  LedFollows
PROPERTIES
  UnloadHonest
  MotionEnds
  CountSaved
