SPECIFICATION StallGuardSpec
CONSTANTS
  Setups <- MCSetups
  Thresholds <- MCThresholds
  Readings = {2, 78, 1024}
  MinSamples = 2
  MaxSamples = 3
  SumMod = 8192
CONSTRAINT CalibratedSetups
INVARIANTS
  SetupTaken
  NeverOnCleared
  SamplesMeasured
  CalibrationSound
