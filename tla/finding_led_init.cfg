SPECIFICATION LedSpec
CONSTANTS
  SlowMs = 20
  FastMs = 4
  Period = 1
INVARIANTS
  LedLitAlways
