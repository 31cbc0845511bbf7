SPECIFICATION PanelSpec
CONSTANTS
  Contacts = {"push"}
  DebounceMs = 3
  ClockMod = 8
  Periods = {1, 2, 4}
  SlowMs = 20
  FastMs = 4
  Period = 1
INVARIANTS
  Reported
  LedLit
PROPERTIES
  Filtered
  LedAlive
