SPECIFICATION Spec
CONSTANTS
  PagesPerSector = 2
  MaxSequence = 3
  MaxCount = 2
  MaxDamage = 1
INVARIANTS
  FlushSaved
