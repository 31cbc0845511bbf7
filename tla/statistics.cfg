SPECIFICATION Spec
CONSTANTS
  PagesPerSector = 2
  MaxSequence = 6
  MaxCount = 1
  MaxDamage = 2
INVARIANTS
  UniqueNumbers
  DamageHeals
PROPERTIES
  CountSpec
