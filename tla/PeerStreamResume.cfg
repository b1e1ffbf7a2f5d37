SPECIFICATION Spec
CONSTANTS
  MaxChunks = 5
  MaxToggles = 2
  MaxUp = 2
  MaxWire = 2
  RING_CAP = 3
  SEED_CAP = 2
  OUT_QUEUE = 2
  MayReload = TRUE
  MayDrop = TRUE
INVARIANTS
  TypeOK
  ResumableMeansWhole
  NeverTwice
CHECK_DEADLOCK FALSE
