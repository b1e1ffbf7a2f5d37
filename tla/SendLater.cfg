SPECIFICATION Spec
CONSTANTS
  Prompts = {p1}
  Terminals = {t1}
  Home <- OneHome
  WithImages = {p1}
  WhenDone = {}
  MaxOps = 2
  MaxFaults = 2
  MaxRestarts = 1
  MaxTurns = 0
  MaxCloses = 0
INVARIANTS
  TypeOK
  ViewCatchesUp
  StaleNeverTyped
PROPERTIES
  Implements
CHECK_DEADLOCK FALSE
