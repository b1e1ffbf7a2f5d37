SPECIFICATION LiveSpec
CONSTANTS
  Prompts = {p1}
  Terminals = {t1}
  Home <- OneHome
  WithImages = {p1}
  WhenDone = {p1}
  MaxOps = 0
  MaxFaults = 0
  MaxRestarts = 0
  MaxTurns = 1
  MaxCloses = 1
PROPERTIES
  DueGoesOut
  ClosedIsFiled
CHECK_DEADLOCK FALSE
