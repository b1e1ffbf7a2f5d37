CONSTANTS
  MaxPanes = 2
  MaxPtys = 2
  MaxSessions = 1
  MaxStarts = 1
  MaxOpen = 2
  Races = {}
SPECIFICATION Spec
INVARIANTS
  TypeOK
  FocusThere
  NoOrphan
  InOnePlace
  NoSessionLost
  UndoIsExact
CHECK_DEADLOCK FALSE
