CONSTANTS
  MaxPanes = 2
  MaxPtys = 2
  MaxSessions = 1
  MaxStarts = 1
  MaxOpen = 1
  Races = {"unmount"}
SPECIFICATION Spec
INVARIANT NoSessionLost
CHECK_DEADLOCK FALSE
