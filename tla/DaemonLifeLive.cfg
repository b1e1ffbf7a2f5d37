SPECIFICATION FairSpec
CONSTANTS
  Clients = {c1, c2}
  Ops = {"start", "kill", "shutdown"}
  MaxDaemons = 1
  IDLE_TICKS = 1
  MayCrash = FALSE
PROPERTIES
  RequestsEnd
  RetiringEnds
  IdleEnds
