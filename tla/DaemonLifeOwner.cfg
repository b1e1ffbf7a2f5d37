SPECIFICATION Spec
CONSTANTS
  Clients = {c1, c2}
  Ops = {"start", "kill", "shutdown"}
  MaxDaemons = 3
  IDLE_TICKS = 1
  MayCrash = TRUE
SYMMETRY ClientSymmetry
INVARIANTS
  TypeOK
  OneOwner
  ServingIsReached
