SPECIFICATION LiveSpec
CONSTANTS
  Dials = {h1, h2}
  Conns = {c1, c2}
  MAX_GUESTS = 1
  MaxJoins = 1
  MaxDrops = 1
  MayForget = TRUE
  NoDial = NoDial
  NoConn = NoConn
INVARIANTS
  TypeOK
  NoGuestStranded
  NothingKeptForGood
  HostKnowsGuests
PROPERTIES
  ComesBack
CHECK_DEADLOCK FALSE
