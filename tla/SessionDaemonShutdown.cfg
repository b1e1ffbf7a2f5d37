SPECIFICATION Spec
CONSTANTS
  web = web
  db = db
  Sessions = {s1, s2}
  Services = {web, db}
  Batches <- OneOrTwo
  Threads = {t1, t2}
  Ops = {"start", "split", "kill_pane", "kill_session", "shutdown"}
  MaxPanes = 2
  NoSession = NoSession
SYMMETRY ThreadAndSessionSymmetry
INVARIANTS
  SessionsHoldPanes
  SweptClean
PROPERTIES
  OnlyOwnPanesLeave
CHECK_DEADLOCK FALSE
