SPECIFICATION Spec
CONSTANTS
  web = web
  db = db
  Sessions = {s1}
  Services = {web, db}
  Batches <- MCBatches
  Threads = {t1, t2}
  Ops = {"start", "split", "send", "kill_pane"}
  MaxPanes = 3
  NoSession = NoSession
SYMMETRY ThreadSymmetry
INVARIANTS
  TypeOK
  NoLeak
  ListedNotClosed
  WaitedMeansReaped
  RollbackComplete
CHECK_DEADLOCK FALSE
