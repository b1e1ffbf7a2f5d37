SPECIFICATION FairSpec
CONSTANTS
  web = web
  db = db
  Sessions = {s1}
  Services = {web, db}
  Batches <- One
  Threads = {t1, t2}
  Ops = {"start", "kill_session", "shutdown"}
  MaxPanes = 2
  NoSession = NoSession
PROPERTIES
  Answered
  ReapedInTheEnd
CHECK_DEADLOCK FALSE
