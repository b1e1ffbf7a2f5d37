------------------------ MODULE SessionDaemonProofs ------------------------
(***************************************************************************)
(* For every set of sessions, services, batches and threads and every      *)
(* bound on pane ids: SessionDaemon keeps its types, lists only panes it   *)
(* has not closed, forgets a session with its last pane, and loses no      *)
(* pane's processes.  The four are proved together, as parts of the        *)
(* inductive invariant IInv.                                               *)
(*                                                                         *)
(* Every step of a thread is shown to keep IInv by the same six arguments: *)
(* the types and the request served, the parts that keep the panes of      *)
(* different threads apart, the registry's keys, and, for a pane p left    *)
(* up or dying, who answers for it now.  The last is the heart: a thread   *)
(* changes what it holds and what is listed, nobody else's hands change    *)
(* (OwnedKept), and what leaves the one arrives in the other.              *)
(***************************************************************************)
EXTENDS SessionDaemon, TLAPS

USE DEF registry, batch, killing, life, Goto, CallTeardown, NoPane

\* What a request's fields are, by its op.
Fits(r) ==
  /\ r.op \in {"start", "split", "send", "kill_pane", "kill_session", "shutdown"}
  /\ r.op \in {"start", "split"} => r.session \in Sessions /\ r.panes \in Seq(Services)
  /\ r.op = "kill_session" => r.session \in Sessions
  /\ r.op \in {"send", "kill_pane"} => r.pane \in PaneIds

\* A member of Request has the fields its op calls for (sessionproto.rs).
LEMMA RequestTypes == ASSUME NEW r \in Request PROVE Fits(r)
BY BatchesAssumption DEF Request, Fits

\* A thread that reopens a pane names a pane.
LEMMA ReopenedIsPane ==
  ASSUME Served, NEW u \in Threads, pc[u] \in {"reopen", "replace"}
  PROVE  req[u].pane \in PaneIds
BY RequestTypes DEF Served, Fits

\* A pane somebody answers for stays answered for, when only t's hands and the
\* registry change and p does not fall between the two.
LEMMA OwnedKept ==
  ASSUME NEW t \in Threads, NEW p, Owned(p),
         \A u \in Threads \ {t} : Held(u)' = Held(u),
         p \in Held(t) \cup Listed => p \in Held(t)' \cup Listed'
  PROVE  Owned(p)'
BY DEF Owned

\* drop_pane forgets a session exactly when its last pane goes.
LEMMA DropKeepsSessions ==
  ASSUME NEW ps, TypeOK, SessionsHoldPanes, DropPanes(ps)
  PROVE  SessionsHoldPanes'
<1> SUFFICES ASSUME NEW s \in Sessions
             PROVE  s \in keys' <=> PanesOf(s)' # {}
  BY DEF SessionsHoldPanes
<1>1. s \in keys' <=> s \in keys /\ \E p \in PaneIds : home'[p] = s
  BY DEF DropPanes
<1>2. PanesOf(s)' # {} <=> \E p \in PaneIds : home'[p] = s
  BY DEF PanesOf
<1>3. \A p \in PaneIds : home'[p] = s => home[p] = s
  BY NoSessionAssumption DEF DropPanes
<1>4. s \in keys <=> \E p \in PaneIds : home[p] = s
  BY DEF SessionsHoldPanes, PanesOf
<1> QED BY <1>1, <1>2, <1>3, <1>4

\* take forgets the session with all of its panes, and no other.
LEMMA TakeKeepsSessions ==
  ASSUME NEW x \in Sessions, TypeOK, SessionsHoldPanes, Take(x)
  PROVE  SessionsHoldPanes'
<1> SUFFICES ASSUME NEW s \in Sessions
             PROVE  s \in keys' <=> PanesOf(s)' # {}
  BY DEF SessionsHoldPanes
<1>1. s \in keys' <=> s \in keys /\ s # x
  BY DEF Take
<1>2. \A p \in PaneIds : home'[p] = s <=> home[p] = s /\ s # x
  BY NoSessionAssumption DEF Take
<1>3. PanesOf(s)' # {} <=> PanesOf(s) # {} /\ s # x
  BY <1>2 DEF PanesOf
<1> QED BY <1>1, <1>3 DEF SessionsHoldPanes

\* replace puts the new pane where the old one was.
LEMMA ReplaceKeepsSessions ==
  ASSUME NEW old \in PaneIds, NEW p \in PaneIds, p # old, p \notin Listed,
         TypeOK, SessionsHoldPanes, Replace(old, p)
  PROVE  SessionsHoldPanes'
<1> SUFFICES ASSUME NEW s \in Sessions
             PROVE  s \in keys' <=> PanesOf(s)' # {}
  BY DEF SessionsHoldPanes
<1>1. \A q \in PaneIds : home'[q] = (IF q = old THEN NoSession
                                     ELSE IF q = p THEN home[old] ELSE home[q])
  BY DEF Replace, TypeOK
<1>2. (\E q \in PaneIds : home'[q] = s) <=> \E q \in PaneIds : home[q] = s
  <2>1. ASSUME NEW q \in PaneIds, home'[q] = s
        PROVE  \E z \in PaneIds : home[z] = s
    BY <1>1, <2>1, NoSessionAssumption
  <2>2. ASSUME NEW q \in PaneIds, home[q] = s
        PROVE  \E z \in PaneIds : home'[z] = s
    <3>1. q # p
      BY <2>2, NoSessionAssumption DEF Listed
    <3>2. CASE q = old
      BY <1>1, <2>2, <3>2
    <3>3. CASE q # old
      BY <1>1, <2>2, <3>1, <3>3
    <3> QED BY <3>2, <3>3
  <2> QED BY <2>1, <2>2
<1> QED BY <1>2 DEF SessionsHoldPanes, PanesOf, Replace

\* Reply ends a request whose thread holds nothing any more.
LEMMA ReplyStep ==
  ASSUME NEW t \in Threads, IInv, Reply(t)
  PROVE  IInv'
<1>1. req[t] \in Request /\ Fits(req[t])
  BY RequestTypes DEF Served, IInv, Reply
<1>3. TypeOK'
  BY <1>1, MaxPanesAssumption DEF IInv, TypeOK, Served, FreshApart, Fits,
     Reply, Listed, PaneIds, PCs, Trees
<1>4. Served'
  BY <1>1 DEF IInv, TypeOK, Served, Fits, Reply, PCs
<1>5. Undrawn'
  BY DEF IInv, TypeOK, Undrawn, Reply
<1>6. FreshApart'
  BY <1>1, NoSessionAssumption DEF IInv, TypeOK, Served, Fits, Undrawn,
     FreshApart, DoomedApart, Reply, Listed, PaneIds
<1>7. DoomedApart'
  BY <1>1, NoSessionAssumption DEF IInv, TypeOK, Served, Fits, Undrawn,
     FreshApart, DoomedApart, Reply, Listed, PaneIds
<1>8. ReopenedGone'
  BY <1>1, ReopenedIsPane DEF IInv, TypeOK, Served, Undrawn, ReopenedGone,
     ListedNotClosed, Reply, Listed, PaneIds
<1>9. ListedNotClosed'
  BY <1>1, NoSessionAssumption DEF IInv, TypeOK, Served, Fits, Undrawn,
     FreshApart, DoomedApart, ListedNotClosed, Reply, Listed, PaneIds
<1>10. SessionsHoldPanes'
  BY <1>1, NoSessionAssumption DEF IInv, TypeOK, Served, Fits, FreshApart,
     SessionsHoldPanes, PanesOf, Reply, Listed, PaneIds
<1>11. ASSUME NEW p \in PaneIds, tree'[p] = "up" PROVE Owned(p)'
  <2>1. \A u \in Threads \ {t} : Held(u)' = Held(u)
    BY DEF IInv, TypeOK, Held, Reply
  <2>2. CASE tree[p] = "up"
    <3>1. p \in Held(t) \cup Listed => p \in Held(t)' \cup Listed'
      BY <1>1, <2>2, NoSessionAssumption DEF IInv, TypeOK, Served, Fits,
         FreshApart, ReopenedGone, Held, Reply, Listed, PaneIds
    <3> QED
      BY <2>1, <2>2, <3>1, OwnedKept DEF IInv, NoLeak
  <2>3. CASE tree[p] # "up"
    BY <1>11, <2>3 DEF IInv, TypeOK, Held, Owned, Reply, Listed, PaneIds
  <2> QED BY <2>2, <2>3
<1>12. ASSUME NEW p \in PaneIds, tree'[p] = "dying" PROVE BeingReaped(p)'
  BY <1>12 DEF IInv, TypeOK, DoomedApart, NoLeak, BeingReaped, Reply, Listed,
     PaneIds
<1> QED
  BY <1>3, <1>4, <1>5, <1>6, <1>7, <1>8, <1>9, <1>10, <1>11, <1>12 DEF IInv,
     NoLeak

\* Snapshot: the panes handed to teardown stay in its hands; the living ones
\* are in the victims.
LEMMA SnapshotStep ==
  ASSUME NEW t \in Threads, IInv, Snapshot(t)
  PROVE  IInv'
<1>1. req[t] \in Request /\ Fits(req[t])
  BY RequestTypes DEF Served, IInv, Snapshot
<1>3. TypeOK'
  BY <1>1, MaxPanesAssumption DEF IInv, TypeOK, Served, FreshApart, Fits,
     Snapshot, Alive, Listed, PaneIds, PCs, Trees
<1>4. Served'
  BY <1>1 DEF IInv, TypeOK, Served, Fits, Snapshot, PCs
<1>5. Undrawn'
  BY DEF IInv, TypeOK, Undrawn, Snapshot, Alive
<1>6. FreshApart'
  BY <1>1, NoSessionAssumption DEF IInv, TypeOK, Served, Fits, Undrawn,
     FreshApart, DoomedApart, Snapshot, Alive, Listed, PaneIds
<1>7. DoomedApart'
  BY <1>1, NoSessionAssumption DEF IInv, TypeOK, Served, Fits, Undrawn,
     FreshApart, DoomedApart, Snapshot, Alive, Listed, PaneIds
<1>8. ReopenedGone'
  BY <1>1, ReopenedIsPane DEF IInv, TypeOK, Served, Undrawn, ReopenedGone,
     ListedNotClosed, Snapshot, Alive, Listed, PaneIds
<1>9. ListedNotClosed'
  BY <1>1, NoSessionAssumption DEF IInv, TypeOK, Served, Fits, Undrawn,
     FreshApart, DoomedApart, ListedNotClosed, Snapshot, Alive, Listed,
     PaneIds
<1>10. SessionsHoldPanes'
  BY <1>1, NoSessionAssumption DEF IInv, TypeOK, Served, Fits, FreshApart,
     SessionsHoldPanes, PanesOf, Snapshot, Alive, Listed, PaneIds
<1>11. ASSUME NEW p \in PaneIds, tree'[p] = "up" PROVE Owned(p)'
  <2>1. \A u \in Threads \ {t} : Held(u)' = Held(u)
    BY DEF IInv, TypeOK, Held, Snapshot
  <2>2. CASE tree[p] = "up"
    <3>1. p \in Held(t) \cup Listed => p \in Held(t)' \cup Listed'
      BY <1>1, <2>2, NoSessionAssumption DEF IInv, TypeOK, Served, Fits,
         FreshApart, ReopenedGone, Held, Snapshot, Alive, Listed, PaneIds
    <3> QED
      BY <2>1, <2>2, <3>1, OwnedKept DEF IInv, NoLeak
  <2>3. CASE tree[p] # "up"
    BY <1>11, <2>3 DEF IInv, TypeOK, Held, Owned, Snapshot, Alive, Listed,
       PaneIds
  <2> QED BY <2>2, <2>3
<1>12. ASSUME NEW p \in PaneIds, tree'[p] = "dying" PROVE BeingReaped(p)'
  BY <1>12 DEF IInv, TypeOK, DoomedApart, NoLeak, BeingReaped, Snapshot,
     Alive, Listed, PaneIds
<1> QED
  BY <1>3, <1>4, <1>5, <1>6, <1>7, <1>8, <1>9, <1>10, <1>11, <1>12 DEF IInv,
     NoLeak

\* KillPids: every victim still dying is dead when it returns.
LEMMA KillPidsStep ==
  ASSUME NEW t \in Threads, IInv, KillPids(t)
  PROVE  IInv'
<1>1. req[t] \in Request /\ Fits(req[t])
  BY RequestTypes DEF Served, IInv, KillPids
<1>2. pc'[t] = next[t] /\ next[t] \in {"open", "ok", "err", "exit"}
  BY DEF IInv, TypeOK, KillPids
<1>3. TypeOK'
  BY <1>1, <1>2, MaxPanesAssumption DEF IInv, TypeOK, Served, FreshApart,
     Fits, KillPids, Listed, PaneIds, PCs, Trees
<1>4. Served'
  BY <1>1, <1>2 DEF IInv, TypeOK, Served, Fits, KillPids, PCs
<1>5. Undrawn'
  BY <1>2 DEF IInv, TypeOK, Undrawn, KillPids
<1>6. FreshApart'
  BY <1>1, <1>2, NoSessionAssumption DEF IInv, TypeOK, Served, Fits, Undrawn,
     FreshApart, DoomedApart, KillPids, Listed, PaneIds
<1>7. DoomedApart'
  BY <1>1, <1>2, NoSessionAssumption DEF IInv, TypeOK, Served, Fits, Undrawn,
     FreshApart, DoomedApart, KillPids, Listed, PaneIds
<1>8. ReopenedGone'
  BY <1>1, <1>2, ReopenedIsPane DEF IInv, TypeOK, Served, Undrawn,
     ReopenedGone, ListedNotClosed, KillPids, Listed, PaneIds
<1>9. ListedNotClosed'
  BY <1>1, <1>2, NoSessionAssumption DEF IInv, TypeOK, Served, Fits, Undrawn,
     FreshApart, DoomedApart, ListedNotClosed, KillPids, Listed, PaneIds
<1>10. SessionsHoldPanes'
  BY <1>1, <1>2, NoSessionAssumption DEF IInv, TypeOK, Served, Fits,
     FreshApart, SessionsHoldPanes, PanesOf, KillPids, Listed, PaneIds
<1>11. ASSUME NEW p \in PaneIds, tree'[p] = "up" PROVE Owned(p)'
  <2>1. \A u \in Threads \ {t} : Held(u)' = Held(u)
    BY DEF IInv, TypeOK, Held, KillPids
  <2>2. CASE tree[p] = "up"
    <3>1. p \in Held(t) \cup Listed => p \in Held(t)' \cup Listed'
      BY <1>1, <1>2, <2>2, NoSessionAssumption DEF IInv, TypeOK, Served, Fits,
         FreshApart, ReopenedGone, Held, KillPids, Listed, PaneIds
    <3> QED
      BY <2>1, <2>2, <3>1, OwnedKept DEF IInv, NoLeak
  <2>3. CASE tree[p] # "up"
    BY <1>11, <2>3 DEF IInv, TypeOK, Held, Owned, KillPids, Listed, PaneIds
  <2> QED BY <2>2, <2>3
<1>12. ASSUME NEW p \in PaneIds, tree'[p] = "dying" PROVE BeingReaped(p)'
  BY <1>12 DEF IInv, TypeOK, DoomedApart, NoLeak, BeingReaped, KillPids,
     Listed, PaneIds
<1> QED
  BY <1>3, <1>4, <1>5, <1>6, <1>7, <1>8, <1>9, <1>10, <1>11, <1>12 DEF IInv,
     NoLeak

\* OpenNext: the new id was nobody's, and its pane is in the opener's hands.
LEMMA OpenNextStep ==
  ASSUME NEW t \in Threads, IInv, OpenNext(t)
  PROVE  IInv'
<1>1. req[t] \in Request /\ Fits(req[t])
  BY RequestTypes DEF Served, IInv, OpenNext
<1>3. TypeOK'
  BY <1>1, MaxPanesAssumption DEF IInv, TypeOK, Served, FreshApart, Fits,
     OpenNext, OpenPane, Listed, PaneIds, PCs, Trees
<1>4. Served'
  BY <1>1 DEF IInv, TypeOK, Served, Fits, OpenNext, PCs
<1>5. Undrawn'
  BY MaxPanesAssumption DEF IInv, TypeOK, Undrawn, OpenNext, OpenPane, Listed,
     PaneIds
<1>6. FreshApart'
  BY <1>1, NoSessionAssumption DEF IInv, TypeOK, Served, Fits, Undrawn,
     FreshApart, DoomedApart, OpenNext, OpenPane, Listed, PaneIds
<1>7. DoomedApart'
  BY <1>1, NoSessionAssumption DEF IInv, TypeOK, Served, Fits, Undrawn,
     FreshApart, DoomedApart, OpenNext, OpenPane, Listed, PaneIds
<1>8. ReopenedGone'
  BY <1>1, ReopenedIsPane DEF IInv, TypeOK, Served, Undrawn, ReopenedGone,
     ListedNotClosed, OpenNext, OpenPane, Listed, PaneIds
<1>9. ListedNotClosed'
  BY <1>1, NoSessionAssumption DEF IInv, TypeOK, Served, Fits, Undrawn,
     FreshApart, DoomedApart, ListedNotClosed, OpenNext, OpenPane, Listed,
     PaneIds
<1>10. SessionsHoldPanes'
  BY <1>1, NoSessionAssumption DEF IInv, TypeOK, Served, Fits, FreshApart,
     SessionsHoldPanes, PanesOf, OpenNext, OpenPane, Listed, PaneIds
<1>11. ASSUME NEW p \in PaneIds, tree'[p] = "up" PROVE Owned(p)'
  <2>1. \A u \in Threads \ {t} : Held(u)' = Held(u)
    BY DEF IInv, TypeOK, Held, OpenNext, OpenPane
  <2>2. CASE tree[p] = "up"
    <3>1. p \in Held(t) \cup Listed => p \in Held(t)' \cup Listed'
      <4>1. fresh[t] = NoPane /\ p # NoPane
        <5>1. fresh[t] = NoPane
          BY DEF IInv, FreshApart, OpenNext
        <5>2. p # NoPane
          BY MaxPanesAssumption DEF PaneIds
        <5> QED BY <5>1, <5>2
      <4>2. p \notin Held(t)
        BY <4>1 DEF Held, OpenNext
      <4> QED
        BY <4>2 DEF Listed, PaneIds, OpenNext, OpenPane
    <3> QED
      BY <2>1, <2>2, <3>1, OwnedKept DEF IInv, NoLeak
  <2>3. CASE tree[p] # "up"
    BY <1>11, <2>3 DEF IInv, TypeOK, Held, Owned, OpenNext, OpenPane, Listed,
       PaneIds
  <2> QED BY <2>2, <2>3
<1>12. ASSUME NEW p \in PaneIds, tree'[p] = "dying" PROVE BeingReaped(p)'
  BY <1>12 DEF IInv, TypeOK, DoomedApart, NoLeak, BeingReaped, OpenNext,
     OpenPane, Listed, PaneIds
<1> QED
  BY <1>3, <1>4, <1>5, <1>6, <1>7, <1>8, <1>9, <1>10, <1>11, <1>12 DEF IInv,
     NoLeak

\* OpenNextFails: what the failed open spawned is dead.
LEMMA OpenNextFailsStep ==
  ASSUME NEW t \in Threads, IInv, OpenNextFails(t)
  PROVE  IInv'
<1>1. req[t] \in Request /\ Fits(req[t])
  BY RequestTypes DEF Served, IInv, OpenNextFails
<1>3. TypeOK'
  BY <1>1, MaxPanesAssumption DEF IInv, TypeOK, Served, FreshApart, Fits,
     OpenNextFails, OpenFails, Listed, PaneIds, PCs, Trees
<1>4. Served'
  BY <1>1 DEF IInv, TypeOK, Served, Fits, OpenNextFails, PCs
<1>5. Undrawn'
  BY MaxPanesAssumption DEF IInv, TypeOK, Undrawn, OpenNextFails, OpenFails,
     Listed, PaneIds
<1>6. FreshApart'
  BY <1>1, NoSessionAssumption DEF IInv, TypeOK, Served, Fits, Undrawn,
     FreshApart, DoomedApart, OpenNextFails, OpenFails, Listed, PaneIds
<1>7. DoomedApart'
  BY <1>1, NoSessionAssumption DEF IInv, TypeOK, Served, Fits, Undrawn,
     FreshApart, DoomedApart, OpenNextFails, OpenFails, Listed, PaneIds
<1>8. ReopenedGone'
  <2> SUFFICES ASSUME NEW u \in Threads, pc'[u] \in {"reopen", "replace"}
               PROVE  tree'[req[u].pane] = "gone"
    BY DEF ReopenedGone, OpenNextFails
  <2>1. u # t /\ pc[u] \in {"reopen", "replace"}
    BY DEF IInv, TypeOK, OpenNextFails
  <2>2. req[u].pane \in PaneIds /\ tree[req[u].pane] = "gone"
    BY <2>1, ReopenedIsPane DEF IInv, ReopenedGone
  <2>3. req[u].pane # nextPane
    BY <2>2 DEF IInv, TypeOK, Undrawn, PaneIds
  <2> QED BY <2>2, <2>3 DEF OpenNextFails, OpenFails
<1>9. ListedNotClosed'
  BY <1>1, NoSessionAssumption DEF IInv, TypeOK, Served, Fits, Undrawn,
     FreshApart, DoomedApart, ListedNotClosed, OpenNextFails, OpenFails,
     Listed, PaneIds
<1>10. SessionsHoldPanes'
  BY <1>1, NoSessionAssumption DEF IInv, TypeOK, Served, Fits, FreshApart,
     SessionsHoldPanes, PanesOf, OpenNextFails, OpenFails, Listed, PaneIds
<1>11. ASSUME NEW p \in PaneIds, tree'[p] = "up" PROVE Owned(p)'
  <2>1. \A u \in Threads \ {t} : Held(u)' = Held(u)
    BY DEF IInv, TypeOK, Held, OpenNextFails, OpenFails
  <2>2. CASE tree[p] = "up"
    <3>1. p \in Held(t) \cup Listed => p \in Held(t)' \cup Listed'
      BY <1>1, <2>2, NoSessionAssumption DEF IInv, TypeOK, Served, Fits,
         FreshApart, ReopenedGone, Held, OpenNextFails, OpenFails, Listed,
         PaneIds
    <3> QED
      BY <2>1, <2>2, <3>1, OwnedKept DEF IInv, NoLeak
  <2>3. CASE tree[p] # "up"
    BY <1>11, <2>3 DEF IInv, TypeOK, Held, Owned, OpenNextFails, OpenFails,
       Listed, PaneIds
  <2> QED BY <2>2, <2>3
<1>12. ASSUME NEW p \in PaneIds, tree'[p] = "dying" PROVE BeingReaped(p)'
  BY <1>12 DEF IInv, TypeOK, DoomedApart, NoLeak, BeingReaped, OpenNextFails,
     OpenFails, Listed, PaneIds
<1> QED
  BY <1>3, <1>4, <1>5, <1>6, <1>7, <1>8, <1>9, <1>10, <1>11, <1>12 DEF IInv,
     NoLeak

\* PushOpened: the pane goes from the opener's hands into the registry.
LEMMA PushOpenedStep ==
  ASSUME NEW t \in Threads, IInv, PushOpened(t)
  PROVE  IInv'
<1>1. req[t] \in Request /\ Fits(req[t])
  BY RequestTypes DEF Served, IInv, PushOpened
<1>3. TypeOK'
  BY <1>1, MaxPanesAssumption DEF IInv, TypeOK, Served, FreshApart, Fits,
     PushOpened, Push, Listed, PaneIds, PCs, Trees
<1>4. Served'
  BY <1>1 DEF IInv, TypeOK, Served, Fits, PushOpened, PCs
<1>5. Undrawn'
  BY DEF IInv, TypeOK, Undrawn, PushOpened, Push
<1>6. FreshApart'
  BY <1>1, NoSessionAssumption DEF IInv, TypeOK, Served, Fits, Undrawn,
     FreshApart, DoomedApart, PushOpened, Push, Listed, PaneIds
<1>7. DoomedApart'
  BY <1>1, NoSessionAssumption DEF IInv, TypeOK, Served, Fits, Undrawn,
     FreshApart, DoomedApart, PushOpened, Push, Listed, PaneIds
<1>8. ReopenedGone'
  BY <1>1, ReopenedIsPane DEF IInv, TypeOK, Served, Undrawn, ReopenedGone,
     ListedNotClosed, PushOpened, Push, Listed, PaneIds
<1>9. ListedNotClosed'
  BY <1>1, NoSessionAssumption DEF IInv, TypeOK, Served, Fits, Undrawn,
     FreshApart, DoomedApart, ListedNotClosed, PushOpened, Push, Listed,
     PaneIds
<1>10. SessionsHoldPanes'
  BY <1>1, NoSessionAssumption DEF IInv, TypeOK, Served, Fits, FreshApart,
     SessionsHoldPanes, PanesOf, PushOpened, Push, Listed, PaneIds
<1>11. ASSUME NEW p \in PaneIds, tree'[p] = "up" PROVE Owned(p)'
  <2>1. \A u \in Threads \ {t} : Held(u)' = Held(u)
    BY DEF IInv, TypeOK, Held, PushOpened
  <2>2. CASE tree[p] = "up"
    <3>1. p \in Held(t) \cup Listed => p \in Held(t)' \cup Listed'
      BY <1>1, <2>2, NoSessionAssumption DEF IInv, TypeOK, Served, Fits,
         FreshApart, ReopenedGone, Held, PushOpened, Push, Listed, PaneIds
    <3> QED
      BY <2>1, <2>2, <3>1, OwnedKept DEF IInv, NoLeak
  <2>3. CASE tree[p] # "up"
    BY <1>11, <2>3 DEF IInv, TypeOK, Held, Owned, PushOpened, Push, Listed,
       PaneIds
  <2> QED BY <2>2, <2>3
<1>12. ASSUME NEW p \in PaneIds, tree'[p] = "dying" PROVE BeingReaped(p)'
  BY <1>12 DEF IInv, TypeOK, DoomedApart, NoLeak, BeingReaped, PushOpened,
     Push, Listed, PaneIds
<1> QED
  BY <1>3, <1>4, <1>5, <1>6, <1>7, <1>8, <1>9, <1>10, <1>11, <1>12 DEF IInv,
     NoLeak

\* Rollback: the batch's panes go from the registry into the teardown's hands.
LEMMA RollbackStep ==
  ASSUME NEW t \in Threads, IInv, Rollback(t)
  PROVE  IInv'
<1>1. req[t] \in Request /\ Fits(req[t])
  BY RequestTypes DEF Served, IInv, Rollback
<1>3. TypeOK'
  BY <1>1, MaxPanesAssumption DEF IInv, TypeOK, Served, FreshApart, Fits,
     Rollback, DropPanes, Listed, PaneIds, PCs, Trees
<1>4. Served'
  BY <1>1 DEF IInv, TypeOK, Served, Fits, Rollback, PCs
<1>5. Undrawn'
  BY DEF IInv, TypeOK, Undrawn, Rollback, DropPanes
<1>6. FreshApart'
  BY <1>1, NoSessionAssumption DEF IInv, TypeOK, Served, Fits, Undrawn,
     FreshApart, DoomedApart, Rollback, DropPanes, Listed, PaneIds
<1>7. DoomedApart'
  BY <1>1, NoSessionAssumption DEF IInv, TypeOK, Served, Fits, Undrawn,
     FreshApart, DoomedApart, Rollback, DropPanes, Listed, PaneIds
<1>8. ReopenedGone'
  BY <1>1, ReopenedIsPane DEF IInv, TypeOK, Served, Undrawn, ReopenedGone,
     ListedNotClosed, Rollback, DropPanes, Listed, PaneIds
<1>9. ListedNotClosed'
  BY <1>1, NoSessionAssumption DEF IInv, TypeOK, Served, Fits, Undrawn,
     FreshApart, DoomedApart, ListedNotClosed, Rollback, DropPanes, Listed,
     PaneIds
<1>10. SessionsHoldPanes'
  BY DropKeepsSessions DEF IInv, Rollback
<1>11. ASSUME NEW p \in PaneIds, tree'[p] = "up" PROVE Owned(p)'
  <2>1. \A u \in Threads \ {t} : Held(u)' = Held(u)
    BY DEF IInv, TypeOK, Held, Rollback
  <2>2. CASE tree[p] = "up"
    <3>1. p \in Held(t) \cup Listed => p \in Held(t)' \cup Listed'
      BY <1>1, <2>2, NoSessionAssumption DEF IInv, TypeOK, Served, Fits,
         FreshApart, ReopenedGone, Held, Rollback, DropPanes, Listed, PaneIds
    <3> QED
      BY <2>1, <2>2, <3>1, OwnedKept DEF IInv, NoLeak
  <2>3. CASE tree[p] # "up"
    BY <1>11, <2>3 DEF IInv, TypeOK, Held, Owned, Rollback, DropPanes, Listed,
       PaneIds
  <2> QED BY <2>2, <2>3
<1>12. ASSUME NEW p \in PaneIds, tree'[p] = "dying" PROVE BeingReaped(p)'
  BY <1>12 DEF IInv, TypeOK, DoomedApart, NoLeak, BeingReaped, Rollback,
     DropPanes, Listed, PaneIds
<1> QED
  BY <1>3, <1>4, <1>5, <1>6, <1>7, <1>8, <1>9, <1>10, <1>11, <1>12 DEF IInv,
     NoLeak

\* StartTakes: the session's panes go from the registry into its teardown.
LEMMA StartTakesStep ==
  ASSUME NEW t \in Threads, IInv, StartTakes(t)
  PROVE  IInv'
<1>1. req[t] \in Request /\ Fits(req[t])
  BY RequestTypes DEF Served, IInv, StartTakes
<1>3. TypeOK'
  BY <1>1, MaxPanesAssumption DEF IInv, TypeOK, Served, FreshApart, Fits,
     StartTakes, Take, PanesOf, Listed, PaneIds, PCs, Trees
<1>4. Served'
  BY <1>1 DEF IInv, TypeOK, Served, Fits, StartTakes, PCs
<1>5. Undrawn'
  BY <1>1, NoSessionAssumption DEF IInv, TypeOK, Served, Fits, Undrawn,
     StartTakes, Take, PanesOf
<1>6. FreshApart'
  BY <1>1, NoSessionAssumption DEF IInv, TypeOK, Served, Fits, Undrawn,
     FreshApart, DoomedApart, StartTakes, Take, PanesOf, Listed, PaneIds
<1>7. DoomedApart'
  BY <1>1, NoSessionAssumption DEF IInv, TypeOK, Served, Fits, Undrawn,
     FreshApart, DoomedApart, StartTakes, Take, PanesOf, Listed, PaneIds
<1>8. ReopenedGone'
  BY <1>1, ReopenedIsPane DEF IInv, TypeOK, Served, Undrawn, ReopenedGone,
     ListedNotClosed, StartTakes, Take, PanesOf, Listed, PaneIds
<1>9. ListedNotClosed'
  BY <1>1, NoSessionAssumption DEF IInv, TypeOK, Served, Fits, Undrawn,
     FreshApart, DoomedApart, ListedNotClosed, StartTakes, Take, PanesOf,
     Listed, PaneIds
<1>10. SessionsHoldPanes'
  BY <1>1, TakeKeepsSessions DEF IInv, Served, Fits, StartTakes
<1>11. ASSUME NEW p \in PaneIds, tree'[p] = "up" PROVE Owned(p)'
  <2>1. \A u \in Threads \ {t} : Held(u)' = Held(u)
    BY DEF IInv, TypeOK, Held, StartTakes
  <2>2. CASE tree[p] = "up"
    <3>1. p \in Held(t) \cup Listed => p \in Held(t)' \cup Listed'
      BY <1>1, <2>2, NoSessionAssumption DEF IInv, TypeOK, Served, Fits,
         FreshApart, ReopenedGone, Held, StartTakes, Take, PanesOf, Listed,
         PaneIds
    <3> QED
      BY <2>1, <2>2, <3>1, OwnedKept DEF IInv, NoLeak
  <2>3. CASE tree[p] # "up"
    BY <1>11, <2>3 DEF IInv, TypeOK, Held, Owned, StartTakes, Take, PanesOf,
       Listed, PaneIds
  <2> QED BY <2>2, <2>3
<1>12. ASSUME NEW p \in PaneIds, tree'[p] = "dying" PROVE BeingReaped(p)'
  BY <1>12 DEF IInv, TypeOK, DoomedApart, NoLeak, BeingReaped, StartTakes,
     Take, PanesOf, Listed, PaneIds
<1> QED
  BY <1>3, <1>4, <1>5, <1>6, <1>7, <1>8, <1>9, <1>10, <1>11, <1>12 DEF IInv,
     NoLeak

\* SendFinds: a listed pane that is not alive is one whose shell has gone.
LEMMA SendFindsStep ==
  ASSUME NEW t \in Threads, IInv, SendFinds(t)
  PROVE  IInv'
<1>1. req[t] \in Request /\ Fits(req[t])
  BY RequestTypes DEF Served, IInv, SendFinds
<1>3. TypeOK'
  BY <1>1, MaxPanesAssumption DEF IInv, TypeOK, Served, FreshApart, Fits,
     SendFinds, Alive, Listed, PaneIds, PCs, Trees
<1>4. Served'
  BY <1>1 DEF IInv, TypeOK, Served, Fits, SendFinds, PCs
<1>5. Undrawn'
  BY DEF IInv, TypeOK, Undrawn, SendFinds, Alive
<1>6. FreshApart'
  BY <1>1, NoSessionAssumption DEF IInv, TypeOK, Served, Fits, Undrawn,
     FreshApart, DoomedApart, SendFinds, Alive, Listed, PaneIds
<1>7. DoomedApart'
  BY <1>1, NoSessionAssumption DEF IInv, TypeOK, Served, Fits, Undrawn,
     FreshApart, DoomedApart, SendFinds, Alive, Listed, PaneIds
<1>8. ReopenedGone'
  BY <1>1, ReopenedIsPane DEF IInv, TypeOK, Served, Undrawn, ReopenedGone,
     ListedNotClosed, SendFinds, Alive, Listed, PaneIds
<1>9. ListedNotClosed'
  BY <1>1, NoSessionAssumption DEF IInv, TypeOK, Served, Fits, Undrawn,
     FreshApart, DoomedApart, ListedNotClosed, SendFinds, Alive, Listed,
     PaneIds
<1>10. SessionsHoldPanes'
  BY <1>1, NoSessionAssumption DEF IInv, TypeOK, Served, Fits, FreshApart,
     SessionsHoldPanes, PanesOf, SendFinds, Alive, Listed, PaneIds
<1>11. ASSUME NEW p \in PaneIds, tree'[p] = "up" PROVE Owned(p)'
  <2>1. \A u \in Threads \ {t} : Held(u)' = Held(u)
    BY DEF IInv, TypeOK, Held, SendFinds
  <2>2. CASE tree[p] = "up"
    <3>1. p \in Held(t) \cup Listed => p \in Held(t)' \cup Listed'
      BY <1>1, <2>2, NoSessionAssumption DEF IInv, TypeOK, Served, Fits,
         FreshApart, ReopenedGone, Held, SendFinds, Alive, Listed, PaneIds
    <3> QED
      BY <2>1, <2>2, <3>1, OwnedKept DEF IInv, NoLeak
  <2>3. CASE tree[p] # "up"
    BY <1>11, <2>3 DEF IInv, TypeOK, Held, Owned, SendFinds, Alive, Listed,
       PaneIds
  <2> QED BY <2>2, <2>3
<1>12. ASSUME NEW p \in PaneIds, tree'[p] = "dying" PROVE BeingReaped(p)'
  BY <1>12 DEF IInv, TypeOK, DoomedApart, NoLeak, BeingReaped, SendFinds,
     Alive, Listed, PaneIds
<1> QED
  BY <1>3, <1>4, <1>5, <1>6, <1>7, <1>8, <1>9, <1>10, <1>11, <1>12 DEF IInv,
     NoLeak

\* Reopen: as OpenNext.
LEMMA ReopenStep ==
  ASSUME NEW t \in Threads, IInv, Reopen(t)
  PROVE  IInv'
<1>1. req[t] \in Request /\ Fits(req[t])
  BY RequestTypes DEF Served, IInv, Reopen
<1>3. TypeOK'
  BY <1>1, MaxPanesAssumption DEF IInv, TypeOK, Served, FreshApart, Fits,
     Reopen, OpenPane, Listed, PaneIds, PCs, Trees
<1>4. Served'
  BY <1>1 DEF IInv, TypeOK, Served, Fits, Reopen, PCs
<1>5. Undrawn'
  BY MaxPanesAssumption DEF IInv, TypeOK, Undrawn, Reopen, OpenPane, Listed,
     PaneIds
<1>6. FreshApart'
  BY <1>1, NoSessionAssumption DEF IInv, TypeOK, Served, Fits, Undrawn,
     FreshApart, DoomedApart, Reopen, OpenPane, Listed, PaneIds
<1>7. DoomedApart'
  BY <1>1, NoSessionAssumption DEF IInv, TypeOK, Served, Fits, Undrawn,
     FreshApart, DoomedApart, Reopen, OpenPane, Listed, PaneIds
<1>8. ReopenedGone'
  BY <1>1, ReopenedIsPane DEF IInv, TypeOK, Served, Undrawn, ReopenedGone,
     ListedNotClosed, Reopen, OpenPane, Listed, PaneIds
<1>9. ListedNotClosed'
  BY <1>1, NoSessionAssumption DEF IInv, TypeOK, Served, Fits, Undrawn,
     FreshApart, DoomedApart, ListedNotClosed, Reopen, OpenPane, Listed,
     PaneIds
<1>10. SessionsHoldPanes'
  BY <1>1, NoSessionAssumption DEF IInv, TypeOK, Served, Fits, FreshApart,
     SessionsHoldPanes, PanesOf, Reopen, OpenPane, Listed, PaneIds
<1>11. ASSUME NEW p \in PaneIds, tree'[p] = "up" PROVE Owned(p)'
  <2>1. \A u \in Threads \ {t} : Held(u)' = Held(u)
    BY DEF IInv, TypeOK, Held, Reopen, OpenPane
  <2>2. CASE tree[p] = "up"
    <3>1. p \in Held(t) \cup Listed => p \in Held(t)' \cup Listed'
      <4>1. fresh[t] = NoPane /\ p # NoPane
        <5>1. fresh[t] = NoPane
          BY DEF IInv, FreshApart, Reopen
        <5>2. p # NoPane
          BY MaxPanesAssumption DEF PaneIds
        <5> QED BY <5>1, <5>2
      <4>2. p \notin Held(t)
        BY <4>1 DEF Held, Reopen
      <4> QED
        BY <4>2 DEF Listed, PaneIds, Reopen, OpenPane
    <3> QED
      BY <2>1, <2>2, <3>1, OwnedKept DEF IInv, NoLeak
  <2>3. CASE tree[p] # "up"
    BY <1>11, <2>3 DEF IInv, TypeOK, Held, Owned, Reopen, OpenPane, Listed,
       PaneIds
  <2> QED BY <2>2, <2>3
<1>12. ASSUME NEW p \in PaneIds, tree'[p] = "dying" PROVE BeingReaped(p)'
  BY <1>12 DEF IInv, TypeOK, DoomedApart, NoLeak, BeingReaped, Reopen,
     OpenPane, Listed, PaneIds
<1> QED
  BY <1>3, <1>4, <1>5, <1>6, <1>7, <1>8, <1>9, <1>10, <1>11, <1>12 DEF IInv,
     NoLeak

\* ReopenFails: as OpenNextFails.
LEMMA ReopenFailsStep ==
  ASSUME NEW t \in Threads, IInv, ReopenFails(t)
  PROVE  IInv'
<1>1. req[t] \in Request /\ Fits(req[t])
  BY RequestTypes DEF Served, IInv, ReopenFails
<1>3. TypeOK'
  BY <1>1, MaxPanesAssumption DEF IInv, TypeOK, Served, FreshApart, Fits,
     ReopenFails, OpenFails, Listed, PaneIds, PCs, Trees
<1>4. Served'
  BY <1>1 DEF IInv, TypeOK, Served, Fits, ReopenFails, PCs
<1>5. Undrawn'
  BY MaxPanesAssumption DEF IInv, TypeOK, Undrawn, ReopenFails, OpenFails,
     Listed, PaneIds
<1>6. FreshApart'
  BY <1>1, NoSessionAssumption DEF IInv, TypeOK, Served, Fits, Undrawn,
     FreshApart, DoomedApart, ReopenFails, OpenFails, Listed, PaneIds
<1>7. DoomedApart'
  BY <1>1, NoSessionAssumption DEF IInv, TypeOK, Served, Fits, Undrawn,
     FreshApart, DoomedApart, ReopenFails, OpenFails, Listed, PaneIds
<1>8. ReopenedGone'
  BY <1>1, ReopenedIsPane DEF IInv, TypeOK, Served, Undrawn, ReopenedGone,
     ListedNotClosed, ReopenFails, OpenFails, Listed, PaneIds
<1>9. ListedNotClosed'
  BY <1>1, NoSessionAssumption DEF IInv, TypeOK, Served, Fits, Undrawn,
     FreshApart, DoomedApart, ListedNotClosed, ReopenFails, OpenFails, Listed,
     PaneIds
<1>10. SessionsHoldPanes'
  BY <1>1, NoSessionAssumption DEF IInv, TypeOK, Served, Fits, FreshApart,
     SessionsHoldPanes, PanesOf, ReopenFails, OpenFails, Listed, PaneIds
<1>11. ASSUME NEW p \in PaneIds, tree'[p] = "up" PROVE Owned(p)'
  <2>1. \A u \in Threads \ {t} : Held(u)' = Held(u)
    BY DEF IInv, TypeOK, Held, ReopenFails, OpenFails
  <2>2. CASE tree[p] = "up"
    <3>1. p \in Held(t) \cup Listed => p \in Held(t)' \cup Listed'
      BY <1>1, <2>2, NoSessionAssumption DEF IInv, TypeOK, Served, Fits,
         FreshApart, ReopenedGone, Held, ReopenFails, OpenFails, Listed,
         PaneIds
    <3> QED
      BY <2>1, <2>2, <3>1, OwnedKept DEF IInv, NoLeak
  <2>3. CASE tree[p] # "up"
    BY <1>11, <2>3 DEF IInv, TypeOK, Held, Owned, ReopenFails, OpenFails,
       Listed, PaneIds
  <2> QED BY <2>2, <2>3
<1>12. ASSUME NEW p \in PaneIds, tree'[p] = "dying" PROVE BeingReaped(p)'
  BY <1>12 DEF IInv, TypeOK, DoomedApart, NoLeak, BeingReaped, ReopenFails,
     OpenFails, Listed, PaneIds
<1> QED
  BY <1>3, <1>4, <1>5, <1>6, <1>7, <1>8, <1>9, <1>10, <1>11, <1>12 DEF IInv,
     NoLeak

\* ReplaceGone: the pane that leaves the registry has no living shell.
LEMMA ReplaceGoneStep ==
  ASSUME NEW t \in Threads, IInv, ReplaceGone(t)
  PROVE  IInv'
<1>1. req[t] \in Request /\ Fits(req[t])
  BY RequestTypes DEF Served, IInv, ReplaceGone
<1>2. /\ req[t].pane \in PaneIds /\ fresh[t] \in PaneIds /\ fresh[t] \notin Listed
      /\ fresh[t] # req[t].pane
  BY <1>1 DEF IInv, TypeOK, Served, FreshApart, Fits, ReplaceGone
<1>3. TypeOK'
  <2>1. home' \in [PaneIds -> Sessions \cup {NoSession}]
    BY <1>2 DEF IInv, TypeOK, ReplaceGone, Replace
  <2> QED
    BY <2>1 DEF IInv, TypeOK, ReplaceGone, Replace, PCs
<1>4. Served'
  BY <1>1, <1>2 DEF IInv, TypeOK, Served, Fits, ReplaceGone, PCs
<1>5. Undrawn'
  <2>1. nextPane' = nextPane /\ tree' = tree /\ doomed' = doomed /\ opened' = opened
    BY DEF ReplaceGone, Replace
  <2>2. ASSUME NEW p \in PaneIds, p >= nextPane PROVE home'[p] = NoSession
    <3>1. home[p] = NoSession /\ fresh[t] # p
      BY <2>2 DEF IInv, Undrawn
    <3>2. home'[p] = IF p = req[t].pane THEN NoSession ELSE home[p]
      BY <1>2, <3>1 DEF IInv, TypeOK, ReplaceGone, Replace
    <3> QED BY <3>1, <3>2
  <2>3. ASSUME NEW p \in PaneIds, NEW u \in Threads, p >= nextPane PROVE fresh'[u] # p
    BY <2>3 DEF IInv, TypeOK, Undrawn, ReplaceGone, PaneIds, NoPane
  <2> QED BY <2>1, <2>2, <2>3 DEF IInv, Undrawn
<1>6. FreshApart'
  BY <1>1, <1>2, NoSessionAssumption DEF IInv, TypeOK, Served, Fits, Undrawn,
     FreshApart, DoomedApart, ReplaceGone, Replace, Listed, PaneIds
<1>7. DoomedApart'
  BY <1>1, <1>2, NoSessionAssumption DEF IInv, TypeOK, Served, Fits, Undrawn,
     FreshApart, DoomedApart, ReplaceGone, Replace, Listed, PaneIds
<1>8. ReopenedGone'
  BY <1>1, <1>2, ReopenedIsPane DEF IInv, TypeOK, Served, Undrawn,
     ReopenedGone, ListedNotClosed, ReplaceGone, Replace, Listed, PaneIds
<1>9. ListedNotClosed'
  BY <1>1, <1>2, NoSessionAssumption DEF IInv, TypeOK, Served, Fits, Undrawn,
     FreshApart, DoomedApart, ListedNotClosed, ReplaceGone, Replace, Listed,
     PaneIds
<1>10. SessionsHoldPanes'
  BY <1>1, <1>2, ReplaceKeepsSessions DEF IInv, ReplaceGone
<1>11. ASSUME NEW p \in PaneIds, tree'[p] = "up" PROVE Owned(p)'
  <2>1. \A u \in Threads \ {t} : Held(u)' = Held(u)
    BY DEF IInv, TypeOK, Held, ReplaceGone
  <2>2. CASE tree[p] = "up"
    <3>1. p \in Held(t) \cup Listed => p \in Held(t)' \cup Listed'
      BY <1>1, <1>2, <2>2, NoSessionAssumption DEF IInv, TypeOK, Served, Fits,
         FreshApart, ReopenedGone, Held, ReplaceGone, Replace, Listed, PaneIds
    <3> QED
      BY <2>1, <2>2, <3>1, OwnedKept DEF IInv, NoLeak
  <2>3. CASE tree[p] # "up"
    BY <1>11, <2>3 DEF IInv, TypeOK, Held, Owned, ReplaceGone, Replace,
       Listed, PaneIds
  <2> QED BY <2>2, <2>3
<1>12. ASSUME NEW p \in PaneIds, tree'[p] = "dying" PROVE BeingReaped(p)'
  BY <1>12 DEF IInv, TypeOK, DoomedApart, NoLeak, BeingReaped, ReplaceGone,
     Replace, Listed, PaneIds
<1> QED
  BY <1>3, <1>4, <1>5, <1>6, <1>7, <1>8, <1>9, <1>10, <1>11, <1>12 DEF IInv,
     NoLeak

\* ReplaceMisses: the pane that found no place stays in its opener's hands.
LEMMA ReplaceMissesStep ==
  ASSUME NEW t \in Threads, IInv, ReplaceMisses(t)
  PROVE  IInv'
<1>1. req[t] \in Request /\ Fits(req[t])
  BY RequestTypes DEF Served, IInv, ReplaceMisses
<1>3. TypeOK'
  BY <1>1, MaxPanesAssumption DEF IInv, TypeOK, Served, FreshApart, Fits,
     ReplaceMisses, Listed, PaneIds, PCs, Trees
<1>4. Served'
  BY <1>1 DEF IInv, TypeOK, Served, Fits, ReplaceMisses, PCs
<1>5. Undrawn'
  BY DEF IInv, TypeOK, Undrawn, ReplaceMisses
<1>6. FreshApart'
  BY <1>1, NoSessionAssumption DEF IInv, TypeOK, Served, Fits, Undrawn,
     FreshApart, DoomedApart, ReplaceMisses, Listed, PaneIds
<1>7. DoomedApart'
  BY <1>1, NoSessionAssumption DEF IInv, TypeOK, Served, Fits, Undrawn,
     FreshApart, DoomedApart, ReplaceMisses, Listed, PaneIds
<1>8. ReopenedGone'
  BY <1>1, ReopenedIsPane DEF IInv, TypeOK, Served, Undrawn, ReopenedGone,
     ListedNotClosed, ReplaceMisses, Listed, PaneIds
<1>9. ListedNotClosed'
  BY <1>1, NoSessionAssumption DEF IInv, TypeOK, Served, Fits, Undrawn,
     FreshApart, DoomedApart, ListedNotClosed, ReplaceMisses, Listed, PaneIds
<1>10. SessionsHoldPanes'
  BY <1>1, NoSessionAssumption DEF IInv, TypeOK, Served, Fits, FreshApart,
     SessionsHoldPanes, PanesOf, ReplaceMisses, Listed, PaneIds
<1>11. ASSUME NEW p \in PaneIds, tree'[p] = "up" PROVE Owned(p)'
  <2>1. \A u \in Threads \ {t} : Held(u)' = Held(u)
    BY DEF IInv, TypeOK, Held, ReplaceMisses
  <2>2. CASE tree[p] = "up"
    <3>1. p \in Held(t) \cup Listed => p \in Held(t)' \cup Listed'
      BY <1>1, <2>2, NoSessionAssumption DEF IInv, TypeOK, Served, Fits,
         FreshApart, ReopenedGone, Held, ReplaceMisses, Listed, PaneIds
    <3> QED
      BY <2>1, <2>2, <3>1, OwnedKept DEF IInv, NoLeak
  <2>3. CASE tree[p] # "up"
    BY <1>11, <2>3 DEF IInv, TypeOK, Held, Owned, ReplaceMisses, Listed,
       PaneIds
  <2> QED BY <2>2, <2>3
<1>12. ASSUME NEW p \in PaneIds, tree'[p] = "dying" PROVE BeingReaped(p)'
  BY <1>12 DEF IInv, TypeOK, DoomedApart, NoLeak, BeingReaped, ReplaceMisses,
     Listed, PaneIds
<1> QED
  BY <1>3, <1>4, <1>5, <1>6, <1>7, <1>8, <1>9, <1>10, <1>11, <1>12 DEF IInv,
     NoLeak

\* KillPane: the pane goes from the registry into its teardown.
LEMMA KillPaneStep ==
  ASSUME NEW t \in Threads, IInv, KillPane(t)
  PROVE  IInv'
<1>1. req[t] \in Request /\ Fits(req[t])
  BY RequestTypes DEF Served, IInv, KillPane
<1>3. TypeOK'
  BY <1>1, MaxPanesAssumption DEF IInv, TypeOK, Served, FreshApart, Fits,
     KillPane, DropPanes, Listed, PaneIds, PCs, Trees
<1>4. Served'
  BY <1>1 DEF IInv, TypeOK, Served, Fits, KillPane, PCs
<1>5. Undrawn'
  BY DEF IInv, TypeOK, Undrawn, KillPane, DropPanes, Listed, PaneIds
<1>6. FreshApart'
  BY <1>1, NoSessionAssumption DEF IInv, TypeOK, Served, Fits, Undrawn,
     FreshApart, DoomedApart, KillPane, DropPanes, Listed, PaneIds
<1>7. DoomedApart'
  BY <1>1, NoSessionAssumption DEF IInv, TypeOK, Served, Fits, Undrawn,
     FreshApart, DoomedApart, KillPane, DropPanes, Listed, PaneIds
<1>8. ReopenedGone'
  BY <1>1, ReopenedIsPane DEF IInv, TypeOK, Served, Undrawn, ReopenedGone,
     ListedNotClosed, KillPane, DropPanes, Listed, PaneIds
<1>9. ListedNotClosed'
  BY <1>1, NoSessionAssumption DEF IInv, TypeOK, Served, Fits, Undrawn,
     FreshApart, DoomedApart, ListedNotClosed, KillPane, DropPanes, Listed,
     PaneIds
<1>10. SessionsHoldPanes'
  BY DropKeepsSessions DEF IInv, KillPane
<1>11. ASSUME NEW p \in PaneIds, tree'[p] = "up" PROVE Owned(p)'
  <2>1. \A u \in Threads \ {t} : Held(u)' = Held(u)
    BY DEF IInv, TypeOK, Held, KillPane
  <2>2. CASE tree[p] = "up"
    <3>1. p \in Held(t) \cup Listed => p \in Held(t)' \cup Listed'
      BY <1>1, <2>2, NoSessionAssumption DEF IInv, TypeOK, Served, Fits,
         FreshApart, ReopenedGone, Held, KillPane, DropPanes, Listed, PaneIds
    <3> QED
      BY <2>1, <2>2, <3>1, OwnedKept DEF IInv, NoLeak
  <2>3. CASE tree[p] # "up"
    BY <1>11, <2>3 DEF IInv, TypeOK, Held, Owned, KillPane, DropPanes, Listed,
       PaneIds
  <2> QED BY <2>2, <2>3
<1>12. ASSUME NEW p \in PaneIds, tree'[p] = "dying" PROVE BeingReaped(p)'
  BY <1>12 DEF IInv, TypeOK, DoomedApart, NoLeak, BeingReaped, KillPane,
     DropPanes, Listed, PaneIds
<1> QED
  BY <1>3, <1>4, <1>5, <1>6, <1>7, <1>8, <1>9, <1>10, <1>11, <1>12 DEF IInv,
     NoLeak

\* KillSession: the session's panes go from the registry into its teardown.
LEMMA KillSessionStep ==
  ASSUME NEW t \in Threads, IInv, KillSession(t)
  PROVE  IInv'
<1>1. req[t] \in Request /\ Fits(req[t])
  BY RequestTypes DEF Served, IInv, KillSession
<1>3. TypeOK'
  BY <1>1, MaxPanesAssumption DEF IInv, TypeOK, Served, FreshApart, Fits,
     KillSession, Take, PanesOf, Listed, PaneIds, PCs, Trees
<1>4. Served'
  BY <1>1 DEF IInv, TypeOK, Served, Fits, KillSession, PCs
<1>5. Undrawn'
  BY <1>1, NoSessionAssumption DEF IInv, TypeOK, Served, Fits, Undrawn,
     KillSession, Take, PanesOf
<1>6. FreshApart'
  BY <1>1, NoSessionAssumption DEF IInv, TypeOK, Served, Fits, Undrawn,
     FreshApart, DoomedApart, KillSession, Take, PanesOf, Listed, PaneIds
<1>7. DoomedApart'
  BY <1>1, NoSessionAssumption DEF IInv, TypeOK, Served, Fits, Undrawn,
     FreshApart, DoomedApart, KillSession, Take, PanesOf, Listed, PaneIds
<1>8. ReopenedGone'
  BY <1>1, ReopenedIsPane DEF IInv, TypeOK, Served, Undrawn, ReopenedGone,
     ListedNotClosed, KillSession, Take, PanesOf, Listed, PaneIds
<1>9. ListedNotClosed'
  BY <1>1, NoSessionAssumption DEF IInv, TypeOK, Served, Fits, Undrawn,
     FreshApart, DoomedApart, ListedNotClosed, KillSession, Take, PanesOf,
     Listed, PaneIds
<1>10. SessionsHoldPanes'
  BY <1>1, TakeKeepsSessions DEF IInv, Served, Fits, KillSession
<1>11. ASSUME NEW p \in PaneIds, tree'[p] = "up" PROVE Owned(p)'
  <2>1. \A u \in Threads \ {t} : Held(u)' = Held(u)
    BY DEF IInv, TypeOK, Held, KillSession
  <2>2. CASE tree[p] = "up"
    <3>1. p \in Held(t) \cup Listed => p \in Held(t)' \cup Listed'
      BY <1>1, <2>2, NoSessionAssumption DEF IInv, TypeOK, Served, Fits,
         FreshApart, ReopenedGone, Held, KillSession, Take, PanesOf, Listed,
         PaneIds
    <3> QED
      BY <2>1, <2>2, <3>1, OwnedKept DEF IInv, NoLeak
  <2>3. CASE tree[p] # "up"
    BY <1>11, <2>3 DEF IInv, TypeOK, Held, Owned, KillSession, Take, PanesOf,
       Listed, PaneIds
  <2> QED BY <2>2, <2>3
<1>12. ASSUME NEW p \in PaneIds, tree'[p] = "dying" PROVE BeingReaped(p)'
  BY <1>12 DEF IInv, TypeOK, DoomedApart, NoLeak, BeingReaped, KillSession,
     Take, PanesOf, Listed, PaneIds
<1> QED
  BY <1>3, <1>4, <1>5, <1>6, <1>7, <1>8, <1>9, <1>10, <1>11, <1>12 DEF IInv,
     NoLeak

\* Sweep: every listed pane goes from the registry into the teardown.
LEMMA SweepStep ==
  ASSUME NEW t \in Threads, IInv, Sweep(t)
  PROVE  IInv'
<1>1. req[t] \in Request /\ Fits(req[t])
  BY RequestTypes DEF Served, IInv, Sweep
<1>3. TypeOK'
  BY <1>1, MaxPanesAssumption DEF IInv, TypeOK, Served, FreshApart, Fits,
     Sweep, DropPanes, Listed, PaneIds, PCs, Trees
<1>4. Served'
  BY <1>1 DEF IInv, TypeOK, Served, Fits, Sweep, PCs
<1>5. Undrawn'
  BY DEF IInv, TypeOK, Undrawn, Sweep, DropPanes, Listed, PaneIds
<1>6. FreshApart'
  BY <1>1, NoSessionAssumption DEF IInv, TypeOK, Served, Fits, Undrawn,
     FreshApart, DoomedApart, Sweep, DropPanes, Listed, PaneIds
<1>7. DoomedApart'
  BY <1>1, NoSessionAssumption DEF IInv, TypeOK, Served, Fits, Undrawn,
     FreshApart, DoomedApart, Sweep, DropPanes, Listed, PaneIds
<1>8. ReopenedGone'
  BY <1>1, ReopenedIsPane DEF IInv, TypeOK, Served, Undrawn, ReopenedGone,
     ListedNotClosed, Sweep, DropPanes, Listed, PaneIds
<1>9. ListedNotClosed'
  BY <1>1, NoSessionAssumption DEF IInv, TypeOK, Served, Fits, Undrawn,
     FreshApart, DoomedApart, ListedNotClosed, Sweep, DropPanes, Listed,
     PaneIds
<1>10. SessionsHoldPanes'
  BY DropKeepsSessions DEF IInv, Sweep
<1>11. ASSUME NEW p \in PaneIds, tree'[p] = "up" PROVE Owned(p)'
  <2>1. \A u \in Threads \ {t} : Held(u)' = Held(u)
    BY DEF IInv, TypeOK, Held, Sweep
  <2>2. CASE tree[p] = "up"
    <3>1. p \in Held(t) \cup Listed => p \in Held(t)' \cup Listed'
      BY <1>1, <2>2, NoSessionAssumption DEF IInv, TypeOK, Served, Fits,
         FreshApart, ReopenedGone, Held, Sweep, DropPanes, Listed, PaneIds
    <3> QED
      BY <2>1, <2>2, <3>1, OwnedKept DEF IInv, NoLeak
  <2>3. CASE tree[p] # "up"
    BY <1>11, <2>3 DEF IInv, TypeOK, Held, Owned, Sweep, DropPanes, Listed,
       PaneIds
  <2> QED BY <2>2, <2>3
<1>12. ASSUME NEW p \in PaneIds, tree'[p] = "dying" PROVE BeingReaped(p)'
  BY <1>12 DEF IInv, TypeOK, DoomedApart, NoLeak, BeingReaped, Sweep,
     DropPanes, Listed, PaneIds
<1> QED
  BY <1>3, <1>4, <1>5, <1>6, <1>7, <1>8, <1>9, <1>10, <1>11, <1>12 DEF IInv,
     NoLeak

\* Close: what the teardown closes is in its snapshot, and the snapshot is in the
\* hands of this thread or of a reaper when the closed trees start dying.
LEMMA CloseStep ==
  ASSUME NEW t \in Threads, IInv, Close(t)
  PROVE  IInv'
<1>1. req[t] \in Request /\ Fits(req[t])
  BY RequestTypes DEF Served, IInv, Close
<1>2. /\ pc' = [pc EXCEPT ![t] = IF mode[t] = "wait" THEN "kill" ELSE next[t]]
      /\ reaping' = IF mode[t] = "wait" THEN reaping ELSE reaping \cup victims[t]
  BY DEF Close
<1>3. pc'[t] \in {"kill", "open", "ok", "err", "exit"}
      /\ (pc'[t] # "kill" => pc'[t] = next[t])
  BY <1>2 DEF IInv, TypeOK
<1>4. \A u \in Threads \ {t} : pc'[u] = pc[u]
  BY <1>2 DEF IInv, TypeOK
<1>5. \A p \in PaneIds : tree'[p] = IF p \in doomed[t] /\ tree[p] = "up"
                                    THEN "dying" ELSE tree[p]
  BY DEF Close
<1>6. TypeOK'
  <2>1. pc' \in [Threads -> PCs]
    BY <1>2, <1>3 DEF IInv, TypeOK, PCs
  <2>2. tree' \in [PaneIds -> Trees]
    BY DEF IInv, TypeOK, Trees, Close
  <2>3. reaping' \subseteq PaneIds
    BY <1>2 DEF IInv, TypeOK
  <2> QED BY <2>1, <2>2, <2>3 DEF IInv, TypeOK, Close
<1>7. Served'
  <2> SUFFICES ASSUME NEW u \in Threads
               PROVE  Served!(u)'
    BY DEF Served
  <2>1. CASE u = t
    BY <1>1, <1>3, <2>1 DEF IInv, Served, Close
  <2>2. CASE u # t
    BY <1>4, <2>2 DEF IInv, Served, Close
  <2> QED BY <2>1, <2>2
<1>8. Undrawn'
  BY <1>5 DEF IInv, TypeOK, Undrawn, Close
<1>9. FreshApart'
  <2>1. \A u \in Threads : pc[u] \in {"push", "replace"} <=> pc'[u] \in {"push", "replace"}
    BY <1>3, <1>4 DEF Close
  <2> QED BY <1>5, <2>1 DEF IInv, TypeOK, FreshApart, Listed, Close
<1>10. DoomedApart'
  BY <1>3, <1>4, <1>5 DEF IInv, TypeOK, DoomedApart, Listed, Close
<1>11. ReopenedGone'
  BY <1>3, <1>4, <1>5, ReopenedIsPane DEF IInv, ReopenedGone, Close
<1>12. ListedNotClosed'
  BY <1>5 DEF IInv, DoomedApart, ListedNotClosed, Listed, Close
<1>13. SessionsHoldPanes'
  BY DEF IInv, SessionsHoldPanes, PanesOf, Close
<1>14. ASSUME NEW p \in PaneIds, tree'[p] = "up" PROVE Owned(p)'
  <2>1. tree[p] = "up" /\ p \notin doomed[t]
    BY <1>5, <1>14
  <2>2. \A u \in Threads \ {t} : Held(u)' = Held(u)
    BY <1>4 DEF Held, Close
  <2>3. p \in Held(t) \cup Listed => p \in Held(t)' \cup Listed'
    BY <2>1 DEF Held, Listed, Close
  <2> QED BY <2>1, <2>2, <2>3, OwnedKept DEF IInv, NoLeak
<1>15. ASSUME NEW p \in PaneIds, tree'[p] = "dying" PROVE BeingReaped(p)'
  <2>1. CASE tree[p] = "dying"
    <3>1. BeingReaped(p)
      BY <2>1 DEF IInv, NoLeak
    <3> QED BY <1>2, <1>4, <3>1 DEF BeingReaped, Close
  <2>2. CASE tree[p] # "dying"
    <3>1. p \in victims[t]
      BY <1>5, <1>15, <2>2 DEF IInv, DoomedApart, Close
    <3> QED BY <1>2, <3>1 DEF IInv, TypeOK, BeingReaped, Close
  <2> QED BY <2>1, <2>2
<1> QED
  BY <1>6, <1>7, <1>8, <1>9, <1>10, <1>11, <1>12, <1>13, <1>14, <1>15
     DEF IInv, NoLeak

-----------------------------------------------------------------------------
\* The places of a thread that holds a pane, or names one it found gone.
Holding == {"push", "replace", "reopen", "teardown", "close", "kill"}

\* A step that only moves one thread between places where it holds nothing keeps
\* every part of IInv but the types.
LEMMA QuietStep ==
  ASSUME NEW t \in Threads, NEW w, IInv, TypeOK', Served',
         Goto(t, w), pc[t] \notin Holding, w \notin Holding,
         \A u \in Threads \ {t} : req'[u] = req[u],
         UNCHANGED <<registry, tree, opened, fresh, killing, reaping>>
  PROVE  IInv'
<1>1. pc'[t] = w /\ \A u \in Threads \ {t} : pc'[u] = pc[u]
  BY DEF IInv, TypeOK
<1>2. \A u \in Threads : pc'[u] = pc[u] \/ (pc[u] \notin Holding /\ pc'[u] \notin Holding)
  BY <1>1
<1>3. Undrawn'
  BY DEF IInv, Undrawn
<1>4. FreshApart'
  <2>1. \A u \in Threads : pc[u] \in {"push", "replace"} <=> pc'[u] \in {"push", "replace"}
    BY <1>2 DEF Holding
  <2> QED BY <2>1 DEF IInv, FreshApart, Listed
<1>5. DoomedApart'
  BY <1>2 DEF IInv, DoomedApart, Listed, Holding
<1>6. ReopenedGone'
  BY <1>1 DEF IInv, ReopenedGone, Holding
<1>7. ListedNotClosed' /\ SessionsHoldPanes'
  BY DEF IInv, ListedNotClosed, SessionsHoldPanes, PanesOf, Listed
<1>8. ASSUME NEW p \in PaneIds, tree'[p] = "up" PROVE Owned(p)'
  <2>1. \A u \in Threads : Held(u)' = Held(u)
    BY <1>2 DEF Held, Holding
  <2> QED BY <1>8, <2>1 DEF IInv, NoLeak, Owned, Listed
<1>9. ASSUME NEW p \in PaneIds, tree'[p] = "dying" PROVE BeingReaped(p)'
  BY <1>2, <1>9 DEF IInv, NoLeak, BeingReaped, Holding
<1> QED BY <1>3, <1>4, <1>5, <1>6, <1>7, <1>8, <1>9 DEF IInv, NoLeak

\* The steps of a request that hold nothing: reading, admitting or refusing it,
\* ending a batch, finding the session to split, and the shutdown's own steps.
LEMMA RecvStep ==
  ASSUME NEW t \in Threads, NEW r \in Request, IInv, Recv(t, r)
  PROVE  IInv'
<1>1. TypeOK'
  BY DEF IInv, TypeOK, Recv, PCs
<1>2. Served'
  BY DEF IInv, TypeOK, Served, Recv
<1>3. \A u \in Threads \ {t} : req'[u] = req[u]
  BY DEF IInv, TypeOK, Recv
<1> QED BY <1>1, <1>2, <1>3, QuietStep DEF Recv, Holding

\* Admit hands a request to its handler, or hangs up on it.
LEMMA AdmitStep ==
  ASSUME NEW t \in Threads, IInv, Admit(t)
  PROVE  IInv'
<1>1. req[t] \in Request /\ Fits(req[t])
  BY RequestTypes DEF Served, IInv, Admit
<1>2. CASE retiring
  <2>1. TypeOK'
    BY <1>2 DEF IInv, TypeOK, Admit, PCs
  <2>2. Served'
    <3>1. pc'[t] = "idle" /\ \A u \in Threads \ {t} : pc'[u] = pc[u] /\ req'[u] = req[u]
      BY <1>2 DEF IInv, TypeOK, Admit
    <3> QED BY <3>1 DEF IInv, Served, Admit
  <2>3. \A u \in Threads \ {t} : req'[u] = req[u]
    BY <1>2 DEF IInv, TypeOK, Admit
  <2> QED BY <1>2, <2>1, <2>2, <2>3, QuietStep DEF Admit, Holding
<1>3. CASE ~retiring
  <2>1. TypeOK'
    <3>1. pc' \in [Threads -> PCs]
      <4>1. req[t].op \in PCs
        BY <1>1 DEF Fits, PCs
      <4>2. pc' = [pc EXCEPT ![t] = req[t].op]
        BY <1>3 DEF Admit
      <4>3. pc \in [Threads -> PCs]
        BY DEF IInv, TypeOK
      <4> QED
        BY <4>1, <4>2, <4>3
    <3> QED
      BY <1>3, <3>1 DEF IInv, TypeOK, Admit
  <2>2. Served'
    BY <1>1, <1>3 DEF IInv, TypeOK, Served, Fits, Admit
  <2>3. req[t].op \notin Holding
    BY <1>1 DEF Fits, Holding
  <2> QED BY <1>3, <2>1, <2>2, <2>3, QuietStep DEF Admit, Holding
<1> QED BY <1>2, <1>3

\* The steps that only say where their thread goes next.
LEMMA QuietSteps ==
  ASSUME NEW t \in Threads, IInv,
         \/ OpenDone(t) \/ SplitFinds(t) \/ Refuse(t) \/ Retire(t)
         \/ Drained(t) \/ DrainExpires(t) \/ SpawnExit(t)
         \/ SendTypes(t) \/ SendErrs(t)
  PROVE  IInv'
<1>1. pc[t] # "idle" => req[t] \in Request /\ Fits(req[t])
  BY RequestTypes DEF Served, IInv
<1>2. CASE OpenDone(t)
  <2>1. TypeOK' /\ Served'
    BY <1>2 DEF IInv, TypeOK, Served, OpenDone, PCs
  <2> QED BY <1>2, <2>1, QuietStep DEF OpenDone, Holding
<1>3. CASE SplitFinds(t)
  <2>1. TypeOK'
    BY <1>1, <1>3 DEF IInv, TypeOK, Served, Fits, SplitFinds, PCs
  <2>2. Served'
    BY <1>1, <1>3 DEF IInv, TypeOK, Served, SplitFinds
  <2> QED BY <1>3, <2>1, <2>2, QuietStep DEF SplitFinds, Holding
<1>4. CASE Refuse(t)
  <2>1. TypeOK' /\ Served'
    BY <1>4 DEF IInv, TypeOK, Served, Refuse, PCs
  <2> QED BY <1>4, <2>1, QuietStep DEF Refuse, Holding
<1>5. CASE Retire(t)
  <2>1. TypeOK' /\ Served'
    BY <1>5 DEF IInv, TypeOK, Served, Retire, PCs
  <2> QED BY <1>5, <2>1, QuietStep DEF Retire, Holding
<1>6. CASE Drained(t)
  <2>1. TypeOK' /\ Served'
    BY <1>6 DEF IInv, TypeOK, Served, Drained, PCs
  <2> QED BY <1>6, <2>1, QuietStep DEF Drained, Holding
<1>7. CASE DrainExpires(t)
  <2>1. TypeOK' /\ Served'
    BY <1>7 DEF IInv, TypeOK, Served, DrainExpires, PCs
  <2> QED BY <1>7, <2>1, QuietStep DEF DrainExpires, Holding
<1>8. CASE SpawnExit(t)
  <2>1. TypeOK' /\ Served'
    BY <1>8 DEF IInv, TypeOK, Served, SpawnExit, PCs
  <2> QED BY <1>8, <2>1, QuietStep DEF SpawnExit, Holding
<1>9. CASE SendTypes(t)
  <2>1. TypeOK' /\ Served'
    BY <1>9 DEF IInv, TypeOK, Served, SendTypes, PCs
  <2> QED BY <1>9, <2>1, QuietStep DEF SendTypes, Holding
<1>10. CASE SendErrs(t)
  <2>1. TypeOK' /\ Served'
    BY <1>10 DEF IInv, TypeOK, Served, SendErrs, PCs
  <2> QED BY <1>10, <2>1, QuietStep DEF SendErrs, Holding
<1> QED BY <1>2, <1>3, <1>4, <1>5, <1>6, <1>7, <1>8, <1>9, <1>10

-----------------------------------------------------------------------------
\* A shell that exits, a closed tree that dies and a tree that is reaped only
\* move a pane's processes towards their end.
LEMMA TreeStep ==
  ASSUME NEW p \in PaneIds, IInv, ShellExit(p) \/ TreeDies(p) \/ Reap(p)
  PROVE  IInv'
<1>1. /\ UNCHANGED <<registry, label, pc, req, todo, opened, fresh, killing, life>>
      /\ reaping' \subseteq reaping
      /\ \A q \in PaneIds \ {p} : tree'[q] = tree[q] /\ (q \in reaping => q \in reaping')
      /\ \/ tree[p] = "up" /\ tree'[p] = "gone"
         \/ tree[p] = "dying" /\ tree'[p] = "dead"
         \/ tree[p] # "dying" /\ tree'[p] = tree[p]
  BY DEF IInv, TypeOK, ShellExit, TreeDies, Reap
<1>2. TypeOK'
  <2>1. tree' \in [PaneIds -> Trees]
    BY DEF IInv, TypeOK, Trees, ShellExit, TreeDies, Reap
  <2> QED BY <1>1, <2>1 DEF IInv, TypeOK
<1>3. Served'
  BY <1>1 DEF IInv, Served
<1>4. Undrawn' /\ ListedNotClosed' /\ SessionsHoldPanes'
  BY <1>1 DEF IInv, Undrawn, ListedNotClosed, SessionsHoldPanes, PanesOf, Listed
<1>5. FreshApart'
  <2>1. ASSUME NEW u \in Threads, fresh[u] # NoPane
        PROVE  tree'[fresh[u]] \in {"up", "gone"}
    <3>1. fresh[u] \in PaneIds /\ tree[fresh[u]] \in {"up", "gone"}
      BY <2>1 DEF IInv, TypeOK, FreshApart
    <3> QED BY <1>1, <3>1
  <2> QED BY <1>1, <2>1 DEF IInv, FreshApart, Listed
<1>6. DoomedApart'
  BY <1>1 DEF IInv, TypeOK, DoomedApart, Listed
<1>7. ReopenedGone'
  BY <1>1, ReopenedIsPane DEF IInv, ReopenedGone
<1>8. ASSUME NEW q \in PaneIds, tree'[q] = "up" PROVE Owned(q)'
  <2>1. tree[q] = "up"
    BY <1>1, <1>8
  <2>2. \A u \in Threads : Held(u)' = Held(u)
    BY <1>1 DEF Held
  <2> QED BY <1>1, <2>1, <2>2 DEF IInv, NoLeak, Owned, Listed
<1>9. ASSUME NEW q \in PaneIds, tree'[q] = "dying" PROVE BeingReaped(q)'
  <2>1. q # p /\ tree[q] = "dying"
    BY <1>1, <1>9
  <2> QED BY <1>1, <2>1 DEF IInv, NoLeak, BeingReaped
<1> QED BY <1>2, <1>3, <1>4, <1>5, <1>6, <1>7, <1>8, <1>9 DEF IInv, NoLeak

\* A step that changes nothing IInv reads keeps it.
LEMMA UnchangedStep ==
  ASSUME IInv, process' \in {"up", "exiting", "exited"},
         UNCHANGED <<registry, tree, label, pc, req, batch, fresh, killing, reaping,
                     retiring, expired>>
  PROVE  IInv'
<1>1. TypeOK' /\ Served'
  BY DEF IInv, TypeOK, Served
<1>2. Undrawn' /\ FreshApart' /\ DoomedApart' /\ ReopenedGone'
  BY DEF IInv, Undrawn, FreshApart, DoomedApart, ReopenedGone, Listed
<1>3. ListedNotClosed' /\ SessionsHoldPanes'
  BY DEF IInv, ListedNotClosed, SessionsHoldPanes, PanesOf, Listed
<1>4. NoLeak'
  BY DEF IInv, NoLeak, Owned, BeingReaped, Held, Listed
<1> QED BY <1>1, <1>2, <1>3, <1>4 DEF IInv

-----------------------------------------------------------------------------
\* The fresh daemon of run(): an empty registry and no request.
LEMMA InitIInv == Init => IInv
<1> SUFFICES ASSUME Init PROVE IInv
  OBVIOUS
<1>1. TypeOK
  <2>1. nextPane \in 1 .. MaxPanes + 1
    BY MaxPanesAssumption DEF Init
  <2>2. /\ home \in [PaneIds -> Sessions \cup {NoSession}]
        /\ tree \in [PaneIds -> Trees]
        /\ label \in [PaneIds -> (Sessions \X Services) \cup {<<>>}]
    BY DEF Init, Trees
  <2>3. /\ pc \in [Threads -> PCs] /\ req \in [Threads -> Request \cup {<<>>}]
        /\ todo \in [Threads -> Seq(Services)] /\ opened \in [Threads -> SUBSET PaneIds]
        /\ fresh \in [Threads -> PaneIds \cup {NoPane}]
    BY DEF Init, PCs
  <2>4. /\ doomed \in [Threads -> SUBSET PaneIds] /\ victims \in [Threads -> SUBSET PaneIds]
        /\ mode \in [Threads -> {"wait", "async"}]
        /\ next \in [Threads -> {"open", "ok", "err", "exit"}]
    BY DEF Init
  <2> QED BY <2>1, <2>2, <2>3, <2>4 DEF Init, TypeOK
<1>2. Served /\ Undrawn /\ FreshApart /\ DoomedApart /\ ReopenedGone
  BY DEF Init, Served, Undrawn, FreshApart, DoomedApart, ReopenedGone, Listed
<1>3. ListedNotClosed /\ SessionsHoldPanes /\ NoLeak
  BY NoSessionAssumption DEF Init, ListedNotClosed, SessionsHoldPanes, NoLeak,
     PanesOf, Listed
<1> QED BY <1>1, <1>2, <1>3 DEF IInv

\* Every step of the daemon keeps the invariant, action by action.
LEMMA NextIInv == IInv /\ [Next]_vars => IInv'
<1> SUFFICES ASSUME IInv, [Next]_vars PROVE IInv'
  OBVIOUS
<1>1. ASSUME NEW t \in Threads, NEW r \in Request, Recv(t, r) PROVE IInv'
  BY <1>1, RecvStep
<1>2. ASSUME NEW t \in Threads, Step(t) PROVE IInv'
  BY <1>2, AdmitStep, ReplyStep, SnapshotStep, CloseStep, KillPidsStep,
     OpenNextStep, OpenNextFailsStep, PushOpenedStep, RollbackStep,
     StartTakesStep, SendFindsStep, ReopenStep, ReopenFailsStep,
     ReplaceGoneStep, ReplaceMissesStep, KillPaneStep, KillSessionStep,
     SweepStep, QuietSteps DEF Step
<1>3. ASSUME NEW p \in PaneIds, ShellExit(p) \/ TreeDies(p) \/ Reap(p) PROVE IInv'
  BY <1>3, TreeStep
<1>4. CASE DaemonExit
  BY <1>4, UnchangedStep DEF DaemonExit
<1>5. CASE UNCHANGED vars
  BY <1>5, UnchangedStep DEF vars, IInv, TypeOK
<1> QED BY <1>1, <1>2, <1>3, <1>4, <1>5 DEF Next

\* The invariant of the whole daemon.
THEOREM Invariance == Spec => []IInv
BY InitIInv, NextIInv, PTL DEF Spec

\* The registry, the threads' locals and the panes keep their types.
THEOREM TypeCorrect == Spec => []TypeOK
BY Invariance, PTL DEF IInv

\* However the requests interleave, no living shell and no dying process tree is
\* ever without a registry entry, a thread or a reaper that answers for it.
THEOREM NothingLeaks == Spec => []NoLeak
BY Invariance, PTL DEF IInv

\* A session name is in the registry exactly while some pane is listed under it.
THEOREM SessionsExact == Spec => []SessionsHoldPanes
BY Invariance, PTL DEF IInv

\* No listed pane is one the daemon has closed.
THEOREM ListedAreOpen == Spec => []ListedNotClosed
BY Invariance, PTL DEF IInv

-----------------------------------------------------------------------------
(***************************************************************************)
(* What the requests of SessionDaemon promise once they are answered: the  *)
(* panes a waited teardown took are gone, a batch that failed left nothing *)
(* behind, a shutdown that drained leaves nothing up and nothing listed,   *)
(* and no pane leaves the registry but at the hands of its own request.    *)
(*                                                                         *)
(* They follow from a second invariant, JInv, which says of a thread what  *)
(* its teardown is for and how far it has come.  It is inductive given     *)
(* IInv, which keeps the panes of different threads apart: a step of one   *)
(* thread leaves the panes another has taken where they were (OthersKept), *)
(* and trees only ever go onward, from up to gone or dying to dead         *)
(* (TreesOnward).                                                          *)
(***************************************************************************)

\* What the teardown a thread runs is for, and whether it waits, is what its request
\* asked.
RoutedAt(t) ==
  /\ pc[t] = "type" => req[t].op \in {"send", "kill_pane"}
  /\ pc[t] \in {"shutdown", "drain", "sweep", "exit"} => req[t].op = "shutdown"
  /\ pc[t] = "kill" => mode[t] = "wait"
  /\ pc[t] \in {"teardown", "close", "kill"} =>
       /\ next[t] = "open" => req[t].op = "start" /\ mode[t] = "wait"
       /\ next[t] = "exit" => req[t].op = "shutdown" /\ mode[t] = "wait"
       /\ next[t] = "err" => mode[t] = "async"
       /\ next[t] = "ok" => \/ req[t].op \in {"send", "kill_pane"}
                            \/ req[t].op = "kill_session" /\ (req[t].wait => mode[t] = "wait")

\* What a batch opened is its own until it is answered; what of it failed is in the
\* hands of the teardown that rolls it back, and when that is done is gone.
BatchedAt(t) ==
  /\ opened[t] # {} => \/ pc[t] \in {"open", "push", "rollback", "ok", "err"}
                       \/ pc[t] \in {"teardown", "close"} /\ next[t] = "err"
  /\ pc[t] \in {"teardown", "close"} /\ next[t] = "err" => opened[t] \subseteq doomed[t]
  /\ pc[t] = "err" => \A p \in opened[t] : p \notin Listed /\ tree[p] # "up"

\* The stages of the trees a teardown took on the way to the end it waits for.
ReapedAt(t) ==
  /\ pc[t] = "close" => \A p \in victims[t] : p \in doomed[t] /\ tree[p] # "unborn"
  /\ pc[t] = "kill" => /\ \A p \in victims[t] : tree[p] \in {"dying", "gone", "dead"}
                       /\ \A p \in doomed[t] : tree[p] # "up"
  /\ Waited(t) => /\ \A p \in victims[t] : tree[p] \in {"gone", "dead"}
                  /\ \A p \in doomed[t] : tree[p] # "up"

\* t is past its drain.
Leaving(t) ==
  \/ pc[t] \in {"sweep", "exit"}
  \/ pc[t] \in {"teardown", "close", "kill"} /\ next[t] = "exit"

\* A shutdown that drained is alone from then on, and what it swept stays away.
LeavingAt(t) ==
  /\ pc[t] = "drain" \/ Leaving(t) => retiring
  /\ Leaving(t) /\ ~expired => /\ \A u \in Threads \ {t} : pc[u] \in {"idle", "recv"}
                               /\ pc[t] # "sweep" => Listed = {}

\* So it is when the process is about to end.
Ended ==
  process # "up" =>
    /\ retiring
    /\ ~expired => Listed = {} /\ \A t \in Threads : pc[t] \in {"idle", "recv", "ok"}

\* What the threads of a daemon have come to, together.
JInv ==
  /\ \A t \in Threads : RoutedAt(t) /\ BatchedAt(t) /\ ReapedAt(t) /\ LeavingAt(t)
  /\ Ended

-----------------------------------------------------------------------------
(* What every step has in common.                                          *)

\* A step of one thread leaves what the others hold.
LEMMA OthersKept ==
  ASSUME TypeOK, NEW t \in Threads, Step(t), NEW u \in Threads \ {t}
  PROVE  /\ pc'[u] = pc[u] /\ req'[u] = req[u] /\ opened'[u] = opened[u]
         /\ doomed'[u] = doomed[u] /\ victims'[u] = victims[u]
         /\ mode'[u] = mode[u] /\ next'[u] = next[u]
<1>1. CASE Admit(t) \/ Reply(t)
  BY <1>1 DEF Admit, TypeOK, Reply
<1>2. CASE Snapshot(t) \/ Close(t) \/ KillPids(t)
  BY <1>2 DEF Snapshot, TypeOK, Close, KillPids
<1>3. CASE OpenNext(t) \/ OpenNextFails(t) \/ OpenDone(t) \/ PushOpened(t) \/ Rollback(t)
  BY <1>3 DEF OpenNext, OpenPane, TypeOK, OpenNextFails, OpenFails, OpenDone, PushOpened, Push,
     Rollback, DropPanes
<1>4. CASE StartTakes(t) \/ SplitFinds(t)
  BY <1>4 DEF StartTakes, Take, TypeOK, SplitFinds
<1>5. CASE SendFinds(t) \/ SendTypes(t) \/ SendErrs(t)
  BY <1>5 DEF SendFinds, TypeOK, SendTypes, SendErrs
<1>6. CASE Reopen(t) \/ ReopenFails(t) \/ ReplaceGone(t) \/ ReplaceMisses(t)
  BY <1>6 DEF Reopen, OpenPane, TypeOK, ReopenFails, OpenFails, ReplaceGone, Replace,
     ReplaceMisses
<1>7. CASE KillPane(t) \/ KillSession(t) \/ Refuse(t)
  BY <1>7 DEF KillPane, DropPanes, TypeOK, KillSession, Take, Refuse
<1>8. CASE Retire(t) \/ Drained(t) \/ DrainExpires(t) \/ Sweep(t) \/ SpawnExit(t)
  BY <1>8 DEF Retire, TypeOK, Drained, DrainExpires, Sweep, DropPanes, SpawnExit
<1> QED BY <1>1, <1>2, <1>3, <1>4, <1>5, <1>6, <1>7, <1>8 DEF Step

\* A pane not drawn yet has no tree.
LEMMA NextUnborn ==
  ASSUME IInv, nextPane \in PaneIds
  PROVE  tree[nextPane] = "unborn"
BY MaxPanesAssumption DEF IInv, TypeOK, Undrawn, PaneIds

\* Trees go onward: nothing that ended, or was closed, comes up again.
LEMMA TreesOnward ==
  ASSUME IInv, NEW t \in Threads, Step(t), NEW p \in PaneIds
  PROVE  /\ p # nextPane /\ tree[p] # "up" => tree'[p] # "up"
         /\ tree[p] # "unborn" => tree'[p] # "unborn"
         /\ tree[p] \in {"gone", "dying", "dead"} => tree'[p] \in {"gone", "dying", "dead"}
         /\ tree[p] \in {"gone", "dead"} => tree'[p] \in {"gone", "dead"}
<1>1. CASE Admit(t) \/ Reply(t)
  BY <1>1, NextUnborn DEF Admit, IInv, TypeOK, Reply
<1>2. CASE Snapshot(t) \/ Close(t) \/ KillPids(t)
  BY <1>2, NextUnborn DEF Snapshot, IInv, TypeOK, Close, KillPids
<1>3. CASE OpenNext(t) \/ OpenNextFails(t) \/ OpenDone(t) \/ PushOpened(t) \/ Rollback(t)
  BY <1>3, NextUnborn DEF OpenNext, OpenPane, IInv, TypeOK, OpenNextFails, OpenFails, OpenDone,
     PushOpened, Push, Rollback, DropPanes
<1>4. CASE StartTakes(t) \/ SplitFinds(t)
  BY <1>4, NextUnborn DEF StartTakes, Take, IInv, TypeOK, SplitFinds
<1>5. CASE SendFinds(t) \/ SendTypes(t) \/ SendErrs(t)
  BY <1>5, NextUnborn DEF SendFinds, IInv, TypeOK, SendTypes, SendErrs
<1>6. CASE Reopen(t) \/ ReopenFails(t) \/ ReplaceGone(t) \/ ReplaceMisses(t)
  BY <1>6, NextUnborn DEF Reopen, OpenPane, IInv, TypeOK, ReopenFails, OpenFails, ReplaceGone,
     Replace, ReplaceMisses
<1>7. CASE KillPane(t) \/ KillSession(t) \/ Refuse(t)
  BY <1>7, NextUnborn DEF KillPane, DropPanes, IInv, TypeOK, KillSession, Take, Refuse
<1>8. CASE Retire(t) \/ Drained(t) \/ DrainExpires(t) \/ Sweep(t) \/ SpawnExit(t)
  BY <1>8, NextUnborn DEF Retire, IInv, TypeOK, Drained, DrainExpires, Sweep, DropPanes, SpawnExit
<1> QED BY <1>1, <1>2, <1>3, <1>4, <1>5, <1>6, <1>7, <1>8 DEF Step

\* What a step lists is the pane its thread has just opened.
LEMMA ListsFresh ==
  ASSUME IInv, NEW t \in Threads, Step(t), NEW p \in Listed' \ Listed
  PROVE  p = fresh[t] /\ pc[t] \in {"push", "replace"}
<1>1. CASE Admit(t) \/ Reply(t)
  BY <1>1, NoSessionAssumption DEF Admit, IInv, TypeOK, Listed, Reply
<1>2. CASE Snapshot(t) \/ Close(t) \/ KillPids(t)
  BY <1>2, NoSessionAssumption DEF Snapshot, IInv, TypeOK, Listed, Close, KillPids
<1>3. CASE OpenNext(t) \/ OpenNextFails(t) \/ OpenDone(t) \/ PushOpened(t) \/ Rollback(t)
  BY <1>3, NoSessionAssumption DEF OpenNext, OpenPane, IInv, TypeOK, Listed, OpenNextFails,
     OpenFails, OpenDone, PushOpened, Push, Rollback, DropPanes
<1>4. CASE StartTakes(t) \/ SplitFinds(t)
  BY <1>4, NoSessionAssumption DEF StartTakes, Take, IInv, TypeOK, Listed, SplitFinds
<1>5. CASE SendFinds(t) \/ SendTypes(t) \/ SendErrs(t)
  BY <1>5, NoSessionAssumption DEF SendFinds, IInv, TypeOK, Listed, SendTypes, SendErrs
<1>6. CASE Reopen(t) \/ ReopenFails(t) \/ ReplaceGone(t) \/ ReplaceMisses(t)
  BY <1>6, NoSessionAssumption DEF Reopen, OpenPane, IInv, TypeOK, Listed, ReopenFails,
     OpenFails, ReplaceGone, Replace, ReplaceMisses
<1>7. CASE KillPane(t) \/ KillSession(t) \/ Refuse(t)
  BY <1>7, NoSessionAssumption DEF KillPane, DropPanes, IInv, TypeOK, Listed, KillSession, Take,
     Refuse
<1>8. CASE Retire(t) \/ Drained(t) \/ DrainExpires(t) \/ Sweep(t) \/ SpawnExit(t)
  BY <1>8, NoSessionAssumption DEF Retire, IInv, TypeOK, Listed, Drained, DrainExpires, Sweep,
     DropPanes, SpawnExit
<1> QED BY <1>1, <1>2, <1>3, <1>4, <1>5, <1>6, <1>7, <1>8 DEF Step

-----------------------------------------------------------------------------
(* The parts.                                                              *)

\* What a teardown is for, and the request behind it, do not change under way.
LEMMA RoutedStep ==
  ASSUME IInv, JInv, NEW t \in Threads, Step(t), NEW u \in Threads
  PROVE  RoutedAt(u)'
<1>1. TypeOK /\ Served /\ FreshApart /\ DoomedApart /\ Undrawn /\ RoutedAt(u) /\ RoutedAt(t)
  BY DEF IInv, JInv
<1>2. pc[t] # "idle" => Fits(req[t])
  BY <1>1, RequestTypes DEF Served
<1>3. CASE u # t
  BY <1>1, <1>3, OthersKept DEF RoutedAt
<1>4. CASE u = t /\ (Admit(t) \/ Reply(t))
  BY <1>1, <1>2, <1>4 DEF Admit, TypeOK, Served, RoutedAt, Fits, Reply
<1>5. CASE u = t /\ (Snapshot(t) \/ Close(t) \/ KillPids(t))
  BY <1>1, <1>2, <1>5 DEF Snapshot, TypeOK, Served, RoutedAt, Fits, Close, KillPids
<1>6. CASE u = t /\ (OpenNext(t) \/ OpenNextFails(t) \/ OpenDone(t) \/ PushOpened(t) \/
          Rollback(t))
  BY <1>1, <1>2, <1>6 DEF OpenNext, OpenPane, TypeOK, Served, RoutedAt, Fits, OpenNextFails,
     OpenFails, OpenDone, PushOpened, Push, Rollback, DropPanes
<1>7. CASE u = t /\ (StartTakes(t) \/ SplitFinds(t))
  BY <1>1, <1>2, <1>7 DEF StartTakes, Take, TypeOK, Served, RoutedAt, Fits, SplitFinds
<1>8. CASE u = t /\ (SendFinds(t) \/ SendTypes(t) \/ SendErrs(t))
  BY <1>1, <1>2, <1>8 DEF SendFinds, TypeOK, Served, RoutedAt, Fits, SendTypes, SendErrs
<1>9. CASE u = t /\ (Reopen(t) \/ ReopenFails(t) \/ ReplaceGone(t) \/ ReplaceMisses(t))
  BY <1>1, <1>2, <1>9 DEF Reopen, OpenPane, TypeOK, Served, RoutedAt, Fits, ReopenFails,
     OpenFails, ReplaceGone, Replace, ReplaceMisses
<1>10. CASE u = t /\ (KillPane(t) \/ KillSession(t) \/ Refuse(t))
  BY <1>1, <1>2, <1>10 DEF KillPane, DropPanes, TypeOK, Served, RoutedAt, Fits, KillSession,
     Take, Refuse
<1>11. CASE u = t /\ (Retire(t) \/ Drained(t) \/ DrainExpires(t) \/ Sweep(t) \/ SpawnExit(t))
  BY <1>1, <1>2, <1>11 DEF Retire, TypeOK, Served, RoutedAt, Fits, Drained, DrainExpires, Sweep,
     DropPanes, SpawnExit
<1> QED BY <1>3, <1>4, <1>5, <1>6, <1>7, <1>8, <1>9, <1>10, <1>11 DEF Step

\* What a batch opened is nobody else's until it is answered, and what failed is gone then.
LEMMA BatchedStep ==
  ASSUME IInv, JInv, NEW t \in Threads, Step(t), NEW u \in Threads
  PROVE  BatchedAt(u)'
<1>1. TypeOK /\ Served /\ FreshApart /\ DoomedApart /\ Undrawn /\ BatchedAt(u) /\ RoutedAt(t)
  BY DEF IInv, JInv
<1>2. pc[t] # "idle" => Fits(req[t])
  BY <1>1, RequestTypes DEF Served
<1>3. CASE u # t
  <2>1. /\ pc'[u] = pc[u] /\ next'[u] = next[u] /\ opened'[u] = opened[u] /\ doomed'[u] = doomed[u]
        /\ opened[u] \subseteq PaneIds
    BY <1>1, <1>3, OthersKept DEF TypeOK
  <2>2. ASSUME NEW p \in opened[u], p \notin Listed, tree[p] # "up"
        PROVE  p \notin Listed' /\ tree'[p] # "up"
    <3>1. p \in PaneIds /\ p # nextPane
      BY <1>1, <2>1, MaxPanesAssumption DEF Undrawn, TypeOK, PaneIds
    <3>2. tree'[p] # "up"
      BY <2>2, <3>1, TreesOnward
    <3>3. p \notin Listed'
      BY <1>1, <2>2, <3>1, ListsFresh DEF FreshApart
    <3> QED BY <3>2, <3>3
  <2> QED BY <1>1, <2>1, <2>2 DEF BatchedAt
<1>4. CASE u = t /\ (Admit(t) \/ Reply(t))
  BY <1>1, <1>2, <1>4 DEF Admit, TypeOK, Served, BatchedAt, Fits, Reply
<1>5. CASE u = t /\ (Snapshot(t) \/ Close(t) \/ KillPids(t))
  BY <1>1, <1>2, <1>5 DEF Snapshot, TypeOK, Served, BatchedAt, Fits, Close, RoutedAt,
     DoomedApart, Listed, KillPids
<1>6. CASE u = t /\ (OpenNext(t) \/ OpenNextFails(t) \/ OpenDone(t) \/ PushOpened(t) \/
          Rollback(t))
  BY <1>1, <1>2, <1>6, NextUnborn DEF OpenNext, OpenPane, TypeOK, BatchedAt, OpenNextFails,
     OpenFails, OpenDone, PushOpened, Push, Rollback, DropPanes, Served, Fits
<1>7. CASE u = t /\ (StartTakes(t) \/ SplitFinds(t))
  BY <1>1, <1>2, <1>7 DEF StartTakes, Take, TypeOK, Served, BatchedAt, Fits, SplitFinds
<1>8. CASE u = t /\ (SendFinds(t) \/ SendTypes(t) \/ SendErrs(t))
  BY <1>1, <1>2, <1>8 DEF SendFinds, TypeOK, Served, BatchedAt, Fits, SendTypes, SendErrs,
     RoutedAt
<1>9. CASE u = t /\ (Reopen(t) \/ ReopenFails(t) \/ ReplaceGone(t) \/ ReplaceMisses(t))
  BY <1>1, <1>2, <1>9, NextUnborn DEF Reopen, OpenPane, TypeOK, Served, BatchedAt, Fits,
     ReopenFails, OpenFails, RoutedAt, ReplaceGone, Replace, ReplaceMisses
<1>10. CASE u = t /\ (KillPane(t) \/ KillSession(t) \/ Refuse(t))
  BY <1>1, <1>2, <1>10 DEF KillPane, DropPanes, TypeOK, Served, BatchedAt, Fits, KillSession,
     Take, Refuse
<1>11. CASE u = t /\ (Retire(t) \/ Drained(t) \/ DrainExpires(t) \/ Sweep(t) \/ SpawnExit(t))
  BY <1>1, <1>2, <1>11 DEF Retire, TypeOK, Served, BatchedAt, Fits, Drained, DrainExpires, Sweep,
     DropPanes, SpawnExit, RoutedAt
<1> QED BY <1>3, <1>4, <1>5, <1>6, <1>7, <1>8, <1>9, <1>10, <1>11 DEF Step

\* What a waited teardown took goes onward to its end and stays there.
LEMMA ReapedStep ==
  ASSUME IInv, JInv, NEW t \in Threads, Step(t), NEW u \in Threads
  PROVE  ReapedAt(u)'
<1>1. TypeOK /\ Served /\ FreshApart /\ DoomedApart /\ Undrawn /\ ReapedAt(u) /\ RoutedAt(t)
  BY DEF IInv, JInv
<1>2. pc[t] # "idle" => Fits(req[t])
  BY <1>1, RequestTypes DEF Served
<1>3. CASE u # t
  <2>1. /\ pc'[u] = pc[u] /\ req'[u] = req[u] /\ doomed'[u] = doomed[u] /\ victims'[u] = victims[u]
        /\ doomed[u] \subseteq PaneIds /\ victims[u] \subseteq PaneIds
    BY <1>1, <1>3, OthersKept DEF TypeOK
  <2>2. \A p \in doomed[u] : p # nextPane
    BY <1>1, <2>1, MaxPanesAssumption DEF Undrawn, TypeOK, PaneIds
  <2>3. /\ \A p \in doomed[u] : tree[p] # "up" => tree'[p] # "up"
        /\ \A p \in victims[u] :
             /\ tree[p] # "unborn" => tree'[p] # "unborn"
             /\ tree[p] \in {"gone", "dying", "dead"} => tree'[p] \in {"gone", "dying", "dead"}
             /\ tree[p] \in {"gone", "dead"} => tree'[p] \in {"gone", "dead"}
    BY <2>1, <2>2, TreesOnward
  <2> QED BY <1>1, <2>1, <2>3 DEF ReapedAt, Waited
<1>4. CASE u = t /\ (Admit(t) \/ Reply(t))
  BY <1>1, <1>2, <1>4 DEF Admit, TypeOK, Served, ReapedAt, Waited, Fits, Reply
<1>5. CASE u = t /\ (Snapshot(t) \/ KillPids(t))
  BY <1>1, <1>2, <1>5 DEF Snapshot, TypeOK, Served, ReapedAt, Waited, Fits, Alive, KillPids,
     RoutedAt
<1>6. CASE u = t /\ Close(t)
  <2>1. /\ pc'[t] = (IF mode[t] = "wait" THEN "kill" ELSE next[t])
        /\ pc[t] = "close" /\ UNCHANGED <<req, doomed, victims>>
        /\ \A p \in PaneIds : tree'[p] = IF p \in doomed[t] /\ tree[p] = "up" THEN "dying" ELSE
           tree[p]
    BY <1>1, <1>6 DEF Close, TypeOK
  <2>2. doomed[t] \subseteq PaneIds /\ victims[t] \subseteq doomed[t]
    BY <1>1, <1>6, <2>1 DEF TypeOK, ReapedAt
  <2>3. \A p \in victims[t] : tree'[p] \in {"dying", "gone", "dead"}
    BY <1>1, <1>6, <2>1, <2>2 DEF TypeOK, Trees, ReapedAt
  <2>4. \A p \in doomed[t] : tree'[p] # "up"
    BY <2>1, <2>2
  <2>5. CASE mode[t] = "wait"
    BY <1>6, <2>1, <2>3, <2>4, <2>5 DEF ReapedAt, Waited
  <2>6. CASE mode[t] # "wait"
    <3>1. next[t] \in {"ok", "err"} /\ ~Waited(t)'
      BY <1>1, <1>6, <2>1, <2>6 DEF RoutedAt, TypeOK, Waited
    <3> QED BY <1>6, <2>1, <2>6, <3>1 DEF ReapedAt
  <2> QED BY <2>5, <2>6
<1>7. CASE u = t /\ (OpenNextFails(t) \/ OpenDone(t) \/ PushOpened(t) \/ Rollback(t))
  BY <1>1, <1>2, <1>7, NextUnborn, MaxPanesAssumption DEF OpenNextFails, OpenFails, TypeOK,
     Served, ReapedAt, Waited, Fits, Undrawn, PaneIds, OpenDone, PushOpened, Push, Rollback,
     DropPanes
<1>8. CASE u = t /\ OpenNext(t)
  <2>1. /\ pc' = [pc EXCEPT ![t] = "push"] /\ pc[t] = "open" /\ UNCHANGED <<req, doomed, victims>>
        /\ tree' = [tree EXCEPT ![nextPane] = "up"] /\ nextPane \in PaneIds
    BY <1>8 DEF OpenNext, OpenPane
  <2>2. pc'[t] = "push" /\ (Waited(t)' => Waited(t))
    BY <1>1, <2>1 DEF TypeOK, Waited
  <2>3. \A p \in doomed[t] : p # nextPane /\ p \in PaneIds
    BY <1>1, <2>1, MaxPanesAssumption DEF Undrawn, TypeOK, PaneIds
  <2>4. \A p \in victims[t] : tree[p] \in {"gone", "dead"} => p # nextPane /\ p \in PaneIds
    BY <1>1, <2>1, NextUnborn DEF TypeOK
  <2>5. \A p \in PaneIds : p # nextPane => tree'[p] = tree[p]
    BY <1>1, <2>1 DEF TypeOK
  <2> QED BY <1>1, <1>8, <2>1, <2>2, <2>3, <2>4, <2>5 DEF ReapedAt
<1>9. CASE u = t /\ (StartTakes(t) \/ SplitFinds(t))
  BY <1>1, <1>2, <1>9 DEF StartTakes, Take, TypeOK, Served, ReapedAt, Waited, Fits, SplitFinds
<1>10. CASE u = t /\ (SendFinds(t) \/ SendTypes(t) \/ SendErrs(t))
  BY <1>1, <1>2, <1>10 DEF SendFinds, TypeOK, Served, ReapedAt, Waited, Fits, SendTypes,
     RoutedAt, SendErrs
<1>11. CASE u = t /\ (Reopen(t) \/ ReopenFails(t) \/ ReplaceGone(t) \/ ReplaceMisses(t))
  BY <1>1, <1>2, <1>11, NextUnborn, MaxPanesAssumption DEF Reopen, OpenPane, TypeOK, Served,
     ReapedAt, Waited, Fits, Undrawn, PaneIds, ReopenFails, OpenFails, ReplaceGone, Replace,
     RoutedAt, ReplaceMisses
<1>12. CASE u = t /\ (KillPane(t) \/ KillSession(t) \/ Refuse(t))
  BY <1>1, <1>2, <1>12 DEF KillPane, DropPanes, TypeOK, Served, ReapedAt, Waited, Fits,
     KillSession, Take, Refuse
<1>13. CASE u = t /\ (Retire(t) \/ Drained(t) \/ DrainExpires(t) \/ Sweep(t) \/ SpawnExit(t))
  BY <1>1, <1>2, <1>13 DEF Retire, TypeOK, Served, ReapedAt, Waited, Fits, Drained, DrainExpires,
     Sweep, DropPanes, SpawnExit, RoutedAt
<1> QED BY <1>3, <1>4, <1>5, <1>6, <1>7, <1>8, <1>9, <1>10, <1>11, <1>12, <1>13 DEF Step

\* RETIRING and a missed deadline are never taken back, and the process ends only by
\* SpawnExit.
LEMMA LifeOnward ==
  ASSUME TypeOK, NEW t \in Threads, Step(t)
  PROVE  /\ (retiring => retiring') /\ (expired => expired')
         /\ process' # process => SpawnExit(t)
<1>1. CASE Admit(t) \/ Reply(t)
  BY <1>1 DEF Admit, Reply
<1>2. CASE Snapshot(t) \/ Close(t) \/ KillPids(t)
  BY <1>2 DEF Snapshot, Close, KillPids
<1>3. CASE OpenNext(t) \/ OpenNextFails(t) \/ OpenDone(t) \/ PushOpened(t) \/ Rollback(t)
  BY <1>3 DEF OpenNext, OpenPane, OpenNextFails, OpenFails, OpenDone, PushOpened, Push, Rollback,
     DropPanes
<1>4. CASE StartTakes(t) \/ SplitFinds(t)
  BY <1>4 DEF StartTakes, Take, SplitFinds
<1>5. CASE SendFinds(t) \/ SendTypes(t) \/ SendErrs(t)
  BY <1>5 DEF SendFinds, SendTypes, SendErrs
<1>6. CASE Reopen(t) \/ ReopenFails(t) \/ ReplaceGone(t) \/ ReplaceMisses(t)
  BY <1>6 DEF Reopen, OpenPane, ReopenFails, OpenFails, ReplaceGone, Replace, ReplaceMisses
<1>7. CASE KillPane(t) \/ KillSession(t) \/ Refuse(t)
  BY <1>7 DEF KillPane, DropPanes, KillSession, Take, Refuse
<1>8. CASE Retire(t) \/ Drained(t) \/ DrainExpires(t) \/ Sweep(t) \/ SpawnExit(t)
  BY <1>8 DEF Retire, Drained, DrainExpires, Sweep, DropPanes, SpawnExit
<1> QED BY <1>1, <1>2, <1>3, <1>4, <1>5, <1>6, <1>7, <1>8 DEF Step

\* A thread that is past its drain finds the others idle, or about to be hung up on.
LEMMA LeavingStep ==
  ASSUME IInv, JInv, NEW t \in Threads, Step(t), NEW u \in Threads
  PROVE  LeavingAt(u)'
<1>1. TypeOK /\ LeavingAt(u) /\ RoutedAt(t) /\ (pc[t] # "idle" => Fits(req[t]))
  BY RequestTypes DEF IInv, JInv, Served
<1>2. (retiring => retiring') /\ (expired => expired')
  BY <1>1, LifeOnward
<1>3. CASE u # t
  <2>1. /\ pc'[u] = pc[u] /\ Leaving(u)' = Leaving(u)
        /\ \A v \in Threads \ {t} : pc'[v] = pc[v]
    BY <1>1, <1>3, OthersKept DEF Leaving
  <2>2. ASSUME Leaving(u), ~expired
        PROVE  pc'[t] = "idle" /\ Listed' = Listed
    <3>1. retiring /\ pc[t] \in {"idle", "recv"}
      BY <1>1, <1>3, <2>2 DEF LeavingAt
    <3>2. Admit(t)
      BY <3>1 DEF Step, Reply, Snapshot, Close, KillPids, OpenNext, OpenNextFails, OpenDone, PushOpened,
         Rollback, StartTakes, SplitFinds, SendFinds, SendTypes, SendErrs, Reopen, ReopenFails,
         ReplaceGone, ReplaceMisses, KillPane, KillSession, Refuse, Retire, Drained, DrainExpires,
         Sweep, SpawnExit
    <3> QED BY <1>1, <3>1, <3>2 DEF Admit, TypeOK, Listed
  <2>3. ASSUME Leaving(u), ~expired
        PROVE  /\ \A v \in Threads \ {u} : pc'[v] \in {"idle", "recv"}
               /\ pc[u] # "sweep" => Listed' = {}
    BY <1>1, <2>1, <2>2, <2>3 DEF LeavingAt
  <2> QED BY <1>1, <1>2, <2>1, <2>3 DEF LeavingAt
<1>4. CASE u = t /\ Reply(t)
  BY <1>1, <1>2, <1>4 DEF Reply, Listed, TypeOK, LeavingAt, Leaving
<1>5. CASE u = t /\ Admit(t)
  BY <1>1, <1>2, <1>5 DEF Admit, Listed, TypeOK, LeavingAt, Leaving, Fits
<1>6. CASE u = t /\ (Snapshot(t) \/ Close(t) \/ KillPids(t))
  BY <1>1, <1>2, <1>6 DEF Snapshot, Listed, TypeOK, LeavingAt, Leaving, Close, RoutedAt, KillPids
<1>7. CASE u = t /\ (OpenNext(t) \/ OpenNextFails(t) \/ OpenDone(t) \/ PushOpened(t) \/
          Rollback(t))
  BY <1>1, <1>2, <1>7 DEF OpenNext, OpenPane, Listed, TypeOK, LeavingAt, Leaving, OpenNextFails,
     OpenFails, OpenDone, PushOpened, Push, Rollback, DropPanes
<1>8. CASE u = t /\ (StartTakes(t) \/ SplitFinds(t))
  BY <1>1, <1>2, <1>8 DEF StartTakes, Take, Listed, TypeOK, LeavingAt, Leaving, SplitFinds
<1>9. CASE u = t /\ (SendFinds(t) \/ SendTypes(t) \/ SendErrs(t))
  BY <1>1, <1>2, <1>9 DEF SendFinds, Listed, TypeOK, LeavingAt, Leaving, SendTypes, SendErrs
<1>10. CASE u = t /\ (Reopen(t) \/ ReopenFails(t) \/ ReplaceGone(t) \/ ReplaceMisses(t))
  BY <1>1, <1>2, <1>10 DEF Reopen, OpenPane, Listed, TypeOK, LeavingAt, Leaving, ReopenFails,
     OpenFails, ReplaceGone, Replace, ReplaceMisses
<1>11. CASE u = t /\ (KillPane(t) \/ KillSession(t) \/ Refuse(t))
  BY <1>1, <1>2, <1>11 DEF KillPane, DropPanes, Listed, TypeOK, LeavingAt, Leaving, KillSession,
     Take, Refuse
<1>12. CASE u = t /\ (Retire(t) \/ Drained(t) \/ DrainExpires(t) \/ Sweep(t) \/ SpawnExit(t))
  BY <1>1, <1>2, <1>12 DEF Retire, Listed, TypeOK, LeavingAt, Leaving, Drained, InFlight,
     DrainExpires, Sweep, DropPanes, SpawnExit
<1> QED BY <1>3, <1>4, <1>5, <1>6, <1>7, <1>8, <1>9, <1>10, <1>11, <1>12 DEF Step

\* The process that is about to end has nothing listed, if its shutdown drained.
LEMMA EndedStep ==
  ASSUME IInv, JInv, NEW t \in Threads, Step(t)
  PROVE  Ended'
<1>1. TypeOK /\ Ended /\ LeavingAt(t)
  BY DEF IInv, JInv
<1>2. /\ (retiring => retiring') /\ (expired => expired')
      /\ process' # process => SpawnExit(t)
  BY <1>1, LifeOnward
<1>3. CASE SpawnExit(t)
  <2>1. /\ Leaving(t) /\ pc[t] # "sweep" /\ Listed' = Listed
        /\ pc'[t] = "ok" /\ \A u \in Threads \ {t} : pc'[u] = pc[u]
    BY <1>1, <1>3 DEF SpawnExit, TypeOK, Leaving, Listed
  <2> QED BY <1>1, <1>2, <2>1 DEF LeavingAt, Ended
<1>4. CASE ~SpawnExit(t) /\ process # "up" /\ ~expired
  <2>1. retiring /\ Listed = {} /\ \A u \in Threads : pc[u] \in {"idle", "recv", "ok"}
    BY <1>1, <1>4 DEF Ended
  <2>2. Admit(t) \/ Reply(t)
    BY <2>1 DEF Step, Snapshot, Close, KillPids, OpenNext, OpenNextFails, OpenDone, PushOpened,
       Rollback, StartTakes, SplitFinds, SendFinds, SendTypes, SendErrs, Reopen, ReopenFails,
       ReplaceGone, ReplaceMisses, KillPane, KillSession, Refuse, Retire, Drained, DrainExpires,
       Sweep, SpawnExit
  <2>3. pc' = [pc EXCEPT ![t] = "idle"] /\ UNCHANGED home
    BY <2>1, <2>2 DEF Admit, Reply
  <2>4. Listed' = {} /\ \A u \in Threads : pc'[u] \in {"idle", "recv", "ok"}
    BY <1>1, <2>1, <2>3 DEF TypeOK, Listed
  <2> QED BY <1>2, <2>1, <2>4 DEF Ended
<1>5. CASE ~SpawnExit(t) /\ (process = "up" \/ expired)
  BY <1>1, <1>2, <1>5 DEF Ended
<1> QED BY <1>3, <1>4, <1>5

-----------------------------------------------------------------------------
(* The steps of no thread's request.                                       *)

\* A request that arrives has opened and taken nothing yet.
LEMMA RecvKeeps ==
  ASSUME IInv, JInv, NEW t \in Threads, NEW r \in Request, Recv(t, r)
  PROVE  JInv'
<1>1. /\ TypeOK /\ FreshApart /\ Ended
      /\ \A u \in Threads : RoutedAt(u) /\ BatchedAt(u) /\ ReapedAt(u) /\ LeavingAt(u)
  BY DEF IInv, JInv
<1>2. /\ pc[t] = "idle" /\ pc'[t] = "recv"
      /\ \A u \in Threads \ {t} : pc'[u] = pc[u] /\ req'[u] = req[u]
      /\ UNCHANGED <<home, tree, opened, doomed, victims, mode, next, retiring, expired, process>>
  BY <1>1 DEF Recv, TypeOK
<1>3. ASSUME NEW u \in Threads PROVE RoutedAt(u)'
  BY <1>1, <1>2 DEF RoutedAt
<1>4. ASSUME NEW u \in Threads PROVE BatchedAt(u)'
  BY <1>1, <1>2 DEF BatchedAt, Listed
<1>5. ASSUME NEW u \in Threads PROVE ReapedAt(u)'
  BY <1>1, <1>2 DEF ReapedAt, Waited
<1>6. ASSUME NEW u \in Threads PROVE LeavingAt(u)'
  BY <1>1, <1>2 DEF LeavingAt, Leaving, Listed
<1>7. Ended'
  BY <1>1, <1>2 DEF Ended, Listed
<1> QED BY <1>3, <1>4, <1>5, <1>6, <1>7 DEF JInv

\* What ends by itself only goes onward, and the exit of the process ends nothing else.
LEMMA ElseKeeps ==
  ASSUME IInv, JInv,
         \/ \E p \in PaneIds : ShellExit(p) \/ TreeDies(p) \/ Reap(p)
         \/ DaemonExit
         \/ UNCHANGED vars
  PROVE  JInv'
<1>1. /\ TypeOK /\ Ended
      /\ \A u \in Threads : RoutedAt(u) /\ BatchedAt(u) /\ ReapedAt(u) /\ LeavingAt(u)
  BY DEF IInv, JInv
<1>2. UNCHANGED <<home, pc, req, opened, doomed, victims, mode, next, retiring, expired>>
  BY DEF ShellExit, TreeDies, Reap, DaemonExit, vars
<1>3. ASSUME NEW p \in PaneIds
      PROVE  /\ tree[p] # "up" => tree'[p] # "up"
             /\ tree[p] # "unborn" => tree'[p] # "unborn"
             /\ tree[p] \in {"gone", "dying", "dead"} => tree'[p] \in {"gone", "dying", "dead"}
             /\ tree[p] \in {"gone", "dead"} => tree'[p] \in {"gone", "dead"}
  BY <1>1 DEF ShellExit, TreeDies, Reap, DaemonExit, vars, TypeOK
<1>4. process' # process => process = "exiting"
  BY DEF ShellExit, TreeDies, Reap, DaemonExit, vars
<1>5. ASSUME NEW u \in Threads PROVE RoutedAt(u)'
  BY <1>1, <1>2 DEF RoutedAt
<1>6. ASSUME NEW u \in Threads PROVE BatchedAt(u)'
  BY <1>1, <1>2, <1>3 DEF BatchedAt, Listed, TypeOK
<1>7. ASSUME NEW u \in Threads PROVE ReapedAt(u)'
  <2>1. doomed[u] \subseteq PaneIds /\ victims[u] \subseteq PaneIds
    BY <1>1 DEF TypeOK
  <2> QED BY <1>1, <1>2, <1>3, <2>1 DEF ReapedAt, Waited
<1>8. ASSUME NEW u \in Threads PROVE LeavingAt(u)'
  BY <1>1, <1>2 DEF LeavingAt, Leaving, Listed
<1>9. Ended'
  BY <1>1, <1>2, <1>4 DEF Ended, Listed
<1> QED BY <1>5, <1>6, <1>7, <1>8, <1>9 DEF JInv

-----------------------------------------------------------------------------
(* The theorems.                                                           *)

\* JInv holds at the start, and every step keeps it where IInv holds.
THEOREM TeardownInvariance == Spec => []JInv
<1>1. Init => JInv
  BY DEF Init, JInv, RoutedAt, BatchedAt, ReapedAt, LeavingAt, Leaving, Waited, Ended
<1>2. IInv /\ JInv /\ [Next]_vars => JInv'
  <2> SUFFICES ASSUME IInv, JInv, [Next]_vars PROVE JInv'
    OBVIOUS
  <2>1. ASSUME NEW t \in Threads, Step(t) PROVE JInv'
    BY <2>1, RoutedStep, BatchedStep, ReapedStep, LeavingStep, EndedStep DEF JInv
  <2> QED BY <2>1, RecvKeeps, ElseKeeps DEF Next
<1> QED BY <1>1, <1>2, Invariance, PTL DEF Spec

\* Start, a waited KillSession and Shutdown go on only when what they took is gone or
\* reaped (teardown's wait).
THEOREM WaitsForTheEnd == Spec => []WaitedMeansReaped
<1>1. IInv /\ JInv => WaitedMeansReaped
  <2> SUFFICES ASSUME IInv, JInv, NEW t \in Threads, Waited(t)
               PROVE  /\ \A p \in victims[t] : tree[p] \in {"gone", "dead"}
                      /\ \A p \in doomed[t] : tree[p] # "up" /\ (tree[p] = "dying" => BeingReaped(p))
    BY DEF WaitedMeansReaped
  <2>1. doomed[t] \subseteq PaneIds /\ \A p \in PaneIds : tree[p] = "dying" => BeingReaped(p)
    BY DEF IInv, TypeOK, NoLeak
  <2> QED BY <2>1 DEF JInv, ReapedAt
<1> QED BY <1>1, Invariance, TeardownInvariance, PTL

\* A Start or a Split answered with an error has left none of its panes (open_panes).
THEOREM RollsBackWhole == Spec => []RollbackComplete
<1>1. JInv => RollbackComplete
  BY DEF JInv, BatchedAt, RollbackComplete
<1> QED BY <1>1, TeardownInvariance, PTL

\* When a shutdown that drained ends the process, no shell is up (retire).
THEOREM SweepsClean == Spec => []SweptClean
<1>1. IInv /\ JInv => SweptClean
  <2> SUFFICES ASSUME IInv, JInv, process # "up", ~expired
               PROVE  Listed = {} /\ \A p \in PaneIds : tree[p] # "up"
    BY DEF SweptClean
  <2>1. Listed = {} /\ \A t \in Threads : pc[t] \in {"idle", "recv", "ok"}
    BY DEF JInv, Ended
  <2>2. \A t \in Threads : Held(t) = {NoPane}
    BY <2>1 DEF IInv, FreshApart, Held
  <2>3. \A p \in PaneIds : ~Owned(p)
    BY <2>1, <2>2, MaxPanesAssumption DEF Owned, PaneIds
  <2> QED BY <2>1, <2>3 DEF IInv, NoLeak
<1> QED BY <1>1, Invariance, TeardownInvariance, PTL

\* What a step of t takes from the registry it may take (drop_pane, take, replace).
LEMMA TakesItsOwn ==
  ASSUME IInv, NEW t \in Threads, Step(t), NEW p \in Listed \ Listed'
  PROVE  pc'[t] # pc[t] /\ MayRemove(t, p)
<1>1. TypeOK /\ Served /\ ReopenedGone /\ FreshApart /\ p \in PaneIds
  BY DEF IInv, Listed
<1>2. pc[t] # "idle" => Fits(req[t])
  BY <1>1, RequestTypes DEF Served
<1>3. CASE Admit(t) \/ Reply(t)
  BY <1>1, <1>2, <1>3 DEF Admit, Listed, Reply
<1>4. CASE Snapshot(t) \/ Close(t) \/ KillPids(t)
  BY <1>1, <1>2, <1>4 DEF Snapshot, Listed, Close, KillPids
<1>5. CASE OpenNext(t) \/ OpenNextFails(t) \/ OpenDone(t)
  BY <1>1, <1>2, <1>5 DEF OpenNext, OpenPane, Listed, OpenNextFails, OpenFails, OpenDone
<1>6. CASE PushOpened(t)
  BY <1>1, <1>2, <1>6, NoSessionAssumption DEF PushOpened, Push, Listed, TypeOK, MayRemove,
     Served, Fits
<1>7. CASE Rollback(t)
  BY <1>1, <1>2, <1>7, NoSessionAssumption DEF Rollback, DropPanes, Listed, TypeOK, MayRemove,
     Served, Fits
<1>8. CASE StartTakes(t) \/ SplitFinds(t)
  BY <1>1, <1>2, <1>8, NoSessionAssumption DEF StartTakes, Take, Listed, TypeOK, MayRemove,
     Served, Fits, SplitFinds
<1>9. CASE SendFinds(t) \/ SendTypes(t) \/ SendErrs(t)
  BY <1>1, <1>2, <1>9 DEF SendFinds, Listed, SendTypes, SendErrs
<1>10. CASE Reopen(t) \/ ReopenFails(t) \/ ReplaceMisses(t)
  BY <1>1, <1>2, <1>10 DEF Reopen, OpenPane, Listed, ReopenFails, OpenFails, ReplaceMisses
<1>11. CASE ReplaceGone(t)
  BY <1>1, <1>2, <1>11, NoSessionAssumption DEF ReplaceGone, Replace, Listed, TypeOK, MayRemove,
     Served, Fits, ReopenedGone
<1>12. CASE KillPane(t) \/ KillSession(t) \/ Refuse(t)
  BY <1>1, <1>2, <1>12, NoSessionAssumption DEF KillPane, DropPanes, Listed, TypeOK, MayRemove,
     Served, Fits, KillSession, Take, Refuse
<1>13. CASE Retire(t) \/ Drained(t) \/ DrainExpires(t) \/ SpawnExit(t)
  BY <1>1, <1>2, <1>13 DEF Retire, Listed, Drained, DrainExpires, SpawnExit
<1>14. CASE Sweep(t)
  BY <1>1, <1>2, <1>14, NoSessionAssumption DEF Sweep, DropPanes, Listed, TypeOK, MayRemove,
     Served, Fits
<1> QED BY <1>3, <1>4, <1>5, <1>6, <1>7, <1>8, <1>9, <1>10, <1>11, <1>12, <1>13, <1>14 DEF Step

\* No request takes a pane of another's from the registry.
THEOREM OthersPanesStay == Spec => OnlyOwnPanesLeave
<1> DEFINE Own == \A p \in Listed \ Listed' : \E t \in Threads : pc'[t] # pc[t] /\ MayRemove(t, p)
<1>1. IInv /\ [Next]_vars => [Own]_vars
  <2> SUFFICES ASSUME IInv, Next PROVE Own
    OBVIOUS
  <2>1. ASSUME NEW t \in Threads, Step(t) PROVE Own
    BY <2>1, TakesItsOwn
  <2>2. CASE UNCHANGED home
    BY <2>2 DEF Listed
  <2>3. CASE \/ \E t \in Threads, r \in Request : Recv(t, r)
             \/ \E p \in PaneIds : ShellExit(p) \/ TreeDies(p) \/ Reap(p)
             \/ DaemonExit
    BY <2>2, <2>3 DEF Recv, ShellExit, TreeDies, Reap, DaemonExit
  <2> QED BY <2>1, <2>3 DEF Next
<1> QED BY <1>1, Invariance, PTL DEF Spec, OnlyOwnPanesLeave
=============================================================================
