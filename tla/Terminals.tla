----------------------------- MODULE Terminals -----------------------------
(***************************************************************************)
(* The terminal tabs of one project in the main window: the split tree of  *)
(* panes, the closes held behind an undo toast, the terminals still being  *)
(* started, and what is saved to bring the tabs back (hooks/terminals/,    *)
(* pendingClose.ts, terminals.ts, savedLayouts.ts).                        *)
(*                                                                         *)
(* A tab is a pty and the session its resume command names; a shell names  *)
(* NoSession.  Names, titles, colours and pins, browser tabs, the tabs of  *)
(* paired machines and mirror windows are left out: a pin is a choice of   *)
(* the tabs that a batch close takes.  Pane and pty ids are unique in the  *)
(* program; here one is used again when nothing refers to it.              *)
(* What a view asked for is answered before the next one is mounted; that  *)
(* is the only order of events left out besides those Races names.         *)
(***************************************************************************)
EXTENDS PaneTree, Bags

CONSTANTS MaxPanes, MaxPtys, MaxSessions,  \* bounds: ids in use at a time, sessions opened
          MaxStarts,                       \* bound: terminals being started at a time
          MaxOpen,                         \* bound: those and the closes that can be undone
          Races                            \* the orders of events that are let happen, of AllRaces

\* "resume": a session is resumed before the restore of the tabs has settled.
\* "close": the pane that a terminal is being added to is closed meanwhile.
\* "unmount": the view goes while the restore is under way and calls wait for it.
AllRaces == {"resume", "close", "unmount"}

ASSUME BoundsAssumption ==
  /\ {MaxPanes, MaxPtys, MaxSessions, MaxStarts, MaxOpen} \subseteq Nat \ {0}
  /\ Races \subseteq AllRaces

VARIABLES
  tree,          \* treeRef: the panes, NoTree for null
  focused,       \* focusedRef, NoPane for null
  pending,       \* the closes of tabs that can be undone; own: with a toast of their own
  pendingPanes,  \* the closes of panes that can be undone
  flights,       \* a bag: the StartTerminal calls not answered yet, and what each is for
  running,       \* the ptys that run
  disk,          \* the saved panes
  hold,          \* holdPanesRef
  history,       \* the sessions the resume list keeps
  opened,        \* every session a tab ever had
  restoring,     \* the saved panes a restore under way brings back, NoTree once it has settled
  live,          \* the ptys kept in sessionStorage for a reload to stop (leftoverPtys.ts)
  view,          \* the project's view: "mounted", "unmounted", or "woken", when it was
                 \* unmounted and calls that waited for its restore go on
  stranded,      \* history: the ptys that a reload left behind for good
  forgone        \* history: the sessions closed behind a toast that a reload or a quit cut short

page == <<view, stranded, forgone>>
vars == <<tree, focused, pending, pendingPanes, flights, running, disk, hold, history, opened,
          restoring, live, page>>

NoPane    == 0
NoSession == 0
PaneNames == 1 .. MaxPanes
Ptys      == 1 .. MaxPtys
Sessions  == 1 .. MaxSessions

Pane(id, tabs, active, svc) == [id |-> id, tabs |-> tabs, active |-> active, svc |-> svc]

-----------------------------------------------------------------------------
TabsHeld     == {e.tab : e \in pending}
TabsShown    == TabSet(tree)
SessionsOf(tabs) == {tab.s : tab \in tabs} \ {NoSession}
SavedSessions(saved) == (UNION {ToSet(saved[q].ss) : q \in DOMAIN saved}) \ {NoSession}
Settled          == restoring = NoTree

\* Ids and sessions that nothing refers to: nextId, the backend's next pty.
FreePanes ==
  PaneNames \ (Ids(tree) \cup {e.pane : e \in pending} \cup {e.pane.id : e \in pendingPanes}
               \cup (UNION {ToSet(e.spot.sibs) : e \in pendingPanes})
               \cup {f.at : f \in BagToSet(flights)})
FreePtys ==
  Ptys \ (running \cup {tab.id : tab \in TabsShown \cup TabsHeld}
          \cup {f.old : f \in BagToSet(flights)} \cup live)
FreshSessions == {NoSession} \cup {s \in Sessions : s \notin opened /\ \A r \in 1 .. s - 1 : r \in opened}

-----------------------------------------------------------------------------
\* persist and applyTree (useTreeCore.ts).  Held panes stay saved until a real
\* terminal is open again.  A view that was unmounted saves all the same.
Saved(t) ==
  [q \in DOMAIN t |->
     [ss |-> [i \in 1 .. Len(t[q].tabs) |-> t[q].tabs[i].s], active |-> t[q].active, svc |-> t[q].svc]]

Persist(t) ==
  /\ hold' = (hold /\ TabSet(t) = {})
  /\ disk' = IF hold' THEN disk ELSE Saved(t)
  /\ live' = {tab.id : tab \in TabSet(t)}

ApplyTree(t, focus) == tree' = t /\ focused' = focus /\ Persist(t)

\* recordClosingTabs: the sessions go to the resume list.
Recorded(tabs) == history \cup SessionsOf(tabs)

\* Mutant: an earlier tab that goes leaves the index where it was.
StaysPut(prev, removed, remaining) ==
  IF remaining = 0 THEN 1 ELSE IF prev = removed THEN Min({removed, remaining}) ELSE prev

ResolveActive(prev, removed, remaining) ==
  IF remaining = 0 THEN 1
  ELSE IF prev = removed THEN Min({removed, remaining})
  ELSE IF prev > removed THEN prev - 1 ELSE prev

Without(pane, i) ==
  [pane EXCEPT !.tabs = RemoveAt(@, i), !.active = ResolveActive(@, i, Len(pane.tabs) - 1)]

\* A tab put in at i and shown.
With(pane, i, tab) ==
  [pane EXCEPT !.tabs = InsertAt(@, i, tab), !.active = i, !.svc = FALSE]

AppendTerminal(pane, tab, background) ==
  IF background THEN [pane EXCEPT !.tabs = Append(@, tab)] ELSE With(pane, Len(pane.tabs) + 1, tab)

\* Mutant: the focus stays where it was.
FocusKept(t, id) == IF Cardinality(DOMAIN t) = 1 THEN NoPane ELSE focused

\* collapsePane: the focus goes to the pane beside the one that went.
FocusAfter(t, id) == IF Cardinality(DOMAIN t) = 1 THEN NoPane ELSE SiblingPaneId(t, id)

CollapsePane(id) == ApplyTree(RemovePane(tree, id), FocusAfter(tree, id))

-----------------------------------------------------------------------------
(***************************************************************************)
(* A terminal is asked for, and StartTerminal awaited.                     *)
(***************************************************************************)
MayOpen ==
  BagCardinality(flights) + Cardinality({e \in pending : e.own}) + Cardinality(pendingPanes) < MaxOpen

Flight(kind, at, old, s) == [kind |-> kind, at |-> at, old |-> old, s |-> s]
NoPty == 0

\* What the user does takes a view that is mounted.
InView == view = "mounted"

Awaits(f) ==
  /\ MayOpen /\ BagCardinality(flights) < MaxStarts
  /\ flights' = flights (+) SetToBag({f})
  /\ UNCHANGED <<tree, focused, pending, pendingPanes, running, disk, hold, live, history, opened, restoring, page>>

\* createTerminal and createTerminalWithCmd wait for the restore first, and go on
\* when an unmount settles it; addTerminalToPane and a fork do not wait, and name
\* a pane on screen.
AskTab == \E at \in Ids(tree) \cup {NoPane} :
  /\ IF at = NoPane THEN Settled /\ view # "unmounted" ELSE InView
  /\ Awaits(Flight("add", at, NoPty, NoSession))

AskSplit == \E at \in Ids(tree) : InView /\ Awaits(Flight("split", at, NoPty, NoSession))

\* useTerminalRestart: only a tab whose process has ended.
AskRestart == \E tab \in TabsShown :
  /\ InView /\ tab.id \notin running
  /\ Awaits(Flight("restart", NoPane, tab.id, NoSession))

\* resumeFromHistory does not wait for the restore.  The list offers no session
\* that a tab shows.
AskResume == \E s \in history :
  /\ InView /\ (Settled \/ "resume" \in Races)
  /\ s \notin SessionsOf(TabsShown)
  /\ Awaits(Flight("resume", NoPane, NoPty, s))

AskLayout == Settled /\ view # "unmounted" /\ Awaits(Flight("layout", NoPane, NoPty, NoSession))

-----------------------------------------------------------------------------
(***************************************************************************)
(* StartTerminal answers.                                                  *)
(***************************************************************************)
Answered(f) == f \in BagToSet(flights) /\ flights' = flights (-) SetToBag({f})

\* addTerminal: into the pane asked for if it is still there, else the focused
\* one, or a new root pane under the asked name.
AddTerminal(tab, at, background) ==
  IF tree = NoTree
  THEN LET id == IF at # NoPane THEN at ELSE Min(FreePanes)
       IN ApplyTree(Single(Pane(id, <<tab>>, 1, FALSE)), id)
  ELSE LET to == IF at \in Ids(tree) THEN at
                 ELSE IF focused # NoPane THEN focused ELSE FirstPaneId(tree, <<>>)
       IN ApplyTree(MapPane(tree, to, LAMBDA p : AppendTerminal(p, tab, background)),
                    IF background THEN focused ELSE to)

CanLand == FreePtys # {} /\ (tree = NoTree => FreePanes # {})

TabLands == \E f \in BagToSet(flights), background \in BOOLEAN :
  /\ f.kind = "add" /\ Answered(f) /\ CanLand
  /\ \E s \in FreshSessions :
       /\ opened' = opened \cup ({s} \ {NoSession})
       /\ AddTerminal([s |-> s, id |-> Min(FreePtys)], f.at, background)
  /\ running' = running \cup {Min(FreePtys)}
  /\ UNCHANGED <<pending, pendingPanes, history, restoring, page>>

\* The entry leaves the list and its tab opens.
ResumeLands == \E f \in BagToSet(flights), background \in BOOLEAN :
  /\ f.kind = "resume" /\ Answered(f) /\ CanLand
  /\ history' = history \ {f.s}
  /\ AddTerminal([s |-> f.s, id |-> Min(FreePtys)], NoPane, background)
  /\ running' = running \cup {Min(FreePtys)}
  /\ UNCHANGED <<pending, pendingPanes, opened, restoring, page>>

\* Mutant: a terminal whose place is gone is left running.
LeftRunning(placed, id) == running \cup {id}

\* A terminal whose place went while it started is stopped.
StoppedUnless(placed, id) == IF placed THEN running \cup {id} ELSE running

\* splitPane verifies the pane again once the pty is there.
SplitLands == \E f \in BagToSet(flights) :
  /\ f.kind = "split" /\ Answered(f) /\ CanLand
  /\ f.at \in Ids(tree) => FreePanes # {}
  /\ running' = StoppedUnless(f.at \in Ids(tree), Min(FreePtys))
  /\ IF f.at \in Ids(tree)
     THEN LET id == Min(FreePanes) IN
          ApplyTree(SplitAtPane(tree, f.at, Pane(id, <<[s |-> NoSession, id |-> Min(FreePtys)]>>, 1, FALSE)), id)
     ELSE UNCHANGED <<tree, focused, disk, hold, live>>
  /\ UNCHANGED <<pending, pendingPanes, history, opened, restoring, page>>

\* replaceTabTerminal finds the tab again once the pty is there; swapTerminal
\* keeps all of it but the pty.
RestartLands == \E f \in BagToSet(flights) :
  /\ f.kind = "restart" /\ Answered(f) /\ CanLand
  /\ LET new == Min(FreePtys)
         at  == {id \in Ids(tree) : \E tab \in ToSet(PaneOf(tree, id).tabs) : tab.id = f.old}
         swap(p) == [p EXCEPT !.tabs = [i \in 1 .. Len(@) |-> IF @[i].id = f.old THEN [@[i] EXCEPT !.id = new] ELSE @[i]]]
     IN /\ running' = StoppedUnless(at # {}, new)
        /\ IF at # {} THEN ApplyTree(MapPane(tree, CHOOSE id \in at : TRUE, swap), focused)
           ELSE UNCHANGED <<tree, focused, disk, hold, live>>
  /\ UNCHANGED <<pending, pendingPanes, history, opened, restoring, page>>

\* mergeOpenTabs: every open tab moves to the first pane of the layout.
MergeOpenTabs(built) ==
  LET open == Tabs(tree)
      svc  == tree # NoTree /\ PaneOf(tree, FirstPaneId(tree, <<>>)).svc
      merge(p) == [p EXCEPT !.tabs = open \o @,
                            !.active = IF p.tabs # <<>> THEN Len(open) + p.active ELSE 1,
                            !.svc = p.tabs = <<>> /\ svc]
  IN MapPane(built, FirstPaneId(built, <<>>), merge)

\* A layout of one pane, or of two side by side, with a tab each; a tab that does
\* not start is left out, and a layout of which nothing starts is dropped.
LayoutLands == \E f \in BagToSet(flights), shape \in {{<<>>}, {<<0>>, <<1>>}} :
  /\ f.kind = "layout" /\ Answered(f)
  /\ \E started \in (SUBSET shape) \ {{}} :
       /\ Cardinality(FreePanes) >= Cardinality(shape)
       /\ Cardinality(FreePtys) >= Cardinality(started)
       /\ LET pane(q) == IF q = <<1>> THEN Max(FreePanes) ELSE Min(FreePanes)
              pty(q)  == IF q = <<1>> THEN Max(FreePtys) ELSE Min(FreePtys)
              tabs(q) == IF q \in started THEN <<[s |-> NoSession, id |-> pty(q)]>> ELSE <<>>
              next    == MergeOpenTabs([q \in shape |-> Pane(pane(q), tabs(q), 1, FALSE)])
          IN /\ ApplyTree(next, FirstPaneId(next, <<>>))
             /\ running' = running \cup {pty(q) : q \in started}
  /\ UNCHANGED <<pending, pendingPanes, history, opened, restoring, page>>

\* The call fails: nothing changes, and a resumed session keeps its entry.
StartFails == \E f \in BagToSet(flights) :
  /\ Answered(f)
  /\ UNCHANGED <<tree, focused, pending, pendingPanes, running, disk, hold, live, history, opened, restoring, page>>

-----------------------------------------------------------------------------
(***************************************************************************)
(* Panes and tabs on screen (usePaneOps.ts).                               *)
(***************************************************************************)
Arranged == UNCHANGED <<pending, pendingPanes, flights, running, history, opened, restoring, page>>

\* A running project shows its services once the restore has settled, an unmount
\* that settles it included.
EnsureRootPane == \E svc \in BOOLEAN :
  /\ tree = NoTree /\ Settled /\ view # "unmounted" /\ FreePanes # {}
  /\ ApplyTree(Single(Pane(Min(FreePanes), <<>>, 1, svc)), Min(FreePanes))
  /\ Arranged

FocusTerminal == \E id \in Ids(tree) : \E i \in 1 .. Len(PaneOf(tree, id).tabs) :
  /\ InView /\ (PaneOf(tree, id).active # i \/ PaneOf(tree, id).svc)
  /\ ApplyTree(MapPane(tree, id, LAMBDA p : [p EXCEPT !.active = i, !.svc = FALSE]), id)
  /\ Arranged

\* The services are listed in the first pane.
FocusService ==
  /\ InView /\ tree # NoTree
  /\ LET id == FirstPaneId(tree, <<>>) IN
     /\ ~PaneOf(tree, id).svc
     /\ ApplyTree(MapPane(tree, id, LAMBDA p : [p EXCEPT !.svc = TRUE]), id)
  /\ Arranged

\* Its save is put off: it is done, or the window goes first.
FocusPane == \E id \in Ids(tree) \ {focused} :
  /\ InView /\ focused' = id
  /\ UNCHANGED tree
  /\ Persist(tree) \/ UNCHANGED <<disk, hold, live>>
  /\ Arranged

\* The active tab stays the active one.
ReorderTerminals == \E id \in Ids(tree) :
  LET pane == PaneOf(tree, id) IN
  \E i, j \in 1 .. Len(pane.tabs) :
    /\ InView /\ i < j
    /\ LET tabs == [pane.tabs EXCEPT ![i] = pane.tabs[j], ![j] = pane.tabs[i]]
           active == CHOOSE k \in 1 .. Len(tabs) : tabs[k] = pane.tabs[pane.active]
       IN ApplyTree(MapPane(tree, id, LAMBDA p : [p EXCEPT !.tabs = tabs, !.active = active]), focused)
    /\ Arranged

\* The pane a move empties goes, unless it shows a service.
MoveTerminal == \E from, to \in Ids(tree) :
  LET pane == PaneOf(tree, from) IN
  \E i \in 1 .. Len(pane.tabs), at \in 1 .. Len(PaneOf(tree, to).tabs) + 1 :
    /\ InView /\ from # to
    /\ LET left  == MapPane(tree, from, LAMBDA p : Without(p, i))
           swept == IF Len(pane.tabs) = 1 /\ ~pane.svc THEN RemovePane(left, from) ELSE left
       IN ApplyTree(MapPane(swept, to, LAMBDA p : With(p, at, pane.tabs[i])), to)
    /\ Arranged

-----------------------------------------------------------------------------
(***************************************************************************)
(* Closing, and taking a close back (useTabClose.ts, usePaneClose.ts).     *)
(***************************************************************************)
Closing(tab, id, i, own) == [tab |-> tab, pane |-> id, idx |-> i, own |-> own]

\* A tab behind a toast of its own; one whose process a paired machine has ended
\* goes at once.
CloseTerminal == \E id \in Ids(tree) :
  LET pane == PaneOf(tree, id) IN
  \E i \in 1 .. Len(pane.tabs) :
    /\ InView
    /\ \/ MayOpen /\ pending' = pending \cup {Closing(pane.tabs[i], id, i, TRUE)} /\ UNCHANGED history
       \/ pane.tabs[i].id \notin running /\ history' = Recorded({pane.tabs[i]}) /\ UNCHANGED pending
    /\ IF Len(pane.tabs) = 1 /\ ~pane.svc THEN CollapsePane(id)
       ELSE ApplyTree(MapPane(tree, id, LAMBDA p : Without(p, i)), focused)
    /\ UNCHANGED <<pendingPanes, flights, running, opened, restoring, page>>

\* disposeTabs: stopped and recorded.
Dispose(tabs) ==
  /\ running' = running \ {tab.id : tab \in tabs}
  /\ history' = Recorded(tabs)

\* The tabs that are not closed.
Left(tabs, closing) == Only(tabs, {k \in 1 .. Len(tabs) : tabs[k] \notin closing})

\* All but one tab and the pinned ones.
CloseOthers == \E id \in Ids(tree) :
  LET pane == PaneOf(tree, id) IN
  \E i \in 1 .. Len(pane.tabs) : \E closing \in (SUBSET (ToSet(pane.tabs) \ {pane.tabs[i]})) \ {{}} :
    LET tabs == Left(pane.tabs, closing) IN
    /\ InView /\ Dispose(closing)
    /\ ApplyTree(MapPane(tree, id, LAMBDA p : [p EXCEPT !.tabs = tabs, !.active = CHOOSE k \in 1 .. Len(tabs) : tabs[k] = pane.tabs[i]]),
                 focused)
    /\ UNCHANGED <<pending, pendingPanes, flights, opened, restoring, page>>

\* closeTerminalsById: what is left of a pane, its active tab if that is kept.
Kept(p, closing) ==
  LET tabs == Left(p.tabs, closing)
      at   == {k \in 1 .. Len(tabs) : tabs[k] = p.tabs[p.active]}
  IN [p EXCEPT !.tabs = tabs, !.active = IF at # {} THEN Max(at) ELSE Max({1, Len(tabs)})]

CloseTerminalsById == \E closing \in (SUBSET TabsShown) \ {{}} :
  LET hit     == {id \in Ids(tree) : ToSet(PaneOf(tree, id).tabs) \cap closing # {}}
      emptied == {id \in hit : ToSet(PaneOf(tree, id).tabs) \subseteq closing /\ ~PaneOf(tree, id).svc}
      left    == [q \in DOMAIN tree |-> IF tree[q].id \in hit THEN Kept(tree[q], closing) ELSE tree[q]]
      next    == RemovePanes(left, emptied)
      focus   == IF next = NoTree THEN NoPane
                 ELSE IF focused \in Ids(next) THEN focused ELSE FirstPaneId(next, <<>>)
  IN /\ InView /\ Dispose(closing)
     /\ ApplyTree(next, focus)
     /\ UNCHANGED <<pending, pendingPanes, flights, opened, restoring, page>>

\* A whole pane behind one toast, with where it sat.
ClosePane == \E id \in Ids(tree) :
  LET pane == PaneOf(tree, id) IN
  /\ InView /\ MayOpen
  /\ "close" \in Races \/ \A f \in BagToSet(flights) : f.at # id
  /\ pendingPanes' = pendingPanes \cup {[pane |-> pane, spot |-> PaneSpot(tree, id)]}
  /\ pending' = pending \cup {Closing(pane.tabs[i], id, i, FALSE) : i \in 1 .. Len(pane.tabs)}
  /\ CollapsePane(id)
  /\ UNCHANGED <<flights, running, history, opened, restoring, page>>

\* Back in its pane at its place, else in the focused pane, else in a new one.
UndoClose == \E e \in pending :
  /\ e.own /\ (tree = NoTree => FreePanes # {})
  /\ pending' = pending \ {e}
  /\ IF e.pane \in Ids(tree)
     THEN ApplyTree(MapPane(tree, e.pane, LAMBDA p : With(p, Min({e.idx, Len(p.tabs) + 1}), e.tab)), e.pane)
     ELSE IF tree # NoTree
     THEN LET to == IF focused \in Ids(tree) THEN focused ELSE FirstPaneId(tree, <<>>)
          IN ApplyTree(MapPane(tree, to, LAMBDA p : AppendTerminal(p, e.tab, FALSE)), to)
     ELSE ApplyTree(Single(Pane(Min(FreePanes), <<e.tab>>, 1, FALSE)), Min(FreePanes))
  /\ UNCHANGED <<pendingPanes, flights, running, history, opened, restoring, page>>

\* The toast goes: stopped, recorded and saved.
FinalizeClose == \E e \in pending :
  /\ e.own
  /\ pending' = pending \ {e}
  /\ Dispose({e.tab})
  /\ UNCHANGED <<tree, focused, pendingPanes, flights, disk, hold, live, opened, restoring, page>>

\* Mutant: the tabs of the pane are left behind.
TakesPaneOnly(e) == pending

\* takePendingPaneClose claims the pane's tabs with the pane.
TakesTabsToo(e) == {c \in pending : c.tab \notin ToSet(e.pane.tabs)}

UndoPaneClose == \E e \in pendingPanes :
  /\ pendingPanes' = pendingPanes \ {e}
  /\ pending' = TakesTabsToo(e)
  /\ ApplyTree(RestorePane(tree, e.pane, e.spot), e.pane.id)
  /\ UNCHANGED <<flights, running, history, opened, restoring, page>>

FinalizePaneClose == \E e \in pendingPanes :
  /\ pendingPanes' = pendingPanes \ {e}
  /\ pending' = TakesTabsToo(e)
  /\ Dispose(ToSet(e.pane.tabs))
  /\ UNCHANGED <<tree, focused, flights, disk, hold, live, opened, restoring, page>>

-----------------------------------------------------------------------------
(***************************************************************************)
(* The window and the project's view go and come back.                     *)
(***************************************************************************)
\* A process ends.  One that ends behind a toast changes nothing there.
PtyDies == \E id \in running \cap ({tab.id : tab \in TabsShown} \cup stranded) :
  /\ running' = running \ {id} /\ stranded' = stranded \ {id}
  /\ UNCHANGED <<tree, focused, pending, pendingPanes, flights, disk, hold, live, history, opened, restoring, view, forgone>>

\* The view is unmounted: every close behind a toast is final, every pty of the
\* tree is stopped, and a restore under way is cancelled and settles.  The view
\* keeps its tree for the calls that are not answered yet, and those that waited
\* for the restore go on.
Unmounts ==
  /\ InView
  /\ view' \in IF ~Settled /\ "unmount" \in Races THEN {"woken", "unmounted"} ELSE {"unmounted"}
  /\ pending' = {} /\ pendingPanes' = {}
  /\ running' = running \ {tab.id : tab \in TabsShown \cup TabsHeld}
  /\ history' = Recorded(TabsHeld)
  /\ restoring' = NoTree
  /\ UNCHANGED <<tree, focused, flights, disk, hold, live, opened, stranded, forgone>>

\* The saved tabs that a restore starts: the pane's path, and the place in it.
SavedTabs == UNION {{q} \X (1 .. Len(restoring[q].ss)) : q \in DOMAIN restoring}

\* The page and all it kept goes.  A session closed behind a toast that was still
\* up is in no list.
PageGoes ==
  /\ tree' = NoTree /\ focused' = NoPane /\ hold' = FALSE /\ restoring' = NoTree
  /\ pending' = {} /\ pendingPanes' = {} /\ flights' = EmptyBag
  /\ view' = "unmounted"
  /\ forgone' = forgone \cup (SessionsOf(TabsHeld) \ (SessionsOf(TabsShown) \cup history \cup SavedSessions(disk)))
  /\ UNCHANGED <<disk, history, opened>>

\* The app quits, and its ptys with it.
Quits ==
  /\ PageGoes
  /\ running' = {} /\ live' = {} /\ stranded' = {}

\* The window is reloaded.  The ptys run on, and so do those that were being
\* started; the next mount stops the ones that live names.
Reloads ==
  /\ PageGoes
  /\ \E late \in SUBSET FreePtys :
       /\ Cardinality(late) <= BagCardinality(flights) + Cardinality(SavedTabs)
       /\ running' = running \cup late
       /\ stranded' = (running \cup late) \ live
  /\ UNCHANGED live

\* The view is mounted: no tree yet, and saved panes to bring back if there are
\* any.  stopLeftoverPtys first.  The calls of the view before it were answered.
Mounts ==
  /\ ~InView /\ flights = EmptyBag
  /\ view' = "mounted"
  /\ tree' = NoTree /\ focused' = NoPane /\ hold' = FALSE
  /\ running' = running \ live /\ live' = {}
  /\ restoring' = disk
  /\ UNCHANGED <<pending, pendingPanes, flights, disk, history, opened, stranded, forgone>>

\* An id for each of S: which one it is makes no difference.
Fresh(S, ids) == CHOOSE name \in [S -> ids] : IsInjective(name)

\* reifyTree: a tab that failed to start is left out, and so is a pane that has
\* none left and shows no service; the active tab is followed.
Reified(failed) ==
  LET name   == Fresh(DOMAIN restoring, FreePanes)
      pty    == Fresh(SavedTabs, FreePtys)
      up(q)  == {i \in 1 .. Len(restoring[q].ss) : <<q, i>> \notin failed}
      leaf(q) ==
        LET is     == InOrder(up(q), <)
            active == restoring[q].active
        IN Pane(name[q],
                [k \in 1 .. Len(is) |-> [s |-> restoring[q].ss[is[k]], id |-> pty[<<q, is[k]>>]]],
                IF active \in up(q) THEN Cardinality({k \in up(q) : k <= active})
                ELSE Max({1, Min({active, Len(is)})}),
                restoring[q].svc)
      bare == {name[q] : q \in {p \in DOMAIN restoring : up(p) = {} /\ ~restoring[p].svc}}
  IN RemovePanes([q \in DOMAIN restoring |-> leaf(q)], bare)

\* Mutant: a tab that did not come back is only dropped.
NoneLost(failed) == {}

\* rememberLostSessions.
LostSessions(failed) == {restoring[f[1]].ss[f[2]] : f \in failed} \ {NoSession}

\* The restore settles.  When nothing came back the saved panes are held; when
\* something did not, the tree is not saved yet.
Restore ==
  /\ ~Settled
  /\ Cardinality(FreePanes) >= Cardinality(DOMAIN restoring)
  /\ Cardinality(FreePtys) >= Cardinality(SavedTabs)
  /\ \E failed \in SUBSET SavedTabs :
       LET next == Reified(failed) IN
       IF next = NoTree
       THEN /\ hold' = TRUE
            /\ history' = history \cup SavedSessions(restoring)
            /\ UNCHANGED <<tree, focused, disk, live, running>>
       ELSE /\ tree' = next
            /\ focused' \in Ids(next)
            /\ running' = running \cup {tab.id : tab \in TabSet(next)}
            /\ history' = history \cup LostSessions(failed)
            /\ IF failed = {} THEN Persist(next) ELSE UNCHANGED <<disk, hold, live>>
  /\ restoring' = NoTree
  /\ UNCHANGED <<pending, pendingPanes, flights, opened, page>>

-----------------------------------------------------------------------------
Init ==
  /\ tree = NoTree /\ focused = NoPane /\ disk = NoTree
  /\ pending = {} /\ pendingPanes = {} /\ flights = EmptyBag
  /\ running = {} /\ history = {} /\ opened = {}
  /\ hold = FALSE /\ restoring = NoTree
  /\ live = {} /\ view = "mounted" /\ stranded = {} /\ forgone = {}

Next ==
  \/ AskTab \/ AskSplit \/ AskRestart \/ AskResume \/ AskLayout
  \/ TabLands \/ ResumeLands \/ SplitLands \/ RestartLands \/ LayoutLands \/ StartFails
  \/ EnsureRootPane \/ FocusTerminal \/ FocusService \/ FocusPane \/ ReorderTerminals \/ MoveTerminal
  \/ CloseTerminal \/ CloseOthers \/ CloseTerminalsById \/ ClosePane
  \/ UndoClose \/ FinalizeClose \/ UndoPaneClose \/ FinalizePaneClose
  \/ PtyDies \/ Unmounts \/ Quits \/ Reloads \/ Mounts \/ Restore

Spec == Init /\ [][Next]_vars

-----------------------------------------------------------------------------
\* The tree is a tree, its panes have names of their own, and each shows one of
\* its tabs (activeTabIdx) or none when it has none.
TypeOK ==
  /\ WellFormed(tree)
  /\ Ids(tree) \subseteq PaneNames /\ Cardinality(Ids(tree)) = Cardinality(DOMAIN tree)
  /\ \A q \in DOMAIN tree :
       /\ ToSet(tree[q].tabs) \subseteq [s : {NoSession} \cup Sessions, id : Ptys]
       /\ tree[q].active \in 1 .. Max({1, Len(tree[q].tabs)})
       /\ tree[q].svc \in BOOLEAN
  /\ focused \in PaneNames \cup {NoPane}
  /\ \A e \in pending : e.tab.id \in Ptys /\ e.pane \in PaneNames
  /\ running \subseteq Ptys
  /\ history \subseteq opened /\ opened \subseteq Sessions
  /\ hold \in BOOLEAN
  /\ live \subseteq Ptys /\ stranded \subseteq Ptys /\ forgone \subseteq opened
  /\ view \in {"mounted", "unmounted", "woken"}

\* While a tree is shown, the focused pane is one of its panes, so that a tab
\* added without a pane of its own (addTerminal) has one to go to.
FocusThere == tree # NoTree => focused \in Ids(tree)

\* Every pty that runs has a tab on screen or behind an undo toast, or the next
\* mount stops it: a terminal whose pane or tab went while it was being started
\* was stopped.  A reload strands ptys, but none that a saved tree shows: only
\* those behind a toast, being started, or of a restore that is not saved yet.
NoOrphan ==
  /\ running \subseteq stranded \cup (IF InView THEN {tab.id : tab \in TabsShown \cup TabsHeld} ELSE live)
  /\ live # {} => running \cap {tab.id : tab \in TabsShown} \subseteq live

\* A pty is in one tab, on screen or behind one toast: an undo after a final
\* close, or a second undo, brings nothing back twice.
InOnePlace ==
  /\ \A p, q \in DOMAIN tree : \A i \in 1 .. Len(tree[p].tabs), j \in 1 .. Len(tree[q].tabs) :
       tree[p].tabs[i].id = tree[q].tabs[j].id => p = q /\ i = j
  /\ \A e, c \in pending : e.tab.id = c.tab.id => e = c
  /\ \A e \in pending : \A tab \in TabsShown : tab.id # e.tab.id

\* A session that a tab had is in the resume list, or its tab is on screen, behind
\* an undo toast or about to be restored; while no view is mounted, it is saved for
\* the next one.  The one exception is what the user closed behind a toast that a
\* reload or a quit cut short.
NoSessionLost ==
  opened \subseteq history \cup forgone
    \cup (IF InView THEN SessionsOf(TabsShown \cup TabsHeld) \cup SavedSessions(restoring)
          ELSE SavedSessions(disk))

\* The splits of up to MaxSplit panes, which a run's own trees need not reach.
MaxSplit == 5
Splits[n \in 1 .. MaxSplit] ==
  IF n = 1 THEN {Single([id |-> 1])}
  ELSE UNION {{SplitNode(t, q, side, [id |-> n]) : q \in Nodes(t), side \in {0, 1}} : t \in Splits[n - 1]}

SplitsComeBack == \A n \in 1 .. MaxSplit : \A t \in Splits[n] : BackInPlace(t)

\* Closing any pane of the tree, or of any split of up to MaxSplit panes, and taking
\* it back at once leaves the tree as it was (paneSpot, removePane, restorePane).
UndoIsExact == BackInPlace(tree) /\ SplitsComeBack
=============================================================================
