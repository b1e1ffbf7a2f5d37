-------------------------- MODULE TerminalsProofs ---------------------------
(***************************************************************************)
(* The tabs of a window, for every bound: what is on screen is a tree,     *)
(* the focus is in it, a tab is in one place, an undo puts a pane where    *)
(* it was, no pty runs without a tab unless a reload stranded it, and no   *)
(* session is lost.                                                        *)
(*                                                                         *)
(* The first invariant, Inv, says what is good of the tree on screen, of   *)
(* the closes that can be undone, of what is saved and of the terminals    *)
(* being started.  It rests on names: a pane or a pty that is made has a   *)
(* name that nothing on screen, held or asked for has (FreePaneFacts,      *)
(* FreePtyFacts).  Each operation has a contract, in the shape of Shows:   *)
(* it shows and saves a good tree with these tabs in panes of those        *)
(* names; the lemmas named ...Shows prove the contracts, and those named   *)
(* ...KeepInv take the invariant from them.                                *)
(*                                                                         *)
(* The invariant is kept unless a pane closes while a terminal is being    *)
(* started for it, the order of events "close": into an empty tree the     *)
(* terminal makes that pane anew (AddTerminal), and an undo of the close   *)
(* brings the other one back beside it under the same name.                *)
(*                                                                         *)
(* The second invariant, Accounted, says where ptys and sessions are.  It  *)
(* is kept from the same contracts while a tree is in use (Busy): one on   *)
(* screen whose restore has settled, or one that a view which is gone      *)
(* keeps for the calls it made.  While the restore runs there is nothing   *)
(* else (Quiet), which the order "resume" would break; a view that is gone *)
(* makes no new calls and holds nothing behind a toast (Away), which the   *)
(* order "unmount" would break.                                            *)
(***************************************************************************)
EXTENDS Terminals, PaneTreeProofs

-----------------------------------------------------------------------------
(* The splits that the runs check too.                                     *)

\* One step of Splits, given the earlier ones.
Grown(f, n) ==
  IF n = 1 THEN {Single([id |-> 1])}
  ELSE UNION {{SplitNode(t, q, side, [id |-> n]) : q \in Nodes(t), side \in {0, 1}} : t \in f[n - 1]}

\* Splits, as what it is for n and for one less.
LEMMA SplitsIs ==
  Splits = [n \in 1 .. MaxSplit |-> Grown(Splits, n)]
<1> DEFINE Is(g, n) == g = [i \in 1 .. n |-> Grown(g, i)]
           T == {n \in Nat : \A g : ~Is(g, n)}
<1>1. T = {}
  <2> SUFFICES ASSUME T # {} PROVE FALSE
    OBVIOUS
  <2>1. PICK n \in T : \A m \in T : n <= m
    <3>1. T \subseteq Nat
      OBVIOUS
    <3> HIDE DEF T
    <3> QED
      BY <3>1, LeastNumber
  <2>2. n # 0
    <3> DEFINE g == [i \in 1 .. 0 |-> 0]
    <3>1. Is(g, 0)
      OBVIOUS
    <3> HIDE DEF g, Is
    <3> QED
      BY <3>1
  <2>3. n \in Nat /\ n - 1 \in Nat /\ n - 1 \notin T
    BY <2>1, <2>2
  <2>4. PICK g : Is(g, n - 1)
    BY <2>3
  <2> DEFINE h == [i \in 1 .. n |-> IF i \in 1 .. n - 1 THEN g[i] ELSE Grown(g, i)]
  <2>5. \A i \in 1 .. n : i # 1 => i - 1 \in 1 .. n - 1 /\ i - 1 \in 1 .. n
    BY <2>3
  <2>6. \A i \in 1 .. n : Grown(h, i) = Grown(g, i)
    <3>1. \A i \in 1 .. n : i # 1 => h[i - 1] = g[i - 1]
      BY <2>5
    <3> HIDE DEF h
    <3>2. ASSUME NEW i \in 1 .. n PROVE Grown(h, i) = Grown(g, i)
      <4>1. CASE i = 1
        BY <4>1 DEF Grown
      <4>2. CASE i # 1
        BY <3>1, <4>2 DEF Grown
      <4> QED
        BY <4>1, <4>2
    <3> QED
      BY <3>2
  <2>7. \A i \in 1 .. n - 1 : g[i] = Grown(g, i)
    BY <2>4
  <2>8. \A i \in 1 .. n : h[i] = Grown(h, i)
    <3>1. \A i \in 1 .. n : h[i] = Grown(g, i)
      BY <2>7
    <3> HIDE DEF h
    <3> QED
      BY <2>6, <3>1
  <2>9. h = [i \in 1 .. n |-> h[i]]
    OBVIOUS
  <2> HIDE DEF h
  <2>10. Is(h, n)
    BY <2>8, <2>9
  <2> HIDE DEF Is
  <2> QED
    BY <2>1, <2>3, <2>10
<1>2. MaxSplit \in Nat
  BY DEF MaxSplit
<1>3. PICK g : Is(g, MaxSplit)
  BY <1>1, <1>2
<1> DEFINE f == CHOOSE i : i = [k \in 1 .. MaxSplit |-> Grown(i, k)]
<1>4. f = [i \in 1 .. MaxSplit |-> Grown(f, i)]
  BY <1>3, Zenon
<1>5. Splits = f
  BY DEF Splits, Grown
<1> QED
  BY <1>4, <1>5

\* A split of panes 1 .. n is a tree with just those panes.
LEMMA SplitTrees ==
  \A n \in 1 .. MaxSplit : \A t \in Splits[n] : Tree(t) /\ Ids(t) = 1 .. n
<1> DEFINE Good(n) == \A t \in Splits[n] : Tree(t) /\ Ids(t) = 1 .. n
           B == {n \in Nat : n \in 1 .. MaxSplit /\ ~Good(n)}
<1>0. MaxSplit \in Nat
  BY DEF MaxSplit
<1>1. \A n \in 1 .. MaxSplit : Splits[n] = Grown(Splits, n)
  BY SplitsIs
<1>2. B = {}
  <2> SUFFICES ASSUME B # {} PROVE FALSE
    OBVIOUS
  <2>1. PICK n \in B : \A m \in B : n <= m
    <3>1. B \subseteq Nat
      OBVIOUS
    <3> HIDE DEF B
    <3> QED
      BY <3>1, LeastNumber
  <2>2. n \in 1 .. MaxSplit /\ ~Good(n) /\ Splits[n] = Grown(Splits, n) /\ n \in Nat
    BY <1>1, <2>1
  <2>3. ASSUME n = 1 PROVE Good(n)
    <3>1. Splits[n] = {Single([id |-> 1])}
      BY <2>2, <2>3 DEF Grown
    <3>2. Tree(Single([id |-> 1])) /\ Ids(Single([id |-> 1])) = {[id |-> 1].id}
      BY SingleFacts
    <3>3. 1 .. n = {1}
      BY <2>3
    <3> QED
      BY <3>1, <3>2, <3>3
  <2>4. ASSUME n # 1 PROVE Good(n)
    <3>1. n - 1 \in 1 .. MaxSplit /\ n - 1 \in Nat
      BY <1>0, <2>2, <2>4
    <3>2. Good(n - 1)
      <4>1. n - 1 \notin B
        <5>1. B \subseteq Int /\ n \in Int
          OBVIOUS
        <5> HIDE DEF B
        <5> QED
          BY <2>1, <5>1
      <4> QED
        BY <3>1, <4>1
    <3>3. ASSUME NEW t \in Splits[n] PROVE Tree(t) /\ Ids(t) = 1 .. n
      <4>0. PICK u \in Splits[n - 1] : \E q \in Nodes(u), side \in {0, 1} :
          t = SplitNode(u, q, side, [id |-> n])
        <5>1. t \in UNION {{SplitNode(u, q, side, [id |-> n]) : q \in Nodes(u), side \in {0, 1}} :
            u \in Splits[n - 1]}
          BY <2>2, <2>4, <3>3 DEF Grown
        <5> QED
          BY <5>1
      <4>1. PICK q \in Nodes(u), side \in {0, 1} : t = SplitNode(u, q, side, [id |-> n])
        BY <4>0
      <4>2. Tree(u) /\ Ids(u) = 1 .. n - 1
        BY <3>2
      <4>3. [id |-> n].id = n /\ n \notin Ids(u)
        BY <2>2, <4>2
      <4>4. Tree(t) /\ Ids(t) = Ids(u) \cup {[id |-> n].id}
        BY <4>1, <4>2, <4>3, SplitAddsAPane
      <4>5. 1 .. n = (1 .. n - 1) \cup {n}
        BY <2>2
      <4> QED
        BY <4>2, <4>3, <4>4, <4>5
    <3> QED
      BY <3>3
  <2> HIDE DEF Good
  <2> QED
    BY <2>2, <2>3, <2>4
<1> HIDE DEF Good
<1>3. \A n \in 1 .. MaxSplit : Good(n)
  BY <1>0, <1>2
<1> QED
  BY <1>3 DEF Good

\* Any pane of any split of up to MaxSplit panes, closed and brought back at once, is
\* where it was (restorePane in paneSpot.ts).
THEOREM EverySplitComesBack == SplitsComeBack
BY SplitTrees, ClosedPaneComesBack DEF SplitsComeBack

-----------------------------------------------------------------------------
(* The inductive invariants.                                               *)

\* What a tab names: a session, or none.
Names   == {NoSession} \cup Sessions

\* A tab: its session and its pty.
TabRecs == [s : Names, id : Ptys]

\* A pane: its tabs have ptys of their own, and the active one is there.
GoodPane(p) ==
  /\ p \in [id : PaneNames, tabs : Seq(TabRecs), active : Nat \ {0}, svc : BOOLEAN]
  /\ p.active = 1 \/ p.active <= Len(p.tabs)
  /\ Apart(p.tabs)

\* The tree on screen: no name and no pty is in two panes.
GoodTree(t) ==
  /\ Tree(t)
  /\ \A id \in Ids(t) : GoodPane(PaneOf(t, id))
  /\ \A a, b \in Ids(t) : a # b => Distinct(PaneOf(t, a).tabs, PaneOf(t, b).tabs)

\* A pane as it is saved.
SavedPanes == [ss : Seq(Names), active : Nat \ {0}, svc : BOOLEAN]

\* A saved tree: the splits and what each pane showed, without names or ptys.
GoodSaved(d) == TreeShape(d) /\ \A q \in DOMAIN d : d[q] \in SavedPanes

\* The terminals being started, and what each is for.
Calls == BagToSet(flights)

\* A terminal that is being started is for a pane, a restart or a session that is known.
GoodCall(f) == f.at \in PaneNames \cup {NoPane} /\ f.old \in Ptys \cup {NoPty} /\
    f.s \in {NoSession} \cup opened

\* A pane on screen has the focus, if one is there.
Focused == focused \in PaneNames \cup {NoPane} /\ FocusThere

\* The closes that can be undone: tabs apart from those shown and from one another,
\* panes whose names nothing else has and whose tabs are all held.
Held ==
  /\ pending \subseteq [tab : TabRecs, pane : PaneNames, idx : Nat \ {0}, own : BOOLEAN]
  /\ \A e, c \in pending : e.tab.id = c.tab.id => e = c
  /\ \A e \in pending : \A tab \in TabsShown : tab.id # e.tab.id
  /\ \A e \in pendingPanes : /\ GoodPane(e.pane) /\ e.spot.side \in {0, 1} /\ e.spot.sibs \in Seq(Int)
                             /\ e.pane.id \notin Ids(tree)
                             /\ \A f \in Calls : f.at # e.pane.id
                             /\ \A i \in 1 .. Len(e.pane.tabs) :
                                  Closing(e.pane.tabs[i], e.pane.id, i, FALSE) \in pending
  /\ \A e, c \in pendingPanes : e.pane.id = c.pane.id => e = c

\* What is saved is a tree, and so is what is being restored from it.
SavedOK == GoodSaved(disk) /\ GoodSaved(restoring) /\ hold \in BOOLEAN

\* Only sessions there have been are on screen, held, saved or listed.
Known ==
  /\ history \subseteq opened /\ opened \subseteq Sessions
  /\ SessionsOf(TabsShown) \subseteq opened /\ SessionsOf(TabsHeld) \subseteq opened
  /\ SavedSessions(disk) \subseteq opened /\ SavedSessions(restoring) \subseteq opened

\* The invariant: what every operation on the tabs takes and gives.
Inv ==
  /\ GoodTree(tree) /\ Focused /\ Held /\ SavedOK /\ Known
  /\ \A f \in Calls : GoodCall(f)
  /\ running \subseteq Ptys

\* The view, and the ptys that are known of.
Page ==
  /\ view \in {"mounted", "unmounted", "woken"}
  /\ live \subseteq Ptys /\ stranded \subseteq Ptys /\ forgone \subseteq opened

\* While no view is mounted nothing waits behind a toast; without the races a view
\* that was unmounted is left alone.
Away == view \in {"mounted", "unmounted"} /\ (~InView => Settled /\ pending = {} /\ pendingPanes = {})

\* With no resume before the restore has settled: while it runs there is nothing else.
Quiet ==
  ~Settled => /\ InView /\ tree = NoTree /\ Calls = {} /\ pending = {} /\ pendingPanes = {}
              /\ restoring = disk /\ live = {}

\* A session on screen would be brought back, or is in the list.
Backed == SessionsOf(TabsShown) \subseteq SavedSessions(disk) \cup history

\* A tree is in use: it is shown, or kept by a view that is gone for the calls it made.
Busy == Settled /\ (InView \/ Calls # {})

\* It has a tab for every pty that is not stranded and every session not listed.
Placed ==
  Busy => /\ \A id \in running : id \in stranded \/ \E x \in TabsShown \cup TabsHeld : x.id = id
          /\ \A s \in opened : s \in history \cup forgone \/ \E x \in TabsShown \cup TabsHeld : x.s = s

\* The second invariant: a pty that runs has a tab or is stranded, a session has a place,
\* and no restart is of a pty that runs.
Accounted ==
  /\ Away /\ Quiet /\ Backed /\ Placed /\ NoOrphan /\ NoSessionLost
  /\ \A f \in Calls : f.old \notin running

-----------------------------------------------------------------------------
(* Good trees.                                                             *)

\* A tree that differs from t in the pane p, new or not.
LEMMA PaneReplaced ==
  ASSUME NEW t, GoodTree(t), NEW u, Tree(u), NEW p, GoodPane(p),
         Ids(u) = Ids(t) \cup {p.id}, PaneOf(u, p.id) = p,
         \A o \in Ids(t) \ {p.id} : PaneOf(u, o) = PaneOf(t, o),
         \A o \in Ids(t) \ {p.id} : Distinct(p.tabs, PaneOf(t, o).tabs)
  PROVE  /\ GoodTree(u)
         /\ \A x : x \in TabSet(u) <=> x \in ToSet(p.tabs) \/ \E o \in Ids(t) \ {p.id} :
              x \in ToSet(PaneOf(t, o).tabs)
<1>1. \A id \in Ids(u) : GoodPane(PaneOf(u, id))
  BY DEF GoodTree
<1>2. ASSUME NEW a \in Ids(u), NEW b \in Ids(u), a # b
    PROVE Distinct(PaneOf(u, a).tabs, PaneOf(u, b).tabs)
  <2>1. CASE a = p.id
    BY <1>2, <2>1
  <2>2. CASE b = p.id
    <3>1. Distinct(p.tabs, PaneOf(t, a).tabs)
      BY <1>2, <2>2
    <3> QED
      BY <1>2, <2>2, <3>1 DEF Distinct
  <2>3. CASE a # p.id /\ b # p.id
    BY <1>2, <2>3 DEF GoodTree
  <2> QED
    BY <2>1, <2>2, <2>3
<1>3. \A x : x \in TabSet(u) <=> \E id \in Ids(u) : x \in ToSet(PaneOf(u, id).tabs)
  BY TabSetFacts
<1>4. p.id \in Ids(u)
  OBVIOUS
<1>5. ASSUME NEW x PROVE x \in TabSet(u) <=> x \in ToSet(p.tabs) \/ \E o \in Ids(t) \ {p.id} :
    x \in ToSet(PaneOf(t, o).tabs)
  <2>1. x \in TabSet(u) => x \in ToSet(p.tabs) \/ \E o \in Ids(t) \ {p.id} :
      x \in ToSet(PaneOf(t, o).tabs)
    BY <1>3
  <2>2. x \in ToSet(p.tabs) => x \in TabSet(u)
    BY <1>3, <1>4
  <2>3. (\E o \in Ids(t) \ {p.id} : x \in ToSet(PaneOf(t, o).tabs)) => x \in TabSet(u)
    BY <1>3
  <2> QED
    BY <2>1, <2>2, <2>3
<1> QED
  BY <1>1, <1>2, <1>5 DEF GoodTree

\* A pane of a new name, with tabs of its own.
LEMMA PaneAdded ==
  ASSUME NEW t, GoodTree(t), NEW u, Tree(u), NEW p, GoodPane(p), p.id \notin Ids(t),
         Ids(u) = Ids(t) \cup {p.id}, PaneOf(u, p.id) = p,
         \A o \in Ids(t) : PaneOf(u, o) = PaneOf(t, o),
         \A x \in ToSet(p.tabs), y \in TabSet(t) : x.id # y.id
  PROVE  GoodTree(u) /\ TabSet(u) = TabSet(t) \cup ToSet(p.tabs)
<1>1. \A x : x \in TabSet(t) <=> \E id \in Ids(t) : x \in ToSet(PaneOf(t, id).tabs)
  BY TabSetFacts DEF GoodTree
<1>2. \A o \in Ids(t) \ {p.id} : Distinct(p.tabs, PaneOf(t, o).tabs)
  BY <1>1 DEF Distinct
<1>3. /\ GoodTree(u)
      /\ \A x : x \in TabSet(u) <=> x \in ToSet(p.tabs) \/ \E o \in Ids(t) \ {p.id} :
           x \in ToSet(PaneOf(t, o).tabs)
  BY <1>2, PaneReplaced
<1>4. \A x : x \in TabSet(u) <=> x \in ToSet(p.tabs) \/ x \in TabSet(t)
  BY <1>1, <1>3
<1> QED
  BY <1>3, <1>4

\* A pane of the tree, and that its tabs are no other pane's.
LEMMA TabsOfPane ==
  ASSUME NEW t, GoodTree(t), NEW id \in Ids(t)
  PROVE  /\ GoodPane(PaneOf(t, id)) /\ PaneOf(t, id).id = id
         /\ ToSet(PaneOf(t, id).tabs) \subseteq TabSet(t) /\ ToSet(PaneOf(t, id).tabs) \subseteq TabRecs
         /\ PaneOf(t, id).tabs \in Seq(TabRecs)
         /\ \A x \in ToSet(PaneOf(t, id).tabs), y \in TabSet(t) : x.id = y.id => x = y
<1>1. \A x : x \in TabSet(t) <=> \E o \in Ids(t) : x \in ToSet(PaneOf(t, o).tabs)
  BY TabSetFacts DEF GoodTree
<1>2. \A o \in Ids(t) : GoodPane(PaneOf(t, o))
  BY DEF GoodTree
<1>3. PaneOf(t, id).tabs \in Seq(TabRecs) /\ Apart(PaneOf(t, id).tabs)
  BY <1>2 DEF GoodPane
<1>4. ASSUME NEW x \in ToSet(PaneOf(t, id).tabs), NEW y \in TabSet(t), x.id = y.id PROVE x = y
  <2>1. PICK o \in Ids(t) : y \in ToSet(PaneOf(t, o).tabs)
    BY <1>1
  <2>2. o = id
    BY <1>4, <2>1 DEF GoodTree, Distinct
  <2> HIDE DEF TabRecs
  <2> DEFINE s == PaneOf(t, id).tabs
  <2>3. s \in Seq(TabRecs) /\ Apart(s) /\ x \in ToSet(s) /\ y \in ToSet(s)
    BY <1>3, <2>1, <2>2
  <2> HIDE DEF s
  <2>4. PICK i \in 1 .. Len(s) : x = s[i]
    BY <2>3, ToSetFacts
  <2>5. PICK j \in 1 .. Len(s) : y = s[j]
    BY <2>3, ToSetFacts
  <2> QED
    BY <1>4, <2>3, <2>4, <2>5 DEF Apart
<1>5. ToSet(PaneOf(t, id).tabs) \subseteq TabRecs
  BY <1>3, ToSetFacts
<1>6. PaneOf(t, id).id = id
  BY IdFacts
<1> QED
  BY <1>1, <1>2, <1>3, <1>4, <1>5, <1>6

\* A pane shows other tabs: some of those it had, and new ones.
LEMMA PaneChanged ==
  ASSUME NEW t, GoodTree(t), NEW id \in Ids(t), NEW p, GoodPane(p), p.id = id,
         \A x \in ToSet(p.tabs) : x \in ToSet(PaneOf(t, id).tabs) \/ \A y \in TabSet(t) : x.id # y.id
  PROVE  /\ GoodTree(Put(t, id, p)) /\ Ids(Put(t, id, p)) = Ids(t)
         /\ TabSet(Put(t, id, p)) = (TabSet(t) \ ToSet(PaneOf(t, id).tabs)) \cup ToSet(p.tabs)
         /\ PaneOf(Put(t, id, p), id) = p
         /\ \A o \in Ids(t) \ {id} : PaneOf(Put(t, id, p), o) = PaneOf(t, o)
<1> DEFINE u == Put(t, id, p)
           s == PaneOf(t, id).tabs
<1>1. /\ Tree(u) /\ Ids(u) = Ids(t) /\ PaneOf(u, id) = p
      /\ \A o \in Ids(t) \ {id} : PaneOf(u, o) = PaneOf(t, o)
  BY PutFacts DEF GoodTree
<1> HIDE DEF u
<1>2. \A x : x \in TabSet(t) <=> \E o \in Ids(t) : x \in ToSet(PaneOf(t, o).tabs)
  BY TabSetFacts DEF GoodTree
<1>3. \A o \in Ids(t) \ {id} : Distinct(s, PaneOf(t, o).tabs)
  BY DEF GoodTree
<1> HIDE DEF s
<1>4. \A o \in Ids(t) \ {id} : Distinct(p.tabs, PaneOf(t, o).tabs)
  BY <1>2, <1>3 DEF Distinct, s
<1>5. Ids(u) = Ids(t) \cup {p.id}
  BY <1>1
<1>6. /\ GoodTree(u)
      /\ \A x : x \in TabSet(u) <=> x \in ToSet(p.tabs) \/ \E o \in Ids(t) \ {p.id} :
           x \in ToSet(PaneOf(t, o).tabs)
  BY <1>1, <1>4, <1>5, PaneReplaced
<1>7. \A x : (\E o \in Ids(t) \ {id} : x \in ToSet(PaneOf(t, o).tabs)) <=> x \in TabSet(t) \ ToSet(s)
  <2>1. ASSUME NEW x, NEW o \in Ids(t) \ {id}, x \in ToSet(PaneOf(t, o).tabs)
      PROVE x \in TabSet(t) \ ToSet(s)
    BY <1>2, <1>3, <2>1 DEF Distinct
  <2>2. ASSUME NEW x \in TabSet(t) \ ToSet(s)
      PROVE \E o \in Ids(t) \ {id} : x \in ToSet(PaneOf(t, o).tabs)
    BY <1>2, <2>2 DEF s
  <2> QED
    BY <2>1, <2>2
<1>8. TabSet(u) = (TabSet(t) \ ToSet(s)) \cup ToSet(p.tabs)
  BY <1>6, <1>7
<1> QED
  BY <1>1, <1>6, <1>8 DEF u, s

\* Panes go: their tabs go with them.
LEMMA PanesGone ==
  ASSUME NEW t, GoodTree(t), NEW E \in SUBSET Ids(t), NEW u, Tree(u), Ids(u) = Ids(t) \ E,
         \A o \in Ids(t) \ E : PaneOf(u, o) = PaneOf(t, o)
  PROVE  /\ GoodTree(u)
         /\ \A x : x \in TabSet(u) <=> \E o \in Ids(t) \ E : x \in ToSet(PaneOf(t, o).tabs)
<1>1. \A x : x \in TabSet(u) <=> \E o \in Ids(u) : x \in ToSet(PaneOf(u, o).tabs)
  BY TabSetFacts
<1>2. \A x : x \in TabSet(u) <=> \E o \in Ids(t) \ E : x \in ToSet(PaneOf(t, o).tabs)
  BY <1>1
<1> QED
  BY <1>2 DEF GoodTree

\* A pane goes, and its tabs with it.
LEMMA PaneGone ==
  ASSUME NEW t, GoodTree(t), NEW id \in Ids(t)
  PROVE  /\ GoodTree(RemovePane(t, id)) /\ Ids(RemovePane(t, id)) = Ids(t) \ {id}
         /\ TabSet(RemovePane(t, id)) = TabSet(t) \ ToSet(PaneOf(t, id).tabs)
         /\ \A o \in Ids(t) \ {id} : PaneOf(RemovePane(t, id), o) = PaneOf(t, o)
<1> DEFINE u == RemovePane(t, id)
<1>1. /\ Tree(u) /\ Ids(u) = Ids(t) \ {id}
      /\ \A o \in Ids(t) \ {id} : PaneOf(u, o) = PaneOf(t, o)
  BY RemoveKeepsTheOthers DEF GoodTree
<1> HIDE DEF u
<1>2. /\ GoodTree(u)
      /\ \A x : x \in TabSet(u) <=> \E o \in Ids(t) \ {id} : x \in ToSet(PaneOf(t, o).tabs)
  <2>1. {id} \in SUBSET Ids(t)
    OBVIOUS
  <2> QED
    BY <1>1, <2>1, PanesGone
<1>3. \A x : x \in TabSet(t) <=> \E o \in Ids(t) : x \in ToSet(PaneOf(t, o).tabs)
  BY TabSetFacts DEF GoodTree
<1>4. \A o \in Ids(t) \ {id} : Distinct(PaneOf(t, id).tabs, PaneOf(t, o).tabs)
  BY DEF GoodTree
<1>5. \A x : x \in TabSet(u) <=> x \in TabSet(t) \ ToSet(PaneOf(t, id).tabs)
  BY <1>2, <1>3, <1>4 DEF Distinct
<1> QED
  BY <1>1, <1>2, <1>5 DEF u

\* A tree of one pane.
LEMMA OnePane ==
  ASSUME NEW p, GoodPane(p)
  PROVE  /\ GoodTree(Single(p)) /\ Ids(Single(p)) = {p.id} /\ TabSet(Single(p)) = ToSet(p.tabs)
         /\ Single(p) # NoTree /\ PaneOf(Single(p), p.id) = p
<1>1. /\ Tree(Single(p)) /\ Ids(Single(p)) = {p.id} /\ PaneOf(Single(p), p.id) = p
      /\ Single(p) # NoTree
  BY SingleFacts
<1>2. \A x : x \in TabSet(Single(p)) <=> x \in ToSet(p.tabs)
  BY <1>1, TabSetFacts
<1> QED
  BY <1>1, <1>2 DEF GoodTree

\* A tree of none.
LEMMA NoPanes == GoodTree(NoTree) /\ Ids(NoTree) = {} /\ TabSet(NoTree) = {}
<1>1. DOMAIN NoTree = {} /\ TreeShape(NoTree)
  BY Empty
<1> QED
  BY <1>1 DEF GoodTree, Tree, Named, Ids, TabSet

-----------------------------------------------------------------------------
(* Panes.                                                                  *)

\* What the bounds are.
LEMMA Bounds ==
  /\ MaxPanes \in Nat \ {0} /\ MaxPtys \in Nat \ {0} /\ MaxSessions \in Nat \ {0}
  /\ PaneNames \subseteq Nat \ {0} /\ Ptys \subseteq Nat \ {0} /\ Sessions \subseteq Nat \ {0}
  /\ NoPane \notin PaneNames /\ NoSession \notin Sessions /\ NoPty \notin Ptys
BY BoundsAssumption DEF PaneNames, Ptys, Sessions, NoPane, NoSession, NoPty

\* The four parts of a pane.
LEMMA PaneParts ==
  ASSUME NEW p, GoodPane(p)
  PROVE  /\ p.id \in PaneNames /\ p.tabs \in Seq(TabRecs) /\ p.active \in Nat \ {0} /\ p.svc \in BOOLEAN
         /\ p.active = 1 \/ p.active <= Len(p.tabs)
         /\ Apart(p.tabs) /\ Len(p.tabs) \in Nat
BY DEF GoodPane

\* A pane made of its four parts.
LEMMA PaneMade ==
  ASSUME NEW id \in PaneNames, NEW tabs \in Seq(TabRecs), NEW active \in Nat \ {0}, NEW svc \in BOOLEAN,
         active = 1 \/ active <= Len(tabs), Apart(tabs)
  PROVE  GoodPane([id |-> id, tabs |-> tabs, active |-> active, svc |-> svc])
BY DEF GoodPane

\* A pane as those of its parts that are replaced leave it.
LEMMA PaneRetabbed ==
  ASSUME NEW p, GoodPane(p), NEW tabs
  PROVE  [p EXCEPT !.tabs = tabs] = [id |-> p.id, tabs |-> tabs, active |-> p.active, svc |-> p.svc]
BY DEF GoodPane

\* A pane shows its services, or not.
LEMMA PaneServing ==
  ASSUME NEW p, GoodPane(p), NEW svc
  PROVE  [p EXCEPT !.svc = svc] = [id |-> p.id, tabs |-> p.tabs, active |-> p.active, svc |-> svc]
BY DEF GoodPane

\* A pane shows another tab.
LEMMA PaneShowing ==
  ASSUME NEW p, GoodPane(p), NEW active, NEW svc
  PROVE  [p EXCEPT !.active = active, !.svc = svc] = [id |-> p.id, tabs |-> p.tabs,
      active |-> active, svc |-> svc]
<1>1. [p EXCEPT !.active = active] = [id |-> p.id, tabs |-> p.tabs, active |-> active, svc |-> p.svc]
  BY DEF GoodPane
<1>2. [p EXCEPT !.active = active, !.svc = svc] = [[p EXCEPT !.active = active] EXCEPT !.svc = svc]
  OBVIOUS
<1>3. [[id |-> p.id, tabs |-> p.tabs, active |-> active, svc |-> p.svc] EXCEPT
    !.svc = svc] = [id |-> p.id, tabs |-> p.tabs, active |-> active, svc |-> svc]
  OBVIOUS
<1> QED
  BY <1>1, <1>2, <1>3, Zenon

\* Other tabs in a pane, with another active one.
LEMMA PaneRefilled ==
  ASSUME NEW p, GoodPane(p), NEW tabs, NEW active
  PROVE  [p EXCEPT !.tabs = tabs, !.active = active] = [id |-> p.id, tabs |-> tabs,
      active |-> active, svc |-> p.svc]
<1>1. [p EXCEPT !.tabs = tabs] = [id |-> p.id, tabs |-> tabs, active |-> p.active, svc |-> p.svc]
  BY DEF GoodPane
<1>2. [p EXCEPT !.tabs = tabs, !.active = active] = [[p EXCEPT !.tabs = tabs] EXCEPT !.active = active]
  OBVIOUS
<1>3. [[id |-> p.id, tabs |-> tabs, active |-> p.active, svc |-> p.svc] EXCEPT
    !.active = active] = [id |-> p.id, tabs |-> tabs, active |-> active, svc |-> p.svc]
  OBVIOUS
<1> QED
  BY <1>1, <1>2, <1>3, Zenon

\* All of it but the name.
LEMMA PaneReplacing ==
  ASSUME NEW p, GoodPane(p), NEW tabs, NEW active, NEW svc
  PROVE  [p EXCEPT !.tabs = tabs, !.active = active, !.svc = svc] = [id |-> p.id, tabs |-> tabs,
      active |-> active, svc |-> svc]
<1>1. [p EXCEPT !.tabs = tabs, !.active = active] = [id |-> p.id, tabs |-> tabs, active |-> active,
    svc |-> p.svc]
  BY PaneRefilled
<1>2. [p EXCEPT !.tabs = tabs, !.active = active,
    !.svc = svc] = [[p EXCEPT !.tabs = tabs, !.active = active] EXCEPT !.svc = svc]
  OBVIOUS
<1>3. [[id |-> p.id, tabs |-> tabs, active |-> active, svc |-> p.svc] EXCEPT
    !.svc = svc] = [id |-> p.id, tabs |-> tabs, active |-> active, svc |-> svc]
  OBVIOUS
<1> QED
  BY <1>1, <1>2, <1>3, Zenon

\* A pane's only tab.
LEMMA OneTab ==
  ASSUME NEW tab \in TabRecs
  PROVE  <<tab>> \in Seq(TabRecs) /\ Len(<<tab>>) = 1 /\ Apart(<<tab>>) /\ ToSet(<<tab>>) = {tab}
<1> HIDE DEF TabRecs
<1>1. <<tab>> \in Seq(TabRecs) /\ Len(<<tab>>) = 1 /\ <<tab>>[1] = tab
  OBVIOUS
<1>2. \A x : x \in ToSet(<<tab>>) <=> \E i \in 1 .. Len(<<tab>>) : x = <<tab>>[i]
  BY <1>1, ToSetFacts
<1>3. 1 .. 1 = {1}
  OBVIOUS
<1>4. ToSet(<<tab>>) = {tab}
  BY <1>1, <1>2, <1>3
<1>5. Apart(<<tab>>)
  BY <1>1, <1>3 DEF Apart
<1> QED
  BY <1>1, <1>4, <1>5

\* No tab.
LEMMA NoTab == <<>> \in Seq(TabRecs) /\ Len(<<>>) = 0 /\ Apart(<<>>) /\ ToSet(<<>>) = {}
<1> HIDE DEF TabRecs
<1>1. <<>> \in Seq(TabRecs) /\ Len(<<>>) = 0
  OBVIOUS
<1>2. \A x : x \in ToSet(<<>>) <=> \E i \in 1 .. Len(<<>>) : x = <<>>[i]
  BY <1>1, ToSetFacts
<1>3. 1 .. 0 = {}
  OBVIOUS
<1> QED
  BY <1>1, <1>2, <1>3 DEF Apart

\* Pane gives a pane, of one tab or none.
LEMMA NewPane ==
  ASSUME NEW id \in PaneNames, NEW svc \in BOOLEAN, NEW tab \in TabRecs
  PROVE  /\ GoodPane(Pane(id, <<tab>>, 1, svc)) /\ Pane(id, <<tab>>, 1, svc).id = id
         /\ Pane(id, <<tab>>, 1, svc).tabs = <<tab>>
         /\ GoodPane(Pane(id, <<>>, 1, svc)) /\ Pane(id, <<>>, 1, svc).id = id
         /\ Pane(id, <<>>, 1, svc).tabs = <<>>
<1> HIDE DEF TabRecs
<1>1. GoodPane(Pane(id, <<tab>>, 1, svc))
  <2>1. <<tab>> \in Seq(TabRecs) /\ 1 \in Nat \ {0} /\ Apart(<<tab>>)
    BY OneTab
  <2> QED
    BY <2>1, PaneMade DEF Pane
<1>2. GoodPane(Pane(id, <<>>, 1, svc))
  <2>1. <<>> \in Seq(TabRecs) /\ 1 \in Nat \ {0} /\ Apart(<<>>)
    BY NoTab
  <2> QED
    BY <2>1, PaneMade DEF Pane
<1> QED
  BY <1>1, <1>2 DEF Pane

\* A pane without one of its tabs.
LEMMA WithoutFacts ==
  ASSUME NEW p, GoodPane(p), NEW i \in 1 .. Len(p.tabs)
  PROVE  /\ GoodPane(Without(p, i)) /\ Without(p, i).id = p.id /\ Without(p, i).svc = p.svc
         /\ ToSet(Without(p, i).tabs) = ToSet(p.tabs) \ {p.tabs[i]}
         /\ p.tabs[i] \in ToSet(p.tabs) /\ p.tabs[i] \in TabRecs
<1> DEFINE s == p.tabs
           r == RemoveAt(p.tabs, i)
           a == ResolveActive(p.active, i, Len(p.tabs) - 1)
<1>1. s \in Seq(TabRecs) /\ Apart(s) /\ p.active \in Nat \ {0} /\
    (p.active = 1 \/ p.active <= Len(s)) /\ p.id \in PaneNames /\ p.svc \in BOOLEAN
  BY PaneParts
<1>2. Without(p, i) = [id |-> p.id, tabs |-> r, active |-> a, svc |-> p.svc]
  <2>1. Without(p, i) = [p EXCEPT !.tabs = r, !.active = a]
    BY DEF Without
  <2> HIDE DEF r, a
  <2> QED
    BY <2>1, PaneRefilled
<1> HIDE DEF TabRecs
<1>3. r \in Seq(TabRecs) /\ Len(r) = Len(s) - 1 /\ Apart(r) /\ ToSet(r) = ToSet(s) \ {s[i]}
  BY <1>1, RemoveAtFacts, RemovedTab
<1>4. Len(s) \in Nat /\ i \in Nat /\ 1 <= i /\ i <= Len(s)
  BY <1>1
<1>5. a \in Nat \ {0} /\ (a = 1 \/ a <= Len(r))
  <2>1. CASE Len(s) - 1 = 0
    BY <2>1 DEF ResolveActive
  <2>2. CASE Len(s) - 1 # 0 /\ p.active = i
    <3>1. a = Min({i, Len(s) - 1})
      BY <2>2 DEF ResolveActive
    <3>2. {i, Len(s) - 1} \in SUBSET Nat /\ {i, Len(s) - 1} # {}
      BY <1>4, <2>2
    <3>3. a \in {i, Len(s) - 1} /\ \A y \in {i, Len(s) - 1} : a <= y
      BY <3>1, <3>2, NumberMin
    <3>4. a <= Len(s) - 1 /\ a \in Nat
      BY <1>4, <2>2, <3>3
    <3>5. a # 0
      <4>1. a = i \/ a = Len(s) - 1
        BY <3>3
      <4>2. i # 0
        BY <1>4
      <4> QED
        BY <2>2, <4>1, <4>2
    <3> QED
      BY <1>3, <3>4, <3>5
  <2>3. CASE Len(s) - 1 # 0 /\ p.active # i
    <3>1. a = IF p.active > i THEN p.active - 1 ELSE p.active
      BY <2>3 DEF ResolveActive
    <3> QED
      BY <1>1, <1>3, <1>4, <2>3, <3>1
  <2> QED
    BY <2>1, <2>2, <2>3
<1>6. s[i] \in ToSet(s) /\ s[i] \in TabRecs
  BY <1>1, <1>4, ToSetFacts
<1> HIDE DEF r, a
<1>7. GoodPane([id |-> p.id, tabs |-> r, active |-> a, svc |-> p.svc])
  BY <1>1, <1>3, <1>5, PaneMade
<1> QED
  BY <1>2, <1>3, <1>6, <1>7

\* A pane with one more tab, anywhere.
LEMMA WithFacts ==
  ASSUME NEW p, GoodPane(p), NEW i \in 1 .. Len(p.tabs) + 1, NEW tab \in TabRecs,
         \A x \in ToSet(p.tabs) : x.id # tab.id
  PROVE  /\ GoodPane(With(p, i, tab)) /\ With(p, i, tab).id = p.id
         /\ ToSet(With(p, i, tab).tabs) = ToSet(p.tabs) \cup {tab}
<1> DEFINE s == p.tabs
           r == InsertAt(p.tabs, i, tab)
<1>1. s \in Seq(TabRecs) /\ Apart(s) /\ p.id \in PaneNames
  BY PaneParts
<1>2. With(p, i, tab) = [id |-> p.id, tabs |-> r, active |-> i, svc |-> FALSE]
  <2>1. With(p, i, tab) = [p EXCEPT !.tabs = r, !.active = i, !.svc = FALSE]
    BY DEF With
  <2> HIDE DEF r
  <2> QED
    BY <2>1, PaneReplacing
<1> HIDE DEF TabRecs
<1>3. r \in Seq(TabRecs) /\ Len(r) = Len(s) + 1 /\ Apart(r) /\ ToSet(r) = ToSet(s) \cup {tab}
  <2>1. InsertAt(s, i, tab) \in Seq(TabRecs) /\ Len(InsertAt(s, i, tab)) = Len(s) + 1
    BY <1>1, InsertAtFacts
  <2>2. Apart(InsertAt(s, i, tab)) /\ ToSet(InsertAt(s, i, tab)) = ToSet(s) \cup {tab}
    BY <1>1, InsertedTab
  <2> QED
    BY <2>1, <2>2
<1>4. i \in Nat \ {0} /\ i <= Len(r)
  BY <1>1, <1>3
<1> HIDE DEF r
<1>5. GoodPane([id |-> p.id, tabs |-> r, active |-> i, svc |-> FALSE])
  BY <1>1, <1>3, <1>4, PaneMade
<1> QED
  BY <1>2, <1>3, <1>5

\* appendTerminal, in the background or not.
LEMMA AppendFacts ==
  ASSUME NEW p, GoodPane(p), NEW background \in BOOLEAN, NEW tab \in TabRecs,
         \A x \in ToSet(p.tabs) : x.id # tab.id
  PROVE  /\ GoodPane(AppendTerminal(p, tab, background)) /\ AppendTerminal(p, tab, background).id = p.id
         /\ ToSet(AppendTerminal(p, tab, background).tabs) = ToSet(p.tabs) \cup {tab}
<1> DEFINE s == p.tabs
           n == Len(p.tabs) + 1
<1>1. s \in Seq(TabRecs) /\ Apart(s) /\ p.id \in PaneNames /\ n \in 1 .. Len(s) + 1 /\
    p.active \in Nat \ {0} /\ (p.active = 1 \/ p.active <= Len(s)) /\ p.svc \in BOOLEAN
  BY PaneParts
<1>2. CASE ~background
  <2>1. AppendTerminal(p, tab, background) = With(p, n, tab)
    BY <1>2 DEF AppendTerminal
  <2>2. n \in 1 .. Len(p.tabs) + 1
    BY <1>1
  <2> HIDE DEF n, TabRecs
  <2>3. /\ GoodPane(With(p, n, tab)) /\ With(p, n, tab).id = p.id
        /\ ToSet(With(p, n, tab).tabs) = ToSet(p.tabs) \cup {tab}
    BY <2>2, WithFacts
  <2> QED
    BY <2>1, <2>3, Zenon
<1>3. CASE background
  <2> DEFINE r == Append(s, tab)
  <2>1. AppendTerminal(p, tab, background) = [id |-> p.id, tabs |-> r, active |-> p.active,
      svc |-> p.svc]
    <3>1. AppendTerminal(p, tab, background) = [p EXCEPT !.tabs = r]
      BY <1>3 DEF AppendTerminal
    <3> HIDE DEF r
    <3> QED
      BY <3>1, PaneRetabbed
  <2> HIDE DEF TabRecs, s
  <2>2. r = s \o <<tab>>
    BY <1>1
  <2>3. Distinct(s, <<tab>>)
    BY OneTab DEF Distinct, s
  <2>4. r \in Seq(TabRecs) /\ Len(r) = Len(s) + 1
    BY <1>1
  <2>5. Apart(r) /\ ToSet(r) = ToSet(s) \cup {tab}
    <3>1. s \in Seq(TabRecs) /\ <<tab>> \in Seq(TabRecs) /\ Apart(s) /\ Apart(<<tab>>)
      BY <1>1, OneTab
    <3> DEFINE one == <<tab>>
    <3>1a. one \in Seq(TabRecs) /\ Apart(one) /\ Distinct(s, one) /\ ToSet(one) = {tab} /\ r = s \o one
      BY <2>2, <2>3, <3>1, OneTab
    <3> HIDE DEF one, r
    <3>2. Apart(s \o one) /\ ToSet(s \o one) = ToSet(s) \cup ToSet(one)
      BY <3>1, <3>1a, JoinedTabs
    <3> QED
      BY <3>1a, <3>2
  <2>6. p.active = 1 \/ p.active <= Len(r)
    BY <1>1, <2>4
  <2> HIDE DEF r
  <2>7. GoodPane([id |-> p.id, tabs |-> r, active |-> p.active, svc |-> p.svc])
    BY <1>1, <2>4, <2>5, <2>6, PaneMade
  <2> QED
    BY <2>1, <2>5, <2>7 DEF s
<1> QED
  BY <1>2, <1>3

\* The tabs that are left when some are closed.
LEMMA LeftFacts ==
  ASSUME NEW T, NEW s \in Seq(T), Apart(s), NEW closing
  PROVE  /\ Left(s, closing) \in Seq(T) /\ Apart(Left(s, closing)) /\ Len(Left(s, closing)) \in Nat
         /\ ToSet(Left(s, closing)) = ToSet(s) \ closing
<1> DEFINE keep == {k \in 1 .. Len(s) : s[k] \notin closing}
<1>1. Left(s, closing) = Only(s, keep)
  BY DEF Left
<1>2. keep \in SUBSET (1 .. Len(s))
  OBVIOUS
<1>3. \A x : x \in ToSet(s) <=> \E i \in 1 .. Len(s) : x = s[i]
  BY ToSetFacts
<1>4. /\ Only(s, keep) \in Seq(T) /\ Apart(Only(s, keep)) /\ ToSet(Only(s, keep)) = {s[i] : i \in keep}
      /\ Len(Only(s, keep)) \in Nat
  <2> HIDE DEF keep
  <2> QED
    BY <1>2, OnlyFacts
<1>5. {s[i] : i \in keep} = ToSet(s) \ closing
  BY <1>3
<1> QED
  BY <1>1, <1>4, <1>5

\* The place of a tab in a sequence that has it.
LEMMA PlaceOf ==
  ASSUME NEW T, NEW s \in Seq(T), NEW x \in ToSet(s)
  PROVE  /\ (CHOOSE k \in 1 .. Len(s) : s[k] = x) \in 1 .. Len(s)
         /\ (CHOOSE k \in 1 .. Len(s) : s[k] = x) \in Nat \ {0} /\
              (CHOOSE k \in 1 .. Len(s) : s[k] = x) <= Len(s)
<1>1. \E k \in 1 .. Len(s) : s[k] = x
  BY ToSetFacts
<1> DEFINE k == CHOOSE k \in 1 .. Len(s) : s[k] = x
<1>2. k \in 1 .. Len(s)
  BY <1>1
<1> HIDE DEF k
<1>3. Len(s) \in Nat
  OBVIOUS
<1>4. k \in Nat \ {0} /\ k <= Len(s)
  BY <1>2, <1>3
<1> QED
  BY <1>2, <1>4 DEF k

\* The pane that is left of one when some of its tabs are closed.
LEMMA KeptFacts ==
  ASSUME NEW p, GoodPane(p), NEW closing
  PROVE  /\ GoodPane(Kept(p, closing)) /\ Kept(p, closing).id = p.id
         /\ ToSet(Kept(p, closing).tabs) = ToSet(p.tabs) \ closing
<1> DEFINE tabs == Left(p.tabs, closing)
           at   == {k \in 1 .. Len(tabs) : tabs[k] = p.tabs[p.active]}
           a    == IF at # {} THEN Max(at) ELSE Max({1, Len(tabs)})
<1>1. p.tabs \in Seq(TabRecs) /\ Apart(p.tabs) /\ p.id \in PaneNames /\ p.svc \in BOOLEAN
  BY PaneParts
<1>2. Kept(p, closing) = [id |-> p.id, tabs |-> tabs, active |-> a, svc |-> p.svc]
  <2>1. Kept(p, closing) = [p EXCEPT !.tabs = tabs, !.active = a]
    BY DEF Kept
  <2> HIDE DEF tabs, a
  <2> QED
    BY <2>1, PaneRefilled
<1> HIDE DEF TabRecs
<1>3. tabs \in Seq(TabRecs) /\ Apart(tabs) /\ ToSet(tabs) = ToSet(p.tabs) \ closing /\ Len(tabs) \in Nat
  BY <1>1, LeftFacts
<1> HIDE DEF tabs
<1>4. a \in Nat \ {0} /\ (a = 1 \/ a <= Len(tabs))
  <2>1. CASE at # {}
    <3>1. at \in SUBSET (0 .. Len(tabs))
      BY <1>3
    <3>2. Max(at) \in at
      BY <1>3, <2>1, <3>1, NumberMax
    <3> QED
      BY <1>3, <2>1, <3>2
  <2>2. CASE at = {}
    <3>1. {1, Len(tabs)} \in SUBSET (0 .. Len(tabs) + 1) /\ Len(tabs) + 1 \in Nat
      BY <1>3
    <3> DEFINE m == Max({1, Len(tabs)})
    <3>2. m \in {1, Len(tabs)} /\ 1 <= m
      BY <3>1, NumberMax
    <3>3. a = m
      BY <2>2
    <3> HIDE DEF m, a
    <3> QED
      BY <1>3, <3>2, <3>3
  <2> QED
    BY <2>1, <2>2
<1> HIDE DEF a
<1>5. GoodPane([id |-> p.id, tabs |-> tabs, active |-> a, svc |-> p.svc])
  BY <1>1, <1>3, <1>4, PaneMade
<1> QED
  BY <1>2, <1>3, <1>5

\* Another active tab, of the same tabs.
LEMMA ShownFacts ==
  ASSUME NEW p, GoodPane(p), NEW i \in 1 .. Len(p.tabs)
  PROVE  /\ GoodPane([p EXCEPT !.active = i, !.svc = FALSE])
         /\ [p EXCEPT !.active = i, !.svc = FALSE].id = p.id
         /\ [p EXCEPT !.active = i, !.svc = FALSE].tabs = p.tabs
         /\ GoodPane([p EXCEPT !.svc = TRUE])
         /\ [p EXCEPT !.svc = TRUE].id = p.id /\ [p EXCEPT !.svc = TRUE].tabs = p.tabs
<1>1. p.tabs \in Seq(TabRecs) /\ Apart(p.tabs) /\ p.id \in PaneNames /\ i \in Nat \ {0} /\
    i <= Len(p.tabs)
      /\ p.active \in Nat \ {0} /\ (p.active = 1 \/ p.active <= Len(p.tabs))
  BY PaneParts
<1>2. [p EXCEPT !.active = i, !.svc = FALSE] = [id |-> p.id, tabs |-> p.tabs, active |-> i,
    svc |-> FALSE]
  BY PaneShowing
<1>3. [p EXCEPT !.svc = TRUE] = [id |-> p.id, tabs |-> p.tabs, active |-> p.active, svc |-> TRUE]
  BY PaneServing
<1>4. GoodPane([id |-> p.id, tabs |-> p.tabs, active |-> i, svc |-> FALSE])
  BY <1>1, PaneMade
<1>5. GoodPane([id |-> p.id, tabs |-> p.tabs, active |-> p.active, svc |-> TRUE])
  BY <1>1, PaneMade
<1> QED
  BY <1>2, <1>3, <1>4, <1>5

-----------------------------------------------------------------------------
(* Ids that are free, and the calls.                                       *)

\* A free pane name is in no pane shown, held or asked for.
LEMMA FreePaneFacts ==
  /\ FreePanes \subseteq PaneNames
  /\ FreePanes # {} => Min(FreePanes) \in FreePanes /\ Max(FreePanes) \in FreePanes
                       /\ \A id \in FreePanes : Min(FreePanes) <= id /\ id <= Max(FreePanes)
  /\ \A id \in FreePanes : /\ id \notin Ids(tree)
                           /\ \A e \in pendingPanes : id # e.pane.id
                           /\ \A f \in Calls : f.at # id
<1>1. FreePanes \subseteq PaneNames
  BY DEF FreePanes
<1>2. FreePanes \in SUBSET Nat /\ FreePanes \in SUBSET (0 .. MaxPanes) /\ MaxPanes \in Nat
  BY <1>1, Bounds DEF PaneNames
<1>3. \A id \in FreePanes : /\ id \notin Ids(tree)
                            /\ \A e \in pendingPanes : id # e.pane.id
                            /\ \A f \in Calls : f.at # id
  <2>1. ASSUME NEW id \in FreePanes, NEW e \in pendingPanes PROVE id # e.pane.id
    <3>1. e.pane.id \in {c.pane.id : c \in pendingPanes}
      OBVIOUS
    <3> QED
      BY <3>1 DEF FreePanes
  <2>2. ASSUME NEW id \in FreePanes, NEW f \in Calls PROVE f.at # id
    <3>1. f.at \in {c.at : c \in BagToSet(flights)}
      BY DEF Calls
    <3> DEFINE A == {c.at : c \in BagToSet(flights)}
    <3>2. FreePanes \cap A = {}
      <4> DEFINE B == Ids(tree) \cup {e.pane : e \in pending} \cup {e.pane.id : e \in pendingPanes}
                      \cup UNION {ToSet(e.spot.sibs) : e \in pendingPanes}
      <4>1. FreePanes = PaneNames \ (B \cup A)
        BY DEF FreePanes
      <4> HIDE DEF A, B
      <4> QED
        BY <4>1
    <3> HIDE DEF A
    <3> QED
      BY <3>1, <3>2 DEF A
  <2>3. \A id \in FreePanes : id \notin Ids(tree)
    BY DEF FreePanes
  <2> QED
    BY <2>1, <2>2, <2>3
<1>4. ASSUME FreePanes # {}
      PROVE  Min(FreePanes) \in FreePanes /\ Max(FreePanes) \in FreePanes
             /\ \A id \in FreePanes : Min(FreePanes) <= id /\ id <= Max(FreePanes)
  <2>1. Min(FreePanes) \in FreePanes /\ \A id \in FreePanes : Min(FreePanes) <= id
    BY <1>2, <1>4, NumberMin
  <2>2. Max(FreePanes) \in FreePanes /\ \A id \in FreePanes : id <= Max(FreePanes)
    BY <1>2, <1>4, NumberMax
  <2> QED
    BY <2>1, <2>2
<1> QED
  BY <1>1, <1>3, <1>4

\* A free pty neither runs nor has a tab, shown or held, nor a restart.
LEMMA FreePtyFacts ==
  /\ FreePtys \subseteq Ptys
  /\ FreePtys # {} => Min(FreePtys) \in FreePtys /\ Max(FreePtys) \in FreePtys
                      /\ \A id \in FreePtys : Min(FreePtys) <= id /\ id <= Max(FreePtys)
  /\ \A id \in FreePtys : /\ id \notin running
                          /\ \A x \in TabsShown : x.id # id
                          /\ \A e \in pending : e.tab.id # id
                          /\ \A f \in Calls : f.old # id
<1>1. FreePtys \subseteq Ptys
  BY DEF FreePtys
<1>2. FreePtys \in SUBSET Nat /\ FreePtys \in SUBSET (0 .. MaxPtys) /\ MaxPtys \in Nat
  BY <1>1, Bounds DEF Ptys
<1>3. \A id \in FreePtys : /\ id \notin running
                           /\ \A x \in TabsShown : x.id # id
                           /\ \A x \in TabsHeld : x.id # id
                           /\ \A f \in Calls : f.old # id
  BY DEF FreePtys, Calls
<1>4. \A e \in pending : e.tab \in TabsHeld
  BY DEF TabsHeld
<1>5. ASSUME FreePtys # {}
      PROVE  Min(FreePtys) \in FreePtys /\ Max(FreePtys) \in FreePtys
             /\ \A id \in FreePtys : Min(FreePtys) <= id /\ id <= Max(FreePtys)
  <2>1. Min(FreePtys) \in FreePtys /\ \A id \in FreePtys : Min(FreePtys) <= id
    BY <1>2, <1>5, NumberMin
  <2>2. Max(FreePtys) \in FreePtys /\ \A id \in FreePtys : id <= Max(FreePtys)
    BY <1>2, <1>5, NumberMax
  <2> QED
    BY <2>1, <2>2
<1> QED
  BY <1>1, <1>3, <1>4, <1>5

\* Awaiting a terminal and its answer change the calls by that one.
LEMMA CallFacts ==
  /\ Calls = DOMAIN flights
  /\ \A f : Answered(f) => f \in Calls /\ Calls' \subseteq Calls
  /\ \A f : Awaits(f) => Calls' \subseteq Calls \cup {f}
<1>1. Calls = DOMAIN flights /\ Calls' = DOMAIN flights'
  BY DEF Calls, BagToSet
<1>2. ASSUME NEW f, Answered(f) PROVE f \in Calls /\ Calls' \subseteq Calls
  <2>1. DOMAIN (flights (-) SetToBag({f})) \subseteq DOMAIN flights
    BY DEF (-)
  <2> QED
    BY <1>1, <1>2, <2>1 DEF Answered, Calls
<1>3. ASSUME NEW f, Awaits(f) PROVE Calls' \subseteq Calls \cup {f}
  <2>1. DOMAIN SetToBag({f}) = {f}
    BY DEF SetToBag
  <2>2. DOMAIN (flights (+) SetToBag({f})) = DOMAIN flights \cup DOMAIN SetToBag({f})
    BY DEF (+)
  <2> QED
    BY <1>1, <1>3, <2>1, <2>2 DEF Awaits
<1> QED
  BY <1>1, <1>2, <1>3

\* The panes of t, and what is shown of it, after a pane's tabs changed.
LEMMA AddTerminalFacts ==
  ASSUME Inv, NEW tab \in TabRecs, \A x \in TabsShown : x.id # tab.id,
         NEW at \in PaneNames \cup {NoPane}, NEW background \in BOOLEAN,
         tree = NoTree => FreePanes # {}, AddTerminal(tab, at, background)
  PROVE  /\ GoodTree(tree') /\ TabSet(tree') = TabsShown \cup {tab}
         /\ \A id \in Ids(tree') : id \in Ids(tree) \/ id \in FreePanes \/ id = at
         /\ Focused' /\ Persist(tree') /\ tree' # NoTree
<1> USE DEF TabsShown
<1>1. CASE tree = NoTree
  <2> DEFINE id == IF at # NoPane THEN at ELSE Min(FreePanes)
             p == Pane(id, <<tab>>, 1, FALSE)
  <2>1. tree' = Single(p) /\ focused' = id /\ Persist(Single(p))
    BY <1>1 DEF AddTerminal, ApplyTree
  <2>2. id \in PaneNames /\ (id = at \/ id \in FreePanes)
    BY <1>1, FreePaneFacts
  <2> HIDE DEF id
  <2>3. GoodPane(p) /\ p.id = id /\ p.tabs = <<tab>>
    BY <2>2, NewPane
  <2> HIDE DEF p
  <2>4. GoodTree(Single(p)) /\ Ids(Single(p)) = {id} /\ TabSet(Single(p)) = {tab} /\ Single(p) # NoTree
    BY <2>3, OnePane, OneTab
  <2>5. TabSet(tree) = {}
    BY <1>1, NoPanes
  <2> QED
    BY <2>1, <2>2, <2>4, <2>5 DEF Focused, FocusThere
<1>2. CASE tree # NoTree
  <2> DEFINE to == IF at \in Ids(tree) THEN at ELSE IF focused # NoPane THEN focused
      ELSE FirstPaneId(tree, <<>>)
             old == PaneOf(tree, to)
             p == AppendTerminal(old, tab, background)
             u == MapPane(tree, to, LAMBDA x : AppendTerminal(x, tab, background))
  <2>1. tree' = u /\ focused' = (IF background THEN focused ELSE to) /\ Persist(u)
    BY <1>2 DEF AddTerminal, ApplyTree
  <2>2. GoodTree(tree) /\ focused \in PaneNames \cup {NoPane} /\ focused \in Ids(tree)
    BY <1>2 DEF Inv, Focused, FocusThere
  <2>3. to \in Ids(tree)
    <3>1. FirstPaneId(tree, <<>>) \in Ids(tree)
      BY <1>2, <2>2, OuterPanes DEF GoodTree
    <3> QED
      BY <2>2, <3>1
  <2> HIDE DEF to
  <2>4. u = Put(tree, to, p)
    <3>1. \A q \in DOMAIN tree : tree[q].id = to => tree[q] = old
      BY <2>2, IdFacts DEF GoodTree, Tree
    <3> QED
      BY <3>1 DEF MapPane, Put
  <2> HIDE DEF u
  <2>5. /\ GoodPane(old) /\ old.id = to /\ ToSet(old.tabs) \subseteq TabSet(tree)
    BY <2>2, <2>3, TabsOfPane
  <2> HIDE DEF old
  <2>6. GoodPane(p) /\ p.id = to /\ ToSet(p.tabs) = ToSet(old.tabs) \cup {tab}
    <3>1. \A x \in ToSet(old.tabs) : x.id # tab.id
      BY <2>5
    <3> HIDE DEF TabRecs
    <3> QED
      BY <2>5, <3>1, AppendFacts
  <2> HIDE DEF p
  <2>7. \A x \in ToSet(p.tabs) : x \in ToSet(old.tabs) \/ \A y \in TabSet(tree) : x.id # y.id
    BY <2>6
  <2>8. /\ GoodTree(u) /\ Ids(u) = Ids(tree)
        /\ TabSet(u) = (TabSet(tree) \ ToSet(old.tabs)) \cup ToSet(p.tabs)
    BY <2>2, <2>3, <2>4, <2>6, <2>7, PaneChanged DEF old
  <2>9. TabSet(u) = TabSet(tree) \cup {tab}
    BY <2>5, <2>6, <2>8
  <2>10. focused' \in Ids(tree)
    BY <2>1, <2>2, <2>3
  <2>11. u # NoTree
    BY <2>3, <2>8, NoPanes
  <2>12. Ids(tree) \subseteq PaneNames
    <3>1. \A o \in Ids(tree) : PaneOf(tree, o).id = o /\ GoodPane(PaneOf(tree, o))
      BY <2>2, TabsOfPane
    <3> QED
      BY <3>1, PaneParts
  <2> QED
    BY <2>1, <2>8, <2>9, <2>10, <2>11, <2>12 DEF Focused, FocusThere
<1> QED
  BY <1>1, <1>2

-----------------------------------------------------------------------------
(* What is saved, and what is held.                                        *)

\* What is saved of a tree has its sessions.
LEMMA SavedFacts ==
  ASSUME NEW t, GoodTree(t)
  PROVE  GoodSaved(Saved(t)) /\ SavedSessions(Saved(t)) = SessionsOf(TabSet(t))
<1> DEFINE d == Saved(t)
           ss(q) == [i \in 1 .. Len(t[q].tabs) |-> t[q].tabs[i].s]
<1>1. d = [q \in DOMAIN t |-> [ss |-> ss(q), active |-> t[q].active, svc |-> t[q].svc]]
  BY DEF Saved
<1> HIDE DEF d
<1>2. TreeShape(d)
  <2>1. DOMAIN d = DOMAIN t /\ d = [q \in DOMAIN d |-> d[q]]
    BY <1>1
  <2>2. Nodes(d) = Nodes(t)
    BY <2>1 DEF Nodes
  <2> QED
    BY <2>1, <2>2 DEF GoodTree, Tree, TreeShape
<1>3. ASSUME NEW q \in DOMAIN t
      PROVE  /\ t[q].tabs \in Seq(TabRecs) /\ t[q].active \in Nat \ {0} /\ t[q].svc \in BOOLEAN
             /\ ss(q) \in Seq(Names) /\ \A x : x \in ToSet(ss(q)) <=>
                  \E tab \in ToSet(t[q].tabs) : x = tab.s
  <2>1. GoodPane(t[q])
    BY IdFacts DEF GoodTree, Tree
  <2>2. t[q].tabs \in Seq(TabRecs) /\ t[q].active \in Nat \ {0} /\ t[q].svc \in BOOLEAN
    BY <2>1, PaneParts
  <2> DEFINE tabs == t[q].tabs
             names == ss(q)
  <2>3. \A i \in 1 .. Len(tabs) : tabs[i].s \in Names
    <3>1. \A i \in 1 .. Len(tabs) : tabs[i] \in TabRecs
      BY <2>2
    <3> HIDE DEF tabs
    <3> QED
      BY <3>1 DEF TabRecs
  <2>4. names = [i \in 1 .. Len(tabs) |-> tabs[i].s] /\ Len(tabs) \in Nat
    BY <2>2
  <2>5. names \in [1 .. Len(tabs) -> Names] /\ \A i \in 1 .. Len(tabs) : names[i] = tabs[i].s
    <3> HIDE DEF tabs, names, Names
    <3> QED
      BY <2>3, <2>4
  <2> HIDE DEF names, Names, TabRecs
  <2>6. names \in Seq(Names) /\ Len(names) = Len(tabs)
    BY <2>4, <2>5
  <2>7. /\ \A x : x \in ToSet(names) <=> \E i \in 1 .. Len(names) : x = names[i]
        /\ \A x : x \in ToSet(tabs) <=> \E i \in 1 .. Len(tabs) : x = tabs[i]
    BY <2>2, <2>6, ToSetFacts
  <2> HIDE DEF tabs
  <2>8. \A x : x \in ToSet(names) <=> \E tab \in ToSet(tabs) : x = tab.s
    BY <2>5, <2>6, <2>7
  <2> QED
    BY <2>2, <2>6, <2>8 DEF tabs, names
<1>4. \A q \in DOMAIN d : d[q] = [ss |-> ss(q), active |-> t[q].active, svc |-> t[q].svc] /\
    q \in DOMAIN t
  BY <1>1
<1>5. \A q \in DOMAIN d : d[q] \in SavedPanes
  <2> HIDE DEF ss
  <2> QED
    BY <1>3, <1>4 DEF SavedPanes
<1>6. SavedSessions(d) = SessionsOf(TabSet(t))
  <2>1. \A x : x \in SavedSessions(d) <=> x # NoSession /\ \E q \in DOMAIN t : x \in ToSet(ss(q))
    <3> HIDE DEF ss
    <3>1. DOMAIN d = DOMAIN t /\ \A q \in DOMAIN t : d[q].ss = ss(q)
      BY <1>1
    <3> QED
      BY <3>1 DEF SavedSessions
  <2>2. \A x : x \in SessionsOf(TabSet(t)) <=> x # NoSession /\ \E tab \in TabSet(t) : x = tab.s
    BY DEF SessionsOf
  <2>3. \A x : x \in TabSet(t) <=> \E q \in DOMAIN t : x \in ToSet(t[q].tabs)
    BY DEF TabSet
  <2> HIDE DEF ss
  <2>4. \A x : (\E q \in DOMAIN t : x \in ToSet(ss(q))) <=> \E tab \in TabSet(t) : x = tab.s
    BY <1>3, <2>3
  <2> QED
    BY <2>1, <2>2, <2>4
<1> QED
  BY <1>2, <1>5, <1>6 DEF GoodSaved, d

\* persist writes the sessions of the tree, unless the saved panes are held: they stay.
LEMMA PersistFacts ==
  ASSUME NEW t, GoodTree(t), GoodSaved(disk), hold \in BOOLEAN, Persist(t)
  PROVE  /\ GoodSaved(disk') /\ hold' \in BOOLEAN
         /\ SavedSessions(disk') \subseteq SavedSessions(disk) \cup SessionsOf(TabSet(t))
         /\ SessionsOf(TabSet(t)) \subseteq SavedSessions(disk')
<1>1. GoodSaved(Saved(t)) /\ SavedSessions(Saved(t)) = SessionsOf(TabSet(t))
  BY SavedFacts
<1>2. CASE hold'
  <2>1. disk' = disk /\ TabSet(t) = {}
    BY <1>2 DEF Persist
  <2>2. SessionsOf(TabSet(t)) = {}
    BY <2>1 DEF SessionsOf
  <2> QED
    BY <1>2, <2>1, <2>2 DEF Persist
<1>3. CASE ~hold'
  <2>1. disk' = Saved(t)
    BY <1>3 DEF Persist
  <2> QED
    BY <1>1, <1>3, <2>1 DEF Persist
<1> QED
  BY <1>2, <1>3

\* The closes that can be undone stay good while new tabs and panes have free names.
LEMMA HeldStays ==
  ASSUME Inv, pending' = pending, pendingPanes' = pendingPanes,
         \A x \in TabSet(tree') : x \in TabsShown \/ x.id \in FreePtys,
         \A id \in Ids(tree') : id \in Ids(tree) \/ id \in FreePanes \/ \E f \in Calls : f.at = id,
         \A f \in Calls' : f \in Calls \/ f.at \in Ids(tree) \cup {NoPane}
  PROVE  Held'
<1>1. Held
  BY DEF Inv
<1>2. \A e \in pending : \A tab \in TabSet(tree') : tab.id # e.tab.id
  BY <1>1, FreePtyFacts DEF Held
<1>3. \A e \in pendingPanes : e.pane.id \notin Ids(tree')
  BY <1>1, FreePaneFacts DEF Held
<1>4. \A e \in pendingPanes : \A f \in Calls' : f.at # e.pane.id
  <2>1. \A e \in pendingPanes : e.pane.id # NoPane
    <3>1. \A e \in pendingPanes : GoodPane(e.pane)
      BY <1>1 DEF Held
    <3>2. \A e \in pendingPanes : e.pane.id \in PaneNames
      BY <3>1, PaneParts
    <3> QED
      BY <3>2, Bounds
  <2> QED
    BY <1>1, <2>1 DEF Held
<1>5. TabsShown' = TabSet(tree')
  BY DEF TabsShown
<1> QED
  BY <1>1, <1>2, <1>3, <1>4, <1>5 DEF Held

\* A step that changes what is shown, and leaves the closes and the restore as they are.
LEMMA Screened ==
  ASSUME Inv, pending' = pending, pendingPanes' = pendingPanes, restoring' = restoring,
         GoodTree(tree'), Focused',
         \A x \in TabSet(tree') : x \in TabsShown \/ x.id \in FreePtys,
         \A id \in Ids(tree') : id \in Ids(tree) \/ id \in FreePanes \/ \E f \in Calls : f.at = id,
         \A f \in Calls' : f \in Calls \/ (GoodCall(f)' /\ f.at \in Ids(tree) \cup {NoPane}),
         Persist(tree') \/ (disk' = disk /\ hold' = hold),
         running' \subseteq Ptys, history' \subseteq opened', opened \subseteq opened',
             opened' \subseteq Sessions,
         SessionsOf(TabSet(tree')) \subseteq opened'
  PROVE  Inv'
<1>1. Held'
  BY HeldStays
<1>2. SavedOK' /\ SavedSessions(disk') \subseteq SavedSessions(disk) \cup SessionsOf(TabSet(tree'))
  BY PersistFacts DEF Inv, SavedOK
<1>3. Known'
  <2>1. TabsHeld' = TabsHeld /\ TabsShown' = TabSet(tree')
    BY DEF TabsHeld, TabsShown
  <2>2. Known
    BY DEF Inv
  <2>3. SavedSessions(restoring)' = SavedSessions(restoring) /\
      SavedSessions(disk)' = SavedSessions(disk')
    BY DEF SavedSessions
  <2>4. SessionsOf(TabsHeld)' = SessionsOf(TabsHeld) /\
      SessionsOf(TabsShown)' = SessionsOf(TabSet(tree'))
    BY <2>1 DEF SessionsOf
  <2> QED
    BY <1>2, <2>2, <2>3, <2>4 DEF Known
<1>4. \A f \in Calls' : GoodCall(f)'
  <2>1. \A f \in Calls : GoodCall(f)'
    BY DEF Inv, GoodCall
  <2> QED
    BY <2>1
<1> QED
  BY <1>1, <1>2, <1>3, <1>4 DEF Inv

-----------------------------------------------------------------------------
(* Steps that leave the panes as they are.                                 *)

\* The names in a tree are pane names.
LEMMA PaneNamesOf ==
  ASSUME NEW t, GoodTree(t)
  PROVE  Ids(t) \subseteq PaneNames
<1>1. \A o \in Ids(t) : PaneOf(t, o).id = o /\ GoodPane(PaneOf(t, o))
  BY TabsOfPane
<1> QED
  BY <1>1, PaneParts

\* A step after which the panes are as they were.
LEMMA SameTree ==
  ASSUME Inv, UNCHANGED <<tree, pending, pendingPanes, history, opened, restoring>>, Focused',
         Persist(tree) \/ UNCHANGED <<disk, hold, live>>, running' \subseteq Ptys,
         \A f \in Calls' : f \in Calls \/ (GoodCall(f) /\ f.at \in Ids(tree) \cup {NoPane})
  PROVE  Inv'
<1>1. tree' = tree /\ pending' = pending /\ pendingPanes' = pendingPanes /\ restoring' = restoring /\
    opened' = opened /\ history' = history
  OBVIOUS
<1>2. GoodTree(tree) /\ GoodTree(tree')
  BY <1>1 DEF Inv
<1>3. /\ \A x \in TabSet(tree') : x \in TabsShown \/ x.id \in FreePtys
      /\ \A id \in Ids(tree') : id \in Ids(tree) \/ id \in FreePanes \/ \E f \in Calls : f.at = id
  BY <1>1 DEF TabsShown
<1>4. history' \subseteq opened' /\ opened \subseteq opened' /\ opened' \subseteq Sessions /\
    SessionsOf(TabSet(tree')) \subseteq opened'
  BY <1>1 DEF Inv, Known, TabsShown
<1>5. Persist(tree') \/ (disk' = disk /\ hold' = hold)
  BY <1>1
<1>6. \A f \in Calls' : f \in Calls \/ (GoodCall(f)' /\ f.at \in Ids(tree) \cup {NoPane})
  BY <1>1 DEF GoodCall
<1> QED
  BY <1>1, <1>2, <1>3, <1>4, <1>5, <1>6, Screened

\* A terminal is asked for.
LEMMA Asked ==
  ASSUME Inv, NEW f, GoodCall(f), f.at \in Ids(tree) \cup {NoPane}, Awaits(f)
  PROVE  Inv'
<1>1. Calls' \subseteq Calls \cup {f}
  BY CallFacts
<1>2. /\ UNCHANGED <<tree, pending, pendingPanes, history, opened, restoring, page>> /\
           UNCHANGED <<disk, hold, live>>
      /\ running' = running /\ focused' = focused
  BY DEF Awaits
<1>3. Focused'
  BY <1>2 DEF Inv, Focused, FocusThere
<1>4. running' \subseteq Ptys
  BY <1>2 DEF Inv
<1> QED
  BY <1>1, <1>2, <1>3, <1>4, SameTree

\* The five ways to ask for one.
LEMMA AsksKeepInv ==
  ASSUME Inv, AskTab \/ AskSplit \/ AskRestart \/ AskResume \/ AskLayout
  PROVE  Inv'
<1>0. GoodTree(tree) /\ Ids(tree) \subseteq PaneNames /\ Known
  BY PaneNamesOf DEF Inv
<1>1. CASE AskTab
  <2>1. PICK at \in Ids(tree) \cup {NoPane} : Awaits(Flight("add", at, NoPty, NoSession))
    BY <1>1 DEF AskTab
  <2> DEFINE f == Flight("add", at, NoPty, NoSession)
  <2>2. f.at = at /\ f.old = NoPty /\ f.s = NoSession
    BY DEF Flight
  <2> HIDE DEF f
  <2>3. GoodCall(f) /\ f.at \in Ids(tree) \cup {NoPane}
    BY <1>0, <2>2 DEF GoodCall
  <2>4. Awaits(f)
    BY <2>1 DEF f
  <2> QED
    BY <2>3, <2>4, Asked
<1>2. CASE AskSplit
  <2>1. PICK at \in Ids(tree) : Awaits(Flight("split", at, NoPty, NoSession))
    BY <1>2 DEF AskSplit
  <2> DEFINE f == Flight("split", at, NoPty, NoSession)
  <2>2. f.at = at /\ f.old = NoPty /\ f.s = NoSession
    BY DEF Flight
  <2> HIDE DEF f
  <2>3. GoodCall(f) /\ f.at \in Ids(tree) \cup {NoPane}
    BY <1>0, <2>2 DEF GoodCall
  <2>4. Awaits(f)
    BY <2>1 DEF f
  <2> QED
    BY <2>3, <2>4, Asked
<1>3. CASE AskRestart
  <2>1. PICK tab \in TabsShown : Awaits(Flight("restart", NoPane, tab.id, NoSession))
    BY <1>3 DEF AskRestart
  <2> DEFINE f == Flight("restart", NoPane, tab.id, NoSession)
  <2>2. f.at = NoPane /\ f.old = tab.id /\ f.s = NoSession
    BY DEF Flight
  <2>5. tab.id \in Ptys
    <3>1. PICK id \in Ids(tree) : tab \in ToSet(PaneOf(tree, id).tabs)
      BY <1>0, TabSetFacts DEF TabsShown, GoodTree
    <3>2. tab \in TabRecs
      BY <1>0, <3>1, TabsOfPane
    <3> QED
      BY <3>2 DEF TabRecs
  <2> HIDE DEF f
  <2>3. GoodCall(f) /\ f.at \in Ids(tree) \cup {NoPane}
    BY <2>2, <2>5 DEF GoodCall
  <2>4. Awaits(f)
    BY <2>1 DEF f
  <2> QED
    BY <2>3, <2>4, Asked
<1>4. CASE AskResume
  <2>1. PICK s \in history : Awaits(Flight("resume", NoPane, NoPty, s))
    BY <1>4 DEF AskResume
  <2> DEFINE f == Flight("resume", NoPane, NoPty, s)
  <2>2. f.at = NoPane /\ f.old = NoPty /\ f.s = s
    BY DEF Flight
  <2> HIDE DEF f
  <2>3. GoodCall(f) /\ f.at \in Ids(tree) \cup {NoPane}
    BY <1>0, <2>1, <2>2 DEF GoodCall, Known
  <2>4. Awaits(f)
    BY <2>1 DEF f
  <2> QED
    BY <2>3, <2>4, Asked
<1>5. CASE AskLayout
  <2> DEFINE f == Flight("layout", NoPane, NoPty, NoSession)
  <2>2. f.at = NoPane /\ f.old = NoPty /\ f.s = NoSession
    BY DEF Flight
  <2>4. Awaits(f)
    BY <1>5 DEF AskLayout
  <2> HIDE DEF f
  <2>3. GoodCall(f) /\ f.at \in Ids(tree) \cup {NoPane}
    BY <2>2 DEF GoodCall
  <2> QED
    BY <2>3, <2>4, Asked
<1> QED
  BY <1>1, <1>2, <1>3, <1>4, <1>5

\* A start that fails, a focus and a pty's end leave the panes as they are.
LEMMA StandingStepsKeepInv ==
  ASSUME Inv, StartFails \/ FocusPane \/ PtyDies
  PROVE  Inv'
<1>0. GoodTree(tree) /\ Ids(tree) \subseteq PaneNames /\ Focused /\ running \subseteq Ptys
  BY PaneNamesOf DEF Inv
<1>1. CASE StartFails
  <2>1. PICK f : Answered(f)
    BY <1>1 DEF StartFails
  <2>2. /\ UNCHANGED <<tree, pending, pendingPanes, history, opened, restoring, page>> /\
             UNCHANGED <<disk, hold, live>>
        /\ running' = running /\ focused' = focused
    BY <1>1 DEF StartFails
  <2>3. Focused'
    BY <1>0, <2>2 DEF Focused, FocusThere
  <2>4. Calls' \subseteq Calls /\ running' \subseteq Ptys
    BY <1>0, <2>1, <2>2, CallFacts
  <2> QED
    BY <2>2, <2>3, <2>4, SameTree
<1>2. CASE FocusPane
  <2>1. /\ UNCHANGED <<tree, pending, pendingPanes, history, opened, restoring, page>> /\
             flights' = flights
        /\ Persist(tree) \/ UNCHANGED <<disk, hold, live>>
        /\ running' = running /\ focused' \in Ids(tree)
    BY <1>2 DEF FocusPane, Arranged
  <2>2. Focused'
    BY <1>0, <2>1 DEF Focused, FocusThere
  <2>3. Calls' = Calls /\ running' \subseteq Ptys
    BY <1>0, <2>1 DEF Calls
  <2> QED
    BY <2>1, <2>2, <2>3, SameTree
<1>3. CASE PtyDies
  <2>1. /\ UNCHANGED <<tree, pending, pendingPanes, history, opened, restoring>> /\
             UNCHANGED <<disk, hold, live>>
        /\ running' \subseteq running /\ focused' = focused /\ flights' = flights
    BY <1>3 DEF PtyDies
  <2>2. Focused'
    BY <1>0, <2>1 DEF Focused, FocusThere
  <2>3. Calls' = Calls /\ running' \subseteq Ptys
    BY <1>0, <2>1 DEF Calls
  <2> QED
    BY <2>1, <2>2, <2>3, SameTree
<1> QED
  BY <1>1, <1>2, <1>3

-----------------------------------------------------------------------------
(* What the operations show.                                               *)

\* The step shows and saves a good tree with the tabs of tabs in panes of names.
Shows(tabs, names) ==
  /\ GoodTree(tree') /\ Focused' /\ Persist(tree')
  /\ TabSet(tree') = tabs /\ Ids(tree') \subseteq names

\* A pane is replaced by one of the same name.
LEMMA ShowsPane ==
  ASSUME Inv, NEW p, GoodPane(p), NEW u, u = Put(tree, p.id, p), p.id \in Ids(tree),
         ApplyTree(u, focused'),
         focused' \in Ids(tree),
         \A x \in ToSet(p.tabs) : x \in ToSet(PaneOf(tree, p.id).tabs) \/ \A y \in TabsShown :
             x.id # y.id
  PROVE  Shows((TabsShown \ ToSet(PaneOf(tree, p.id).tabs)) \cup ToSet(p.tabs), Ids(tree)) /\
      Ids(tree') = Ids(tree)
<1>1. GoodTree(tree) /\ Ids(tree) \subseteq PaneNames
  BY PaneNamesOf DEF Inv
<1>2. /\ GoodTree(u) /\ Ids(u) = Ids(tree)
      /\ TabSet(u) = (TabSet(tree) \ ToSet(PaneOf(tree, p.id).tabs)) \cup ToSet(p.tabs)
  BY <1>1, PaneChanged DEF TabsShown
<1>3. tree' = u /\ Persist(u)
  BY DEF ApplyTree
<1>4. Focused'
  BY <1>1, <1>2, <1>3 DEF Focused, FocusThere
<1> QED
  BY <1>2, <1>3, <1>4 DEF Shows, TabsShown

\* Something is focused when something is shown.
LEMMA FocusIn ==
  ASSUME Inv, tree # NoTree
  PROVE  focused \in Ids(tree)
BY DEF Inv, Focused, FocusThere

\* EnsureRootPane shows what was shown.
LEMMA EnsureRootPaneShows ==
  ASSUME Inv, EnsureRootPane
  PROVE  Shows(TabsShown, FreePanes)
<1> DEFINE id == Min(FreePanes)
<1>1. PICK svc \in BOOLEAN : tree = NoTree /\ FreePanes # {} /\
    ApplyTree(Single(Pane(id, <<>>, 1, svc)), id)
  BY DEF EnsureRootPane
<1>2. id \in FreePanes /\ id \in PaneNames
  BY <1>1, FreePaneFacts
<1> DEFINE p == Pane(id, <<>>, 1, svc)
<1>3. GoodPane(p) /\ p.id = id /\ p.tabs = <<>>
  <2> HIDE DEF id
  <2>1. \E tab : tab \in TabRecs
    <3>1. 1 \in Ptys
      BY Bounds DEF Ptys
    <3>2. [s |-> NoSession, id |-> 1] \in TabRecs
      BY <3>1 DEF TabRecs, Names
    <3> QED
      BY <3>2
  <2> HIDE DEF TabRecs
  <2>2. PICK tab \in TabRecs : TRUE
    BY <2>1
  <2> QED
    BY <1>2, <2>2, NewPane
<1>4. tree' = Single(p) /\ focused' = id /\ Persist(Single(p))
  BY <1>1 DEF ApplyTree
<1> HIDE DEF p, id
<1>5. GoodTree(Single(p)) /\ Ids(Single(p)) = {id} /\ TabSet(Single(p)) = {}
  BY <1>3, OnePane, NoTab
<1>6. TabsShown = {}
  BY <1>1, NoPanes DEF TabsShown
<1> QED
  BY <1>2, <1>4, <1>5, <1>6 DEF Shows, Focused, FocusThere

\* So does FocusTerminal,
LEMMA FocusTerminalShows ==
  ASSUME Inv, FocusTerminal
  PROVE  Shows(TabsShown, Ids(tree))
<1>0. PICK id \in Ids(tree) : \E i \in 1 .. Len(PaneOf(tree, id).tabs) :
        ApplyTree(MapPane(tree, id, LAMBDA p : [p EXCEPT !.active = i, !.svc = FALSE]), id)
  BY DEF FocusTerminal
<1>1. PICK i \in 1 .. Len(PaneOf(tree, id).tabs) :
        ApplyTree(MapPane(tree, id, LAMBDA p : [p EXCEPT !.active = i, !.svc = FALSE]), id)
  BY <1>0
<1>2. GoodTree(tree)
  BY DEF Inv
<1> DEFINE old == PaneOf(tree, id)
           p == [old EXCEPT !.active = i, !.svc = FALSE]
           u == MapPane(tree, id, LAMBDA x : [x EXCEPT !.active = i, !.svc = FALSE])
<1>3. u = Put(tree, id, p)
  <2>1. \A q \in DOMAIN tree : tree[q].id = id => tree[q] = old
    BY <1>2, IdFacts DEF GoodTree, Tree
  <2> QED
    BY <2>1 DEF MapPane, Put
<1>4. ApplyTree(u, id) /\ focused' = id /\ ApplyTree(u, focused')
  BY <1>1 DEF ApplyTree
<1> HIDE DEF u
<1>5. GoodPane(old) /\ old.id = id /\ ToSet(old.tabs) \subseteq TabSet(tree)
  BY <1>2, TabsOfPane
<1>6. GoodPane(p) /\ p.id = id /\ p.tabs = old.tabs
  <2> HIDE DEF old
  <2> QED
    BY <1>5, ShownFacts DEF old
<1> HIDE DEF p, old
<1>7. Shows((TabsShown \ ToSet(old.tabs)) \cup ToSet(p.tabs), Ids(tree))
  BY <1>3, <1>4, <1>6, ShowsPane DEF old
<1>8. (TabsShown \ ToSet(old.tabs)) \cup ToSet(p.tabs) = TabsShown
  BY <1>5, <1>6 DEF TabsShown
<1> QED
  BY <1>7, <1>8

\* and FocusService,
LEMMA FocusServiceShows ==
  ASSUME Inv, FocusService
  PROVE  Shows(TabsShown, Ids(tree))
<1> DEFINE id == FirstPaneId(tree, <<>>)
<1>1. ApplyTree(MapPane(tree, id, LAMBDA p : [p EXCEPT !.svc = TRUE]), id) /\ tree # NoTree
  BY DEF FocusService
<1>2. GoodTree(tree) /\ id \in Ids(tree)
  BY <1>1, OuterPanes DEF Inv, GoodTree
<1> HIDE DEF id
<1> DEFINE old == PaneOf(tree, id)
           p == [old EXCEPT !.svc = TRUE]
           u == MapPane(tree, id, LAMBDA x : [x EXCEPT !.svc = TRUE])
<1>3. u = Put(tree, id, p)
  <2>1. \A q \in DOMAIN tree : tree[q].id = id => tree[q] = old
    BY <1>2, IdFacts DEF GoodTree, Tree
  <2> QED
    BY <2>1 DEF MapPane, Put
<1>4. ApplyTree(u, id) /\ focused' = id /\ ApplyTree(u, focused')
  BY <1>1 DEF ApplyTree
<1> HIDE DEF u
<1>5. GoodPane(old) /\ old.id = id /\ ToSet(old.tabs) \subseteq TabSet(tree)
  BY <1>2, TabsOfPane
<1>6. GoodPane(p) /\ p.id = id /\ p.tabs = old.tabs
  <2> HIDE DEF old
  <2>1. p = [id |-> old.id, tabs |-> old.tabs, active |-> old.active, svc |-> TRUE]
    BY <1>5, PaneServing
  <2>2. GoodPane([id |-> old.id, tabs |-> old.tabs, active |-> old.active, svc |-> TRUE])
    BY <1>5, PaneParts, PaneMade
  <2> QED
    BY <1>5, <2>1, <2>2
<1> HIDE DEF p, old
<1>7. Shows((TabsShown \ ToSet(old.tabs)) \cup ToSet(p.tabs), Ids(tree))
  BY <1>2, <1>3, <1>4, <1>6, ShowsPane DEF old
<1>8. (TabsShown \ ToSet(old.tabs)) \cup ToSet(p.tabs) = TabsShown
  BY <1>5, <1>6 DEF TabsShown
<1> QED
  BY <1>7, <1>8

\* and ReorderTerminals.
LEMMA ReorderTerminalsShows ==
  ASSUME Inv, ReorderTerminals
  PROVE  Shows(TabsShown, Ids(tree))
<1>1. PICK id \in Ids(tree) : \E i, j \in 1 .. Len(PaneOf(tree, id).tabs) :
        LET pane == PaneOf(tree, id)
            tabs == [pane.tabs EXCEPT ![i] = pane.tabs[j], ![j] = pane.tabs[i]]
            active == CHOOSE k \in 1 .. Len(tabs) : tabs[k] = pane.tabs[pane.active]
        IN i < j /\ ApplyTree(MapPane(tree, id, LAMBDA p :
            [p EXCEPT !.tabs = tabs, !.active = active]), focused)
  BY DEF ReorderTerminals
<1> DEFINE old == PaneOf(tree, id)
<1>2. PICK i \in 1 .. Len(old.tabs), j \in 1 .. Len(old.tabs) :
        LET tabs == [old.tabs EXCEPT ![i] = old.tabs[j], ![j] = old.tabs[i]]
            active == CHOOSE k \in 1 .. Len(tabs) : tabs[k] = old.tabs[old.active]
        IN i < j /\ ApplyTree(MapPane(tree, id, LAMBDA p :
            [p EXCEPT !.tabs = tabs, !.active = active]), focused)
  BY <1>1
<1> DEFINE tabs == [old.tabs EXCEPT ![i] = old.tabs[j], ![j] = old.tabs[i]]
           active == CHOOSE k \in 1 .. Len(tabs) : tabs[k] = old.tabs[old.active]
           p == [old EXCEPT !.tabs = tabs, !.active = active]
           u == MapPane(tree, id, LAMBDA x : [x EXCEPT !.tabs = tabs, !.active = active])
<1>3. GoodTree(tree) /\ i < j /\ ApplyTree(u, focused)
  BY <1>2 DEF Inv
<1>4. u = Put(tree, id, p)
  <2>1. \A q \in DOMAIN tree : tree[q].id = id => tree[q] = old
    BY <1>3, IdFacts DEF GoodTree, Tree
  <2> HIDE DEF tabs, active
  <2> QED
    BY <2>1 DEF MapPane, Put
<1>5. focused' = focused /\ ApplyTree(u, focused') /\ focused \in Ids(tree)
  <2>1. tree # NoTree
    BY NoPanes
  <2> QED
    BY <1>3, <2>1, FocusIn DEF ApplyTree
<1> HIDE DEF u
<1>6. GoodPane(old) /\ old.id = id /\ ToSet(old.tabs) \subseteq TabSet(tree) /\
    old.tabs \in Seq(TabRecs) /\ Apart(old.tabs)
      /\ old.active \in Nat \ {0} /\ (old.active = 1 \/ old.active <= Len(old.tabs)) /\
           Len(old.tabs) \in Nat
  BY <1>3, TabsOfPane, PaneParts
<1> HIDE DEF old, TabRecs
<1>7. tabs \in Seq(TabRecs) /\ Len(tabs) = Len(old.tabs) /\ Apart(tabs) /\ ToSet(tabs) = ToSet(old.tabs)
  <2>1. tabs \in Seq(TabRecs) /\ Len(tabs) = Len(old.tabs)
    BY <1>6
  <2>2. \A k \in 1 .. Len(old.tabs) : tabs[k] = IF k = i THEN old.tabs[j] ELSE IF k = j
      THEN old.tabs[i] ELSE old.tabs[k]
    BY <1>3, <1>6
  <2>3. i # j /\ i \in 1 .. Len(old.tabs) /\ j \in 1 .. Len(old.tabs)
    BY <1>3
  <2> HIDE DEF tabs
  <2> DEFINE s == old.tabs
  <2>4. s \in Seq(TabRecs) /\ Apart(s)
    BY <1>6
  <2>5. \A k \in 1 .. Len(s) : tabs[k] = IF k = i THEN s[j] ELSE IF k = j THEN s[i] ELSE s[k]
    BY <2>2
  <2>6. i \in 1 .. Len(s) /\ j \in 1 .. Len(s) /\ Len(tabs) = Len(s)
    BY <2>3, <2>1
  <2> HIDE DEF s
  <2>7. Apart(tabs) /\ ToSet(tabs) = ToSet(s)
    BY <2>1, <2>3, <2>4, <2>5, <2>6, SwappedTabs
  <2> QED
    BY <2>1, <2>7 DEF s
<1> HIDE DEF tabs
<1>8. active \in Nat \ {0} /\ active <= Len(tabs)
  <2>1. old.active \in 1 .. Len(old.tabs)
    BY <1>6
  <2>2. old.tabs[old.active] \in ToSet(tabs)
    BY <1>6, <1>7, <2>1, ToSetFacts
  <2> QED
    BY <1>7, <2>2, PlaceOf
<1> HIDE DEF active
<1>12. active = 1 \/ active <= Len(tabs)
  BY <1>8
<1>9. GoodPane(p) /\ p.id = id /\ p.tabs = tabs
  <2>1. GoodPane(old) /\ old.id \in PaneNames /\ old.svc \in BOOLEAN
    BY <1>6, PaneParts
  <2>2. p = [id |-> old.id, tabs |-> tabs, active |-> active, svc |-> old.svc]
    BY <2>1, PaneRefilled
  <2>3. tabs \in Seq(TabRecs) /\ Apart(tabs) /\ active \in Nat \ {0}
    BY <1>7, <1>8
  <2>4. GoodPane([id |-> old.id, tabs |-> tabs, active |-> active, svc |-> old.svc])
    BY <1>12, <2>1, <2>3, PaneMade
  <2> QED
    BY <1>6, <2>2, <2>4
<1> HIDE DEF p
<1>10. Shows((TabsShown \ ToSet(old.tabs)) \cup ToSet(p.tabs), Ids(tree))
  BY <1>4, <1>5, <1>7, <1>9, ShowsPane DEF old
<1>11. (TabsShown \ ToSet(old.tabs)) \cup ToSet(p.tabs) = TabsShown
  BY <1>6, <1>7, <1>9 DEF TabsShown
<1> QED
  BY <1>10, <1>11

\* The pane that is the tree's own, or the one a pane's place is named for.
LEMMA PaneAt ==
  ASSUME NEW t, GoodTree(t), NEW id \in Ids(t)
  PROVE  \A q \in DOMAIN t : t[q].id = id => t[q] = PaneOf(t, id)
BY IdFacts DEF GoodTree, Tree

\* CollapsePane takes a pane and its tabs off the screen.
LEMMA CollapseShows ==
  ASSUME Inv, NEW id \in Ids(tree), CollapsePane(id)
  PROVE  Shows(TabsShown \ ToSet(PaneOf(tree, id).tabs), Ids(tree) \ {id})
<1> DEFINE u == RemovePane(tree, id)
<1>1. GoodTree(tree) /\ Tree(tree) /\ Ids(tree) \subseteq PaneNames
  BY PaneNamesOf DEF Inv, GoodTree
<1>2. GoodTree(u) /\ Ids(u) = Ids(tree) \ {id} /\ TabSet(u) = TabSet(tree) \ ToSet(PaneOf(tree, id).tabs)
  BY <1>1, PaneGone
<1>3. tree' = u /\ focused' = FocusAfter(tree, id) /\ Persist(u)
  BY DEF CollapsePane, ApplyTree
<1>4. focused' \in PaneNames \cup {NoPane} /\ (u # NoTree => focused' \in Ids(u))
  <2> HIDE DEF u
  <2>1. CASE Cardinality(DOMAIN tree) = 1
    <3>1. PathOf(tree, id) = <<>>
      BY <1>1, <2>1, OuterPanes
    <3>2. u = NoTree
      BY <3>1, RemoveIsCut DEF u
    <3> QED
      BY <1>3, <2>1, <3>2 DEF FocusAfter
  <2>2. CASE Cardinality(DOMAIN tree) # 1
    <3>1. SiblingPaneId(tree, id) \in Ids(tree) \ {id}
      BY <1>1, <2>2, OuterPanes
    <3> QED
      BY <1>1, <1>2, <1>3, <2>2, <3>1 DEF FocusAfter
  <2> QED
    BY <2>1, <2>2
<1> HIDE DEF u
<1>5. Focused'
  BY <1>3, <1>4 DEF Focused, FocusThere
<1> QED
  BY <1>2, <1>3, <1>5 DEF Shows, TabsShown

\* The close of a tab takes that tab, and the pane it leaves empty.
LEMMA CloseTerminalShows ==
  ASSUME Inv, NEW id \in Ids(tree), NEW i \in 1 .. Len(PaneOf(tree, id).tabs),
         IF Len(PaneOf(tree, id).tabs) = 1 /\ ~PaneOf(tree, id).svc THEN CollapsePane(id)
         ELSE ApplyTree(Put(tree, id, Without(PaneOf(tree, id), i)), focused)
  PROVE  Shows(TabsShown \ {PaneOf(tree, id).tabs[i]}, Ids(tree))
<1> DEFINE old == PaneOf(tree, id)
           p == Without(old, i)
           u == Put(tree, id, p)
<1>1. GoodTree(tree) /\ tree # NoTree
  BY NoPanes DEF Inv
<1>2. GoodPane(old) /\ old.id = id /\ ToSet(old.tabs) \subseteq TabSet(tree) /\ old.tabs \in Seq(TabRecs)
  BY <1>1, TabsOfPane
<1>3. CASE Len(old.tabs) = 1 /\ ~old.svc
  <2>1. Shows(TabsShown \ ToSet(old.tabs), Ids(tree) \ {id})
    BY <1>3, CollapseShows
  <2>2. ToSet(old.tabs) = {old.tabs[i]}
    <3>4. i \in 1 .. Len(old.tabs)
      OBVIOUS
    <3> HIDE DEF old, TabRecs
    <3>1. \A x : x \in ToSet(old.tabs) <=> \E k \in 1 .. Len(old.tabs) : x = old.tabs[k]
      BY <1>2, ToSetFacts
    <3>2. i = 1 /\ Len(old.tabs) = 1
      BY <1>3, <3>4
    <3> QED
      BY <3>1, <3>2
  <2> QED
    BY <2>1, <2>2 DEF Shows
<1>4. CASE ~(Len(old.tabs) = 1 /\ ~old.svc)
  <2>1. ApplyTree(u, focused)
    BY <1>4
  <2>2. u = Put(tree, id, p)
    OBVIOUS
  <2>3. focused' = focused /\ ApplyTree(u, focused') /\ focused \in Ids(tree)
    BY <1>1, <2>1, FocusIn DEF ApplyTree
  <2> HIDE DEF u, old
  <2>4. GoodPane(p) /\ p.id = id /\ ToSet(p.tabs) = ToSet(old.tabs) \ {old.tabs[i]} /\
      old.tabs[i] \in ToSet(old.tabs)
    BY <1>2, WithoutFacts DEF old
  <2> HIDE DEF p
  <2>5. Shows((TabsShown \ ToSet(old.tabs)) \cup ToSet(p.tabs), Ids(tree))
    BY <2>2, <2>3, <2>4, ShowsPane DEF old
  <2>6. (TabsShown \ ToSet(old.tabs)) \cup ToSet(p.tabs) = TabsShown \ {old.tabs[i]}
    BY <1>2, <2>4 DEF TabsShown
  <2> QED
    BY <2>5, <2>6 DEF old
<1> QED
  BY <1>3, <1>4

\* What CloseOthers leaves of a pane.
OthersLeft(p, i, closing) ==
  LET tabs == Left(p.tabs, closing)
  IN [p EXCEPT !.tabs = tabs, !.active = CHOOSE k \in 1 .. Len(tabs) : tabs[k] = p.tabs[i]]

\* CloseOthers takes the tabs it closes, and the one it keeps is active.
LEMMA CloseOthersShows ==
  ASSUME Inv, NEW id \in Ids(tree), NEW i \in 1 .. Len(PaneOf(tree, id).tabs),
         NEW closing \in SUBSET (ToSet(PaneOf(tree, id).tabs) \ {PaneOf(tree, id).tabs[i]}),
         ApplyTree(Put(tree, id, OthersLeft(PaneOf(tree, id), i, closing)), focused)
  PROVE  Shows(TabsShown \ closing, Ids(tree)) /\ closing \subseteq TabsShown
<1> DEFINE old == PaneOf(tree, id)
           tabs == Left(old.tabs, closing)
           active == CHOOSE k \in 1 .. Len(tabs) : tabs[k] = old.tabs[i]
           p == [old EXCEPT !.tabs = tabs, !.active = active]
           u == Put(tree, id, p)
<1>0. /\ ApplyTree(u, focused)
      /\ tabs = Left(old.tabs, closing) /\ active = CHOOSE k \in 1 .. Len(tabs) : tabs[k] = old.tabs[i]
  BY DEF OthersLeft
<1> HIDE DEF tabs, active
<1>1. GoodTree(tree) /\ tree # NoTree
  BY NoPanes DEF Inv
<1>2. u = Put(tree, id, p)
  OBVIOUS
<1>3. focused' = focused /\ ApplyTree(u, focused') /\ focused \in Ids(tree)
  BY <1>0, <1>1, FocusIn DEF ApplyTree
<1> HIDE DEF u
<1>4. /\ GoodPane(old) /\ old.id = id /\ ToSet(old.tabs) \subseteq TabSet(tree) /\
           old.tabs \in Seq(TabRecs)
      /\ Apart(old.tabs) /\ old.id \in PaneNames /\ old.svc \in BOOLEAN
  BY <1>1, TabsOfPane, PaneParts
<1>5. old.tabs[i] \in ToSet(old.tabs) /\ i \in 1 .. Len(old.tabs) /\ tabs = Left(old.tabs, closing)
      /\ closing \subseteq ToSet(old.tabs) \ {old.tabs[i]}
  BY <1>0, <1>4, ToSetFacts
<1> HIDE DEF old, TabRecs
<1>6. tabs \in Seq(TabRecs) /\ Apart(tabs) /\ Len(tabs) \in Nat /\
    ToSet(tabs) = ToSet(old.tabs) \ closing
  BY <1>4, <1>5, LeftFacts
<1>7. active \in Nat \ {0} /\ active <= Len(tabs)
  <2>1. active = CHOOSE k \in 1 .. Len(tabs) : tabs[k] = old.tabs[i]
    BY <1>0
  <2>2. old.tabs[i] \in ToSet(tabs)
    BY <1>5, <1>6
  <2> DEFINE x == old.tabs[i]
  <2>3. x \in ToSet(tabs) /\ active = CHOOSE k \in 1 .. Len(tabs) : tabs[k] = x
    BY <2>1, <2>2
  <2> HIDE DEF x
  <2>4. /\ (CHOOSE k \in 1 .. Len(tabs) : tabs[k] = x) \in Nat \ {0}
        /\ (CHOOSE k \in 1 .. Len(tabs) : tabs[k] = x) <= Len(tabs)
    BY <1>6, <2>3, PlaceOf
  <2> QED
    BY <2>3, <2>4
<1>8. active = 1 \/ active <= Len(tabs)
  BY <1>7
<1>9. GoodPane(p) /\ p.id = id /\ p.tabs = tabs
  <2>1. p = [id |-> old.id, tabs |-> tabs, active |-> active, svc |-> old.svc]
    BY <1>4, PaneRefilled
  <2>2. GoodPane([id |-> old.id, tabs |-> tabs, active |-> active, svc |-> old.svc])
    BY <1>4, <1>6, <1>7, <1>8, PaneMade
  <2> QED
    BY <1>4, <2>1, <2>2
<1> HIDE DEF p
<1>10. Shows((TabsShown \ ToSet(old.tabs)) \cup ToSet(p.tabs), Ids(tree))
  BY <1>2, <1>3, <1>6, <1>9, ShowsPane DEF old
<1>11. (TabsShown \ ToSet(old.tabs)) \cup ToSet(p.tabs) = TabsShown \ closing /\
    closing \subseteq TabsShown
  <2>1. \A y \in TabSet(tree) : y \in closing => y \in ToSet(old.tabs)
    BY <1>5
  <2> QED
    BY <1>4, <1>5, <1>6, <1>9, <2>1 DEF TabsShown
<1> QED
  BY <1>10, <1>11

\* MoveTerminal shows the tabs that were shown, in the panes that were, or one less.
LEMMA MoveTerminalShows ==
  ASSUME Inv, MoveTerminal
  PROVE  Shows(TabsShown, Ids(tree))
<1>1. PICK from \in Ids(tree) : \E to \in Ids(tree) :
        LET pane == PaneOf(tree, from) IN
        \E i \in 1 .. Len(pane.tabs), at \in 1 .. Len(PaneOf(tree, to).tabs) + 1 :
          /\ from # to
          /\ LET left  == MapPane(tree, from, LAMBDA p : Without(p, i))
                 swept == IF Len(pane.tabs) = 1 /\ ~pane.svc THEN RemovePane(left, from) ELSE left
             IN ApplyTree(MapPane(swept, to, LAMBDA p : With(p, at, pane.tabs[i])), to)
  BY DEF MoveTerminal
<1>2. PICK to \in Ids(tree) :
        LET pane == PaneOf(tree, from) IN
        \E i \in 1 .. Len(pane.tabs), at \in 1 .. Len(PaneOf(tree, to).tabs) + 1 :
          /\ from # to
          /\ LET left  == MapPane(tree, from, LAMBDA p : Without(p, i))
                 swept == IF Len(pane.tabs) = 1 /\ ~pane.svc THEN RemovePane(left, from) ELSE left
             IN ApplyTree(MapPane(swept, to, LAMBDA p : With(p, at, pane.tabs[i])), to)
  BY <1>1
<1> DEFINE pane == PaneOf(tree, from)
<1>3. PICK i \in 1 .. Len(pane.tabs), at \in 1 .. Len(PaneOf(tree, to).tabs) + 1 :
          /\ from # to
          /\ LET left  == MapPane(tree, from, LAMBDA p : Without(p, i))
                 swept == IF Len(pane.tabs) = 1 /\ ~pane.svc THEN RemovePane(left, from) ELSE left
             IN ApplyTree(MapPane(swept, to, LAMBDA p : With(p, at, pane.tabs[i])), to)
  BY <1>2
<1> DEFINE tab   == pane.tabs[i]
           out   == Without(pane, i)
           left  == MapPane(tree, from, LAMBDA p : Without(p, i))
           swept == IF Len(pane.tabs) = 1 /\ ~pane.svc THEN RemovePane(left, from) ELSE left
           next  == MapPane(swept, to, LAMBDA p : With(p, at, tab))
<1>4. GoodTree(tree) /\ from # to /\ ApplyTree(next, to) /\ i \in 1 .. Len(pane.tabs)
      /\ at \in 1 .. Len(PaneOf(tree, to).tabs) + 1 /\ Ids(tree) \subseteq PaneNames
  BY <1>3, PaneNamesOf DEF Inv
<1>5. left = Put(tree, from, out)
  BY <1>4, PaneAt DEF MapPane, Put
<1>6. GoodPane(pane) /\ pane.id = from /\ ToSet(pane.tabs) \subseteq TabSet(tree) /\
    pane.tabs \in Seq(TabRecs)
      /\ \A x \in ToSet(pane.tabs), y \in TabSet(tree) : x.id = y.id => x = y
  BY <1>4, TabsOfPane
<1>7. GoodPane(out) /\ out.id = from /\ ToSet(out.tabs) = ToSet(pane.tabs) \ {tab} /\
    tab \in ToSet(pane.tabs) /\ tab \in TabRecs
  <2> HIDE DEF pane
  <2> QED
    BY <1>4, <1>6, WithoutFacts
<1>8. \A x : x \in ToSet(pane.tabs) <=> \E k \in 1 .. Len(pane.tabs) : x = pane.tabs[k]
  <2> HIDE DEF pane, TabRecs
  <2> QED
    BY <1>6, ToSetFacts
<1> HIDE DEF left, out
<1>9. /\ GoodTree(left) /\ Ids(left) = Ids(tree) /\ PaneOf(left, from) = out
      /\ TabSet(left) = (TabSet(tree) \ ToSet(pane.tabs)) \cup ToSet(out.tabs)
      /\ \A o \in Ids(tree) \ {from} : PaneOf(left, o) = PaneOf(tree, o)
  BY <1>4, <1>5, <1>7, PaneChanged
<1>10. TabSet(left) = TabSet(tree) \ {tab}
  BY <1>6, <1>7, <1>9
<1>11. /\ GoodTree(swept) /\ Ids(swept) \subseteq Ids(tree) /\ to \in Ids(swept) /\
            PaneOf(swept, to) = PaneOf(tree, to)
       /\ TabSet(swept) = TabSet(tree) \ {tab}
  <2>1. CASE Len(pane.tabs) = 1 /\ ~pane.svc
    <3>1. swept = RemovePane(left, from)
      BY <2>1
    <3> HIDE DEF swept
    <3>2. /\ GoodTree(swept) /\ Ids(swept) = Ids(left) \ {from} /\
               TabSet(swept) = TabSet(left) \ ToSet(out.tabs)
          /\ \A o \in Ids(left) \ {from} : PaneOf(swept, o) = PaneOf(left, o)
      BY <1>9, <3>1, PaneGone
    <3>3. ToSet(out.tabs) = {}
      <4> HIDE DEF pane, tab
      <4>1. \A x : x \in ToSet(pane.tabs) => x = tab
        BY <1>4, <1>8, <2>1 DEF tab
      <4> QED
        BY <1>7, <4>1
    <3> QED
      BY <1>4, <1>9, <1>10, <3>2, <3>3
  <2>2. CASE ~(Len(pane.tabs) = 1 /\ ~pane.svc)
    <3>1. swept = left
      BY <2>2
    <3> HIDE DEF swept
    <3> QED
      BY <1>4, <1>9, <1>10, <3>1
  <2> QED
    BY <2>1, <2>2
<1> DEFINE old == PaneOf(tree, to)
           p   == With(old, at, tab)
<1>12. next = Put(swept, to, p)
  <2> HIDE DEF swept, tab
  <2>1. \A q \in DOMAIN swept : swept[q].id = to => swept[q] = old
    BY <1>11, PaneAt
  <2> QED
    BY <2>1 DEF MapPane, Put
<1> HIDE DEF next, swept
<1>13. GoodPane(old) /\ old.id = to /\ ToSet(old.tabs) \subseteq TabSet(swept) /\
    old.tabs \in Seq(TabRecs)
  BY <1>11, TabsOfPane
<1>14. \A y \in TabSet(swept) : y.id # tab.id
  BY <1>6, <1>7, <1>11
<1>15. GoodPane(p) /\ p.id = to /\ ToSet(p.tabs) = ToSet(old.tabs) \cup {tab}
  <2> HIDE DEF old, tab
  <2>1. \A x \in ToSet(old.tabs) : x.id # tab.id
    BY <1>13, <1>14
  <2>2. at \in 1 .. Len(old.tabs) + 1
    BY <1>4 DEF old
  <2>3. tab \in TabRecs
    BY <1>7
  <2>4. GoodPane(With(old, at, tab)) /\ With(old, at, tab).id = old.id
        /\ ToSet(With(old, at, tab).tabs) = ToSet(old.tabs) \cup {tab}
    BY <1>13, <2>1, <2>2, <2>3, WithFacts
  <2> QED
    BY <1>13, <2>4
<1> HIDE DEF p, tab
<1>16. GoodTree(next) /\ Ids(next) = Ids(swept) /\
    TabSet(next) = (TabSet(swept) \ ToSet(old.tabs)) \cup ToSet(p.tabs)
  <2>1. \A x \in ToSet(p.tabs) : x \in ToSet(old.tabs) \/ \A y \in TabSet(swept) : x.id # y.id
    BY <1>14, <1>15
  <2> QED
    BY <1>11, <1>12, <1>15, <2>1, PaneChanged
<1>17. TabSet(next) = TabsShown
  BY <1>6, <1>7, <1>11, <1>13, <1>15, <1>16 DEF TabsShown
<1>18. tree' = next /\ focused' = to /\ Persist(next)
  BY <1>4 DEF ApplyTree
<1>19. Focused'
  BY <1>4, <1>11, <1>16, <1>18 DEF Focused, FocusThere
<1> QED
  BY <1>11, <1>16, <1>17, <1>18, <1>19 DEF Shows

\* The panes in hit as a batch close leaves them.
KeptTree(t, hit, closing) == [q \in DOMAIN t |-> IF t[q].id \in hit THEN Kept(t[q], closing) ELSE t[q]]

\* A batch close takes its tabs out of the panes that are hit.
LEMMA KeptPanes ==
  ASSUME NEW t, GoodTree(t), NEW hit, NEW closing,
         \A id \in Ids(t) : id \notin hit => ToSet(PaneOf(t, id).tabs) \cap closing = {}
  PROVE  /\ GoodTree(KeptTree(t, hit, closing)) /\ Ids(KeptTree(t, hit, closing)) = Ids(t)
         /\ TabSet(KeptTree(t, hit, closing)) = TabSet(t) \ closing
         /\ \A id \in Ids(t) : ToSet(PaneOf(KeptTree(t, hit, closing), id).tabs) = ToSet(PaneOf(t,
              id).tabs) \ closing
<1> DEFINE u == KeptTree(t, hit, closing)
<1>1. /\ Tree(t) /\ DOMAIN u = DOMAIN t /\ u = [q \in DOMAIN t |-> u[q]]
      /\ \A q \in DOMAIN t : u[q] = IF t[q].id \in hit THEN Kept(t[q], closing) ELSE t[q]
  BY DEF GoodTree, KeptTree
<1> SUFFICES /\ GoodTree(u) /\ Ids(u) = Ids(t) /\ TabSet(u) = TabSet(t) \ closing
             /\ \A id \in Ids(t) : ToSet(PaneOf(u, id).tabs) = ToSet(PaneOf(t, id).tabs) \ closing
  OBVIOUS
<1> HIDE DEF u
<1>2. ASSUME NEW q \in DOMAIN t
      PROVE  GoodPane(u[q]) /\ u[q].id = t[q].id /\ ToSet(u[q].tabs) = ToSet(t[q].tabs) \ closing
  <2>1. GoodPane(t[q]) /\ t[q].id \in Ids(t) /\ PaneOf(t, t[q].id) = t[q]
    BY IdFacts DEF GoodTree, Tree
  <2>2. CASE t[q].id \in hit
    <3>1. u[q] = Kept(t[q], closing)
      BY <1>1, <2>2
    <3> QED
      BY <2>1, <3>1, KeptFacts
  <2>3. CASE t[q].id \notin hit
    <3>1. u[q] = t[q]
      BY <1>1, <2>3
    <3> QED
      BY <2>1, <2>3, <3>1
  <2> QED
    BY <2>2, <2>3
<1>3. /\ Tree(u) /\ Ids(u) = Ids(t)
      /\ \A id \in Ids(t) : PathOf(u, id) = PathOf(t, id) /\ PaneOf(u, id) = u[PathOf(t, id)]
  BY <1>1, <1>2, MapFacts
<1>4. \A id \in Ids(t) : PathOf(t, id) \in DOMAIN t /\ PaneOf(t, id) = t[PathOf(t, id)]
  BY IdFacts DEF PaneOf
<1>5. \A id \in Ids(t) : GoodPane(PaneOf(u, id)) /\
    ToSet(PaneOf(u, id).tabs) = ToSet(PaneOf(t, id).tabs) \ closing
  BY <1>2, <1>3, <1>4
<1>6. \A a, b \in Ids(u) : a # b => Distinct(PaneOf(u, a).tabs, PaneOf(u, b).tabs)
  <2>1. \A a, b \in Ids(t) : a # b => Distinct(PaneOf(t, a).tabs, PaneOf(t, b).tabs)
    BY DEF GoodTree
  <2> QED
    BY <1>3, <1>5, <2>1 DEF Distinct
<1>7. \A x : x \in TabSet(u) <=> x \in TabSet(t) /\ x \notin closing
  <2>1. \A x : x \in TabSet(t) <=> \E id \in Ids(t) : x \in ToSet(PaneOf(t, id).tabs)
    BY <1>1, TabSetFacts
  <2>2. \A x : x \in TabSet(u) <=> \E id \in Ids(u) : x \in ToSet(PaneOf(u, id).tabs)
    BY <1>3, TabSetFacts
  <2>3. \A id \in Ids(t) : \A x : x \in ToSet(PaneOf(u, id).tabs) <=>
      x \in ToSet(PaneOf(t, id).tabs) /\ x \notin closing
    BY <1>5
  <2>4. \A x : x \in TabSet(u) => x \in TabSet(t) /\ x \notin closing
    BY <1>3, <2>1, <2>2, <2>3
  <2>5. \A x : x \in TabSet(t) /\ x \notin closing => x \in TabSet(u)
    BY <1>3, <2>1, <2>2, <2>3
  <2> QED
    BY <2>4, <2>5
<1> QED
  BY <1>3, <1>5, <1>6, <1>7 DEF GoodTree

\* CloseTerminalsById takes its tabs, and the panes it leaves empty.
LEMMA CloseTerminalsByIdShows ==
  ASSUME Inv, CloseTerminalsById
  PROVE  \E closing \in SUBSET TabsShown : Shows(TabsShown \ closing, Ids(tree)) /\ Dispose(closing)
<1>1. PICK closing \in SUBSET TabsShown :
        LET hit     == {id \in Ids(tree) : ToSet(PaneOf(tree, id).tabs) \cap closing # {}}
            emptied == {id \in hit : ToSet(PaneOf(tree, id).tabs) \subseteq closing /\
                ~PaneOf(tree, id).svc}
            left    == [q \in DOMAIN tree |-> IF tree[q].id \in hit THEN Kept(tree[q], closing)
                ELSE tree[q]]
            next    == RemovePanes(left, emptied)
            focus   == IF next = NoTree THEN NoPane
                       ELSE IF focused \in Ids(next) THEN focused ELSE FirstPaneId(next, <<>>)
        IN Dispose(closing) /\ ApplyTree(next, focus)
  BY DEF CloseTerminalsById
<1> DEFINE hit     == {id \in Ids(tree) : ToSet(PaneOf(tree, id).tabs) \cap closing # {}}
           emptied == {id \in hit : ToSet(PaneOf(tree, id).tabs) \subseteq closing /\
               ~PaneOf(tree, id).svc}
           left    == [q \in DOMAIN tree |-> IF tree[q].id \in hit THEN Kept(tree[q], closing)
               ELSE tree[q]]
           next    == RemovePanes(left, emptied)
           focus   == IF next = NoTree THEN NoPane
                      ELSE IF focused \in Ids(next) THEN focused ELSE FirstPaneId(next, <<>>)
<1>2. Dispose(closing) /\ tree' = next /\ focused' = focus /\ Persist(next)
  BY <1>1 DEF ApplyTree
<1>3. GoodTree(tree) /\ Ids(tree) \subseteq PaneNames
  BY PaneNamesOf DEF Inv
<1>4. /\ GoodTree(left) /\ Ids(left) = Ids(tree) /\ TabSet(left) = TabSet(tree) \ closing
      /\ \A id \in Ids(tree) : ToSet(PaneOf(left, id).tabs) = ToSet(PaneOf(tree, id).tabs) \ closing
  <2>1. \A id \in Ids(tree) : id \notin hit => ToSet(PaneOf(tree, id).tabs) \cap closing = {}
    OBVIOUS
  <2>2. left = KeptTree(tree, hit, closing)
    BY DEF KeptTree
  <2> HIDE DEF left, hit
  <2> QED
    BY <1>3, <2>1, <2>2, KeptPanes
<1>5. emptied \in SUBSET Ids(left) /\ IsFiniteSet(emptied)
      /\ \A id \in emptied : ToSet(PaneOf(tree, id).tabs) \subseteq closing
  <2>1. IsFiniteSet(PaneNames)
    BY Bounds, FS_Interval DEF PaneNames
  <2>2. emptied \subseteq Ids(tree)
    OBVIOUS
  <2>3. \A id \in emptied : ToSet(PaneOf(tree, id).tabs) \subseteq closing
    OBVIOUS
  <2> HIDE DEF emptied, left
  <2>4. emptied \subseteq PaneNames
    BY <1>3, <2>2
  <2> QED
    BY <1>4, <2>1, <2>2, <2>3, <2>4, FS_Subset
<1> HIDE DEF left, emptied, hit
<1>6. /\ Tree(next) /\ Ids(next) = Ids(left) \ emptied
      /\ \A o \in Ids(left) \ emptied : PaneOf(next, o) = PaneOf(left, o)
  BY <1>4, <1>5, RemovePanesKeepsTheOthers DEF GoodTree
<1> HIDE DEF next
<1>7. GoodTree(next) /\ \A x : x \in TabSet(next) <=>
    \E o \in Ids(left) \ emptied : x \in ToSet(PaneOf(left, o).tabs)
  BY <1>4, <1>5, <1>6, PanesGone
<1>8. TabSet(next) = TabsShown \ closing
  <2>1. \A x : x \in TabSet(left) <=> \E o \in Ids(left) : x \in ToSet(PaneOf(left, o).tabs)
    BY <1>4, TabSetFacts DEF GoodTree
  <2>2. \A o \in emptied : ToSet(PaneOf(left, o).tabs) = {}
    BY <1>4, <1>5
  <2>3. \A x : x \in TabSet(next) <=> x \in TabSet(left)
    BY <1>5, <1>7, <2>1, <2>2
  <2> QED
    BY <1>4, <2>3 DEF TabsShown
<1>9. Focused'
  <2>1. next # NoTree => FirstPaneId(next, <<>>) \in Ids(next)
    BY <1>6, OuterPanes
  <2>2. Ids(next) \subseteq PaneNames
    BY <1>3, <1>4, <1>6
  <2> QED
    BY <1>2, <2>1, <2>2 DEF Focused, FocusThere
<1>10. Shows(TabsShown \ closing, Ids(tree))
  BY <1>2, <1>4, <1>6, <1>7, <1>8, <1>9 DEF Shows
<1> QED
  BY <1>2, <1>10

\* A pane that joins a tree.
LEMMA ShowsNewPane ==
  ASSUME Inv, NEW p, GoodPane(p), p.id \notin Ids(tree), NEW u, Tree(u),
         Ids(u) = Ids(tree) \cup {p.id}, PaneOf(u, p.id) = p,
         \A o \in Ids(tree) : PaneOf(u, o) = PaneOf(tree, o),
         \A x \in ToSet(p.tabs), y \in TabsShown : x.id # y.id,
         ApplyTree(u, p.id)
  PROVE  Shows(TabsShown \cup ToSet(p.tabs), Ids(tree) \cup {p.id}) /\ tree' # NoTree
<1>1. GoodTree(tree) /\ p.id \in PaneNames
  BY PaneParts DEF Inv
<1>2. GoodTree(u) /\ TabSet(u) = TabSet(tree) \cup ToSet(p.tabs)
  BY <1>1, PaneAdded DEF TabsShown
<1>3. tree' = u /\ focused' = p.id /\ Persist(u)
  BY DEF ApplyTree
<1>4. Focused'
  BY <1>1, <1>3 DEF Focused, FocusThere
<1>5. u # NoTree
  BY NoPanes
<1> QED
  BY <1>2, <1>3, <1>4, <1>5 DEF Shows, TabsShown

\* A split shows one more pane with one more tab.
LEMMA SplitShows ==
  ASSUME Inv, NEW at \in Ids(tree), FreePanes # {}, NEW tab \in TabRecs, \A y \in TabsShown :
         tab.id # y.id,
         ApplyTree(SplitAtPane(tree, at, Pane(Min(FreePanes), <<tab>>, 1, FALSE)), Min(FreePanes))
  PROVE  Shows(TabsShown \cup {tab}, Ids(tree) \cup FreePanes)
<1> DEFINE id == Min(FreePanes)
           p  == Pane(id, <<tab>>, 1, FALSE)
           u  == SplitAtPane(tree, at, p)
<1>1. id \in FreePanes /\ id \in PaneNames /\ id \notin Ids(tree)
  BY FreePaneFacts
<1>2. ApplyTree(u, id)
  OBVIOUS
<1>3. u = SplitNode(tree, PathOf(tree, at), 1, p)
  BY DEF SplitAtPane
<1> HIDE DEF id, u, TabRecs
<1>4. GoodPane(p) /\ p.id = id /\ p.tabs = <<tab>> /\ ToSet(p.tabs) = {tab}
  BY <1>1, NewPane, OneTab
<1> HIDE DEF p
<1>5. Tree(tree) /\ PathOf(tree, at) \in Nodes(tree)
  BY IdFacts, RootFacts DEF Inv, GoodTree, Tree
<1>6. /\ Tree(u) /\ Ids(u) = Ids(tree) \cup {p.id} /\ PaneOf(u, p.id) = p
      /\ \A o \in Ids(tree) : PaneOf(u, o) = PaneOf(tree, o)
  BY <1>1, <1>3, <1>4, <1>5, SplitAddsAPane
<1>7. Shows(TabsShown \cup ToSet(p.tabs), Ids(tree) \cup {p.id})
  BY <1>1, <1>2, <1>4, <1>6, ShowsNewPane
<1> QED
  BY <1>1, <1>4, <1>7 DEF Shows

\* UndoClose shows the tab again: in its pane if that is there, or in another.
LEMMA UndoCloseShows ==
  ASSUME Inv, UndoClose
  PROVE  \E e \in pending : e.own /\ pending' = pending \ {e} /\
      Shows(TabsShown \cup {e.tab}, Ids(tree) \cup FreePanes)
<1>1. PICK e \in pending :
        /\ e.own /\ (tree = NoTree => FreePanes # {})
        /\ pending' = pending \ {e}
        /\ IF e.pane \in Ids(tree)
           THEN ApplyTree(MapPane(tree, e.pane, LAMBDA p :
               With(p, Min({e.idx, Len(p.tabs) + 1}), e.tab)), e.pane)
           ELSE IF tree # NoTree
           THEN LET to == IF focused \in Ids(tree) THEN focused ELSE FirstPaneId(tree, <<>>)
                IN ApplyTree(MapPane(tree, to, LAMBDA p : AppendTerminal(p, e.tab, FALSE)), to)
           ELSE ApplyTree(Single(Pane(Min(FreePanes), <<e.tab>>, 1, FALSE)), Min(FreePanes))
  BY DEF UndoClose
<1>2. /\ e.tab \in TabRecs /\ e.pane \in PaneNames /\ e.idx \in Nat \ {0}
      /\ \A y \in TabsShown : y.id # e.tab.id
  BY <1>1 DEF Inv, Held
<1>3. GoodTree(tree) /\ Ids(tree) \subseteq PaneNames
  BY PaneNamesOf DEF Inv
<1> DEFINE tab == e.tab
<1>4. CASE e.pane \in Ids(tree)
  <2> DEFINE id  == e.pane
             old == PaneOf(tree, id)
             at  == Min({e.idx, Len(old.tabs) + 1})
             p   == With(old, at, tab)
             u   == MapPane(tree, id, LAMBDA x : With(x, Min({e.idx, Len(x.tabs) + 1}), tab))
  <2>1. ApplyTree(u, id) /\ id \in Ids(tree)
    BY <1>1, <1>4
  <2>2. u = Put(tree, id, p)
    <3>1. \A q \in DOMAIN tree : tree[q].id = id => tree[q] = old
      BY <1>3, <1>4, PaneAt
    <3> HIDE DEF old, id, tab
    <3> QED
      BY <3>1 DEF MapPane, Put
  <2> HIDE DEF u
  <2>3. GoodPane(old) /\ old.id = id /\ ToSet(old.tabs) \subseteq TabSet(tree) /\ Len(old.tabs) \in Nat
    BY <1>3, <1>4, TabsOfPane, PaneParts
  <2>4. at \in 1 .. Len(old.tabs) + 1
    <3> HIDE DEF old
    <3> DEFINE n == Len(old.tabs) + 1
               S == {e.idx, n}
    <3>1. n \in Nat \ {0} /\ e.idx \in Nat \ {0}
      BY <1>2, <2>3
    <3> HIDE DEF n
    <3>2. Min(S) \in S /\ \A y \in S : Min(S) <= y
      <4>1. S \in SUBSET Nat /\ S # {}
        BY <3>1
      <4> HIDE DEF S
      <4> QED
        BY <4>1, NumberMin
    <3> QED
      BY <3>1, <3>2 DEF n
  <2>5. tab \in TabRecs /\ \A x \in ToSet(old.tabs) : x.id # tab.id
    BY <1>2, <2>3 DEF TabsShown
  <2> HIDE DEF at, old, tab, TabRecs
  <2>6. GoodPane(p) /\ p.id = id /\ ToSet(p.tabs) = ToSet(old.tabs) \cup {tab}
    BY <2>3, <2>4, <2>5, WithFacts
  <2> HIDE DEF p
  <2>7. Shows((TabsShown \ ToSet(old.tabs)) \cup ToSet(p.tabs), Ids(tree))
    <3>1. focused' = id /\ ApplyTree(u, focused') /\ focused' \in Ids(tree)
      BY <2>1 DEF ApplyTree
    <3>2. \A x \in ToSet(p.tabs) : x \in ToSet(old.tabs) \/ \A y \in TabsShown : x.id # y.id
      BY <1>2, <2>6 DEF tab
    <3> QED
      BY <2>1, <2>2, <2>6, <3>1, <3>2, ShowsPane DEF old
  <2>8. (TabsShown \ ToSet(old.tabs)) \cup ToSet(p.tabs) = TabsShown \cup {tab}
    BY <2>3, <2>6 DEF TabsShown
  <2> QED
    BY <1>1, <2>7, <2>8 DEF Shows, tab
<1>5. CASE e.pane \notin Ids(tree)
  <2>1. NoPane \notin Ids(tree)
    BY <1>3, Bounds
  <2>2. AddTerminal(tab, NoPane, FALSE)
    <3>1. CASE tree = NoTree
      BY <1>1, <1>5, <3>1 DEF AddTerminal
    <3>2. CASE tree # NoTree
      <4>1. focused \in Ids(tree) /\ focused # NoPane
        BY <2>1, <3>2, FocusIn
      <4>2. ApplyTree(MapPane(tree, focused, LAMBDA p : AppendTerminal(p, tab, FALSE)), focused)
        BY <1>1, <1>5, <3>2, <4>1
      <4> QED
        BY <2>1, <3>2, <4>1, <4>2 DEF AddTerminal
    <3> QED
      BY <3>1, <3>2
  <2> HIDE DEF tab, TabRecs
  <2>3. /\ GoodTree(tree') /\ TabSet(tree') = TabsShown \cup {tab}
        /\ \A id \in Ids(tree') : id \in Ids(tree) \/ id \in FreePanes \/ id = NoPane
        /\ Focused' /\ Persist(tree')
    <3>1. tab \in TabRecs /\ \A x \in TabsShown : x.id # tab.id
      BY <1>2 DEF tab
    <3>2. tree = NoTree => FreePanes # {}
      BY <1>1
    <3> QED
      BY <2>2, <3>1, <3>2, AddTerminalFacts
  <2>4. NoPane \notin Ids(tree')
    BY <2>3, PaneNamesOf, Bounds
  <2> QED
    BY <1>1, <2>3, <2>4 DEF Shows, tab
<1> QED
  BY <1>4, <1>5

\* UndoPaneClose shows the pane and its tabs again.
LEMMA UndoPaneCloseShows ==
  ASSUME Inv, NEW e \in pendingPanes, ApplyTree(RestorePane(tree, e.pane, e.spot), e.pane.id)
  PROVE  Shows(TabsShown \cup ToSet(e.pane.tabs), Ids(tree) \cup {e.pane.id})
<1> DEFINE p == e.pane
           u == RestorePane(tree, p, e.spot)
<1>1. /\ GoodPane(p) /\ p.id \notin Ids(tree) /\ e.spot.side \in {0, 1} /\ e.spot.sibs \in Seq(Int)
      /\ \A i \in 1 .. Len(p.tabs) : Closing(p.tabs[i], p.id, i, FALSE) \in pending
      /\ \A c \in pending : \A y \in TabsShown : y.id # c.tab.id
  BY DEF Inv, Held
<1>2. \A x \in ToSet(p.tabs), y \in TabsShown : x.id # y.id
  <2> SUFFICES ASSUME NEW x \in ToSet(p.tabs), NEW y \in TabsShown
               PROVE  x.id # y.id
    OBVIOUS
  <2>1. PICK i \in 1 .. Len(p.tabs) : x = p.tabs[i]
    <3>1. p.tabs \in Seq(TabRecs)
      BY <1>1, PaneParts
    <3> HIDE DEF p, TabRecs
    <3> QED
      BY <3>1, ToSetFacts
  <2>2. Closing(x, p.id, i, FALSE) \in pending /\ Closing(x, p.id, i, FALSE).tab = x
    BY <1>1, <2>1 DEF Closing
  <2> QED
    BY <1>1, <2>2
<1>3. ApplyTree(u, p.id) /\ Tree(tree)
  BY DEF Inv, GoodTree
<1>4. /\ Tree(u) /\ Ids(u) = Ids(tree) \cup {p.id} /\ PaneOf(u, p.id) = p
      /\ \A o \in Ids(tree) : PaneOf(u, o) = PaneOf(tree, o)
  <2> DEFINE spot == e.spot
  <2>1. u = RestorePane(tree, p, spot) /\ spot.side \in {0, 1} /\ spot.sibs \in Seq(Int)
    BY <1>1
  <2> HIDE DEF p, u, spot
  <2> QED
    BY <1>1, <1>3, <2>1, RestoreAddsThePane
<1> HIDE DEF u, p
<1>5. Shows(TabsShown \cup ToSet(p.tabs), Ids(tree) \cup {p.id})
  BY <1>1, <1>2, <1>3, <1>4, ShowsNewPane
<1> QED
  BY <1>5 DEF p

-----------------------------------------------------------------------------
(* A restart.                                                              *)

\* The tabs after a restart: the new pty in the place of the old one.
Restarted(tabs, old, new) ==
  /\ \A x \in tabs : x \in TabsShown \/ (x.id = new /\ \E y \in TabsShown : x.s = y.s)
  /\ \A y \in TabsShown : /\ y \in tabs \/ y.id = old
                          /\ \E x \in tabs : x.s = y.s
  /\ \E x \in tabs : x.id = new

\* swapTerminal: the pane with the new pty where the old one was.
Swap(p, old, new) ==
  [p EXCEPT !.tabs = [i \in 1 .. Len(@) |-> IF @[i].id = old THEN [@[i] EXCEPT !.id = new] ELSE @[i]]]

\* A restart replaces the pty of one tab of a pane.
LEMMA SwapFacts ==
  ASSUME NEW p, GoodPane(p), NEW old, NEW new \in Ptys, \A x \in ToSet(p.tabs) : x.id # new
  PROVE  LET w == Swap(p, old, new) IN
         /\ GoodPane(w) /\ w.id = p.id
         /\ Renewed(p.tabs, w.tabs, old, new)
<1> DEFINE s == p.tabs
           r == [i \in 1 .. Len(s) |-> IF s[i].id = old THEN [s[i] EXCEPT !.id = new] ELSE s[i]]
           w == Swap(p, old, new)
<1>1. s \in Seq(TabRecs) /\ Apart(s) /\ Len(s) \in Nat /\ p.id \in PaneNames /\ p.svc \in BOOLEAN
      /\ p.active \in Nat \ {0} /\ (p.active = 1 \/ p.active <= Len(s)) /\ \A x \in ToSet(s) : x.id # new
  BY PaneParts
<1>2. w = [p EXCEPT !.tabs = r]
  BY DEF Swap
<1>3. w = [id |-> p.id, tabs |-> r, active |-> p.active, svc |-> p.svc]
  <2> HIDE DEF r, w
  <2> QED
    BY <1>2, PaneRetabbed
<1> HIDE DEF w
<1>4. r = [k \in 1 .. Len(s) |-> r[k]] /\ \A k \in 1 .. Len(s) : r[k] = IF s[k].id = old
    THEN [s[k] EXCEPT !.id = new] ELSE s[k]
  <2> HIDE DEF s
  <2> QED
    OBVIOUS
<1> HIDE DEF r, s
<1>5. \A k \in 1 .. Len(s) : /\ s[k].id # old => r[k] = s[k]
                             /\ s[k].id = old => r[k] \in TabRecs /\ r[k].id = new /\ r[k].s = s[k].s
  <2> SUFFICES ASSUME NEW k \in 1 .. Len(s)
               PROVE  /\ s[k].id # old => r[k] = s[k]
                      /\ s[k].id = old => r[k] \in TabRecs /\ r[k].id = new /\ r[k].s = s[k].s
    OBVIOUS
  <2> DEFINE x == s[k]
  <2>1. x \in TabRecs /\ r[k] = IF x.id = old THEN [x EXCEPT !.id = new] ELSE x
    BY <1>1, <1>4
  <2> HIDE DEF x
  <2>2. [x EXCEPT !.id = new] \in TabRecs /\ [x EXCEPT !.id = new].id = new /\
      [x EXCEPT !.id = new].s = x.s
    BY <2>1 DEF TabRecs
  <2> QED
    BY <2>1, <2>2 DEF x
<1> HIDE DEF TabRecs
<1>9. \A k \in 1 .. Len(s) : r[k] \in TabRecs
  BY <1>1, <1>5
<1>10. r \in [1 .. Len(s) -> TabRecs]
  BY <1>4, <1>9
<1>11. r \in Seq(TabRecs) /\ Len(r) = Len(s)
  BY <1>1, <1>10
<1>6. Apart(r) /\ Renewed(s, r, old, new)
  <2>1. \A k \in 1 .. Len(s) : /\ s[k].id # old => r[k] = s[k]
                               /\ s[k].id = old => r[k].id = new /\ r[k].s = s[k].s
    BY <1>5
  <2>2. s \in Seq(TabRecs) /\ Apart(s) /\ \A x \in ToSet(s) : x.id # new
    BY <1>1
  <2> QED
    BY <2>1, <2>2, <1>11, RestartedTabs
<1>7. GoodPane(w)
  <2>1. p.active = 1 \/ p.active <= Len(r)
    BY <1>1, <1>11
  <2> QED
    BY <1>1, <1>3, <1>6, <1>11, <2>1, PaneMade
<1>8. w.id = p.id /\ w.tabs = r
  BY <1>3
<1> QED
  BY <1>6, <1>7, <1>8 DEF w, s

\* A restart that lands shows the new pty where the old one was.
LEMMA RestartShows ==
  ASSUME Inv, NEW old, NEW new \in FreePtys, NEW at \in Ids(tree),
         NEW tab \in ToSet(PaneOf(tree, at).tabs), tab.id = old,
         ApplyTree(Put(tree, at, Swap(PaneOf(tree, at), old, new)), focused)
  PROVE  Shows(TabSet(tree'), Ids(tree)) /\ Restarted(TabSet(tree'), old, new)
<1> DEFINE was == PaneOf(tree, at)
           p == Swap(was, old, new)
           u == Put(tree, at, p)
<1>1. GoodTree(tree) /\ tree # NoTree
  BY NoPanes DEF Inv
<1>2. u = Put(tree, at, p)
  OBVIOUS
<1>3. focused' = focused /\ ApplyTree(u, focused') /\ focused \in Ids(tree)
  BY <1>1, FocusIn DEF ApplyTree
<1> HIDE DEF u
<1>4. GoodPane(was) /\ was.id = at /\ ToSet(was.tabs) \subseteq TabSet(tree) /\ new \in Ptys
      /\ (\A x \in TabsShown : x.id # new)
      /\ \A x \in ToSet(was.tabs), y \in TabSet(tree) : x.id = y.id => x = y
  BY <1>1, TabsOfPane, FreePtyFacts
<1>5. \A x \in ToSet(was.tabs) : x.id # new
  BY <1>4 DEF TabsShown
<1> HIDE DEF was
<1>14. GoodPane(p) /\ p.id = at /\ Renewed(was.tabs, p.tabs, old, new)
  BY <1>4, <1>5, SwapFacts
<1>6. /\ GoodPane(p) /\ p.id = at
      /\ \A x \in ToSet(p.tabs) : (x \in ToSet(was.tabs) /\ x.id # old) \/
           (x.id = new /\ \E y \in ToSet(was.tabs) : x.s = y.s /\ y.id = old)
      /\ \A y \in ToSet(was.tabs) : y.id # old => y \in ToSet(p.tabs)
      /\ \A y \in ToSet(was.tabs) : y.id = old => \E x \in ToSet(p.tabs) : x.id = new /\ x.s = y.s
  BY <1>14 DEF Renewed
<1> HIDE DEF p
<1>7. Shows((TabsShown \ ToSet(was.tabs)) \cup ToSet(p.tabs), Ids(tree))
  <2>1. \A x \in ToSet(p.tabs) : x \in ToSet(was.tabs) \/ \A y \in TabsShown : x.id # y.id
    BY <1>4, <1>6
  <2> QED
    BY <1>2, <1>3, <1>6, <2>1, ShowsPane DEF was
<1>8. TabSet(tree') = (TabsShown \ ToSet(was.tabs)) \cup ToSet(p.tabs)
  BY <1>7 DEF Shows
<1>9. tab \in ToSet(was.tabs)
  BY DEF was
<1> DEFINE tabs == TabSet(tree')
<1>10. \A x \in tabs : x \in TabsShown \/ (x.id = new /\ \E y \in TabsShown : x.s = y.s)
  BY <1>4, <1>6, <1>8 DEF TabsShown
<1>11. \A y \in TabsShown : (y \in tabs \/ y.id = old) /\ \E x \in tabs : x.s = y.s
  BY <1>6, <1>8
<1>12. \E x \in tabs : x.id = new
  BY <1>6, <1>8, <1>9
<1> HIDE DEF tabs
<1>13. Restarted(tabs, old, new)
  BY <1>10, <1>11, <1>12 DEF Restarted
<1> QED
  BY <1>7, <1>8, <1>13 DEF tabs

\* The panes of a layout before the open tabs go to the first.
Built(shape, started, name, pty) ==
  [q \in shape |-> Pane(name[q], IF q \in started THEN <<[s |-> NoSession, id |-> pty[q]]>>
      ELSE <<>>, 1, FALSE)]

\* The shapes of a layout: one pane, or two side by side.
Shapes == {{<<>>}, {<<0>>, <<1>>}}

\* The two layouts are shapes of a tree.
LEMMA ShapeIs ==
  ASSUME NEW shape \in Shapes, NEW t, DOMAIN t = shape, t = [q \in shape |-> t[q]]
  PROVE  TreeShape(t)
<1>0. <<>> \in Paths /\ <<0>> \in Paths /\ <<1>> \in Paths
  BY DEF Paths
<1>1. CASE shape = {<<>>}
  <2>1. IsFiniteSet(shape)
    BY <1>1, FS_Singleton
  <2>2. \A r \in Paths, x \in {0, 1} : Append(r, x) \notin Nodes(t)
    <3>1. \A r : r \in Nodes(t) <=> r \in Paths /\ \E q \in DOMAIN t : IsPrefix(r, q)
      BY <1>0, <1>1, NodeFacts
    <3>2. \A r \in Paths, x \in {0, 1} : ~IsPrefix(Append(r, x), <<>>)
      BY <1>0, TurnOrder, PrefixOrder
    <3> QED
      BY <1>1, <3>1, <3>2
  <2> QED
    BY <1>0, <1>1, <2>1, <2>2 DEF TreeShape
<1>2. CASE shape = {<<0>>, <<1>>}
  <2>1. IsFiniteSet(shape)
    <3> DEFINE side == {<<0>>}
    <3>1. IsFiniteSet(side)
      BY FS_Singleton
    <3>2. shape = side \cup {<<1>>}
      BY <1>2
    <3> HIDE DEF side
    <3>3. IsFiniteSet(side \cup {<<1>>})
      BY <3>1, FS_AddElement
    <3> QED
      BY <3>2, <3>3
  <2>0. <<0>> = Append(<<>>, 0) /\ <<1>> = Append(<<>>, 1)
    OBVIOUS
  <2>3. ~IsPrefix(<<0>>, <<1>>) /\ ~IsPrefix(<<1>>, <<0>>)
    <3>1. \A x \in {0, 1} : ~IsPrefix(Append(<<>>, 1 - x), Append(<<>>, x))
      BY <1>0, TurnOrder, PrefixOrder
    <3> QED
      BY <2>0, <3>1
  <2>2. \A r \in Paths, x \in {0, 1} : Append(r, x) \in Nodes(t) => Append(r, 1 - x) \in Nodes(t)
    <3>1. \A r : r \in Nodes(t) <=> r \in Paths /\ \E q \in DOMAIN t : IsPrefix(r, q)
      BY <1>0, <1>2, NodeFacts
    <3> SUFFICES ASSUME NEW r \in Paths, NEW x \in {0, 1}, Append(r, x) \in Nodes(t)
                 PROVE  Append(r, 1 - x) \in Nodes(t)
      OBVIOUS
    <3>2. PICK y \in {0, 1} : IsPrefix(Append(r, x), Append(<<>>, y))
      BY <1>2, <2>0, <3>1
    <3>3. r = <<>>
      <4>1. Append(r, x) = Append(<<>>, y) \/ IsPrefix(Append(r, x), <<>>)
        BY <1>0, <3>2, TurnOrder
      <4>2. ~IsPrefix(Append(r, x), <<>>)
        BY <1>0, TurnOrder, PrefixOrder
      <4> QED
        BY <1>0, <4>1, <4>2, TurnOrder
    <3>4. 1 - x \in {0, 1} /\ Append(<<>>, 1 - x) \in DOMAIN t
      BY <1>2, <2>0
    <3>5. Append(<<>>, 1 - x) \in Paths /\ IsPrefix(Append(<<>>, 1 - x), Append(<<>>, 1 - x))
      <4> DEFINE z == 1 - x
      <4>1. z \in {0, 1}
        BY <3>4
      <4> HIDE DEF z
      <4>2. Append(<<>>, z) \in Paths
        BY <1>0, <4>1, TurnOrder
      <4>3. IsPrefix(Append(<<>>, z), Append(<<>>, z))
        BY <4>2, PrefixOrder
      <4> QED
        BY <4>2, <4>3 DEF z
    <3>6. Append(<<>>, 1 - x) \in Nodes(t)
      BY <3>1, <3>4, <3>5
    <3> QED
      BY <3>3, <3>6
  <2>4. \A p, q \in shape : IsPrefix(p, q) => p = q
    BY <1>2, <2>3
  <2> QED
    BY <1>0, <1>2, <2>1, <2>2, <2>4 DEF TreeShape
<1> QED
  BY <1>1, <1>2 DEF Shapes

-----------------------------------------------------------------------------
(* A layout.                                                               *)

\* Panes that share no name and no tab make a good tree.
LEMMA FromPanes ==
  ASSUME NEW t, TreeShape(t), \A q \in DOMAIN t : GoodPane(t[q]),
         \A p, q \in DOMAIN t : p # q => t[p].id # t[q].id /\ Distinct(t[p].tabs, t[q].tabs)
  PROVE  GoodTree(t)
<1>1. Tree(t)
  BY DEF Tree, Named
<1>2. \A id \in Ids(t) : PathOf(t, id) \in DOMAIN t /\ PaneOf(t, id) = t[PathOf(t, id)] /\
    t[PathOf(t, id)].id = id
  BY IdFacts DEF PaneOf
<1> QED
  BY <1>1, <1>2 DEF GoodTree

\* The tabs on screen, in the order they are drawn.
LEMMA OpenTabs ==
  ASSUME NEW t, GoodTree(t)
  PROVE  Tabs(t) \in Seq(TabRecs) /\ Apart(Tabs(t)) /\ ToSet(Tabs(t)) = TabSet(t)
<1>1. Tree(t)
  BY DEF GoodTree
<1>2. \A q \in DOMAIN t : t[q].id \in Ids(t) /\ PaneOf(t, t[q].id) = t[q]
  BY <1>1, IdFacts DEF Tree
<1>3. \A q \in DOMAIN t : t[q].tabs \in Seq(TabRecs) /\ Apart(t[q].tabs)
  <2>1. \A q \in DOMAIN t : GoodPane(t[q])
    BY <1>2 DEF GoodTree
  <2> QED
    BY <2>1, PaneParts
<1>4. \A p, q \in DOMAIN t : p # q => Distinct(t[p].tabs, t[q].tabs)
  BY <1>1, <1>2 DEF GoodTree, Tree, Named
<1> HIDE DEF TabRecs
<1> QED
  BY <1>1, <1>3, <1>4, TabsFacts

\* MergeOpenTabs puts the open tabs into the first pane of the layout.
LEMMA MergedTree ==
  ASSUME NEW b, GoodTree(b), b # NoTree, GoodTree(tree), \A x \in TabSet(b), y \in TabsShown :
         x.id # y.id
  PROVE  /\ GoodTree(MergeOpenTabs(b)) /\ Ids(MergeOpenTabs(b)) = Ids(b)
         /\ TabSet(MergeOpenTabs(b)) = TabsShown \cup TabSet(b)
<1> DEFINE open == Tabs(tree)
           svc  == tree # NoTree /\ PaneOf(tree, FirstPaneId(tree, <<>>)).svc
           merge(p) == [p EXCEPT !.tabs = open \o @,
                                 !.active = IF p.tabs # <<>> THEN Len(open) + p.active ELSE 1,
                                 !.svc = p.tabs = <<>> /\ svc]
           id  == FirstPaneId(b, <<>>)
           old == PaneOf(b, id)
           tabs == open \o old.tabs
           active == IF old.tabs # <<>> THEN Len(open) + old.active ELSE 1
           p   == merge(old)
           u   == MergeOpenTabs(b)
<1>1. id \in Ids(b)
  BY OuterPanes DEF GoodTree
<1>2. u = Put(b, id, p)
  <2>1. \A q \in DOMAIN b : b[q].id = id => b[q] = old
    BY <1>1, PaneAt
  <2>2. u = MapPane(b, id, merge)
    BY DEF MergeOpenTabs
  <2> HIDE DEF old, id, open, svc, u
  <2> QED
    BY <2>1, <2>2 DEF MapPane, Put
<1>3. open \in Seq(TabRecs) /\ Apart(open) /\ ToSet(open) = TabsShown /\ Len(open) \in Nat
  <2>1. open \in Seq(TabRecs) /\ Apart(open) /\ ToSet(open) = TabsShown
    BY OpenTabs DEF TabsShown
  <2> HIDE DEF open, TabRecs
  <2> QED
    BY <2>1
<1>4. /\ GoodPane(old) /\ old.id = id /\ ToSet(old.tabs) \subseteq TabSet(b) /\ old.tabs \in Seq(TabRecs)
      /\ old.active \in Nat \ {0} /\ (old.active = 1 \/ old.active <= Len(old.tabs)) /\ Apart(old.tabs)
      /\ Len(old.tabs) \in Nat /\ old.id \in PaneNames
  BY <1>1, TabsOfPane, PaneParts
<1> HIDE DEF u, open, svc, id, old, TabRecs
<1>5. tabs \in Seq(TabRecs) /\ Apart(tabs) /\ ToSet(tabs) = TabsShown \cup ToSet(old.tabs) /\
    Len(tabs) = Len(open) + Len(old.tabs)
  <2>1. Distinct(open, old.tabs)
    BY <1>3, <1>4 DEF Distinct
  <2> DEFINE s == old.tabs
  <2>2. s \in Seq(TabRecs) /\ Apart(s) /\ Distinct(open, s)
    BY <1>4, <2>1
  <2> HIDE DEF s
  <2>3. open \o s \in Seq(TabRecs) /\ Len(open \o s) = Len(open) + Len(s)
    BY <1>3, <2>2, ConcatFacts
  <2>4. Apart(open \o s) /\ ToSet(open \o s) = ToSet(open) \cup ToSet(s)
    BY <1>3, <2>2, JoinedTabs
  <2> QED
    BY <1>3, <2>3, <2>4 DEF s
<1>6. active \in Nat \ {0} /\ (active = 1 \/ active <= Len(tabs))
  <2>1. CASE old.tabs = <<>>
    BY <2>1
  <2>2. CASE old.tabs # <<>>
    <3>1. Len(old.tabs) # 0
      <4> DEFINE s == old.tabs
      <4>1. s \in Seq(TabRecs) /\ s # <<>>
        BY <1>4, <2>2
      <4> HIDE DEF s
      <4>2. Len(s) # 0
        BY <4>1
      <4> QED
        BY <4>2 DEF s
    <3>2. active = Len(open) + old.active
      BY <2>2
    <3> HIDE DEF active, tabs
    <3>3. old.active <= Len(old.tabs)
      BY <1>4, <3>1
    <3> QED
      BY <1>3, <1>4, <1>5, <3>2, <3>3
  <2> QED
    BY <2>1, <2>2
<1> DEFINE shows == old.tabs = <<>> /\ svc
<1>7. p = [id |-> old.id, tabs |-> tabs, active |-> active, svc |-> shows]
  <2>1. p = [old EXCEPT !.tabs = tabs, !.active = active, !.svc = shows]
    OBVIOUS
  <2> HIDE DEF p, tabs, active, shows
  <2> QED
    BY <1>4, <2>1, PaneReplacing
<1>8. shows \in BOOLEAN
  OBVIOUS
<1> HIDE DEF p, tabs, active, shows
<1>9. GoodPane(p) /\ p.id = id /\ p.tabs = tabs
  <2>1. GoodPane([id |-> old.id, tabs |-> tabs, active |-> active, svc |-> shows])
    <3>1. active \in Nat \ {0} /\ tabs \in Seq(TabRecs) /\ old.id \in PaneNames /\
        (active = 1 \/ active <= Len(tabs)) /\ Apart(tabs)
      BY <1>4, <1>5, <1>6
    <3> QED
      BY <1>8, <3>1, PaneMade
  <2> QED
    BY <1>4, <1>7, <2>1
<1>10. \A x \in ToSet(p.tabs) : x \in ToSet(old.tabs) \/ \A y \in TabSet(b) : x.id # y.id
  <2>1. \A x \in ToSet(p.tabs) : x \in ToSet(old.tabs) \/ x \in TabsShown
    BY <1>5, <1>9
  <2> QED
    BY <2>1
<1>11. /\ GoodTree(u) /\ Ids(u) = Ids(b)
       /\ TabSet(u) = (TabSet(b) \ ToSet(old.tabs)) \cup ToSet(p.tabs)
  BY <1>1, <1>2, <1>9, <1>10, PaneChanged DEF old
<1>12. TabSet(u) = TabsShown \cup TabSet(b)
  BY <1>4, <1>5, <1>9, <1>11
<1> QED
  BY <1>11, <1>12 DEF u

\* Two elements differ.
LEMMA ApartEnds ==
  ASSUME NEW n \in Nat, NEW S \in SUBSET (1 .. n), Cardinality(S) >= 2
  PROVE  \E a, b \in S : a # b
<1>1. IsFiniteSet(S)
  <2>1. IsFiniteSet(1 .. n)
    BY FS_Interval
  <2> QED
    BY <2>1, FS_Subset
<1> SUFFICES ASSUME \A a, b \in S : a = b PROVE FALSE
  OBVIOUS
<1>2. CASE S = {}
  BY <1>2, FS_EmptySet
<1>3. CASE S # {}
  <2>1. PICK a \in S : TRUE
    BY <1>3
  <2>2. S = {a}
    BY <2>1
  <2>3. Cardinality(S) = 1
    BY <2>2, FS_Singleton
  <2> QED
    BY <2>3
<1> QED
  BY <1>2, <1>3

\* Two of the free ids, for the two sides of a layout.
LEMMA TwoFree ==
  /\ FreePanes # {} /\ Cardinality(FreePanes) >= 2 => Min(FreePanes) # Max(FreePanes)
  /\ FreePtys # {} /\ Cardinality(FreePtys) >= 2 => Min(FreePtys) # Max(FreePtys)
<1>1. FreePanes \in SUBSET (1 .. MaxPanes) /\ FreePtys \in SUBSET (1 .. MaxPtys) /\
    MaxPanes \in Nat /\ MaxPtys \in Nat
  BY FreePaneFacts, FreePtyFacts, Bounds DEF PaneNames, Ptys
<1>2. FreePanes # {} /\ Cardinality(FreePanes) >= 2 => Min(FreePanes) # Max(FreePanes)
  <2> SUFFICES ASSUME FreePanes # {}, Cardinality(FreePanes) >= 2, Min(FreePanes) = Max(FreePanes)
      PROVE FALSE
    OBVIOUS
  <2>1. PICK a \in FreePanes : \E b \in FreePanes : a # b
    BY <1>1, ApartEnds
  <2>2. PICK b \in FreePanes : a # b
    BY <2>1
  <2>3. \A id \in FreePanes : id \in Nat /\ Min(FreePanes) <= id /\ id <= Max(FreePanes)
    BY <1>1, FreePaneFacts
  <2>5. Min(FreePanes) \in FreePanes
    BY FreePaneFacts
  <2>6. FreePanes \subseteq Nat
    BY FreePaneFacts, Bounds
  <2>4. Min(FreePanes) \in Nat
    BY <2>5, <2>6
  <2> QED
    BY <2>2, <2>3, <2>4
<1>3. FreePtys # {} /\ Cardinality(FreePtys) >= 2 => Min(FreePtys) # Max(FreePtys)
  <2> SUFFICES ASSUME FreePtys # {}, Cardinality(FreePtys) >= 2, Min(FreePtys) = Max(FreePtys)
      PROVE FALSE
    OBVIOUS
  <2>1. PICK a \in FreePtys : \E b \in FreePtys : a # b
    BY <1>1, ApartEnds
  <2>2. PICK b \in FreePtys : a # b
    BY <2>1
  <2>3. \A id \in FreePtys : id \in Nat /\ Min(FreePtys) <= id /\ id <= Max(FreePtys)
    BY <1>1, FreePtyFacts
  <2>5. Min(FreePtys) \in FreePtys
    BY FreePtyFacts
  <2>6. FreePtys \subseteq Nat
    BY FreePtyFacts, Bounds
  <2>4. Min(FreePtys) \in Nat
    BY <2>5, <2>6
  <2> QED
    BY <2>2, <2>3, <2>4
<1> QED
  BY <1>2, <1>3

\* Enough ids are not none.
LEMMA NoneFree ==
  /\ Cardinality(FreePanes) >= 1 => FreePanes # {}
  /\ Cardinality(FreePtys) >= 1 => FreePtys # {}
BY FS_EmptySet

\* What a layout that lands does: its ptys have tabs, and the open tabs stay.
LayoutLanded(new) ==
  /\ new \subseteq FreePtys /\ running' = running \cup new
  /\ Shows(TabSet(tree'), FreePanes)
  /\ TabsShown \subseteq TabSet(tree')
  /\ \A x \in TabSet(tree') : x \in TabsShown \/ (x.s = NoSession /\ x.id \in new)
  /\ \A id \in new : \E x \in TabSet(tree') : x.id = id

\* The names and ptys LayoutLands gives out differ and are free.
LEMMA LayoutIds ==
  ASSUME NEW shape \in Shapes, NEW started \in SUBSET shape, started # {},
         Cardinality(FreePanes) >= Cardinality(shape), Cardinality(FreePtys) >= Cardinality(started),
         NEW name, NEW pty,
         \A q \in shape : name[q] = IF q = << 1 >> THEN Max(FreePanes) ELSE Min(FreePanes),
         \A q \in shape : pty[q] = IF q = << 1 >> THEN Max(FreePtys) ELSE Min(FreePtys)
  PROVE  /\ \A q \in shape : name[q] \in FreePanes
         /\ \A q \in started : pty[q] \in FreePtys
         /\ \A p, q \in shape : p # q => name[p] # name[q]
         /\ \A p, q \in started : p # q => pty[p] # pty[q]
<1>1. <<0>> # <<1>> /\ <<>> # <<1>>
  OBVIOUS
<1>2. IsFiniteSet(shape) /\ Cardinality(shape) >= 1 /\ (shape # {<<>>} => Cardinality(shape) >= 2)
  <2>1. \A a, b : a # b => IsFiniteSet({a, b}) /\ Cardinality({a, b}) = 2
    <3> SUFFICES ASSUME NEW a, NEW b, a # b PROVE IsFiniteSet({a, b}) /\ Cardinality({a, b}) = 2
      OBVIOUS
    <3>1. IsFiniteSet({a}) /\ Cardinality({a}) = 1 /\ {a, b} = {a} \cup {b} /\ b \notin {a}
      BY FS_Singleton
    <3>2. IsFiniteSet({a} \cup {b}) /\ Cardinality({a} \cup {b}) = Cardinality({a}) + 1
      BY <3>1, FS_AddElement
    <3> QED
      BY <3>1, <3>2
  <2>2. \A a : IsFiniteSet({a}) /\ Cardinality({a}) = 1
    BY FS_Singleton
  <2>3. CASE shape = {<<>>}
    <3>1. IsFiniteSet(shape) /\ Cardinality(shape) = 1
      BY <2>2, <2>3
    <3> QED
      BY <2>3, <3>1
  <2>4. CASE shape = {<<0>>, <<1>>}
    <3>1. IsFiniteSet(shape) /\ Cardinality(shape) = 2
      BY <1>1, <2>1, <2>4
    <3> QED
      BY <3>1
  <2> QED
    BY <2>3, <2>4 DEF Shapes
<1>3. IsFiniteSet(started) /\ Cardinality(started) \in Nat /\ Cardinality(started) >= 1
  <2>1. IsFiniteSet(started)
    BY <1>2, FS_Subset
  <2>2. Cardinality(started) \in Nat /\ Cardinality(started) # 0
    BY <2>1, FS_EmptySet, FS_CardinalityType
  <2> QED
    BY <2>1, <2>2
<1>4. FreePanes # {} /\ FreePtys # {}
  <2>1. IsFiniteSet(FreePanes) /\ IsFiniteSet(FreePtys) /\ Cardinality(shape) \in Nat
    <3>1. IsFiniteSet(1 .. MaxPanes) /\ IsFiniteSet(1 .. MaxPtys)
      BY FS_Interval, Bounds
    <3> QED
      BY <1>2, <3>1, FreePaneFacts, FreePtyFacts, FS_Subset, FS_CardinalityType DEF PaneNames, Ptys
  <2>2. Cardinality(FreePanes) \in Nat /\ Cardinality(FreePtys) \in Nat
    BY <2>1, FS_CardinalityType
  <2> QED
    BY <1>2, <1>3, <2>1, <2>2, NoneFree
<1>5. /\ Min(FreePanes) \in FreePanes /\ Max(FreePanes) \in FreePanes
      /\ Min(FreePtys) \in FreePtys /\ Max(FreePtys) \in FreePtys
  BY <1>4, FreePaneFacts, FreePtyFacts
<1>6. ASSUME NEW p \in shape, NEW q \in shape, p # q
      PROVE  name[p] # name[q] /\ (p \in started /\ q \in started => pty[p] # pty[q])
  <2>1. shape = {<<0>>, <<1>>} /\ Cardinality(shape) >= 2 /\ Cardinality(shape) \in Nat
    BY <1>2, <1>6, FS_CardinalityType DEF Shapes
  <2>2. Min(FreePanes) # Max(FreePanes)
    <3>1. Cardinality(FreePanes) >= 2
      <4>1. IsFiniteSet(FreePanes)
        <5>1. IsFiniteSet(1 .. MaxPanes)
          BY FS_Interval, Bounds
        <5> QED
          BY <5>1, FreePaneFacts, FS_Subset DEF PaneNames
      <4>2. Cardinality(FreePanes) \in Nat
        BY <4>1, FS_CardinalityType
      <4> QED
        BY <2>1, <4>2
    <3> QED
      BY <1>4, <3>1, TwoFree
  <2>3. p \in started /\ q \in started => Min(FreePtys) # Max(FreePtys)
    <3> SUFFICES ASSUME p \in started, q \in started PROVE Min(FreePtys) # Max(FreePtys)
      OBVIOUS
    <3>1. started = shape
      BY <1>6, <2>1
    <3>2. Cardinality(FreePtys) >= 2
      <4>1. IsFiniteSet(FreePtys)
        <5>1. IsFiniteSet(1 .. MaxPtys)
          BY FS_Interval, Bounds
        <5> QED
          BY <5>1, FreePtyFacts, FS_Subset DEF Ptys
      <4>2. Cardinality(FreePtys) \in Nat
        BY <4>1, FS_CardinalityType
      <4> QED
        BY <2>1, <3>1, <4>2
    <3> QED
      BY <1>4, <3>2, TwoFree
  <2>4. (p = <<0>> /\ q = <<1>>) \/ (p = <<1>> /\ q = <<0>>)
    BY <1>6, <2>1
  <2> QED
    BY <1>1, <2>2, <2>3, <2>4
<1>7. \A q \in shape : name[q] \in FreePanes /\ pty[q] \in FreePtys
  BY <1>5
<1> QED
  BY <1>6, <1>7

\* The panes of a layout make a good tree.
LEMMA BuiltTree ==
  ASSUME NEW shape \in Shapes, NEW started \in SUBSET shape, NEW name, NEW pty,
         \A q \in shape : name[q] \in PaneNames, \A q \in started : pty[q] \in Ptys,
         \A p, q \in shape : p # q => name[p] # name[q],
         \A p, q \in started : p # q => pty[p] # pty[q]
  PROVE  /\ GoodTree(Built(shape, started, name, pty)) /\ Built(shape, started, name, pty) # NoTree
         /\ Ids(Built(shape, started, name, pty)) = {name[q] : q \in shape}
         /\ \A x : x \in TabSet(Built(shape, started, name, pty)) <=>
              \E q \in started : x = [s |-> NoSession, id |-> pty[q]]
<1> DEFINE b == Built(shape, started, name, pty)
           tabs(q) == IF q \in started THEN <<[s |-> NoSession, id |-> pty[q]]>> ELSE <<>>
<1>1. DOMAIN b = shape /\ b = [q \in shape |-> b[q]] /\ \A q \in shape :
    b[q] = Pane(name[q], tabs(q), 1, FALSE)
  BY DEF Built
<1>2. TreeShape(b)
  <2> HIDE DEF b
  <2> QED
    BY <1>1, ShapeIs
<1>3. ASSUME NEW q \in shape
      PROVE  /\ GoodPane(b[q]) /\ b[q].id = name[q]
             /\ \A x : x \in ToSet(b[q].tabs) <=> q \in started /\ x = [s |-> NoSession, id |-> pty[q]]
  <2> DEFINE n == name[q]
  <2>0. n \in PaneNames /\ b[q] = Pane(n, tabs(q), 1, FALSE)
    BY <1>1
  <2> HIDE DEF b, n
  <2>1. CASE q \in started
    <3> DEFINE tab == [s |-> NoSession, id |-> pty[q]]
    <3>1. tab \in TabRecs
      BY <2>1 DEF TabRecs, Names
    <3>2. b[q] = Pane(n, <<tab>>, 1, FALSE)
      BY <2>0, <2>1
    <3> HIDE DEF tab, TabRecs
    <3> DEFINE p == Pane(n, <<tab>>, 1, FALSE)
    <3>7. GoodPane(p) /\ p.id = n /\ p.tabs = <<tab>>
      BY <2>0, <3>1, NewPane
    <3>8. b[q] = p
      BY <3>2
    <3> HIDE DEF p
    <3>3. GoodPane(b[q]) /\ b[q].id = n /\ ToSet(b[q].tabs) = {tab}
      BY <3>1, <3>7, <3>8, OneTab
    <3> QED
      BY <2>1, <3>3 DEF tab, n
  <2>2. CASE q \notin started
    <3>1. 1 \in Ptys
      BY Bounds DEF Ptys
    <3>2. [s |-> NoSession, id |-> 1] \in TabRecs
      BY <3>1 DEF TabRecs, Names
    <3> HIDE DEF TabRecs
    <3>3. PICK tab \in TabRecs : TRUE
      BY <3>2
    <3>4. b[q] = Pane(n, <<>>, 1, FALSE)
      BY <2>0, <2>2
    <3> DEFINE p == Pane(n, <<>>, 1, FALSE)
    <3>7. GoodPane(p) /\ p.id = n /\ p.tabs = <<>>
      BY <2>0, <3>3, NewPane
    <3>8. b[q] = p
      BY <3>4
    <3> HIDE DEF p
    <3>5. GoodPane(b[q]) /\ b[q].id = n /\ ToSet(b[q].tabs) = {}
      BY <3>3, <3>7, <3>8, NoTab
    <3> QED
      BY <2>2, <3>5 DEF n
  <2> QED
    BY <2>1, <2>2
<1> HIDE DEF b
<1>4. ASSUME NEW p \in shape, NEW q \in shape, p # q
      PROVE  b[p].id # b[q].id /\ Distinct(b[p].tabs, b[q].tabs)
  <2>1. b[p].id # b[q].id
    BY <1>3, <1>4
  <2>2. ASSUME NEW x \in ToSet(b[p].tabs), NEW y \in ToSet(b[q].tabs)
        PROVE  x.id # y.id
    <3>1. p \in started /\ x = [s |-> NoSession, id |-> pty[p]] /\ q \in started /\
        y = [s |-> NoSession, id |-> pty[q]]
      BY <1>3, <2>2
    <3>2. x.id = pty[p] /\ y.id = pty[q]
      BY <3>1
    <3> QED
      BY <1>4, <3>1, <3>2
  <2> QED
    BY <2>1, <2>2 DEF Distinct
<1>5. GoodTree(b)
  BY <1>1, <1>2, <1>3, <1>4, FromPanes
<1>6. Ids(b) = {name[q] : q \in shape}
  BY <1>1, <1>3 DEF Ids
<1>7. b # NoTree
  BY <1>1, Empty DEF Shapes
<1>8. \A x : x \in TabSet(b) <=> \E q \in started : x = [s |-> NoSession, id |-> pty[q]]
  <2>1. \A x : x \in TabSet(b) <=> \E q \in shape : x \in ToSet(b[q].tabs)
    BY <1>1 DEF TabSet
  <2> QED
    BY <1>3, <2>1
<1> QED
  BY <1>5, <1>6, <1>7, <1>8 DEF b

\* LayoutLands does that.
LEMMA LayoutShows ==
  ASSUME Inv, LayoutLands
  PROVE  \E f \in Calls, new \in SUBSET FreePtys : Answered(f) /\ LayoutLanded(new)
<1>1. PICK f \in BagToSet(flights) : \E shape \in {{<<>>}, {<<0>>, <<1>>}} :
  /\ f.kind = "layout" /\ Answered(f)
  /\ \E started \in (SUBSET shape) \ {{}} :
       /\ Cardinality(FreePanes) >= Cardinality(shape)
       /\ Cardinality(FreePtys) >= Cardinality(started)
       /\ LET pane(q) == IF q = <<1>> THEN Max(FreePanes) ELSE Min(FreePanes)
              pty(q)  == IF q = <<1>> THEN Max(FreePtys) ELSE Min(FreePtys)
              tabs(q) == IF q \in started THEN <<[s |-> NoSession, id |-> pty(q)]>> ELSE <<>>
              next    == MergeOpenTabs([q \in shape |-> Pane(pane(q), tabs(q), 1, FALSE)])
          IN /\ ApplyTree(next, FirstPaneId(next, <<>>))
             /\ running' = running \cup {pty(q) : q \in started}
  BY DEF LayoutLands
<1>2. PICK shape \in Shapes :
  /\ Answered(f)
  /\ \E started \in (SUBSET shape) \ {{}} :
       /\ Cardinality(FreePanes) >= Cardinality(shape)
       /\ Cardinality(FreePtys) >= Cardinality(started)
       /\ LET pane(q) == IF q = <<1>> THEN Max(FreePanes) ELSE Min(FreePanes)
              pty(q)  == IF q = <<1>> THEN Max(FreePtys) ELSE Min(FreePtys)
              tabs(q) == IF q \in started THEN <<[s |-> NoSession, id |-> pty(q)]>> ELSE <<>>
              next    == MergeOpenTabs([q \in shape |-> Pane(pane(q), tabs(q), 1, FALSE)])
          IN /\ ApplyTree(next, FirstPaneId(next, <<>>))
             /\ running' = running \cup {pty(q) : q \in started}
  BY <1>1 DEF Shapes
<1>3. PICK started \in (SUBSET shape) \ {{}} :
       /\ Cardinality(FreePanes) >= Cardinality(shape)
       /\ Cardinality(FreePtys) >= Cardinality(started)
       /\ LET pane(q) == IF q = <<1>> THEN Max(FreePanes) ELSE Min(FreePanes)
              pty(q)  == IF q = <<1>> THEN Max(FreePtys) ELSE Min(FreePtys)
              tabs(q) == IF q \in started THEN <<[s |-> NoSession, id |-> pty(q)]>> ELSE <<>>
              next    == MergeOpenTabs([q \in shape |-> Pane(pane(q), tabs(q), 1, FALSE)])
          IN /\ ApplyTree(next, FirstPaneId(next, <<>>))
             /\ running' = running \cup {pty(q) : q \in started}
  BY <1>2
<1> DEFINE name == [q \in shape |-> IF q = <<1>> THEN Max(FreePanes) ELSE Min(FreePanes)]
           pty  == [q \in shape |-> IF q = <<1>> THEN Max(FreePtys) ELSE Min(FreePtys)]
           b    == Built(shape, started, name, pty)
           next == MergeOpenTabs(b)
           new  == {pty[q] : q \in started}
<1>4. /\ \A q \in shape : name[q] = IF q = <<1>> THEN Max(FreePanes) ELSE Min(FreePanes)
      /\ \A q \in shape : pty[q] = IF q = <<1>> THEN Max(FreePtys) ELSE Min(FreePtys)
      /\ started \subseteq shape /\ started # {}
  OBVIOUS
<1>5. b = [q \in shape |-> Pane(IF q = <<1>> THEN Max(FreePanes) ELSE Min(FreePanes),
                                IF q \in started THEN <<[s |-> NoSession, id |-> IF q = <<1>> THEN Max(FreePtys) ELSE Min(FreePtys)]>> ELSE <<>>,
                                1, FALSE)]
  <2> HIDE DEF name, pty
  <2> QED
    BY <1>4 DEF Built
<1>6. new = {IF q = <<1>> THEN Max(FreePtys) ELSE Min(FreePtys) : q \in started}
  <2> HIDE DEF pty
  <2> QED
    BY <1>4
<1>7. ApplyTree(next, FirstPaneId(next, <<>>)) /\ running' = running \cup new
  <2> HIDE DEF name, pty, b, new
  <2> QED
    BY <1>3, <1>5, <1>6
<1> HIDE DEF name, pty
<1>8. /\ \A q \in shape : name[q] \in FreePanes
      /\ \A q \in started : pty[q] \in FreePtys
      /\ \A p, q \in shape : p # q => name[p] # name[q]
      /\ \A p, q \in started : p # q => pty[p] # pty[q]
  BY <1>3, <1>4, LayoutIds
<1>9. /\ GoodTree(b) /\ b # NoTree /\ Ids(b) = {name[q] : q \in shape}
      /\ \A x : x \in TabSet(b) <=> \E q \in started : x = [s |-> NoSession, id |-> pty[q]]
  <2>1. (\A q \in shape : name[q] \in PaneNames) /\ \A q \in started : pty[q] \in Ptys
    BY <1>8, FreePaneFacts, FreePtyFacts
  <2> HIDE DEF b
  <2> QED
    BY <1>4, <1>8, <2>1, BuiltTree DEF b
<1> HIDE DEF b
<1>10. Ids(b) \subseteq FreePanes
  BY <1>8, <1>9
<1>11. \A x \in TabSet(b) : x.s = NoSession /\ x.id \in new
  BY <1>9
<1>12. new \subseteq FreePtys /\ \A id \in new : \E x \in TabSet(b) : x.id = id
  <2>1. \A q \in started : [s |-> NoSession, id |-> pty[q]] \in TabSet(b) /\
      [s |-> NoSession, id |-> pty[q]].id = pty[q]
    BY <1>9
  <2> QED
    BY <1>8, <2>1
<1> HIDE DEF new
<1>13. \A x \in TabSet(b), y \in TabsShown : x.id # y.id
  BY <1>11, <1>12, FreePtyFacts
<1>14. GoodTree(next) /\ Ids(next) = Ids(b) /\ TabSet(next) = TabsShown \cup TabSet(b)
  <2>1. GoodTree(tree)
    BY DEF Inv
  <2> QED
    BY <1>9, <1>13, <2>1, MergedTree
<1> HIDE DEF next
<1>15. tree' = next /\ focused' = FirstPaneId(next, <<>>) /\ Persist(next)
  BY <1>7 DEF ApplyTree
<1>16. Focused'
  <2>1. next # NoTree
    BY <1>9, <1>14, OuterPanes DEF GoodTree
  <2>2. FirstPaneId(next, <<>>) \in Ids(next)
    BY <1>14, <2>1, OuterPanes DEF GoodTree
  <2> QED
    BY <1>10, <1>14, <1>15, <2>2, FreePaneFacts DEF Focused, FocusThere
<1>17. LayoutLanded(new)
  <2>1. Shows(TabSet(tree'), FreePanes)
    BY <1>10, <1>14, <1>15, <1>16 DEF Shows
  <2> QED
    BY <1>7, <1>11, <1>12, <1>14, <1>15, <2>1 DEF LayoutLanded
<1> QED
  BY <1>1, <1>12, <1>17 DEF Calls

-----------------------------------------------------------------------------
(* A restore.                                                              *)

\* Fresh gives each a name of its own, when there are enough.
LEMMA FreshIs ==
  ASSUME NEW S, IsFiniteSet(S), NEW I, IsFiniteSet(I), Cardinality(I) >= Cardinality(S)
  PROVE  Fresh(S, I) \in [S -> I] /\ \A x, y \in S : Fresh(S, I)[x] = Fresh(S, I)[y] => x = y
<1>1. \E f \in [S -> I] : IsInjective(f)
  BY FreshFacts
<1>2. Fresh(S, I) \in [S -> I] /\ IsInjective(Fresh(S, I))
  BY <1>1 DEF Fresh
<1> DEFINE f == Fresh(S, I)
<1>3. f \in [S -> I] /\ IsInjective(f)
  BY <1>2
<1> HIDE DEF f
<1>4. \A x, y \in S : f[x] = f[y] => x = y
  BY <1>3 DEF IsInjective
<1> QED
  BY <1>3, <1>4 DEF f

\* What is to be restored: finitely many panes and tabs.
LEMMA TabsToRestore ==
  ASSUME GoodSaved(restoring)
  PROVE  /\ IsFiniteSet(DOMAIN restoring) /\ IsFiniteSet(SavedTabs)
         /\ \A q \in DOMAIN restoring : /\ restoring[q].ss \in Seq(Names) /\ Len(restoring[q].ss) \in Nat
                                        /\ restoring[q].active \in Nat \ {0} /\
                                             restoring[q].svc \in BOOLEAN
         /\ \A x : x \in SavedTabs <=> \E q \in DOMAIN restoring :
              \E i \in 1 .. Len(restoring[q].ss) : x = <<q, i>>
<1>1. IsFiniteSet(DOMAIN restoring)
  BY DEF GoodSaved, TreeShape
<1>2. \A q \in DOMAIN restoring : /\ restoring[q].ss \in Seq(Names) /\ Len(restoring[q].ss) \in Nat
                                  /\ restoring[q].active \in Nat \ {0} /\ restoring[q].svc \in BOOLEAN
  <2> SUFFICES ASSUME NEW q \in DOMAIN restoring
               PROVE /\ restoring[q].ss \in Seq(Names) /\ Len(restoring[q].ss) \in Nat
                     /\ restoring[q].active \in Nat \ {0} /\ restoring[q].svc \in BOOLEAN
    OBVIOUS
  <2> DEFINE d == restoring[q]
  <2>1. d \in SavedPanes
    BY DEF GoodSaved
  <2> HIDE DEF d, Names
  <2>2. d.ss \in Seq(Names) /\ d.active \in Nat \ {0} /\ d.svc \in BOOLEAN
    BY <2>1 DEF SavedPanes
  <2> QED
    BY <2>2 DEF d
<1>3. \A x : x \in SavedTabs <=> \E q \in DOMAIN restoring : \E i \in 1 .. Len(restoring[q].ss) :
    x = <<q, i>>
  BY DEF SavedTabs
<1>4. IsFiniteSet(SavedTabs)
  <2> DEFINE part(q) == {q} \X (1 .. Len(restoring[q].ss))
             parts == {part(q) : q \in DOMAIN restoring}
  <2>1. SavedTabs = UNION parts
    BY DEF SavedTabs
  <2>2. \A q \in DOMAIN restoring : IsFiniteSet(part(q))
    <3> SUFFICES ASSUME NEW q \in DOMAIN restoring PROVE IsFiniteSet({q} \X (1 .. Len(restoring[q].ss)))
      OBVIOUS
    <3>1. IsFiniteSet({q}) /\ IsFiniteSet(1 .. Len(restoring[q].ss))
      <4> DEFINE n == Len(restoring[q].ss)
      <4>1. n \in Int /\ 1 \in Int
        BY <1>2
      <4> HIDE DEF n
      <4>2. IsFiniteSet(1 .. n)
        BY <4>1, FS_Interval
      <4> QED
        BY <4>2, FS_Singleton DEF n
    <3> QED
      BY <3>1, FS_Product
  <2>3. IsFiniteSet(parts)
    <3> DEFINE f == [q \in DOMAIN restoring |-> part(q)]
    <3>1. parts = {f[q] : q \in DOMAIN restoring}
      OBVIOUS
    <3> HIDE DEF f, parts
    <3> QED
      BY <1>1, <3>1, ImageFinite
  <2>4. \A s \in parts : IsFiniteSet(s)
    BY <2>2
  <2> HIDE DEF parts
  <2> QED
    BY <2>1, <2>3, <2>4, FS_UNION
<1> QED
  BY <1>1, <1>2, <1>3, <1>4

\* The parts of Reified.
Up(failed, q) == {i \in 1 .. Len(restoring[q].ss) : <<q, i>> \notin failed}

\* The tabs of a leaf that started,
LeafTabs(failed, pty, q) ==
  LET is == InOrder(Up(failed, q), <)
  IN [k \in 1 .. Len(is) |-> [s |-> restoring[q].ss[is[k]], id |-> pty[<<q, is[k]>>]]]

\* how many they are,
HowMany(failed, q) == Len(InOrder(Up(failed, q), <))

\* the active one of them,
LeafActive(failed, q) ==
  IF restoring[q].active \in Up(failed, q)
      THEN Cardinality({k \in Up(failed, q) : k <= restoring[q].active})
  ELSE Max({1, Min({restoring[q].active, HowMany(failed, q)})})

\* the tree of them,
LeafTree(failed, name, pty) ==
  [q \in DOMAIN restoring |-> Pane(name[q], LeafTabs(failed, pty, q), LeafActive(failed, q),
      restoring[q].svc)]

\* and the panes without one.
BareOf(failed, name) == {name[q] : q \in {p \in DOMAIN restoring : Up(failed, p) = {} /\
    ~restoring[p].svc}}

\* Reified, by those parts.
LEMMA ReifiedIs ==
  ASSUME NEW failed
  PROVE  Reified(failed) = RemovePanes(LeafTree(failed, Fresh(DOMAIN restoring, FreePanes),
      Fresh(SavedTabs, FreePtys)),
                                       BareOf(failed, Fresh(DOMAIN restoring, FreePanes)))
BY DEF Reified, LeafTree, BareOf, LeafTabs, LeafActive, HowMany, Up

\* The tab that is brought back for one that was saved.
TabOf(pty, q, i) == [s |-> restoring[q].ss[i], id |-> pty[<<q, i>>]]

\* The tabs are those of a leaf that did not fail.
Holds(tabs, failed, pty, q) == \A x : x \in ToSet(tabs) <=> \E i \in Up(failed, q) : x = TabOf(pty, q, i)

\* The tabs of a leaf that did not fail, each with a pty of its own.
LEMMA LeafTabsFacts ==
  ASSUME GoodSaved(restoring), NEW failed, NEW pty \in [SavedTabs -> FreePtys],
         \A x, y \in SavedTabs : pty[x] = pty[y] => x = y, NEW q \in DOMAIN restoring
  PROVE  /\ LeafTabs(failed, pty, q) \in Seq(TabRecs) /\ Apart(LeafTabs(failed, pty, q))
         /\ Len(LeafTabs(failed, pty, q)) = Cardinality(Up(failed, q)) /\
              Cardinality(Up(failed, q)) \in Nat
         /\ HowMany(failed, q) = Cardinality(Up(failed, q))
         /\ Holds(LeafTabs(failed, pty, q), failed, pty, q)
<1> DEFINE up == Up(failed, q)
           is == InOrder(up, <)
           n  == Cardinality(up)
           ss == restoring[q].ss
           r  == LeafTabs(failed, pty, q)
           rec(i) == [s |-> ss[i], id |-> pty[<<q, i>>]]
<1>1. ss \in Seq(Names) /\ Len(ss) \in Nat /\ up \in SUBSET (1 .. Len(ss)) /\ \A i \in 1 .. Len(ss) :
    <<q, i>> \in SavedTabs
  BY TabsToRestore DEF Up
<1> HIDE DEF up
<1>2. /\ n \in Nat /\ is \in [1 .. n -> up]
      /\ \A x \in up : \E k \in 1 .. n : is[k] = x
      /\ \A i, j \in 1 .. n : is[i] = is[j] => i = j
  <2> DEFINE m == Len(ss)
  <2>1. m \in Nat /\ up \in SUBSET (1 .. m)
    BY <1>1
  <2> HIDE DEF m, ss
  <2> QED
    BY <2>1, InOrderFacts
<1>3. r = [k \in 1 .. Len(is) |-> rec(is[k])]
  BY DEF LeafTabs, up
<1> HIDE DEF is, n, r
<1>4. Len(is) = n
  BY <1>2
<1>5. \A k \in 1 .. n : is[k] \in 1 .. Len(ss) /\ is[k] \in up
  BY <1>1, <1>2
<1>6. \A k \in 1 .. n : r[k] = rec(is[k])
  <2> HIDE DEF rec
  <2> QED
    BY <1>3, <1>4
<1>7. DOMAIN r = 1 .. n
  <2> HIDE DEF rec
  <2> QED
    BY <1>3, <1>4
<1>8. \A i \in 1 .. Len(ss) : rec(i) \in TabRecs /\ rec(i).id = pty[<<q, i>>]
  <2> SUFFICES ASSUME NEW i \in 1 .. Len(ss) PROVE rec(i) \in TabRecs /\ rec(i).id = pty[<<q, i>>]
    OBVIOUS
  <2> DEFINE s == ss[i]
             id == pty[<<q, i>>]
  <2>1. s \in Names /\ id \in Ptys
    <3> HIDE DEF ss, Names
    <3>1. s \in Names
      BY <1>1
    <3>2. id \in Ptys
      BY <1>1, FreePtyFacts
    <3> QED
      BY <3>1, <3>2
  <2> HIDE DEF s, id
  <2>2. [s |-> s, id |-> id] \in TabRecs /\ [s |-> s, id |-> id].id = id
    BY <2>1 DEF TabRecs
  <2> QED
    BY <2>2 DEF s, id
<1> HIDE DEF rec, TabRecs, ss
<1>9. r \in [1 .. n -> TabRecs]
  <2>1. r = [k \in 1 .. n |-> rec(is[k])]
    BY <1>3, <1>4
  <2>2. \A k \in 1 .. n : rec(is[k]) \in TabRecs
    BY <1>5, <1>8
  <2> QED
    BY <2>1, <2>2
<1>10. r \in Seq(TabRecs) /\ Len(r) = n
  BY <1>2, <1>9
<1>11. Apart(r)
  <2> SUFFICES ASSUME NEW i \in 1 .. n, NEW j \in 1 .. n, r[i].id = r[j].id PROVE i = j
    BY <1>10 DEF Apart
  <2>1. pty[<<q, is[i]>>] = pty[<<q, is[j]>>]
    BY <1>5, <1>6, <1>8
  <2>2. <<q, is[i]>> = <<q, is[j]>>
    BY <1>1, <1>5, <2>1
  <2>3. is[i] = is[j]
    BY <2>2
  <2> QED
    BY <1>2, <2>3
<1>12. \A x : x \in ToSet(r) <=> \E i \in up : x = rec(i)
  <2>1. \A x : x \in ToSet(r) <=> \E k \in 1 .. n : x = r[k]
    BY <1>10, ToSetFacts
  <2>2. \A x : (\E k \in 1 .. n : x = r[k]) => \E i \in up : x = rec(i)
    BY <1>5, <1>6
  <2>3. \A x : (\E i \in up : x = rec(i)) => \E k \in 1 .. n : x = r[k]
    BY <1>2, <1>6
  <2> QED
    BY <2>1, <2>2, <2>3
<1>13. HowMany(failed, q) = n
  BY <1>4 DEF HowMany, is, up
<1> QED
  BY <1>2, <1>10, <1>11, <1>12, <1>13 DEF r, up, n, rec, ss, TabOf, Holds

\* The active tab of a restored pane is one it has.
LEMMA LeafActiveFacts ==
  ASSUME GoodSaved(restoring), NEW failed, NEW q \in DOMAIN restoring,
         HowMany(failed, q) = Cardinality(Up(failed, q))
  PROVE  /\ LeafActive(failed, q) \in Nat \ {0}
         /\ LeafActive(failed, q) = 1 \/ LeafActive(failed, q) <= Cardinality(Up(failed, q))
<1> DEFINE up == Up(failed, q)
           n  == Cardinality(up)
           m  == Len(restoring[q].ss)
           act == restoring[q].active
           a  == LeafActive(failed, q)
           some == {k \in up : k <= act}
<1>1. m \in Nat /\ up \subseteq 1 .. m /\ act \in Nat \ {0}
  BY TabsToRestore DEF Up
<1>2. a = IF act \in up THEN Cardinality(some) ELSE Max({1, Min({act, n})})
  BY DEF LeafActive
<1> HIDE DEF a, act, m, up
<1>3. IsFiniteSet(up)
  <2>1. IsFiniteSet(1 .. m)
    BY <1>1, FS_Interval
  <2> QED
    BY <1>1, <2>1, FS_Subset
<1>4. n \in Nat
  BY <1>3, FS_CardinalityType
<1>5. ASSUME act \in up PROVE a \in Nat \ {0} /\ (a = 1 \/ a <= n)
  <2>1. some \subseteq up /\ act \in some
    BY <1>1, <1>5
  <2> HIDE DEF some
  <2>2. IsFiniteSet(some) /\ Cardinality(some) <= n
    BY <1>3, <2>1, FS_Subset
  <2>3. Cardinality(some) \in Nat /\ Cardinality(some) # 0
    BY <2>1, <2>2, FS_CardinalityType, FS_EmptySet
  <2> HIDE DEF n
  <2> QED
    BY <1>2, <1>4, <1>5, <2>2, <2>3 DEF n
<1>6. ASSUME act \notin up PROVE a \in Nat \ {0} /\ (a = 1 \/ a <= n)
  <2> HIDE DEF n, some
  <2> DEFINE S == {act, n}
             x == Min(S)
             R == {1, x}
  <2>1. x \in S /\ \A y \in S : x <= y
    <3>1. S \in SUBSET Nat /\ S # {}
      BY <1>1, <1>4
    <3> HIDE DEF S
    <3> QED
      BY <3>1, NumberMin
  <2>2. x \in Nat /\ x <= n
    BY <1>1, <1>4, <2>1
  <2> HIDE DEF x, S
  <2>3. Max(R) \in R /\ \A y \in R : y <= Max(R)
    <3>1. x + 1 \in Nat /\ R \in SUBSET (0 .. x + 1) /\ R # {}
      BY <2>2
    <3> DEFINE z == x + 1
    <3>2. z \in Nat /\ R \in SUBSET (0 .. z) /\ R # {}
      BY <3>1
    <3> HIDE DEF R, z
    <3> QED
      BY <3>2, NumberMax
  <2>4. a = Max(R)
    BY <1>2, <1>6 DEF x, S
  <2>5. a = 1 \/ a = x
    BY <2>3, <2>4
  <2>6. 1 <= a
    BY <2>3, <2>4
  <2> HIDE DEF R
  <2>7. a \in Nat \ {0}
    BY <2>2, <2>5, <2>6
  <2>8. a = 1 \/ a <= n
    BY <2>2, <2>5
  <2> QED
    BY <2>7, <2>8
<1>7. a \in Nat \ {0} /\ (a = 1 \/ a <= n)
  BY <1>5, <1>6
<1> QED
  BY <1>7 DEF a, n, up

\* A tree of the same shape.
LEMMA SameShape ==
  ASSUME NEW t, TreeShape(t), NEW u, DOMAIN u = DOMAIN t, u = [q \in DOMAIN u |-> u[q]]
  PROVE  TreeShape(u)
<1>1. Nodes(u) = Nodes(t)
  BY DEF Nodes
<1> QED
  BY <1>1 DEF TreeShape

\* The panes are those that were saved, with the tabs that did not fail.
Reifies(t, failed, name, pty) ==
  /\ GoodTree(t) /\ Ids(t) = {name[q] : q \in DOMAIN restoring}
  /\ \A q \in DOMAIN restoring : t[q].id = name[q]
  /\ \A q \in DOMAIN restoring : PaneOf(t, name[q]) = t[q]
  /\ \A q \in DOMAIN restoring : \A x : x \in ToSet(t[q].tabs) <=>
                     \E i \in Up(failed, q) : x = TabOf(pty, q, i)

\* The leaves of Reified are that, before the panes it leaves bare go.
LEMMA LeafTreeFacts ==
  ASSUME GoodSaved(restoring), NEW failed,
         NEW name \in [DOMAIN restoring -> FreePanes], \A x, y \in DOMAIN restoring :
             name[x] = name[y] => x = y,
         NEW pty \in [SavedTabs -> FreePtys], \A x, y \in SavedTabs : pty[x] = pty[y] => x = y
  PROVE  Reifies(LeafTree(failed, name, pty), failed, name, pty)
<1> DEFINE t == LeafTree(failed, name, pty)
<1>1. /\ DOMAIN t = DOMAIN restoring /\ t = [q \in DOMAIN t |-> t[q]]
      /\ \A q \in DOMAIN restoring : t[q] = Pane(name[q], LeafTabs(failed, pty, q),
           LeafActive(failed, q), restoring[q].svc)
  BY DEF LeafTree
<1> HIDE DEF t
<1>2. ASSUME NEW q \in DOMAIN restoring
      PROVE  /\ GoodPane(t[q]) /\ t[q].id = name[q] /\ t[q].tabs = LeafTabs(failed, pty, q)
  <2> DEFINE tabs == LeafTabs(failed, pty, q)
             act == LeafActive(failed, q)
             svc == restoring[q].svc
             id  == name[q]
  <2>1. tabs \in Seq(TabRecs) /\ Apart(tabs) /\ Len(tabs) = Cardinality(Up(failed, q))
    BY LeafTabsFacts
  <2>2. act \in Nat \ {0} /\ (act = 1 \/ act <= Len(tabs))
    <3>1. HowMany(failed, q) = Cardinality(Up(failed, q))
      BY LeafTabsFacts
    <3> QED
      BY <2>1, <3>1, LeafActiveFacts
  <2>3. svc \in BOOLEAN /\ id \in PaneNames
    BY TabsToRestore, FreePaneFacts
  <2>4. t[q] = Pane(id, tabs, act, svc)
    BY <1>1
  <2> HIDE DEF tabs, act, svc, id, TabRecs
  <2>5. t[q] = [id |-> id, tabs |-> tabs, active |-> act, svc |-> svc]
    BY <2>4 DEF Pane
  <2>6. GoodPane([id |-> id, tabs |-> tabs, active |-> act, svc |-> svc])
    BY <2>1, <2>2, <2>3, PaneMade
  <2> QED
    BY <2>5, <2>6 DEF id, tabs
<1>3. ASSUME NEW q \in DOMAIN restoring
      PROVE  \A x : x \in ToSet(t[q].tabs) <=> \E i \in Up(failed, q) : x = TabOf(pty, q, i)
  <2>1. Holds(LeafTabs(failed, pty, q), failed, pty, q)
    BY LeafTabsFacts
  <2> QED
    BY <1>2, <2>1 DEF Holds
<1>4. \A q \in DOMAIN restoring : \A i \in Up(failed, q) : <<q, i>> \in SavedTabs
  BY TabsToRestore DEF Up
<1>5. ASSUME NEW p \in DOMAIN restoring, NEW q \in DOMAIN restoring, p # q
      PROVE  t[p].id # t[q].id /\ Distinct(t[p].tabs, t[q].tabs)
  <2>1. t[p].id # t[q].id
    BY <1>2, <1>5
  <2>2. ASSUME NEW x \in ToSet(t[p].tabs), NEW y \in ToSet(t[q].tabs)
        PROVE  x.id # y.id
    <3>1. PICK i \in Up(failed, p) : x = TabOf(pty, p, i)
      BY <1>3, <2>2
    <3>2. PICK j \in Up(failed, q) : y = TabOf(pty, q, j)
      BY <1>3, <2>2
    <3>3. x.id = pty[<<p, i>>] /\ y.id = pty[<<q, j>>]
      BY <3>1, <3>2 DEF TabOf
    <3>4. <<p, i>> # <<q, j>> /\ <<p, i>> \in SavedTabs /\ <<q, j>> \in SavedTabs
      BY <1>4, <1>5
    <3> QED
      BY <3>3, <3>4
  <2> QED
    BY <2>1, <2>2 DEF Distinct
<1>6. TreeShape(t)
  <2>1. TreeShape(restoring)
    BY DEF GoodSaved
  <2> QED
    BY <1>1, <2>1, SameShape
<1>7. GoodTree(t)
  BY <1>1, <1>2, <1>5, <1>6, FromPanes
<1>8. Ids(t) = {name[q] : q \in DOMAIN restoring}
  BY <1>1, <1>2 DEF Ids
<1>9. \A q \in DOMAIN restoring : PaneOf(t, name[q]) = t[q]
  BY <1>1, <1>2, <1>7, IdFacts DEF GoodTree, Tree
<1> QED
  BY <1>2, <1>3, <1>7, <1>8, <1>9 DEF Reifies, t

\* The free ids are finitely many.
LEMMA FreeFinite == IsFiniteSet(FreePanes) /\ IsFiniteSet(FreePtys)
<1>1. IsFiniteSet(1 .. MaxPanes) /\ IsFiniteSet(1 .. MaxPtys)
  BY FS_Interval, Bounds
<1> QED
  BY <1>1, FreePaneFacts, FreePtyFacts, FS_Subset DEF PaneNames, Ptys

\* reifyTree gives a good tree of the tabs that did not fail, with new names and ptys.
LEMMA ReifiedFacts ==
  ASSUME GoodSaved(restoring), NEW failed,
         Cardinality(FreePanes) >= Cardinality(DOMAIN restoring),
             Cardinality(FreePtys) >= Cardinality(SavedTabs)
  PROVE  /\ GoodTree(Reified(failed)) /\ Ids(Reified(failed)) \subseteq FreePanes
         /\ \A x \in TabSet(Reified(failed)) : /\ x.id \in FreePtys
                                               /\ \E q \in DOMAIN restoring :
                                                    \E i \in Up(failed, q) : x.s = restoring[q].ss[i]
         /\ \A q \in DOMAIN restoring : \A i \in Up(failed, q) : \E x \in TabSet(Reified(failed)) :
              x.s = restoring[q].ss[i]
<1> DEFINE name == Fresh(DOMAIN restoring, FreePanes)
           pty  == Fresh(SavedTabs, FreePtys)
           t    == LeafTree(failed, name, pty)
           bare == BareOf(failed, name)
           next == Reified(failed)
<1>1. next = RemovePanes(t, bare)
  BY ReifiedIs
<1>2. name \in [DOMAIN restoring -> FreePanes] /\ \A x, y \in DOMAIN restoring : name[x] = name[y] =>
    x = y
  BY TabsToRestore, FreeFinite, FreshIs
<1>3. pty \in [SavedTabs -> FreePtys] /\ \A x, y \in SavedTabs : pty[x] = pty[y] => x = y
  BY TabsToRestore, FreeFinite, FreshIs
<1> HIDE DEF next, name, pty
<1>4. Reifies(t, failed, name, pty)
  BY <1>2, <1>3, LeafTreeFacts
<1>5. bare \subseteq Ids(t) /\ IsFiniteSet(bare) /\ \A q \in DOMAIN restoring : name[q] \in bare =>
    Up(failed, q) = {}
  <2>1. \A q \in DOMAIN restoring : name[q] \in bare => Up(failed, q) = {}
    BY <1>2 DEF BareOf
  <2>2. bare \subseteq Ids(t)
    BY <1>4 DEF BareOf, Reifies
  <2>3. bare \subseteq FreePanes
    BY <1>2 DEF BareOf
  <2> QED
    BY <2>1, <2>2, <2>3, FreeFinite, FS_Subset
<1> HIDE DEF t, bare
<1>6. GoodTree(t) /\ Tree(t)
  BY <1>4 DEF Reifies, GoodTree
<1>7. /\ Tree(next) /\ Ids(next) = Ids(t) \ bare
      /\ \A o \in Ids(t) \ bare : PaneOf(next, o) = PaneOf(t, o)
  BY <1>1, <1>5, <1>6, RemovePanesKeepsTheOthers
<1>8. GoodTree(next) /\ \A x : x \in TabSet(next) <=>
    \E o \in Ids(t) \ bare : x \in ToSet(PaneOf(t, o).tabs)
  BY <1>5, <1>6, <1>7, PanesGone
<1>9. \A q \in DOMAIN restoring : \A i \in Up(failed, q) : <<q, i>> \in SavedTabs
  BY TabsToRestore DEF Up
<1>10. Ids(next) \subseteq FreePanes
  BY <1>2, <1>4, <1>7 DEF Reifies
<1>11. ASSUME NEW x \in TabSet(next)
       PROVE  x.id \in FreePtys /\ \E q \in DOMAIN restoring : \E i \in Up(failed, q) :
           x.s = restoring[q].ss[i]
  <2>1. PICK o \in Ids(t) : x \in ToSet(PaneOf(t, o).tabs)
    BY <1>8
  <2>2. PICK q \in DOMAIN restoring : o = name[q]
    BY <1>4, <2>1 DEF Reifies
  <2>3. x \in ToSet(t[q].tabs)
    BY <1>4, <2>1, <2>2 DEF Reifies
  <2>4. PICK i \in Up(failed, q) : x = TabOf(pty, q, i)
    BY <1>4, <2>3 DEF Reifies
  <2>5. x.id = pty[<<q, i>>] /\ x.s = restoring[q].ss[i]
    BY <2>4 DEF TabOf
  <2> QED
    BY <1>3, <1>9, <2>5
<1>12. ASSUME NEW q \in DOMAIN restoring, NEW i \in Up(failed, q)
       PROVE  \E x \in TabSet(next) : x.s = restoring[q].ss[i]
  <2> DEFINE x == TabOf(pty, q, i)
  <2>1. x.s = restoring[q].ss[i]
    BY DEF TabOf
  <2> HIDE DEF x
  <2>2. x \in ToSet(t[q].tabs)
    BY <1>4 DEF Reifies, x
  <2>3. name[q] \in Ids(t) /\ name[q] \notin bare /\ PaneOf(t, name[q]) = t[q]
    BY <1>4, <1>5 DEF Reifies
  <2>4. x \in TabSet(next)
    BY <1>8, <2>2, <2>3
  <2> QED
    BY <2>1, <2>4
<1> QED
  BY <1>8, <1>10, <1>11, <1>12 DEF next

\* The sessions that were saved.
LEMMA SavedSessionsAre ==
  ASSUME GoodSaved(restoring)
  PROVE  \A x : x \in SavedSessions(restoring) <=>
                  x # NoSession /\ \E q \in DOMAIN restoring : \E i \in 1 .. Len(restoring[q].ss) :
                      x = restoring[q].ss[i]
<1>1. \A q \in DOMAIN restoring : \A x : x \in ToSet(restoring[q].ss) <=>
    \E i \in 1 .. Len(restoring[q].ss) : x = restoring[q].ss[i]
  <2> SUFFICES ASSUME NEW q \in DOMAIN restoring
               PROVE  \A x : x \in ToSet(restoring[q].ss) <=>
                   \E i \in 1 .. Len(restoring[q].ss) : x = restoring[q].ss[i]
    OBVIOUS
  <2> DEFINE s == restoring[q].ss
  <2>1. s \in Seq(Names)
    BY TabsToRestore
  <2> HIDE DEF s, Names
  <2>2. \A x : x \in ToSet(s) <=> \E i \in 1 .. Len(s) : x = s[i]
    BY <2>1, ToSetFacts
  <2> QED
    BY <2>2 DEF s
<1>2. \A x : x \in SavedSessions(restoring) <=>
    x # NoSession /\ \E q \in DOMAIN restoring : x \in ToSet(restoring[q].ss)
  BY DEF SavedSessions
<1>3. ASSUME NEW x
      PROVE  (\E q \in DOMAIN restoring : x \in ToSet(restoring[q].ss))
               <=> \E q \in DOMAIN restoring : \E i \in 1 .. Len(restoring[q].ss) :
                   x = restoring[q].ss[i]
  <2>1. ASSUME NEW q \in DOMAIN restoring
        PROVE  x \in ToSet(restoring[q].ss) <=>
            \E i \in 1 .. Len(restoring[q].ss) : x = restoring[q].ss[i]
    BY <1>1
  <2> QED
    BY <2>1, Zenon
<1> QED
  BY <1>2, <1>3, Zenon

\* A saved session is brought back, or its start failed.
LEMMA RestoredSessions ==
  ASSUME GoodSaved(restoring), NEW failed \in SUBSET SavedTabs, NEW tabs,
         \A x \in tabs : \E q \in DOMAIN restoring : \E i \in Up(failed, q) : x.s = restoring[q].ss[i],
         \A q \in DOMAIN restoring : \A i \in Up(failed, q) : \E x \in tabs : x.s = restoring[q].ss[i]
  PROVE  /\ SessionsOf(tabs) \subseteq SavedSessions(restoring)
         /\ SavedSessions(restoring) \subseteq SessionsOf(tabs) \cup LostSessions(failed)
         /\ LostSessions(failed) \subseteq SavedSessions(restoring)
<1>1. \A x : x \in SavedSessions(restoring) <=>
                  x # NoSession /\ \E q \in DOMAIN restoring : \E i \in 1 .. Len(restoring[q].ss) :
                      x = restoring[q].ss[i]
  BY SavedSessionsAre
<1>2. \A x : x \in SessionsOf(tabs) <=> x # NoSession /\ \E y \in tabs : x = y.s
  BY DEF SessionsOf
<1>3. \A x : x \in LostSessions(failed) <=> x # NoSession /\ \E g \in failed :
    x = restoring[g[1]].ss[g[2]]
  BY DEF LostSessions
<1>4. \A q \in DOMAIN restoring : \A i : i \in Up(failed, q) <=>
    i \in 1 .. Len(restoring[q].ss) /\ <<q, i>> \notin failed
  BY DEF Up
<1>5. SessionsOf(tabs) \subseteq SavedSessions(restoring)
  <2> SUFFICES ASSUME NEW x \in SessionsOf(tabs) PROVE x \in SavedSessions(restoring)
    OBVIOUS
  <2>1. PICK y \in tabs : x = y.s
    BY <1>2
  <2>2. PICK q \in DOMAIN restoring : \E i \in Up(failed, q) : y.s = restoring[q].ss[i]
    OBVIOUS
  <2>3. PICK i \in Up(failed, q) : y.s = restoring[q].ss[i]
    BY <2>2
  <2> QED
    BY <1>1, <1>2, <1>4, <2>1, <2>3
<1>6. SavedSessions(restoring) \subseteq SessionsOf(tabs) \cup LostSessions(failed)
  <2> SUFFICES ASSUME NEW x \in SavedSessions(restoring), x \notin SessionsOf(tabs)
      PROVE x \in LostSessions(failed)
    OBVIOUS
  <2>1. PICK q \in DOMAIN restoring : x # NoSession /\ \E i \in 1 .. Len(restoring[q].ss) :
      x = restoring[q].ss[i]
    BY <1>1
  <2>2. PICK i \in 1 .. Len(restoring[q].ss) : x = restoring[q].ss[i]
    BY <2>1
  <2>3. <<q, i>> \in failed
    <3>1. SUFFICES ASSUME <<q, i>> \notin failed PROVE FALSE
      OBVIOUS
    <3>2. i \in Up(failed, q)
      BY <1>4, <3>1
    <3> QED
      BY <1>2, <2>1, <2>2, <3>2
  <2>4. <<q, i>>[1] = q /\ <<q, i>>[2] = i
    OBVIOUS
  <2> QED
    BY <1>3, <2>1, <2>2, <2>3, <2>4
<1>7. LostSessions(failed) \subseteq SavedSessions(restoring)
  <2> SUFFICES ASSUME NEW x \in LostSessions(failed) PROVE x \in SavedSessions(restoring)
    OBVIOUS
  <2>1. PICK g \in failed : x = restoring[g[1]].ss[g[2]] /\ x # NoSession
    BY <1>3
  <2>2. PICK q \in DOMAIN restoring : \E i \in 1 .. Len(restoring[q].ss) : g = <<q, i>>
    BY TabsToRestore
  <2>3. PICK i \in 1 .. Len(restoring[q].ss) : g = <<q, i>>
    BY <2>2
  <2>4. g[1] = q /\ g[2] = i
    BY <2>3
  <2> QED
    BY <1>1, <2>1, <2>4
<1> QED
  BY <1>5, <1>6, <1>7

\* What was saved is on screen or failed.
RestoreLost(failed, tabs) ==
  /\ SessionsOf(tabs) \subseteq SavedSessions(restoring)
  /\ SavedSessions(restoring) \subseteq SessionsOf(tabs) \cup LostSessions(failed)
  /\ LostSessions(failed) \subseteq SavedSessions(restoring)

\* What the step of a restore that brings something back does.
RestoreLanded(failed, tabs) ==
  /\ GoodTree(tree') /\ Focused' /\ tabs = TabSet(tree')
  /\ Ids(tree') \subseteq FreePanes /\ \A x \in tabs : x.id \in FreePtys
  /\ RestoreLost(failed, tabs)
  /\ running' = running \cup {tab.id : tab \in tabs}
  /\ history' = history \cup LostSessions(failed)
  /\ IF failed = {} THEN Persist(tree') ELSE UNCHANGED <<disk, hold, live>>

\* Restore brings nothing back and lists all of it, or does that.
LEMMA RestoreShows ==
  ASSUME GoodSaved(restoring), Restore
  PROVE  \/ /\ hold' = TRUE
            /\ history' = history \cup SavedSessions(restoring)
            /\ UNCHANGED <<tree, focused, disk, live, running>>
         \/ \E failed \in SUBSET SavedTabs : \E tabs : RestoreLanded(failed, tabs)
<1>1. PICK failed \in SUBSET SavedTabs :
       LET next == Reified(failed) IN
       IF next = NoTree
       THEN /\ hold' = TRUE
            /\ history' = history \cup SavedSessions(restoring)
            /\ UNCHANGED <<tree, focused, disk, live, running>>
       ELSE /\ tree' = next
            /\ focused' \in Ids(next)
            /\ running' = running \cup {tab.id : tab \in TabSet(next)}
            /\ history' = history \cup LostSessions(failed)
            /\ IF failed = {} THEN Persist(next) ELSE UNCHANGED <<disk, hold, live>>
  BY DEF Restore
<1> DEFINE next == Reified(failed)
<1>2. Cardinality(FreePanes) >= Cardinality(DOMAIN restoring) /\
    Cardinality(FreePtys) >= Cardinality(SavedTabs)
  BY DEF Restore
<1>3. /\ GoodTree(next) /\ Ids(next) \subseteq FreePanes
      /\ \A x \in TabSet(next) : x.id \in FreePtys
      /\ \A x \in TabSet(next) : \E q \in DOMAIN restoring : \E i \in Up(failed, q) :
           x.s = restoring[q].ss[i]
      /\ \A q \in DOMAIN restoring : \A i \in Up(failed, q) : \E x \in TabSet(next) :
           x.s = restoring[q].ss[i]
  BY <1>2, ReifiedFacts
<1> HIDE DEF next
<1>4. RestoreLost(failed, TabSet(next))
  BY <1>3, RestoredSessions DEF RestoreLost
<1>5. CASE next = NoTree
  BY <1>1, <1>5 DEF next
<1>6. CASE next # NoTree
  <2>1. /\ tree' = next
        /\ focused' \in Ids(next)
        /\ running' = running \cup {tab.id : tab \in TabSet(next)}
        /\ history' = history \cup LostSessions(failed)
        /\ IF failed = {} THEN Persist(next) ELSE UNCHANGED <<disk, hold, live>>
    BY <1>1, <1>6 DEF next
  <2>2. Focused'
    BY <1>3, <2>1, FreePaneFacts DEF Focused, FocusThere
  <2>3. RestoreLanded(failed, TabSet(next))
    BY <1>3, <1>4, <2>1, <2>2 DEF RestoreLanded
  <2> QED
    BY <2>3
<1> QED
  BY <1>5, <1>6

-----------------------------------------------------------------------------
(* Every step keeps the invariant: panes and tabs on screen.               *)

\* A step that shows and saves a tree.
LEMMA ShownKeepsInv ==
  ASSUME Inv, UNCHANGED <<pending, pendingPanes, restoring, page>>, NEW tabs, NEW names,
         Shows(tabs, names),
         \A x \in tabs : x \in TabsShown \/ x.id \in FreePtys,
         \A id \in names : id \in Ids(tree) \/ id \in FreePanes \/ \E f \in Calls : f.at = id,
         Calls' \subseteq Calls, running' \subseteq Ptys,
         history' \subseteq opened', opened \subseteq opened', opened' \subseteq Sessions,
         SessionsOf(tabs) \subseteq opened'
  PROVE  Inv'
<1>1. /\ pending' = pending /\ pendingPanes' = pendingPanes /\ restoring' = restoring
      /\ GoodTree(tree') /\ Focused' /\ Persist(tree') /\ TabSet(tree') = tabs /\
           Ids(tree') \subseteq names
  BY DEF Shows
<1>2. /\ \A x \in TabSet(tree') : x \in TabsShown \/ x.id \in FreePtys
      /\ \A id \in Ids(tree') : id \in Ids(tree) \/ id \in FreePanes \/ \E f \in Calls : f.at = id
  BY <1>1
<1>3. SessionsOf(TabSet(tree')) \subseteq opened'
  BY <1>1
<1>4. \A f \in Calls' : f \in Calls \/ (GoodCall(f)' /\ f.at \in Ids(tree) \cup {NoPane})
  OBVIOUS
<1> QED
  BY <1>1, <1>2, <1>3, <1>4, Screened

\* What every screen step finds.
LEMMA OnScreen ==
  ASSUME Inv
  PROVE  /\ GoodTree(tree) /\ Ids(tree) \subseteq PaneNames /\ running \subseteq Ptys
         /\ history \subseteq opened /\ opened \subseteq Sessions
         /\ SessionsOf(TabsShown) \subseteq opened /\ SessionsOf(TabsHeld) \subseteq opened
         /\ \A tabs \in SUBSET TabsShown : SessionsOf(tabs) \subseteq opened
<1>1. \A tabs \in SUBSET TabsShown : SessionsOf(tabs) \subseteq SessionsOf(TabsShown)
  BY DEF SessionsOf
<1> QED
  BY <1>1, PaneNamesOf DEF Inv, Known

\* A step that moves tabs and panes on screen.
LEMMA ArrangedKeepsInv ==
  ASSUME Inv, NEW names, Shows(TabsShown, names), names \subseteq Ids(tree) \cup FreePanes,
         UNCHANGED <<pending, pendingPanes, flights, running, history, opened, restoring, page>>
  PROVE  Inv'
<1>1. /\ \A x \in TabsShown : x \in TabsShown \/ x.id \in FreePtys
      /\ \A id \in names : id \in Ids(tree) \/ id \in FreePanes \/ \E f \in Calls : f.at = id
  OBVIOUS
<1>2. Calls' \subseteq Calls
  BY DEF Calls
<1>3. running' \subseteq Ptys /\ history' \subseteq opened' /\ opened \subseteq opened' /\
    opened' \subseteq Sessions
      /\ SessionsOf(TabsShown) \subseteq opened'
  BY OnScreen
<1> QED
  BY <1>1, <1>2, <1>3, ShownKeepsInv

\* The five operations of usePaneOps.ts that do.
LEMMA PaneStepsKeepInv ==
  ASSUME Inv, EnsureRootPane \/ FocusTerminal \/ FocusService \/ ReorderTerminals \/ MoveTerminal
  PROVE  Inv'
<1>1. Arranged
  BY DEF EnsureRootPane, FocusTerminal, FocusService, ReorderTerminals, MoveTerminal
<1>2. \E names \in SUBSET (Ids(tree) \cup FreePanes) : Shows(TabsShown, names)
  BY EnsureRootPaneShows, FocusTerminalShows, FocusServiceShows, ReorderTerminalsShows, MoveTerminalShows
<1>3. PICK names \in SUBSET (Ids(tree) \cup FreePanes) : Shows(TabsShown, names)
  BY <1>2
<1> QED
  BY <1>1, <1>3, ArrangedKeepsInv DEF Arranged

\* That, by the tabs of a pane that is named.
OthersAway(x, pane, i, closing) ==
  LET tabs == Left(pane.tabs, closing)
  IN [x EXCEPT !.tabs = tabs, !.active = CHOOSE k \in 1 .. Len(tabs) : tabs[k] = pane.tabs[i]]

\* The two batch closes take tabs off the screen for good.
LEMMA BatchClosed ==
  ASSUME Inv, CloseOthers \/ CloseTerminalsById
  PROVE  \E closing \in SUBSET TabsShown : Shows(TabsShown \ closing, Ids(tree)) /\ Dispose(closing)
        /\ UNCHANGED <<pending, pendingPanes, flights, opened, restoring, page>>
<1>1. CASE CloseOthers
  <2>1. PICK id \in Ids(tree) :
          LET pane == PaneOf(tree, id) IN
          \E i \in 1 .. Len(pane.tabs) :
              \E closing \in (SUBSET (ToSet(pane.tabs) \ {pane.tabs[i]})) \ {{}} :
            LET tabs == Left(pane.tabs, closing) IN
            /\ Dispose(closing)
            /\ ApplyTree(MapPane(tree, id, LAMBDA p :
                 [p EXCEPT !.tabs = tabs, !.active = CHOOSE k \in 1 .. Len(tabs) :
                     tabs[k] = pane.tabs[i]]),
                         focused)
    BY <1>1 DEF CloseOthers
  <2> DEFINE pane == PaneOf(tree, id)
  <2>2. PICK i \in 1 .. Len(pane.tabs) :
      \E closing \in (SUBSET (ToSet(pane.tabs) \ {pane.tabs[i]})) \ {{}} :
            LET tabs == Left(pane.tabs, closing) IN
            /\ Dispose(closing)
            /\ ApplyTree(MapPane(tree, id, LAMBDA p :
                 [p EXCEPT !.tabs = tabs, !.active = CHOOSE k \in 1 .. Len(tabs) :
                     tabs[k] = pane.tabs[i]]),
                         focused)
    BY <2>1
  <2>3. PICK closing \in SUBSET (ToSet(pane.tabs) \ {pane.tabs[i]}) :
            LET tabs == Left(pane.tabs, closing) IN
            /\ Dispose(closing)
            /\ ApplyTree(MapPane(tree, id, LAMBDA p :
                 [p EXCEPT !.tabs = tabs, !.active = CHOOSE k \in 1 .. Len(tabs) :
                     tabs[k] = pane.tabs[i]]),
                         focused)
    BY <2>2
  <2>4. Shows(TabsShown \ closing, Ids(tree)) /\ closing \subseteq TabsShown
    <3> DEFINE p == OthersLeft(pane, i, closing)
    <3>1. \A q \in DOMAIN tree : tree[q].id = id => tree[q] = pane
      BY OnScreen, PaneAt
    <3>2. ApplyTree(MapPane(tree, id, LAMBDA x : OthersAway(x, pane, i, closing)), focused)
      BY <2>3 DEF OthersAway
    <3>3. MapPane(tree, id, LAMBDA x : OthersAway(x, pane, i, closing)) = Put(tree, id, p)
      <4>1. OthersAway(pane, pane, i, closing) = p
        BY DEF OthersAway, OthersLeft
      <4> HIDE DEF p, pane
      <4> QED
        BY <3>1, <4>1 DEF MapPane, Put
    <3> QED
      BY <3>2, <3>3, CloseOthersShows
  <2> QED
    BY <1>1, <2>3, <2>4 DEF CloseOthers
<1>2. CASE CloseTerminalsById
  <2>1. UNCHANGED <<pending, pendingPanes, flights, opened, restoring, page>>
    BY <1>2 DEF CloseTerminalsById
  <2> QED
    BY <1>2, <2>1, CloseTerminalsByIdShows
<1> QED
  BY <1>1, <1>2

\* They keep the invariant.
LEMMA BatchClosesKeepInv ==
  ASSUME Inv, CloseOthers \/ CloseTerminalsById
  PROVE  Inv'
<1>1. PICK closing \in SUBSET TabsShown :
        /\ Shows(TabsShown \ closing, Ids(tree)) /\ Dispose(closing)
        /\ UNCHANGED <<pending, pendingPanes, flights, opened, restoring, page>>
  BY BatchClosed
<1>2. SessionsOf(closing) \subseteq opened /\ SessionsOf(TabsShown \ closing) \subseteq opened
  BY OnScreen
<1>3. running' \subseteq running /\ history' = history \cup SessionsOf(closing)
  BY <1>1 DEF Dispose, Recorded
<1>4. running' \subseteq Ptys /\ history' \subseteq opened' /\ opened \subseteq opened' /\
    opened' \subseteq Sessions
      /\ SessionsOf(TabsShown \ closing) \subseteq opened'
  BY <1>1, <1>2, <1>3, OnScreen
<1>5. Calls' \subseteq Calls
  BY <1>1 DEF Calls
<1>6. /\ \A x \in TabsShown \ closing : x \in TabsShown \/ x.id \in FreePtys
      /\ \A id \in Ids(tree) : id \in Ids(tree) \/ id \in FreePanes \/ \E f \in Calls : f.at = id
  OBVIOUS
<1> QED
  BY <1>1, <1>4, <1>5, <1>6, ShownKeepsInv

-----------------------------------------------------------------------------
(* Terminals that were asked for.                                          *)

\* A tab that is added, with a new pty.
LEMMA AddedKeepsInv ==
  ASSUME Inv, NEW f \in Calls, Calls' \subseteq Calls, NEW s \in Names, NEW at, at = f.at \/ at = NoPane,
         NEW background \in BOOLEAN, CanLand,
             AddTerminal([s |-> s, id |-> Min(FreePtys)], at, background),
         UNCHANGED <<pending, pendingPanes, restoring, page>>, running' = running \cup {Min(FreePtys)},
         history' \subseteq history, opened \subseteq opened', opened' \subseteq Sessions,
             {s} \ {NoSession} \subseteq opened'
  PROVE  Inv' /\ TabSet(tree') = TabsShown \cup {[s |-> s, id |-> Min(FreePtys)]} /\ Persist(tree')
<1> DEFINE new == Min(FreePtys)
           tab == [s |-> s, id |-> new]
<1>1. new \in FreePtys /\ new \in Ptys /\ (tree = NoTree => FreePanes # {})
  BY FreePtyFacts DEF CanLand
<1>2. \A x \in TabsShown : x.id # new
  BY <1>1, FreePtyFacts
<1>3. at \in PaneNames \cup {NoPane}
  BY DEF Inv, GoodCall
<1> HIDE DEF new
<1>4. tab \in TabRecs /\ tab.s = s /\ tab.id = new
  BY <1>1 DEF TabRecs
<1>5. AddTerminal(tab, at, background)
  BY DEF new
<1> HIDE DEF tab
<1>6. /\ GoodTree(tree') /\ TabSet(tree') = TabsShown \cup {tab}
      /\ \A id \in Ids(tree') : id \in Ids(tree) \/ id \in FreePanes \/ id = at
      /\ Focused' /\ Persist(tree')
  BY <1>1, <1>2, <1>3, <1>4, <1>5, AddTerminalFacts
<1>7. \A x \in TabSet(tree') : x \in TabsShown \/ x.id \in FreePtys
  BY <1>1, <1>4, <1>6
<1>8. \A id \in Ids(tree') : id \in Ids(tree) \/ id \in FreePanes \/ \E c \in Calls : c.at = id
  <2>1. Ids(tree') \subseteq PaneNames /\ NoPane \notin PaneNames
    BY <1>6, PaneNamesOf, Bounds
  <2> QED
    BY <1>6, <2>1
<1>9. SessionsOf(TabSet(tree')) \subseteq opened'
  <2>1. SessionsOf(TabsShown) \subseteq opened
    BY OnScreen
  <2>2. SessionsOf(TabSet(tree')) \subseteq SessionsOf(TabsShown) \cup ({s} \ {NoSession})
    BY <1>4, <1>6 DEF SessionsOf
  <2> QED
    BY <2>1, <2>2
<1>10. running' \subseteq Ptys /\ history' \subseteq opened'
  BY <1>1, OnScreen DEF new
<1>11. \A c \in Calls' : c \in Calls \/ (GoodCall(c)' /\ c.at \in Ids(tree) \cup {NoPane})
  OBVIOUS
<1>12. Inv'
  BY <1>6, <1>7, <1>8, <1>9, <1>10, <1>11, Screened
<1> QED
  BY <1>6, <1>12 DEF tab, new

\* The session a new terminal opens, if it opens one.
LEMMA FreshSessionFacts ==
  FreshSessions \subseteq Names /\ \A s \in FreshSessions : {s} \ {NoSession} \subseteq Sessions
BY DEF FreshSessions, Names

\* The answer to a new tab,
LEMMA TabLandsKeepsInv ==
  ASSUME Inv, TabLands
  PROVE  Inv'
<1>1. PICK f \in BagToSet(flights), background \in BOOLEAN :
        /\ f.kind = "add" /\ Answered(f) /\ CanLand
        /\ \E s \in FreshSessions :
             /\ opened' = opened \cup ({s} \ {NoSession})
             /\ AddTerminal([s |-> s, id |-> Min(FreePtys)], f.at, background)
        /\ running' = running \cup {Min(FreePtys)}
        /\ UNCHANGED <<pending, pendingPanes, history, restoring, page>>
  BY DEF TabLands
<1>2. PICK s \in FreshSessions :
             /\ opened' = opened \cup ({s} \ {NoSession})
             /\ AddTerminal([s |-> s, id |-> Min(FreePtys)], f.at, background)
  BY <1>1
<1>3. s \in Names /\ opened \subseteq opened' /\ opened' \subseteq Sessions /\
    {s} \ {NoSession} \subseteq opened'
  BY <1>2, FreshSessionFacts, OnScreen
<1>4. f \in Calls /\ Calls' \subseteq Calls
  BY <1>1, CallFacts
<1> QED
  BY <1>1, <1>2, <1>3, <1>4, AddedKeepsInv

\* to a resume,
LEMMA ResumeLandsKeepsInv ==
  ASSUME Inv, ResumeLands
  PROVE  Inv'
<1>1. PICK f \in BagToSet(flights), background \in BOOLEAN :
        /\ f.kind = "resume" /\ Answered(f) /\ CanLand
        /\ history' = history \ {f.s}
        /\ AddTerminal([s |-> f.s, id |-> Min(FreePtys)], NoPane, background)
        /\ running' = running \cup {Min(FreePtys)}
        /\ UNCHANGED <<pending, pendingPanes, opened, restoring, page>>
  BY DEF ResumeLands
<1>2. f \in Calls /\ Calls' \subseteq Calls
  BY <1>1, CallFacts
<1>3. f.s \in {NoSession} \cup opened /\ opened \subseteq Sessions
  BY <1>2 DEF Inv, GoodCall, Known
<1>4. f.s \in Names /\ {f.s} \ {NoSession} \subseteq opened' /\ opened \subseteq opened' /\
    opened' \subseteq Sessions
  BY <1>1, <1>3 DEF Names
<1> QED
  BY <1>1, <1>2, <1>4, AddedKeepsInv

\* to a split, whose pane may be gone,
LEMMA SplitLandsKeepsInv ==
  ASSUME Inv, SplitLands
  PROVE  Inv'
<1> DEFINE new == Min(FreePtys)
           id == Min(FreePanes)
           tab == [s |-> NoSession, id |-> new]
<1>1. PICK f \in BagToSet(flights) :
        /\ f.kind = "split" /\ Answered(f) /\ CanLand
        /\ f.at \in Ids(tree) => FreePanes # {}
        /\ running' = StoppedUnless(f.at \in Ids(tree), new)
        /\ IF f.at \in Ids(tree)
           THEN ApplyTree(SplitAtPane(tree, f.at, Pane(id, <<tab>>, 1, FALSE)), id)
           ELSE UNCHANGED <<tree, focused, disk, hold, live>>
        /\ UNCHANGED <<pending, pendingPanes, history, opened, restoring, page>>
  BY DEF SplitLands
<1>2. f \in Calls /\ Calls' \subseteq Calls
  BY <1>1, CallFacts
<1>3. new \in FreePtys /\ new \in Ptys
  BY <1>1, FreePtyFacts DEF CanLand
<1>4. running' \subseteq running \cup {new} /\ running' \subseteq Ptys
  BY <1>1, <1>3, OnScreen DEF StoppedUnless
<1>5. CASE f.at \in Ids(tree)
  <2>1. tab \in TabRecs /\ tab.s = NoSession /\ tab.id = new
    BY <1>3 DEF TabRecs, Names
  <2>2. \A y \in TabsShown : tab.id # y.id
    BY <1>3, <2>1, FreePtyFacts
  <2>3. ApplyTree(SplitAtPane(tree, f.at, Pane(id, <<tab>>, 1, FALSE)), id) /\ FreePanes # {}
    BY <1>1, <1>5
  <2> HIDE DEF new, tab
  <2>4. Shows(TabsShown \cup {tab}, Ids(tree) \cup FreePanes)
    BY <1>5, <2>1, <2>2, <2>3, SplitShows
  <2>5. /\ \A x \in TabsShown \cup {tab} : x \in TabsShown \/ x.id \in FreePtys
        /\ \A a \in Ids(tree) \cup FreePanes : a \in Ids(tree) \/ a \in FreePanes \/ \E c \in Calls :
             c.at = a
    BY <1>3, <2>1
  <2>6. SessionsOf(TabsShown \cup {tab}) \subseteq opened'
    <3>1. SessionsOf(TabsShown) \subseteq opened
      BY OnScreen
    <3> QED
      BY <1>1, <2>1, <3>1 DEF SessionsOf
  <2>7. history' \subseteq opened' /\ opened \subseteq opened' /\ opened' \subseteq Sessions
    BY <1>1, OnScreen
  <2> QED
    BY <1>1, <1>2, <1>4, <2>4, <2>5, <2>6, <2>7, ShownKeepsInv
<1>6. CASE f.at \notin Ids(tree)
  <2>1. Focused'
    BY <1>1, <1>6 DEF Inv, Focused, FocusThere
  <2> QED
    BY <1>1, <1>2, <1>4, <1>6, <2>1, SameTree
<1> QED
  BY <1>5, <1>6

\* What the answer to a restart does: the new pty has its tab, or nothing is left of it.
RestartLanded(f, new) ==
  /\ Answered(f) /\ new \in FreePtys
  /\ UNCHANGED <<pending, pendingPanes, history, opened, restoring, page>>
  /\ \/ /\ running' = running \cup {new}
        /\ Shows(TabSet(tree'), Ids(tree)) /\ Restarted(TabSet(tree'), f.old, new)
     \/ UNCHANGED <<tree, focused, disk, hold, live, running>>

\* RestartLands does that.
LEMMA RestartLandsShows ==
  ASSUME Inv, RestartLands
  PROVE  \E f \in Calls : RestartLanded(f, Min(FreePtys))
<1> DEFINE new == Min(FreePtys)
           Tabbed(f) == {id \in Ids(tree) : \E tab \in ToSet(PaneOf(tree, id).tabs) : tab.id = f.old}
<1>1. PICK f \in BagToSet(flights) :
        /\ Answered(f) /\ CanLand
        /\ running' = StoppedUnless(Tabbed(f) # {}, new)
        /\ IF Tabbed(f) # {} THEN ApplyTree(MapPane(tree, CHOOSE id \in Tabbed(f) : TRUE, LAMBDA p :
             Swap(p, f.old, new)), focused)
           ELSE UNCHANGED <<tree, focused, disk, hold, live>>
        /\ UNCHANGED <<pending, pendingPanes, history, opened, restoring, page>>
  BY DEF RestartLands, Swap
<1>2. f \in Calls
  BY <1>1, CallFacts
<1>3. new \in FreePtys
  BY <1>1, FreePtyFacts DEF CanLand
<1>4. CASE Tabbed(f) # {}
  <2> DEFINE at == CHOOSE id \in Tabbed(f) : TRUE
  <2>1. at \in Ids(tree) /\ \E tab \in ToSet(PaneOf(tree, at).tabs) : tab.id = f.old
    BY <1>4
  <2>2. ApplyTree(MapPane(tree, at, LAMBDA p : Swap(p, f.old, new)), focused)
    BY <1>1, <1>4
  <2>3. running' = running \cup {new}
    BY <1>1, <1>4, Zenon DEF StoppedUnless
  <2> HIDE DEF at, new
  <2>4. \A q \in DOMAIN tree : tree[q].id = at => tree[q] = PaneOf(tree, at)
    BY <2>1, OnScreen, PaneAt
  <2>5. MapPane(tree, at, LAMBDA p : Swap(p, f.old, new)) = Put(tree, at,
      Swap(PaneOf(tree, at), f.old, new))
    BY <2>4 DEF MapPane, Put
  <2>6. PICK tab \in ToSet(PaneOf(tree, at).tabs) : tab.id = f.old
    BY <2>1
  <2>7. ApplyTree(Put(tree, at, Swap(PaneOf(tree, at), f.old, new)), focused)
    BY <2>2, <2>5
  <2>8. Shows(TabSet(tree'), Ids(tree)) /\ Restarted(TabSet(tree'), f.old, new)
    BY <1>3, <2>1, <2>6, <2>7, RestartShows
  <2> QED
    BY <1>1, <1>2, <1>3, <2>3, <2>8 DEF RestartLanded, new
<1>5. CASE Tabbed(f) = {}
  <2>1. running' = running
    BY <1>1, <1>5, Zenon DEF StoppedUnless
  <2>2. UNCHANGED <<tree, focused, disk, hold, live>>
    BY <1>1, <1>5
  <2> QED
    BY <1>1, <1>2, <1>3, <2>1, <2>2 DEF RestartLanded
<1> QED
  BY <1>4, <1>5

\* The answer to a restart, whose tab may be gone,
LEMMA RestartLandsKeepsInv ==
  ASSUME Inv, RestartLands
  PROVE  Inv'
<1> DEFINE new == Min(FreePtys)
           tabs == TabSet(tree')
<1>1. PICK f \in Calls : RestartLanded(f, new)
  BY RestartLandsShows
<1>2. f \in Calls /\ Calls' \subseteq Calls
  BY <1>1, CallFacts DEF RestartLanded
<1>3. new \in FreePtys /\ new \in Ptys /\ running' \subseteq Ptys
  BY <1>1, FreePtyFacts, OnScreen DEF RestartLanded
<1>4. history' \subseteq opened' /\ opened \subseteq opened' /\ opened' \subseteq Sessions
  BY <1>1, OnScreen DEF RestartLanded
<1>5. CASE Shows(tabs, Ids(tree)) /\ Restarted(tabs, f.old, new)
  <2>1. /\ \A x \in tabs : x \in TabsShown \/ x.id \in FreePtys
        /\ \A id \in Ids(tree) : id \in Ids(tree) \/ id \in FreePanes \/ \E c \in Calls : c.at = id
    BY <1>3, <1>5 DEF Restarted
  <2>2. SessionsOf(tabs) \subseteq opened'
    <3>1. SessionsOf(tabs) \subseteq SessionsOf(TabsShown)
      BY <1>5 DEF Restarted, SessionsOf
    <3> QED
      BY <3>1, <1>4, OnScreen
  <2> QED
    BY <1>1, <1>2, <1>3, <1>4, <1>5, <2>1, <2>2, ShownKeepsInv DEF RestartLanded
<1>6. CASE UNCHANGED <<tree, focused, disk, hold, live, running>>
  <2>1. Focused'
    BY <1>6 DEF Inv, Focused, FocusThere
  <2> QED
    BY <1>1, <1>2, <1>3, <1>6, <2>1, SameTree DEF RestartLanded
<1> QED
  BY <1>1, <1>5, <1>6 DEF RestartLanded

\* and to a layout.
LEMMA LayoutLandsKeepsInv ==
  ASSUME Inv, LayoutLands
  PROVE  Inv'
<1>1. PICK f \in Calls, new \in SUBSET FreePtys : Answered(f) /\ LayoutLanded(new)
  BY LayoutShows
<1>2. UNCHANGED <<pending, pendingPanes, history, opened, restoring, page>>
  BY DEF LayoutLands
<1> DEFINE tabs == TabSet(tree')
<1>3. Calls' \subseteq Calls
  BY <1>1, CallFacts
<1>4. Shows(tabs, FreePanes) /\ running' \subseteq Ptys
  BY <1>1, FreePtyFacts, OnScreen DEF LayoutLanded
<1>5. /\ \A x \in tabs : x \in TabsShown \/ x.id \in FreePtys
      /\ \A id \in FreePanes : id \in Ids(tree) \/ id \in FreePanes \/ \E c \in Calls : c.at = id
  BY <1>1 DEF LayoutLanded
<1>6. SessionsOf(tabs) \subseteq opened'
  <2>1. SessionsOf(tabs) \subseteq SessionsOf(TabsShown)
    BY <1>1 DEF LayoutLanded, SessionsOf
  <2> QED
    BY <2>1, <1>2, OnScreen
<1>7. history' \subseteq opened' /\ opened \subseteq opened' /\ opened' \subseteq Sessions
  BY <1>2, OnScreen
<1> QED
  BY <1>2, <1>3, <1>4, <1>5, <1>6, <1>7, ShownKeepsInv

-----------------------------------------------------------------------------
(* Closing, and taking a close back.                                       *)

\* A step that changes the closes that can be undone, and opens nothing.
LEMMA ClosedKeepsInv ==
  ASSUME Inv, GoodTree(tree'), Focused', Held', Persist(tree') \/ UNCHANGED <<disk, hold, live>>,
         restoring' = restoring, opened' = opened, running' \subseteq Ptys,
             history' \subseteq opened, Calls' \subseteq Calls,
         SessionsOf(TabSet(tree')) \subseteq opened, SessionsOf(TabsHeld') \subseteq opened
  PROVE  Inv'
<1>1. SavedOK' /\ SavedSessions(disk') \subseteq SavedSessions(disk) \cup SessionsOf(TabSet(tree'))
  BY PersistFacts DEF Inv, SavedOK
<1>2. Known'
  <2>1. TabsShown' = TabSet(tree')
    BY DEF TabsShown
  <2>2. Known
    BY DEF Inv
  <2>3. SavedSessions(restoring)' = SavedSessions(restoring) /\
      SavedSessions(disk)' = SavedSessions(disk')
    BY DEF SavedSessions
  <2>4. SessionsOf(TabsHeld)' = SessionsOf(TabsHeld') /\
      SessionsOf(TabsShown)' = SessionsOf(TabSet(tree'))
    BY <2>1 DEF SessionsOf
  <2> QED
    BY <1>1, <2>2, <2>3, <2>4 DEF Known
<1>3. \A f \in Calls' : GoodCall(f)'
  BY DEF Inv, GoodCall
<1> QED
  BY <1>1, <1>2, <1>3 DEF Inv

\* What the close of a tab does.
TabClosed(tab) ==
  /\ tab \in TabsShown /\ Shows(TabsShown \ {tab}, Ids(tree))
  /\ \/ /\ \E id \in Ids(tree), i \in Nat \ {0} : pending' = pending \cup {Closing(tab, id, i, TRUE)}
        /\ UNCHANGED history
     \/ tab.id \notin running /\ history' = Recorded({tab}) /\ UNCHANGED pending
  /\ UNCHANGED <<pendingPanes, flights, running, opened, restoring, page>>

\* CloseTerminal does that.
LEMMA CloseTerminalCloses ==
  ASSUME Inv, CloseTerminal
  PROVE  \E tab \in TabsShown : TabClosed(tab)
<1>1. PICK id \in Ids(tree) :
        \E i \in 1 .. Len(PaneOf(tree, id).tabs) :
          /\ \/ MayOpen /\ pending' = pending \cup
                  {Closing(PaneOf(tree, id).tabs[i], id, i, TRUE)} /\ UNCHANGED history
             \/ PaneOf(tree, id).tabs[i].id \notin running /\
                  history' = Recorded({PaneOf(tree, id).tabs[i]}) /\ UNCHANGED pending
          /\ IF Len(PaneOf(tree, id).tabs) = 1 /\ ~PaneOf(tree, id).svc THEN CollapsePane(id)
             ELSE ApplyTree(MapPane(tree, id, LAMBDA p : Without(p, i)), focused)
          /\ UNCHANGED <<pendingPanes, flights, running, opened, restoring, page>>
  BY DEF CloseTerminal
<1> DEFINE pane == PaneOf(tree, id)
<1>2. PICK i \in 1 .. Len(pane.tabs) :
          /\ \/ MayOpen /\ pending' = pending \cup {Closing(pane.tabs[i], id, i, TRUE)} /\
                  UNCHANGED history
             \/ pane.tabs[i].id \notin running /\ history' = Recorded({pane.tabs[i]}) /\
                  UNCHANGED pending
          /\ IF Len(pane.tabs) = 1 /\ ~pane.svc THEN CollapsePane(id)
             ELSE ApplyTree(MapPane(tree, id, LAMBDA p : Without(p, i)), focused)
          /\ UNCHANGED <<pendingPanes, flights, running, opened, restoring, page>>
  BY <1>1
<1>3. GoodTree(tree)
  BY OnScreen
<1>4. \A q \in DOMAIN tree : tree[q].id = id => tree[q] = pane
  BY <1>3, PaneAt
<1>5. MapPane(tree, id, LAMBDA p : Without(p, i)) = Put(tree, id, Without(pane, i))
  BY <1>4 DEF MapPane, Put
<1>6. IF Len(pane.tabs) = 1 /\ ~pane.svc THEN CollapsePane(id)
      ELSE ApplyTree(Put(tree, id, Without(pane, i)), focused)
  BY <1>2, <1>5
<1> DEFINE tab == pane.tabs[i]
<1>7. Shows(TabsShown \ {tab}, Ids(tree))
  BY <1>6, CloseTerminalShows
<1>8. tab \in TabsShown /\ i \in Nat \ {0}
  <2>1. pane.tabs \in Seq(TabRecs) /\ ToSet(pane.tabs) \subseteq TabsShown
    BY <1>3, TabsOfPane DEF TabsShown
  <2> HIDE DEF pane, TabRecs
  <2> QED
    BY <2>1, ToSetFacts
<1>9. \/ (\E a \in Ids(tree), k \in Nat \ {0} : pending' = pending \cup
           {Closing(tab, a, k, TRUE)}) /\ UNCHANGED history
      \/ tab.id \notin running /\ history' = Recorded({tab}) /\ UNCHANGED pending
  BY <1>2, <1>8
<1> QED
  BY <1>2, <1>7, <1>8, <1>9 DEF TabClosed

\* The tab of an id is one tab.
LEMMA ShownApart ==
  ASSUME Inv
  PROVE  TabsShown \subseteq TabRecs /\ \A x, y \in TabsShown : x.id = y.id => x = y
<1>1. GoodTree(tree)
  BY OnScreen
<1>2. \A x : x \in TabsShown <=> \E id \in Ids(tree) : x \in ToSet(PaneOf(tree, id).tabs)
  BY <1>1, TabSetFacts DEF GoodTree, TabsShown
<1> QED
  BY <1>1, <1>2, TabsOfPane DEF TabsShown

\* A close that can be undone, of a tab in a pane.
LEMMA ClosingIs ==
  ASSUME NEW tab \in TabRecs, NEW id \in PaneNames, NEW i \in Nat \ {0}, NEW own \in BOOLEAN
  PROVE  /\ Closing(tab, id, i, own).tab = tab /\ Closing(tab, id, i, own).pane = id /\
              Closing(tab, id, i, own).own = own
         /\ Closing(tab, id, i, own) \in [tab : TabRecs, pane : PaneNames, idx : Nat \ {0}, own :
              BOOLEAN]
<1> HIDE DEF TabRecs, PaneNames
<1> QED
  BY DEF Closing

\* The tab it holds back is shown no more, so it is in one place.
LEMMA CloseTerminalKeepsInv ==
  ASSUME Inv, CloseTerminal
  PROVE  Inv'
<1>1. PICK tab \in TabsShown : TabClosed(tab)
  BY CloseTerminalCloses
<1>2. Shows(TabsShown \ {tab}, Ids(tree)) /\
    UNCHANGED <<pendingPanes, flights, running, opened, restoring, page>>
  BY <1>1 DEF TabClosed
<1>3. /\ tab \in TabRecs /\ SessionsOf(TabsShown \ {tab}) \subseteq opened /\
           SessionsOf({tab}) \subseteq opened
      /\ running \subseteq Ptys /\ history \subseteq opened /\ opened \subseteq Sessions
      /\ \A y \in TabsShown : y.id = tab.id => y = tab
  BY ShownApart, OnScreen
<1>4. Calls' = Calls
  BY <1>2 DEF Calls
<1>5. CASE history' = Recorded({tab}) /\ UNCHANGED pending
  <2>1. /\ \A x \in TabsShown \ {tab} : x \in TabsShown \/ x.id \in FreePtys
        /\ \A id \in Ids(tree) : id \in Ids(tree) \/ id \in FreePanes \/ \E f \in Calls : f.at = id
    OBVIOUS
  <2>2. running' \subseteq Ptys /\ history' \subseteq opened' /\ opened \subseteq opened' /\
      opened' \subseteq Sessions
        /\ SessionsOf(TabsShown \ {tab}) \subseteq opened'
    BY <1>2, <1>3, <1>5 DEF Recorded
  <2> QED
    BY <1>2, <1>4, <1>5, <2>1, <2>2, ShownKeepsInv
<1>6. CASE (\E id \in Ids(tree), i \in Nat \ {0} : pending' = pending \cup
    {Closing(tab, id, i, TRUE)}) /\ UNCHANGED history
  <2>1. PICK id \in Ids(tree) : \E i \in Nat \ {0} : pending' = pending \cup {Closing(tab, id, i, TRUE)}
    BY <1>6
  <2>2. PICK i \in Nat \ {0} : pending' = pending \cup {Closing(tab, id, i, TRUE)}
    BY <2>1
  <2> DEFINE new == Closing(tab, id, i, TRUE)
  <2>3. new.tab = tab /\ new \in [tab : TabRecs, pane : PaneNames, idx : Nat \ {0}, own : BOOLEAN]
    <3>1. id \in PaneNames /\ tab \in TabRecs /\ TRUE \in BOOLEAN
      BY <1>3, OnScreen
    <3>2. \A own \in BOOLEAN : Closing(tab, id, i, own).tab = tab
                               /\ Closing(tab, id, i, own) \in [tab : TabRecs, pane : PaneNames,
                                    idx : Nat \ {0}, own : BOOLEAN]
      BY <2>2, <3>1, ClosingIs
    <3> QED
      BY <3>2, Zenon
  <2>4. pending' = pending \cup {new}
    BY <2>2
  <2> HIDE DEF new
  <2>5. GoodTree(tree') /\ Focused' /\ Persist(tree') /\ TabSet(tree') = TabsShown \ {tab} /\
      Ids(tree') \subseteq Ids(tree)
    BY <1>2 DEF Shows
  <2>6. Held /\ TabsShown' = TabsShown \ {tab}
    BY <2>5 DEF Inv, TabsShown
  <2>7. Held'
    <3>1. pending' \subseteq [tab : TabRecs, pane : PaneNames, idx : Nat \ {0}, own : BOOLEAN]
      BY <2>3, <2>4, <2>6 DEF Held
    <3>2. \A e, c \in pending' : e.tab.id = c.tab.id => e = c
      BY <1>1, <2>3, <2>4, <2>6 DEF Held
    <3>3. \A e \in pending' : \A x \in TabsShown' : x.id # e.tab.id
      BY <1>3, <2>3, <2>4, <2>6 DEF Held
    <3> QED
      BY <1>2, <1>4, <2>4, <2>5, <2>6, <3>1, <3>2, <3>3 DEF Held
  <2>8. SessionsOf(TabsHeld') \subseteq opened
    <3>1. SessionsOf(TabsHeld') \subseteq SessionsOf(TabsHeld) \cup SessionsOf({tab})
      BY <2>3, <2>4 DEF SessionsOf, TabsHeld
    <3> QED
      BY <1>3, <3>1, OnScreen
  <2> QED
    BY <1>2, <1>3, <1>4, <1>6, <2>5, <2>7, <2>8, ClosedKeepsInv
<1> QED
  BY <1>1, <1>5, <1>6 DEF TabClosed

\* Closes that are taken back, or final: the others stay as they are.
LEMMA HeldLess ==
  ASSUME Inv, NEW gone \in SUBSET pending, pending' = pending \ gone,
         NEW panes \in SUBSET pendingPanes, pendingPanes' = panes,
         \A e \in panes : \A i \in 1 .. Len(e.pane.tabs) :
             Closing(e.pane.tabs[i], e.pane.id, i, FALSE) \notin gone,
         \A x \in TabSet(tree') : x \in TabsShown \/ \E e \in gone : x = e.tab,
         \A id \in Ids(tree') : id \in Ids(tree) \/ id \in FreePanes \/
             \E e \in pendingPanes \ panes : e.pane.id = id,
         Calls' \subseteq Calls
  PROVE  Held' /\ SessionsOf(TabsHeld') \subseteq opened
<1>1. Held
  BY DEF Inv
<1>2. pending' \subseteq [tab : TabRecs, pane : PaneNames, idx : Nat \ {0}, own : BOOLEAN]
  BY <1>1 DEF Held
<1>3. \A e, c \in pending' : e.tab.id = c.tab.id => e = c
  BY <1>1 DEF Held
<1>4. \A e \in pending' : \A tab \in TabsShown' : tab.id # e.tab.id
  BY <1>1 DEF Held, TabsShown
<1>5. \A e \in pendingPanes' : /\ GoodPane(e.pane) /\ e.spot.side \in {0, 1} /\ e.spot.sibs \in Seq(Int)
                               /\ \A f \in Calls' : f.at # e.pane.id
                               /\ \A i \in 1 .. Len(e.pane.tabs) :
                                    Closing(e.pane.tabs[i], e.pane.id, i, FALSE) \in pending'
  BY <1>1 DEF Held
<1>6. \A e \in pendingPanes' : e.pane.id \notin Ids(tree')
  <2>1. ASSUME NEW e \in panes, e.pane.id \in Ids(tree')
        PROVE  FALSE
    <3>1. e.pane.id \notin Ids(tree) /\ e.pane.id \notin FreePanes /\ e \in pendingPanes
      BY <1>1, FreePaneFacts DEF Held
    <3>2. PICK c \in pendingPanes \ panes : c.pane.id = e.pane.id
      BY <2>1, <3>1
    <3> QED
      BY <1>1, <2>1, <3>1, <3>2 DEF Held
  <2> QED
    BY <2>1
<1>7. \A e, c \in pendingPanes' : e.pane.id = c.pane.id => e = c
  BY <1>1 DEF Held
<1>8. Held'
  BY <1>2, <1>3, <1>4, <1>5, <1>6, <1>7 DEF Held
<1>9. SessionsOf(TabsHeld') \subseteq SessionsOf(TabsHeld)
  BY DEF SessionsOf, TabsHeld
<1> QED
  BY <1>8, <1>9, OnScreen

\* A tab with a toast of its own is not one of a closed pane.
LEMMA OwnCloses ==
  ASSUME Inv, NEW e \in pending, e.own
  PROVE  \A c \in pendingPanes : \A i \in 1 .. Len(c.pane.tabs) :
      Closing(c.pane.tabs[i], c.pane.id, i, FALSE) \notin {e}
<1>1. \A tab, id, i : ~Closing(tab, id, i, FALSE).own
  BY DEF Closing
<1> QED
  BY <1>1

\* The close of a tab is taken back,
LEMMA UndoCloseKeepsInv ==
  ASSUME Inv, UndoClose
  PROVE  Inv'
<1>1. PICK e \in pending : e.own /\ pending' = pending \ {e} /\
    Shows(TabsShown \cup {e.tab}, Ids(tree) \cup FreePanes)
  BY UndoCloseShows
<1>2. UNCHANGED <<pendingPanes, flights, running, history, opened, restoring, page>>
  BY DEF UndoClose
<1>3. GoodTree(tree') /\ Focused' /\ Persist(tree') /\ TabSet(tree') = TabsShown \cup {e.tab} /\
    Ids(tree') \subseteq Ids(tree) \cup FreePanes
  BY <1>1 DEF Shows
<1>4. Calls' \subseteq Calls
  BY <1>2 DEF Calls
<1>5. Held' /\ SessionsOf(TabsHeld') \subseteq opened
  <2> DEFINE gone == {e}
  <2>1. gone \in SUBSET pending /\ pending' = pending \ gone /\ \A x \in TabSet(tree') :
      x \in TabsShown \/ \E c \in gone : x = c.tab
    BY <1>1, <1>3
  <2>2. \A c \in pendingPanes : \A i \in 1 .. Len(c.pane.tabs) :
      Closing(c.pane.tabs[i], c.pane.id, i, FALSE) \notin gone
    BY <1>1, OwnCloses
  <2> HIDE DEF gone
  <2>3. \A id \in Ids(tree') : id \in Ids(tree) \/ id \in FreePanes \/
      \E c \in pendingPanes \ pendingPanes : c.pane.id = id
    BY <1>3
  <2> QED
    BY <1>2, <1>4, <2>1, <2>2, <2>3, HeldLess
<1>6. SessionsOf(TabSet(tree')) \subseteq opened
  <2>1. SessionsOf(TabSet(tree')) \subseteq SessionsOf(TabsShown) \cup SessionsOf(TabsHeld)
    BY <1>1, <1>3 DEF SessionsOf, TabsHeld
  <2> QED
    BY <2>1, OnScreen
<1> QED
  BY <1>2, <1>3, <1>4, <1>5, <1>6, OnScreen, ClosedKeepsInv

\* or is final.
LEMMA FinalizeCloseKeepsInv ==
  ASSUME Inv, FinalizeClose
  PROVE  Inv'
<1>1. PICK e \in pending : e.own /\ pending' = pending \ {e} /\ Dispose({e.tab})
  BY DEF FinalizeClose
<1>2. UNCHANGED <<tree, focused, pendingPanes, flights, disk, hold, live, opened, restoring, page>>
  BY DEF FinalizeClose
<1>3. Calls' \subseteq Calls
  BY <1>2 DEF Calls
<1>4. GoodTree(tree') /\ Focused' /\ TabSet(tree') = TabsShown /\ Ids(tree') = Ids(tree)
  BY <1>2 DEF Inv, Focused, FocusThere, TabsShown
<1>5. Held' /\ SessionsOf(TabsHeld') \subseteq opened
  <2> DEFINE gone == {e}
  <2>1. gone \in SUBSET pending /\ pending' = pending \ gone /\ \A x \in TabSet(tree') : x \in TabsShown
    BY <1>1, <1>4
  <2>2. \A c \in pendingPanes : \A i \in 1 .. Len(c.pane.tabs) :
      Closing(c.pane.tabs[i], c.pane.id, i, FALSE) \notin gone
    BY <1>1, OwnCloses
  <2> HIDE DEF gone
  <2>3. \A id \in Ids(tree') : id \in Ids(tree)
    BY <1>4
  <2> QED
    BY <1>2, <1>3, <2>1, <2>2, <2>3, HeldLess
<1>6. history' \subseteq opened /\ running' \subseteq Ptys
  <2>1. SessionsOf({e.tab}) \subseteq SessionsOf(TabsHeld)
    BY <1>1 DEF SessionsOf, TabsHeld
  <2> QED
    BY <1>1, <2>1, OnScreen DEF Dispose, Recorded
<1>7. SessionsOf(TabSet(tree')) \subseteq opened
  BY <1>4, OnScreen
<1> QED
  BY <1>2, <1>3, <1>4, <1>5, <1>6, <1>7, ClosedKeepsInv

\* The tabs of a pane whose close is taken back or final.
LEMMA TakenTabs ==
  ASSUME Inv, NEW e \in pendingPanes
  PROVE  LET gone == {c \in pending : c.tab \in ToSet(e.pane.tabs)} IN
         /\ TakesTabsToo(e) = pending \ gone
         /\ \A x : x \in ToSet(e.pane.tabs) <=> \E c \in gone : x = c.tab
         /\ \A p \in pendingPanes \ {e} : \A i \in 1 .. Len(p.pane.tabs) :
              Closing(p.pane.tabs[i], p.pane.id, i, FALSE) \notin gone
<1>1. /\ \A c, d \in pending : c.tab.id = d.tab.id => c = d
      /\ \A p \in pendingPanes : /\ GoodPane(p.pane)
                                 /\ \A i \in 1 .. Len(p.pane.tabs) :
                                      Closing(p.pane.tabs[i], p.pane.id, i, FALSE) \in pending
      /\ \A p, d \in pendingPanes : p.pane.id = d.pane.id => p = d
  BY DEF Inv, Held
<1>2. \A p \in pendingPanes : p.pane.tabs \in Seq(TabRecs)
  BY <1>1, PaneParts
<1>3. \A p \in pendingPanes : \A x : x \in ToSet(p.pane.tabs) <=>
    \E i \in 1 .. Len(p.pane.tabs) : x = p.pane.tabs[i]
  <2> HIDE DEF TabRecs
  <2> QED
    BY <1>2, ToSetFacts
<1> DEFINE gone == {c \in pending : c.tab \in ToSet(e.pane.tabs)}
<1>4. TakesTabsToo(e) = pending \ gone
  BY DEF TakesTabsToo
<1>5. \A x : x \in ToSet(e.pane.tabs) <=> \E c \in gone : x = c.tab
  <2>1. ASSUME NEW x \in ToSet(e.pane.tabs)
        PROVE  \E c \in gone : x = c.tab
    <3>1. PICK i \in 1 .. Len(e.pane.tabs) : x = e.pane.tabs[i]
      BY <1>3, <2>1
    <3>2. Closing(x, e.pane.id, i, FALSE) \in pending /\ Closing(x, e.pane.id, i, FALSE).tab = x
      BY <1>1, <3>1 DEF Closing
    <3> QED
      BY <2>1, <3>2
  <2> QED
    BY <2>1
<1>6. ASSUME NEW p \in pendingPanes \ {e}, NEW i \in 1 .. Len(p.pane.tabs),
    Closing(p.pane.tabs[i], p.pane.id, i, FALSE) \in gone
      PROVE  FALSE
  <2> DEFINE x == p.pane.tabs[i]
  <2>1. x \in ToSet(e.pane.tabs) /\ Closing(x, p.pane.id, i, FALSE) \in pending
    BY <1>6 DEF Closing
  <2>2. PICK k \in 1 .. Len(e.pane.tabs) : x = e.pane.tabs[k]
    BY <1>3, <2>1
  <2>3. Closing(x, e.pane.id, k, FALSE) \in pending
    BY <1>1, <2>2
  <2> HIDE DEF x
  <2>4. Closing(x, e.pane.id, k, FALSE) = Closing(x, p.pane.id, i, FALSE)
    <3>1. Closing(x, e.pane.id, k, FALSE).tab = x /\ Closing(x, p.pane.id, i, FALSE).tab = x
      BY DEF Closing
    <3> QED
      BY <1>1, <2>1, <2>3, <3>1
  <2>5. e.pane.id = p.pane.id
    <3>1. Closing(x, e.pane.id, k, FALSE).pane = e.pane.id /\
        Closing(x, p.pane.id, i, FALSE).pane = p.pane.id
      BY DEF Closing
    <3> QED
      BY <2>4, <3>1
  <2> QED
    BY <1>1, <1>6, <2>5
<1> QED
  BY <1>4, <1>5, <1>6

\* The close of a pane is taken back, under its old name, which nothing took meanwhile,
LEMMA UndoPaneCloseKeepsInv ==
  ASSUME Inv, UndoPaneClose
  PROVE  Inv'
<1>1. PICK e \in pendingPanes :
        /\ pendingPanes' = pendingPanes \ {e} /\ pending' = TakesTabsToo(e)
        /\ ApplyTree(RestorePane(tree, e.pane, e.spot), e.pane.id)
        /\ UNCHANGED <<flights, running, history, opened, restoring, page>>
  BY DEF UndoPaneClose
<1> DEFINE gone == {c \in pending : c.tab \in ToSet(e.pane.tabs)}
           panes == pendingPanes \ {e}
<1>2. /\ pending' = pending \ gone /\ gone \in SUBSET pending
      /\ \A x : x \in ToSet(e.pane.tabs) <=> \E c \in gone : x = c.tab
      /\ \A p \in panes : \A i \in 1 .. Len(p.pane.tabs) :
           Closing(p.pane.tabs[i], p.pane.id, i, FALSE) \notin gone
  BY <1>1, TakenTabs
<1>3. /\ GoodTree(tree') /\ Focused' /\ Persist(tree') /\ TabSet(tree') = TabsShown \cup
           ToSet(e.pane.tabs)
      /\ Ids(tree') \subseteq Ids(tree) \cup {e.pane.id}
  BY <1>1, UndoPaneCloseShows DEF Shows
<1>4. Calls' \subseteq Calls /\ panes \in SUBSET pendingPanes /\ e \in pendingPanes \ panes /\
    pendingPanes' = panes
  BY <1>1 DEF Calls
<1> HIDE DEF gone, panes
<1>5. Held' /\ SessionsOf(TabsHeld') \subseteq opened
  <2>1. \A x \in TabSet(tree') : x \in TabsShown \/ \E c \in gone : x = c.tab
    BY <1>2, <1>3
  <2>2. \A id \in Ids(tree') : id \in Ids(tree) \/ id \in FreePanes \/
      \E c \in pendingPanes \ panes : c.pane.id = id
    BY <1>3, <1>4
  <2> QED
    BY <1>2, <1>4, <2>1, <2>2, HeldLess
<1>6. SessionsOf(TabSet(tree')) \subseteq opened
  <2>1. ToSet(e.pane.tabs) \subseteq TabsHeld
    BY <1>2 DEF TabsHeld
  <2>2. SessionsOf(TabSet(tree')) \subseteq SessionsOf(TabsShown) \cup SessionsOf(TabsHeld)
    BY <1>3, <2>1 DEF SessionsOf
  <2> QED
    BY <2>2, OnScreen
<1> QED
  BY <1>1, <1>3, <1>4, <1>5, <1>6, OnScreen, ClosedKeepsInv

\* or is final.
LEMMA FinalizePaneCloseKeepsInv ==
  ASSUME Inv, FinalizePaneClose
  PROVE  Inv'
<1>1. PICK e \in pendingPanes :
        /\ pendingPanes' = pendingPanes \ {e} /\ pending' = TakesTabsToo(e)
        /\ Dispose(ToSet(e.pane.tabs))
        /\ UNCHANGED <<tree, focused, flights, disk, hold, live, opened, restoring, page>>
  BY DEF FinalizePaneClose
<1> DEFINE gone == {c \in pending : c.tab \in ToSet(e.pane.tabs)}
           panes == pendingPanes \ {e}
<1>2. /\ pending' = pending \ gone /\ gone \in SUBSET pending
      /\ \A x : x \in ToSet(e.pane.tabs) <=> \E c \in gone : x = c.tab
      /\ \A p \in panes : \A i \in 1 .. Len(p.pane.tabs) :
           Closing(p.pane.tabs[i], p.pane.id, i, FALSE) \notin gone
  BY <1>1, TakenTabs
<1>3. GoodTree(tree') /\ Focused' /\ TabSet(tree') = TabsShown /\ Ids(tree') = Ids(tree)
  BY <1>1 DEF Inv, Focused, FocusThere, TabsShown
<1>4. Calls' \subseteq Calls /\ panes \in SUBSET pendingPanes /\ pendingPanes' = panes
  BY <1>1 DEF Calls
<1> HIDE DEF gone, panes
<1>5. Held' /\ SessionsOf(TabsHeld') \subseteq opened
  <2>1. \A x \in TabSet(tree') : x \in TabsShown
    BY <1>3
  <2>2. \A id \in Ids(tree') : id \in Ids(tree)
    BY <1>3
  <2> QED
    BY <1>2, <1>4, <2>1, <2>2, HeldLess
<1>6. history' \subseteq opened /\ running' \subseteq Ptys
  <2>1. ToSet(e.pane.tabs) \subseteq TabsHeld
    BY <1>2 DEF TabsHeld
  <2>2. SessionsOf(ToSet(e.pane.tabs)) \subseteq SessionsOf(TabsHeld)
    BY <2>1 DEF SessionsOf
  <2> QED
    BY <1>1, <2>2, OnScreen DEF Dispose, Recorded
<1>7. SessionsOf(TabSet(tree')) \subseteq opened
  BY <1>3, OnScreen
<1> QED
  BY <1>1, <1>3, <1>4, <1>5, <1>6, <1>7, ClosedKeepsInv

\* paneSpot remembers a side and the panes beside it.
LEMMA SpotFacts ==
  ASSUME NEW t, GoodTree(t), NEW id \in Ids(t)
  PROVE  PaneSpot(t, id).side \in {0, 1} /\ PaneSpot(t, id).sibs \in Seq(Int)
<1>1. TreeShape(t) /\ \A q \in DOMAIN t : t[q].id \in Int
  <2>1. TreeShape(t) /\ Ids(t) \subseteq Int
    <3>1. Ids(t) \subseteq PaneNames
      BY PaneNamesOf
    <3>2. PaneNames \subseteq Int
      BY Bounds
    <3> QED
      BY <3>1, <3>2 DEF GoodTree, Tree
  <2> QED
    BY <2>1, IdFacts
<1>2. CASE PathOf(t, id) = <<>>
  BY <1>2 DEF PaneSpot, NoSpot
<1>3. CASE PathOf(t, id) # <<>>
  <2> DEFINE r == Beside(PathOf(t, id))
             ls == Leaves(t, r)
  <2>1. Last(PathOf(t, id)) \in {0, 1}
    BY <1>1, <1>3, TurnsTo
  <2>2. PaneSpot(t, id) = [side |-> Last(PathOf(t, id)), sibs |-> PaneIds(t, r)]
    BY <1>3 DEF PaneSpot
  <2>3. ls \in Seq(DOMAIN t)
    BY <1>1, LeavesFacts
  <2>4. PaneIds(t, r) = [i \in 1 .. Len(ls) |-> t[ls[i]].id]
    BY DEF PaneIds
  <2> HIDE DEF ls
  <2>5. Len(ls) \in Nat /\ \A i \in 1 .. Len(ls) : t[ls[i]].id \in Int
    BY <1>1, <2>3
  <2>6. PaneIds(t, r) \in Seq(Int)
    BY <2>4, <2>5
  <2> QED
    BY <2>1, <2>2, <2>6
<1> QED
  BY <1>2, <1>3

\* What the close of a pane does: its tabs wait behind one toast.
PaneClosed(pane, spot) ==
  /\ pane.id \in Ids(tree) /\ pane = PaneOf(tree, pane.id) /\ spot = PaneSpot(tree, pane.id)
  /\ pendingPanes' = pendingPanes \cup {[pane |-> pane, spot |-> spot]}
  /\ pending' = pending \cup {Closing(pane.tabs[i], pane.id, i, FALSE) : i \in 1 .. Len(pane.tabs)}
  /\ Shows(TabsShown \ ToSet(pane.tabs), Ids(tree) \ {pane.id})
  /\ \A f \in Calls : f.at # pane.id
  /\ UNCHANGED <<flights, running, history, opened, restoring, page>>

\* ClosePane does that, when no terminal is being started for the pane.
LEMMA ClosePaneCloses ==
  ASSUME Inv, "close" \notin Races, ClosePane
  PROVE  \E pane, spot : PaneClosed(pane, spot)
<1>1. PICK id \in Ids(tree) :
        LET pane == PaneOf(tree, id) IN
        /\ \A f \in BagToSet(flights) : f.at # id
        /\ pendingPanes' = pendingPanes \cup {[pane |-> pane, spot |-> PaneSpot(tree, id)]}
        /\ pending' = pending \cup {Closing(pane.tabs[i], id, i, FALSE) : i \in 1 .. Len(pane.tabs)}
        /\ CollapsePane(id)
        /\ UNCHANGED <<flights, running, history, opened, restoring, page>>
  BY DEF ClosePane
<1> DEFINE pane == PaneOf(tree, id)
           spot == PaneSpot(tree, id)
<1>2. pane.id = id
  BY OnScreen, TabsOfPane
<1>3. Shows(TabsShown \ ToSet(pane.tabs), Ids(tree) \ {id})
  BY <1>1, CollapseShows
<1>4. \A f \in Calls : f.at # id
  BY <1>1 DEF Calls
<1>5. /\ pendingPanes' = pendingPanes \cup {[pane |-> pane, spot |-> spot]}
      /\ pending' = pending \cup {Closing(pane.tabs[i], id, i, FALSE) : i \in 1 .. Len(pane.tabs)}
      /\ UNCHANGED <<flights, running, history, opened, restoring, page>>
  BY <1>1
<1>6. pane.id \in Ids(tree) /\ pane = PaneOf(tree, pane.id) /\ spot = PaneSpot(tree, pane.id)
  BY <1>2
<1>7. PaneClosed(pane, spot)
  <2> HIDE DEF pane, spot
  <2> QED
    BY <1>2, <1>3, <1>4, <1>5, <1>6 DEF PaneClosed
<1> QED
  BY <1>7

\* The pane it holds back has a name nobody has or will have.
LEMMA ClosePaneKeepsInv ==
  ASSUME Inv, "close" \notin Races, ClosePane
  PROVE  Inv'
<1>1. PICK pane, spot : PaneClosed(pane, spot)
  BY ClosePaneCloses
<1> DEFINE id == pane.id
           new == {Closing(pane.tabs[i], id, i, FALSE) : i \in 1 .. Len(pane.tabs)}
           held == [pane |-> pane, spot |-> spot]
<1>2. /\ id \in Ids(tree) /\ pane = PaneOf(tree, id) /\ spot = PaneSpot(tree, id)
      /\ pendingPanes' = pendingPanes \cup {held} /\ pending' = pending \cup new
      /\ \A f \in Calls : f.at # id
      /\ UNCHANGED <<flights, running, history, opened, restoring, page>>
  BY <1>1 DEF PaneClosed
<1>3. /\ GoodTree(tree') /\ Focused' /\ Persist(tree') /\ TabSet(tree') = TabsShown \ ToSet(pane.tabs)
      /\ Ids(tree') \subseteq Ids(tree) \ {id}
  BY <1>1 DEF PaneClosed, Shows
<1>4. /\ GoodPane(pane) /\ pane.tabs \in Seq(TabRecs) /\ ToSet(pane.tabs) \subseteq TabsShown
      /\ Apart(pane.tabs) /\ id \in PaneNames
  BY <1>2, OnScreen, TabsOfPane, PaneParts DEF TabsShown
<1>5. \A x : x \in ToSet(pane.tabs) <=> \E i \in 1 .. Len(pane.tabs) : x = pane.tabs[i]
  <2> HIDE DEF TabRecs
  <2> QED
    BY <1>4, ToSetFacts
<1>6. spot.side \in {0, 1} /\ spot.sibs \in Seq(Int)
  BY <1>2, OnScreen, SpotFacts
<1>7. held.pane = pane /\ held.spot = spot
  OBVIOUS
<1>8. /\ \A i \in 1 .. Len(pane.tabs) : Closing(pane.tabs[i], id, i, FALSE) \in new
      /\ \A e \in new : \E i \in 1 .. Len(pane.tabs) : e = Closing(pane.tabs[i], id, i, FALSE)
  OBVIOUS
<1>9. Held /\ TabsShown' = TabsShown \ ToSet(pane.tabs) /\ Calls' = Calls
  BY <1>2, <1>3 DEF Inv, TabsShown, Calls
<1> HIDE DEF id, new, held
<1>10. \A e \in new : /\ e \in [tab : TabRecs, pane : PaneNames, idx : Nat \ {0}, own : BOOLEAN]
                      /\ e.tab \in ToSet(pane.tabs)
                      /\ \E i \in 1 .. Len(pane.tabs) : e = Closing(pane.tabs[i], id, i, FALSE) /\
                           e.tab = pane.tabs[i]
  <2>1. ASSUME NEW e \in new
        PROVE  /\ e \in [tab : TabRecs, pane : PaneNames, idx : Nat \ {0}, own : BOOLEAN]
               /\ e.tab \in ToSet(pane.tabs)
               /\ \E i \in 1 .. Len(pane.tabs) : e = Closing(pane.tabs[i], id, i, FALSE) /\
                    e.tab = pane.tabs[i]
    <3>1. PICK i \in 1 .. Len(pane.tabs) : e = Closing(pane.tabs[i], id, i, FALSE)
      BY <1>8, <2>1
    <3> DEFINE x == pane.tabs[i]
    <3>2. x \in TabRecs /\ x \in ToSet(pane.tabs) /\ i \in Nat \ {0}
      <4>1. x \in ToSet(pane.tabs) /\ i \in Nat \ {0}
        BY <1>4, <1>5
      <4> QED
        BY <1>4, <4>1, ShownApart
    <3> HIDE DEF x
    <3>3. \A own \in BOOLEAN : /\ Closing(x, id, i, own).tab = x
                               /\ Closing(x, id, i, own) \in [tab : TabRecs, pane : PaneNames, idx :
                                    Nat \ {0}, own : BOOLEAN]
      BY <1>4, <3>2, ClosingIs
    <3>4. e = Closing(x, id, i, FALSE)
      BY <3>1 DEF x
    <3>5. e.tab = x /\ e \in [tab : TabRecs, pane : PaneNames, idx : Nat \ {0}, own : BOOLEAN]
      BY <3>3, <3>4, Zenon
    <3> QED
      BY <3>1, <3>2, <3>5 DEF x
  <2> QED
    BY <2>1
<1>11. \A x, y \in TabsShown : x.id = y.id => x = y
  BY ShownApart
<1>12. Held'
  <2>1. pending' \subseteq [tab : TabRecs, pane : PaneNames, idx : Nat \ {0}, own : BOOLEAN]
    BY <1>2, <1>9, <1>10 DEF Held
  <2>2. \A e, c \in new : e.tab.id = c.tab.id => e = c
    <3>1. ASSUME NEW e \in new, NEW c \in new, e.tab.id = c.tab.id
          PROVE  e = c
      <4>1. PICK i \in 1 .. Len(pane.tabs) : e = Closing(pane.tabs[i], id, i, FALSE) /\
          e.tab = pane.tabs[i]
        BY <1>10, <3>1
      <4>2. PICK j \in 1 .. Len(pane.tabs) : c = Closing(pane.tabs[j], id, j, FALSE) /\
          c.tab = pane.tabs[j]
        BY <1>10, <3>1
      <4>3. i = j
        BY <1>4, <3>1, <4>1, <4>2 DEF Apart
      <4> QED
        BY <4>1, <4>2, <4>3
    <3> QED
      BY <3>1
  <2>3. \A e \in pending, c \in new : e.tab.id # c.tab.id
    BY <1>4, <1>9, <1>10 DEF Held
  <2>4. \A e, c \in pending' : e.tab.id = c.tab.id => e = c
    BY <1>2, <1>9, <2>2, <2>3 DEF Held
  <2>5. \A e \in pending' : \A x \in TabsShown' : x.id # e.tab.id
    <3>1. \A e \in pending : \A x \in TabsShown : x.id # e.tab.id
      BY <1>9 DEF Held
    <3>2. \A e \in new : \A x \in TabsShown : x.id = e.tab.id => x \in ToSet(pane.tabs)
      BY <1>4, <1>10, <1>11
    <3> QED
      BY <1>2, <1>9, <3>1, <3>2
  <2>6. \A e \in pendingPanes' : /\ GoodPane(e.pane) /\ e.spot.side \in {0, 1} /\
                                      e.spot.sibs \in Seq(Int)
                                 /\ e.pane.id \notin Ids(tree')
                                 /\ \A f \in Calls' : f.at # e.pane.id
    <3>1. \A e \in pendingPanes : /\ GoodPane(e.pane) /\ e.spot.side \in {0, 1} /\
                                       e.spot.sibs \in Seq(Int)
                                  /\ e.pane.id \notin Ids(tree) /\ \A f \in Calls : f.at # e.pane.id
      BY <1>9 DEF Held
    <3>2. held.pane.id = id
      BY <1>7 DEF id
    <3> QED
      BY <1>2, <1>3, <1>4, <1>6, <1>7, <1>9, <3>1, <3>2
  <2>7. \A e \in pendingPanes' : \A i \in 1 .. Len(e.pane.tabs) :
      Closing(e.pane.tabs[i], e.pane.id, i, FALSE) \in pending'
    <3>1. \A e \in pendingPanes : \A i \in 1 .. Len(e.pane.tabs) :
        Closing(e.pane.tabs[i], e.pane.id, i, FALSE) \in pending
      BY <1>9 DEF Held
    <3>2. \A i \in 1 .. Len(held.pane.tabs) : Closing(held.pane.tabs[i], held.pane.id, i, FALSE) \in new
      BY <1>7, <1>8 DEF id
    <3> QED
      BY <1>2, <3>1, <3>2
  <2>8. \A e, c \in pendingPanes' : e.pane.id = c.pane.id => e = c
    <3>1. \A e \in pendingPanes : e.pane.id # held.pane.id
      BY <1>2, <1>7, <1>9 DEF Held, id
    <3>2. \A e, c \in pendingPanes : e.pane.id = c.pane.id => e = c
      BY <1>9 DEF Held
    <3> QED
      BY <1>2, <3>1, <3>2
  <2> QED
    BY <2>1, <2>4, <2>5, <2>6, <2>7, <2>8 DEF Held
<1>13. SessionsOf(TabsHeld') \subseteq opened
  <2>1. SessionsOf(TabsHeld') \subseteq SessionsOf(TabsHeld) \cup SessionsOf(TabsShown)
    BY <1>2, <1>4, <1>10 DEF SessionsOf, TabsHeld
  <2> QED
    BY <2>1, OnScreen
<1>14. SessionsOf(TabSet(tree')) \subseteq opened
  BY <1>3, OnScreen
<1> QED
  BY <1>2, <1>3, <1>9, <1>12, <1>13, <1>14, OnScreen, ClosedKeepsInv

-----------------------------------------------------------------------------
(* The page and the view go and come back.                                 *)

\* Nothing saved.
LEMMA NothingSaved ==
  GoodSaved(NoTree) /\ SavedSessions(NoTree) = {}
<1>1. DOMAIN NoTree = {} /\ TreeShape(NoTree)
  BY Empty
<1> QED
  BY <1>1 DEF GoodSaved, SavedSessions

\* No terminal is being started.
LEMMA NoCalls ==
  ASSUME flights = EmptyBag
  PROVE  Calls = {}
BY CallFacts DEF EmptyBag, SetToBag

\* A step after which nothing is on screen.
LEMMA ClearedKeepsInv ==
  ASSUME Inv, tree' = NoTree, focused' = NoPane, Calls' = {},
         (pending' = {} /\ pendingPanes' = {}) \/ UNCHANGED <<pending, pendingPanes>>,
         disk' = disk, hold' = FALSE, restoring' \in {NoTree, disk},
         history' = history, opened' = opened, running' \subseteq Ptys
  PROVE  Inv'
<1>1. GoodTree(tree') /\ TabSet(tree') = {} /\ Ids(tree') = {}
  BY NoPanes
<1>2. Focused'
  BY DEF Focused, FocusThere
<1>3. Held' /\ TabsHeld' \subseteq TabsHeld
  <2>1. TabsShown' = {}
    BY <1>1 DEF TabsShown
  <2>2. TabsHeld' \subseteq TabsHeld
    BY DEF TabsHeld
  <2>3. CASE pending' = {} /\ pendingPanes' = {}
    BY <2>2, <2>3 DEF Held
  <2>4. CASE UNCHANGED <<pending, pendingPanes>>
    BY <1>1, <2>1, <2>2, <2>4 DEF Inv, Held
  <2> QED
    BY <2>3, <2>4
<1>4. SavedOK'
  <2>1. GoodSaved(disk') /\ GoodSaved(restoring')
    BY NothingSaved DEF Inv, SavedOK
  <2> QED
    BY <2>1 DEF SavedOK, GoodSaved
<1>5. Known'
  <2>1. TabsShown' = {}
    BY <1>1 DEF TabsShown
  <2>2. SavedSessions(disk') \subseteq opened /\ SavedSessions(restoring') \subseteq opened
    BY NothingSaved DEF Inv, Known
  <2>3. SavedSessions(disk)' = SavedSessions(disk') /\
      SavedSessions(restoring)' = SavedSessions(restoring')
    BY DEF SavedSessions
  <2>4. SessionsOf(TabsShown)' = {} /\ SessionsOf(TabsHeld)' \subseteq SessionsOf(TabsHeld)
    BY <1>3, <2>1 DEF SessionsOf
  <2> QED
    BY <2>2, <2>3, <2>4 DEF Inv, Known
<1> QED
  BY <1>1, <1>2, <1>3, <1>4, <1>5 DEF Inv

\* The page goes, and every call with it.
LEMMA PageGoesFacts ==
  ASSUME PageGoes
  PROVE  /\ tree' = NoTree /\ focused' = NoPane /\ hold' = FALSE /\ restoring' = NoTree
         /\ pending' = {} /\ pendingPanes' = {} /\ Calls' = {} /\ view' = "unmounted"
         /\ UNCHANGED <<disk, history, opened>>
         /\ forgone' = forgone \cup (SessionsOf(TabsHeld) \ (SessionsOf(TabsShown) \cup history \cup
              SavedSessions(disk)))
<1>1. flights' = EmptyBag
  BY DEF PageGoes
<1>2. Calls' = DOMAIN (flights')
  BY DEF Calls, BagToSet
<1>3. Calls' = {}
  BY <1>1, <1>2 DEF EmptyBag, SetToBag
<1> QED
  BY <1>3 DEF PageGoes

\* What Reloads leaves running.
LEMMA ReloadLeaves ==
  ASSUME Reloads
  PROVE  \E late \in SUBSET FreePtys : running' = running \cup late /\
      stranded' = (running \cup late) \ live
BY DEF Reloads

\* The view is unmounted.
LEMMA UnmountsKeepsInv ==
  ASSUME Inv, Unmounts
  PROVE  Inv'
<1>1. /\ UNCHANGED <<tree, focused, flights, disk, hold, live, opened>> /\ pending' = {} /\
           pendingPanes' = {}
      /\ running' \subseteq running /\ history' = history \cup SessionsOf(TabsHeld) /\
           restoring' = NoTree
  BY DEF Unmounts, Recorded
<1>2. Calls' = Calls /\ TabsShown' = TabsShown /\ TabsHeld' = {} /\ Ids(tree') = Ids(tree)
  BY <1>1 DEF Calls, TabsShown, TabsHeld
<1>3. GoodTree(tree') /\ running' \subseteq Ptys /\ \A f \in Calls' : GoodCall(f)'
  BY <1>1, <1>2 DEF Inv, GoodCall
<1>4. Focused'
  BY <1>1 DEF Inv, Focused, FocusThere
<1>5. Held'
  BY <1>1 DEF Held
<1>6. SavedOK'
  <2>1. GoodSaved(disk') /\ GoodSaved(restoring') /\ hold' \in BOOLEAN
    BY <1>1, NothingSaved DEF Inv, SavedOK
  <2> QED
    BY <2>1 DEF SavedOK, GoodSaved
<1>7. Known'
  <2>1. SavedSessions(disk)' = SavedSessions(disk) /\ SavedSessions(restoring)' = {}
    BY <1>1, NothingSaved DEF SavedSessions
  <2>2. SessionsOf(TabsShown)' = SessionsOf(TabsShown) /\ SessionsOf(TabsHeld)' = {}
    BY <1>2 DEF SessionsOf
  <2> QED
    BY <1>1, <2>1, <2>2 DEF Inv, Known
<1> QED
  BY <1>3, <1>4, <1>5, <1>6, <1>7 DEF Inv

\* The app quits or the window is reloaded,
LEMMA PageGoesKeepsInv ==
  ASSUME Inv, Quits \/ Reloads
  PROVE  Inv'
<1>1. PageGoes
  BY DEF Quits, Reloads
<1>2. running' \subseteq Ptys
  BY OnScreen, FreePtyFacts, ReloadLeaves DEF Quits
<1> QED
  BY <1>1, <1>2, PageGoesFacts, ClearedKeepsInv

\* and the view comes back.
LEMMA MountsKeepsInv ==
  ASSUME Inv, Mounts
  PROVE  Inv'
<1>1. /\ tree' = NoTree /\ focused' = NoPane /\ hold' = FALSE /\ restoring' = disk /\ disk' = disk
      /\ UNCHANGED <<pending, pendingPanes>> /\ history' = history /\ opened' = opened
      /\ running' \subseteq running /\ flights = EmptyBag /\ flights' = flights
  BY DEF Mounts
<1>2. Calls' = {}
  BY <1>1, NoCalls DEF Calls
<1> QED
  BY <1>1, <1>2, OnScreen, ClearedKeepsInv

\* The restore settles.
LEMMA RestoreKeepsInv ==
  ASSUME Inv, Restore
  PROVE  Inv'
<1>1. GoodSaved(restoring) /\ GoodSaved(disk) /\ hold \in BOOLEAN /\ Known
  BY DEF Inv, SavedOK
<1>2. restoring' = NoTree /\ UNCHANGED <<pending, pendingPanes, flights, opened>>
  BY DEF Restore
<1>3. Calls' = Calls /\ \A f \in Calls' : GoodCall(f)'
  BY <1>2 DEF Calls, Inv, GoodCall
<1>4. SavedSessions(restoring)' = {} /\ GoodSaved(restoring)'
  BY <1>2, NothingSaved DEF SavedSessions, GoodSaved
<1>5. SessionsOf(TabsHeld)' = SessionsOf(TabsHeld) /\ SessionsOf(TabsShown)' = SessionsOf(TabSet(tree'))
      /\ SavedSessions(disk)' = SavedSessions(disk') /\ GoodSaved(disk)' = GoodSaved(disk')
  BY <1>2 DEF SessionsOf, TabsHeld, TabsShown, SavedSessions, GoodSaved
<1>6. CASE /\ hold' = TRUE
           /\ history' = history \cup SavedSessions(restoring)
           /\ UNCHANGED <<tree, focused, disk, live, running>>
  <2>1. GoodTree(tree') /\ Focused' /\ TabSet(tree') = TabsShown /\ Ids(tree') = Ids(tree)
    BY <1>6 DEF Inv, Focused, FocusThere, TabsShown
  <2>2. Held'
    BY <1>2, <1>3, <2>1, HeldStays
  <2>3. SavedOK'
    BY <1>1, <1>4, <1>6 DEF SavedOK
  <2>4. Known'
    BY <1>1, <1>2, <1>4, <1>5, <1>6, <2>1 DEF Known
  <2>5. running' \subseteq Ptys
    BY <1>6, OnScreen
  <2> QED
    BY <1>3, <2>1, <2>2, <2>3, <2>4, <2>5 DEF Inv
<1>7. ASSUME NEW failed \in SUBSET SavedTabs, NEW tabs, RestoreLanded(failed, tabs)
      PROVE  Inv'
  <2>1. /\ GoodTree(tree') /\ Focused' /\ tabs = TabSet(tree')
        /\ Ids(tree') \subseteq FreePanes /\ \A x \in tabs : x.id \in FreePtys
        /\ SessionsOf(tabs) \subseteq SavedSessions(restoring) /\
             LostSessions(failed) \subseteq SavedSessions(restoring)
        /\ running' = running \cup {tab.id : tab \in tabs}
        /\ history' = history \cup LostSessions(failed)
        /\ Persist(tree') \/ UNCHANGED <<disk, hold, live>>
    BY <1>7 DEF RestoreLanded, RestoreLost
  <2>2. Held'
    BY <1>2, <1>3, <2>1, HeldStays
  <2>3. /\ GoodSaved(disk') /\ hold' \in BOOLEAN
        /\ SavedSessions(disk') \subseteq SavedSessions(disk) \cup SessionsOf(tabs)
    BY <1>1, <2>1, PersistFacts
  <2>4. SavedOK'
    BY <1>4, <1>5, <2>3 DEF SavedOK
  <2>5. Known'
    BY <1>1, <1>2, <1>4, <1>5, <2>1, <2>3 DEF Known
  <2>6. running' \subseteq Ptys
    BY <2>1, OnScreen, FreePtyFacts
  <2> QED
    BY <1>3, <2>1, <2>2, <2>4, <2>5, <2>6 DEF Inv
<1> QED
  BY <1>1, <1>6, <1>7, RestoreShows

\* A step that does nothing.
LEMMA StutterKeepsInv ==
  ASSUME Inv, UNCHANGED vars
  PROVE  Inv'
<1>1. Focused'
  BY DEF vars, Inv, Focused, FocusThere
<1>2. UNCHANGED <<tree, pending, pendingPanes, history, opened, restoring, disk, hold, live>> /\
    running' = running /\ Calls' = Calls
  BY DEF vars, Calls
<1>3. running' \subseteq Ptys
  BY <1>2, OnScreen
<1> QED
  BY <1>1, <1>2, <1>3, SameTree

\* Every step keeps the invariant.
LEMMA NextKeepsInv ==
  ASSUME Inv, "close" \notin Races, [Next]_vars
  PROVE  Inv'
<1>1. CASE AskTab \/ AskSplit \/ AskRestart \/ AskResume \/ AskLayout
  BY <1>1, AsksKeepInv
<1>2. CASE TabLands \/ ResumeLands \/ SplitLands \/ RestartLands \/ LayoutLands
  BY <1>2, TabLandsKeepsInv, ResumeLandsKeepsInv, SplitLandsKeepsInv, RestartLandsKeepsInv,
      LayoutLandsKeepsInv
<1>3. CASE StartFails \/ FocusPane \/ PtyDies
  BY <1>3, StandingStepsKeepInv
<1>4. CASE EnsureRootPane \/ FocusTerminal \/ FocusService \/ ReorderTerminals \/ MoveTerminal
  BY <1>4, PaneStepsKeepInv
<1>5. CASE CloseTerminal \/ CloseOthers \/ CloseTerminalsById \/ ClosePane
  BY <1>5, CloseTerminalKeepsInv, BatchClosesKeepInv, ClosePaneKeepsInv
<1>6. CASE UndoClose \/ FinalizeClose \/ UndoPaneClose \/ FinalizePaneClose
  BY <1>6, UndoCloseKeepsInv, FinalizeCloseKeepsInv, UndoPaneCloseKeepsInv, FinalizePaneCloseKeepsInv
<1>7. CASE Unmounts \/ Quits \/ Reloads \/ Mounts \/ Restore
  BY <1>7, UnmountsKeepsInv, PageGoesKeepsInv, MountsKeepsInv, RestoreKeepsInv
<1>8. CASE UNCHANGED vars
  BY <1>8, StutterKeepsInv
<1> QED
  BY <1>1, <1>2, <1>3, <1>4, <1>5, <1>6, <1>7, <1>8 DEF Next

\* So it is at the start, with nothing saved or listed.
LEMMA InitHasInv ==
  ASSUME Init
  PROVE  Inv
<1>1. GoodTree(tree) /\ TabsShown = {} /\ Ids(tree) = {}
  BY NoPanes DEF Init, TabsShown
<1>2. Calls = {}
  BY NoCalls DEF Init
<1>3. Focused
  BY DEF Init, Focused, FocusThere
<1>4. Held /\ TabsHeld = {}
  BY DEF Init, Held, TabsHeld
<1>5. SavedOK
  BY NothingSaved DEF Init, SavedOK
<1>6. Known
  <2>1. SavedSessions(disk) = {} /\ SavedSessions(restoring) = {}
    BY NothingSaved DEF Init
  <2>2. SessionsOf(TabsShown) = {} /\ SessionsOf(TabsHeld) = {}
    BY <1>1, <1>4 DEF SessionsOf
  <2> QED
    BY <2>1, <2>2 DEF Init, Known
<1> QED
  BY <1>1, <1>2, <1>3, <1>4, <1>5, <1>6 DEF Init, Inv

-----------------------------------------------------------------------------
(* The theorems of the invariant.                                          *)

\* A tree has as many names as leaves.
LEMMA AsManyNames ==
  ASSUME NEW t, Tree(t)
  PROVE  Cardinality(Ids(t)) = Cardinality(DOMAIN t)
<1>1. IsFiniteSet(DOMAIN t)
  BY DEF Tree, TreeShape
<1> DEFINE f == [q \in DOMAIN t |-> t[q].id]
           g == [id \in Ids(t) |-> PathOf(t, id)]
<1>2. Ids(t) = {f[q] : q \in DOMAIN t}
  BY DEF Ids
<1>3. DOMAIN t = {g[id] : id \in Ids(t)}
  <2>1. \A id \in Ids(t) : g[id] \in DOMAIN t
    BY IdFacts
  <2>2. \A q \in DOMAIN t : f[q] \in Ids(t) /\ g[f[q]] = q
    BY IdFacts DEF Tree
  <2> QED
    BY <2>1, <2>2
<1> HIDE DEF f, g
<1>4. IsFiniteSet(Ids(t)) /\ Cardinality(Ids(t)) <= Cardinality(DOMAIN t)
  BY <1>1, <1>2, ImageFinite
<1>5. Cardinality(DOMAIN t) <= Cardinality(Ids(t))
  BY <1>3, <1>4, ImageFinite
<1> QED
  BY <1>1, <1>4, <1>5, FS_CardinalityType

\* An active tab, as TypeOK bounds it.
LEMMA UpToMax ==
  ASSUME NEW n \in Nat, NEW a \in Nat \ {0}, a = 1 \/ a <= n
  PROVE  a \in 1 .. Max({1, n})
<1> DEFINE S == {1, n}
           m == n + 1
<1>1. m \in Nat /\ S \in SUBSET (0 .. m) /\ S # {} /\ 1 \in S /\ n \in S
  OBVIOUS
<1> HIDE DEF S, m
<1>2. Max(S) \in S /\ \A y \in S : y <= Max(S)
  BY <1>1, NumberMax
<1>3. Max(S) \in Int /\ a <= Max(S)
  <2>1. Max(S) \in 0 .. m
    BY <1>1, <1>2
  <2>2. Max(S) \in Int /\ 1 <= Max(S) /\ n <= Max(S)
    BY <1>1, <1>2, <2>1
  <2>3. CASE a = 1
    BY <2>2, <2>3
  <2>4. CASE a <= n
    BY <2>2, <2>4
  <2> QED
    BY <2>3, <2>4, <2>2
<1> QED
  BY <1>3 DEF S

\* The pane at a leaf.
LEMMA PaneAtPath ==
  ASSUME NEW t, GoodTree(t)
  PROVE  \A q \in DOMAIN t : t[q].id \in Ids(t) /\ t[q] = PaneOf(t, t[q].id) /\ GoodPane(t[q])
<1>1. Named(t) /\ \A id \in Ids(t) : GoodPane(PaneOf(t, id))
  BY DEF GoodTree, Tree
<1>2. \A q \in DOMAIN t : t[q].id \in Ids(t) /\ t[q] = PaneOf(t, t[q].id)
  BY <1>1, IdFacts
<1> QED
  BY <1>1, <1>2

\* What a step shows is saved, and its ptys kept for a reload.
LEMMA ApplyTreeSaves ==
  ASSUME NEW t, NEW focus, ApplyTree(t, focus)
  PROVE  Persist(tree')
BY DEF ApplyTree

\* So is the tree a terminal is added to.
LEMMA AddTerminalSaves ==
  ASSUME NEW tab, NEW at, NEW background, AddTerminal(tab, at, background)
  PROVE  Persist(tree')
BY ApplyTreeSaves DEF AddTerminal

\* Every step saves the tree it shows, or keeps no more ptys for a reload.
LEMMA StepSaves ==
  ASSUME Inv, Next
  PROVE  Persist(tree') \/ live' \subseteq live
<1>1. CASE AskTab \/ AskSplit \/ AskRestart \/ AskResume \/ AskLayout \/ StartFails
  BY <1>1 DEF AskTab, AskSplit, AskRestart, AskResume, AskLayout, Awaits, StartFails
<1>2. CASE TabLands \/ ResumeLands
  BY <1>2, AddTerminalSaves DEF TabLands, ResumeLands
<1>3. CASE SplitLands
  BY <1>3, ApplyTreeSaves DEF SplitLands
<1>4. CASE RestartLands
  <2>1. PICK f \in Calls : RestartLanded(f, Min(FreePtys))
    BY <1>4, RestartLandsShows
  <2> QED
    BY <2>1 DEF RestartLanded, Shows
<1>5. CASE LayoutLands
  BY <1>5, LayoutShows DEF LayoutLanded, Shows
<1>6. CASE EnsureRootPane \/ FocusTerminal \/ FocusService \/ ReorderTerminals \/ MoveTerminal
  BY <1>6, EnsureRootPaneShows, FocusTerminalShows, FocusServiceShows, ReorderTerminalsShows,
      MoveTerminalShows DEF Shows
<1>7. CASE FocusPane
  BY <1>7 DEF FocusPane, Persist
<1>8. CASE CloseOthers \/ CloseTerminalsById
  BY <1>8, BatchClosed DEF Shows
<1>9. CASE CloseTerminal
  BY <1>9, CloseTerminalCloses DEF TabClosed, Shows
<1>10. CASE ClosePane
  BY <1>10, ApplyTreeSaves DEF ClosePane, CollapsePane
<1>11. CASE UndoClose \/ UndoPaneClose
  BY <1>11, UndoCloseShows, ApplyTreeSaves DEF Shows, UndoPaneClose
<1>12. CASE FinalizeClose \/ FinalizePaneClose \/ PtyDies \/ Unmounts \/ Quits \/ Reloads \/ Mounts
  BY <1>12 DEF FinalizeClose, FinalizePaneClose, PtyDies, Unmounts, Quits, Reloads, Mounts
<1>13. CASE Restore
  <2>1. GoodSaved(restoring)
    BY DEF Inv, SavedOK
  <2> QED
    BY <1>13, <2>1, RestoreShows DEF RestoreLanded
<1> QED
  BY <1>1, <1>2, <1>3, <1>4, <1>5, <1>6, <1>7, <1>8, <1>9, <1>10, <1>11, <1>12, <1>13 DEF Next

\* Only those five steps touch the view and what is stranded or forgone.
LEMMA StepOfPage ==
  ASSUME Next, ~(PtyDies \/ Unmounts \/ Quits \/ Reloads \/ Mounts)
  PROVE  UNCHANGED page /\ opened \subseteq opened'
<1>1. AskTab \/ AskSplit \/ AskRestart \/ AskResume \/ AskLayout =>
    UNCHANGED page /\ opened \subseteq opened'
  BY DEF AskTab, AskSplit, AskRestart, AskResume, AskLayout, Awaits
<1>2. TabLands \/ ResumeLands \/ SplitLands \/ RestartLands \/ LayoutLands \/ StartFails =>
    UNCHANGED page /\ opened \subseteq opened'
  BY DEF TabLands, ResumeLands, SplitLands, RestartLands, LayoutLands, StartFails
<1>3. EnsureRootPane \/ FocusTerminal \/ FocusService \/ FocusPane \/ ReorderTerminals \/
    MoveTerminal => UNCHANGED page /\ opened \subseteq opened'
  BY DEF EnsureRootPane, FocusTerminal, FocusService, FocusPane, ReorderTerminals, MoveTerminal, Arranged
<1>4. CloseTerminal \/ CloseOthers \/ ClosePane \/ UndoClose \/ FinalizeClose \/ UndoPaneClose \/
    FinalizePaneClose
      => UNCHANGED page /\ opened \subseteq opened'
  BY DEF CloseTerminal, CloseOthers, ClosePane, UndoClose, FinalizeClose, UndoPaneClose,
      FinalizePaneClose
<1>5. CloseTerminalsById \/ Restore => UNCHANGED page /\ opened \subseteq opened'
  BY DEF CloseTerminalsById, Restore
<1> QED
  BY <1>1, <1>2, <1>3, <1>4, <1>5 DEF Next

\* Every step keeps the types of the page.
LEMMA NextKeepsPage ==
  ASSUME Inv, Inv', Page, [Next]_vars
  PROVE  Page'
<1>1. live' \subseteq Ptys
  <2>1. CASE Persist(tree')
    <3>1. \A x \in TabSet(tree') : x.id \in Ptys
      <4>1. GoodTree(tree')
        BY DEF Inv
      <4>2. \A id \in Ids(tree') : PaneOf(tree', id).tabs \in Seq(TabRecs)
        BY <4>1, TabsOfPane
      <4>3. \A x \in TabSet(tree') : \E id \in Ids(tree') : x \in ToSet(PaneOf(tree', id).tabs)
        BY <4>1, TabSetFacts DEF GoodTree
      <4>4. \A tabs \in Seq(TabRecs) : ToSet(tabs) \subseteq TabRecs
        <5> HIDE DEF TabRecs
        <5> QED
          BY ToSetFacts
      <4> QED
        BY <4>2, <4>3, <4>4 DEF TabRecs
    <3> QED
      BY <2>1, <3>1 DEF Persist
  <2>2. CASE live' \subseteq live
    BY <2>2 DEF Page
  <2>3. CASE UNCHANGED vars
    BY <2>3 DEF Page, vars
  <2> QED
    BY <2>1, <2>2, <2>3, StepSaves
<1>2. view' \in {"mounted", "unmounted", "woken"} /\ stranded' \subseteq Ptys /\
    forgone' \subseteq opened'
  <2>1. CASE Next /\ ~(PtyDies \/ Unmounts \/ Quits \/ Reloads \/ Mounts)
    BY <2>1, StepOfPage DEF Page, page
  <2>2. CASE PtyDies \/ Unmounts \/ Mounts
    BY <2>2 DEF PtyDies, Unmounts, Mounts, Page
  <2>3. CASE Quits \/ Reloads
    <3>1. PageGoes
      BY <2>3 DEF Quits, Reloads
    <3>2. view' = "unmounted" /\ forgone' \subseteq opened'
      BY <3>1, PageGoesFacts, OnScreen DEF Page
    <3>3. stranded' \subseteq Ptys
      BY <2>3, OnScreen, FreePtyFacts, ReloadLeaves DEF Quits
    <3> QED
      BY <3>2, <3>3
  <2>4. CASE UNCHANGED vars
    BY <2>4 DEF Page, vars, page
  <2> QED
    BY <2>1, <2>2, <2>3, <2>4
<1> QED
  BY <1>1, <1>2 DEF Page

\* The invariants give the types,
LEMMA InvTypeOK ==
  ASSUME Inv, Page
  PROVE  TypeOK
<1>1. GoodTree(tree) /\ Tree(tree) /\ TreeShape(tree)
  BY OnScreen DEF GoodTree, Tree
<1>2. WellFormed(tree) /\ Ids(tree) \subseteq PaneNames /\
    Cardinality(Ids(tree)) = Cardinality(DOMAIN tree)
  BY <1>1, ShapeWellFormed, OnScreen, AsManyNames
<1>3. ASSUME NEW q \in DOMAIN tree
      PROVE  /\ ToSet(tree[q].tabs) \subseteq [s : {NoSession} \cup Sessions, id : Ptys]
             /\ tree[q].active \in 1 .. Max({1, Len(tree[q].tabs)})
             /\ tree[q].svc \in BOOLEAN
  <2> DEFINE p == tree[q]
  <2>1. GoodPane(p)
    BY <1>1, <1>3, PaneAtPath
  <2> HIDE DEF p
  <2>2. /\ p.tabs \in Seq(TabRecs) /\ p.active \in Nat \ {0} /\ p.svc \in BOOLEAN
        /\ p.active = 1 \/ p.active <= Len(p.tabs)
        /\ Len(p.tabs) \in Nat
    BY <2>1, PaneParts
  <2>3. ToSet(p.tabs) \subseteq TabRecs
    <3> HIDE DEF TabRecs
    <3> QED
      BY <2>2, ToSetFacts
  <2>4. p.active \in 1 .. Max({1, Len(p.tabs)})
    BY <2>2, UpToMax
  <2> QED
    BY <2>2, <2>3, <2>4 DEF p, TabRecs, Names
<1>4. focused \in PaneNames \cup {NoPane} /\ running \subseteq Ptys /\ history \subseteq opened /\
    opened \subseteq Sessions /\ hold \in BOOLEAN
  BY DEF Inv, Focused, Known, SavedOK
<1>5. \A e \in pending : e.tab.id \in Ptys /\ e.pane \in PaneNames
  BY DEF Inv, Held, TabRecs
<1> QED
  BY <1>2, <1>3, <1>4, <1>5 DEF TypeOK, Page

\* that a tab is in one place,
LEMMA InvInOnePlace ==
  ASSUME Inv
  PROVE  InOnePlace
<1>1. GoodTree(tree) /\ \A a, b \in Ids(tree) : a # b =>
    Distinct(PaneOf(tree, a).tabs, PaneOf(tree, b).tabs)
  BY OnScreen DEF GoodTree
<1>2. ASSUME NEW p \in DOMAIN tree, NEW q \in DOMAIN tree, NEW i \in 1 .. Len(tree[p].tabs),
    NEW j \in 1 .. Len(tree[q].tabs),
             tree[p].tabs[i].id = tree[q].tabs[j].id
      PROVE  p = q /\ i = j
  <2>1. GoodPane(tree[p]) /\ GoodPane(tree[q]) /\ tree[p] = PaneOf(tree, tree[p].id) /\
      tree[q] = PaneOf(tree, tree[q].id)
        /\ tree[p].id \in Ids(tree) /\ tree[q].id \in Ids(tree)
    BY <1>1, PaneAtPath
  <2>2. tree[p].tabs \in Seq(TabRecs) /\ tree[q].tabs \in Seq(TabRecs) /\ Apart(tree[p].tabs)
    BY <2>1, PaneParts
  <2>3. tree[p].tabs[i] \in ToSet(tree[p].tabs) /\ tree[q].tabs[j] \in ToSet(tree[q].tabs)
    <3> HIDE DEF TabRecs
    <3> QED
      BY <2>2, ToSetFacts
  <2>4. tree[p].id = tree[q].id
    BY <1>1, <1>2, <2>1, <2>3 DEF Distinct
  <2>5. p = q
    BY <1>1, <2>4 DEF GoodTree, Tree, Named
  <2> QED
    BY <1>2, <2>2, <2>5 DEF Apart
<1>3. /\ \A e, c \in pending : e.tab.id = c.tab.id => e = c
      /\ \A e \in pending : \A tab \in TabsShown : tab.id # e.tab.id
  BY DEF Inv, Held
<1> QED
  BY <1>2, <1>3 DEF InOnePlace

\* and that what an undo brings back is where it was: ClosedPaneComesBack.
LEMMA InvUndoIsExact ==
  ASSUME Inv
  PROVE  UndoIsExact
<1>1. Tree(tree)
  BY OnScreen DEF GoodTree
<1> QED
  BY <1>1, ClosedPaneComesBack, EverySplitComesBack DEF UndoIsExact

\* The tree, the focus, the closes that can be undone and what is saved are good in every
\* state, unless a pane is closed while a terminal for it is being started.
THEOREM Invariance ==
  ASSUME Races \subseteq {"resume", "unmount"}
  PROVE  Spec => []Inv
<1>1. Init => Inv
  BY InitHasInv
<1>2. Inv /\ [Next]_vars => Inv'
  <2>1. "close" \notin Races
    OBVIOUS
  <2> QED
    BY <2>1, NextKeepsInv
<1> QED
  BY <1>1, <1>2, PTL DEF Spec

\* The types of the page.
LEMMA SpecPage ==
  ASSUME Races \subseteq {"resume", "unmount"}
  PROVE  Spec => []Page
<1>1. Init => Page
  BY DEF Init, Page
<1>2. Inv /\ Inv' /\ Page /\ [Next]_vars => Page'
  BY NextKeepsPage
<1> QED
  BY <1>1, <1>2, Invariance, PTL DEF Spec

\* The tree that the window shows is a tree, and every variable of it keeps its type,
\* whatever the operations of usePaneOps.ts, useTabClose.ts, usePaneClose.ts and
\* useTabCreation.ts do to it, and whenever the view or the page goes.
THEOREM TypeCorrect ==
  ASSUME Races \subseteq {"resume", "unmount"}
  PROVE  Spec => []TypeOK
<1>1. Inv /\ Page => TypeOK
  BY InvTypeOK
<1> QED
  BY <1>1, Invariance, SpecPage, PTL

\* The pane that is focused is in the tree, so a new tab has a pane to go to (focusedPaneId).
THEOREM FocusedPaneIsShown ==
  ASSUME Races \subseteq {"resume", "unmount"}
  PROVE  Spec => []FocusThere
<1>1. Inv => FocusThere
  BY DEF Inv, Focused
<1> QED
  BY <1>1, Invariance, PTL

\* No pty has two tabs: a tab that is closed behind an undo toast, moved, merged into a
\* layout or restored is in one place.
THEOREM TabsAreInOnePlace ==
  ASSUME Races \subseteq {"resume", "unmount"}
  PROVE  Spec => []InOnePlace
<1>1. Inv => InOnePlace
  BY InvInOnePlace
<1> QED
  BY <1>1, Invariance, PTL

\* A pane that is closed and brought back at once is where it was, in every tree the
\* window can show (paneSpot and restorePane).
THEOREM UndoPutsBack ==
  ASSUME Races \subseteq {"resume", "unmount"}
  PROVE  Spec => []UndoIsExact
<1>1. Inv => UndoIsExact
  BY InvUndoIsExact
<1> QED
  BY <1>1, Invariance, PTL

-----------------------------------------------------------------------------
(* Every step keeps ptys and sessions accounted for.                       *)

\* A saved tree backs its sessions.
LEMMA SavedBacks ==
  ASSUME Inv, GoodTree(tree'), Persist(tree')
  PROVE  SessionsOf(TabSet(tree')) \subseteq SavedSessions(disk') \cup history'
<1>1. GoodSaved(disk) /\ hold \in BOOLEAN
  BY DEF Inv, SavedOK
<1> QED
  BY <1>1, PersistFacts

\* What Accounted says of a tree in use.
LEMMA AccountedIs ==
  ASSUME Accounted, Busy
  PROVE  /\ \A id \in running : id \in stranded \/ \E x \in TabsShown \cup TabsHeld : x.id = id
         /\ \A s \in opened : s \in history \cup forgone \/ \E x \in TabsShown \cup TabsHeld : x.s = s
         /\ SessionsOf(TabsShown) \subseteq SavedSessions(disk) \cup history
         /\ \A f \in Calls : f.old \notin running
BY DEF Accounted, Placed, Backed

\* Nothing waits behind a toast where no view is mounted.
LEMMA HeldInView ==
  ASSUME Accounted, InView \/ UNCHANGED <<pending, pendingPanes>>, UNCHANGED <<restoring, page>>
  PROVE  /\ UNCHANGED <<view, stranded, forgone>> /\ InView' = InView /\ Settled' = Settled
         /\ Settled => Away'
         /\ ~InView => TabsHeld' = {}
<1>1. UNCHANGED <<view, stranded, forgone>>
  BY DEF page
<1>2. InView' = InView /\ Settled' = Settled
  BY <1>1 DEF InView, Settled
<1>3. ~InView => pending' = {} /\ pendingPanes' = {}
  BY DEF Accounted, Away
<1>4. view' \in {"mounted", "unmounted"}
  BY <1>1 DEF Accounted, Away
<1>5. Settled => Away'
  BY <1>2, <1>3, <1>4 DEF Away
<1>6. ~InView => TabsHeld' = {}
  BY <1>3 DEF TabsHeld
<1> QED
  BY <1>1, <1>2, <1>5, <1>6

\* A step on a tree in use, which is saved or left as it is.
LEMMA AccountedStep ==
  ASSUME Inv, Accounted, Busy, UNCHANGED <<restoring, page>>, InView \/
         UNCHANGED <<pending, pendingPanes>>,
         \A id \in running' : id \in stranded \/ \E x \in TabSet(tree') \cup TabsHeld' : x.id = id,
         \A s \in opened' : s \in history' \cup forgone \/ \E x \in TabSet(tree') \cup TabsHeld' :
             x.s = s,
         opened' \subseteq Sessions,
         \/ GoodTree(tree') /\ Persist(tree')
         \/ UNCHANGED <<tree, disk, hold, live>> /\ running' \subseteq running /\
              opened' \subseteq opened /\ history \subseteq history',
         \A f \in Calls' : f.old \notin running'
  PROVE  Accounted'
<1>1. /\ UNCHANGED <<view, stranded, forgone>> /\ InView' = InView /\ Settled' /\ Away' /\ Settled
      /\ ~InView => TabsHeld' = {}
  BY HeldInView DEF Busy
<1>2. /\ TabsShown' = TabSet(tree') /\ SessionsOf(TabsShown)' = SessionsOf(TabSet(tree'))
      /\ SessionsOf(TabsHeld)' = SessionsOf(TabsHeld') /\ SavedSessions(disk)' = SavedSessions(disk')
  BY DEF TabsShown, SessionsOf, SavedSessions
<1>3. Quiet'
  BY <1>1 DEF Quiet
<1>4. SessionsOf(TabSet(tree')) \subseteq SavedSessions(disk') \cup history'
  <2>1. CASE UNCHANGED <<tree, disk, hold, live>> /\ history \subseteq history'
    <3>1. SessionsOf(TabSet(tree')) = SessionsOf(TabsShown) /\ SavedSessions(disk') = SavedSessions(disk)
      BY <2>1 DEF TabsShown
    <3> QED
      BY <2>1, <3>1, AccountedIs
  <2> QED
    BY <2>1, SavedBacks
<1>5. Backed'
  BY <1>2, <1>4 DEF Backed
<1>6. Placed'
  BY <1>1, <1>2 DEF Placed
<1>7. NoOrphan'
  <2>1. CASE GoodTree(tree') /\ Persist(tree')
    <3>1. live' = {tab.id : tab \in TabSet(tree')}
      BY <2>1 DEF Persist
    <3>2. CASE InView
      BY <1>1, <1>2, <3>1, <3>2 DEF NoOrphan
    <3>3. CASE ~InView
      <4>1. \A id \in running' : id \in stranded \/ \E x \in TabSet(tree') : x.id = id
        BY <1>1, <3>3
      <4> QED
        BY <1>1, <1>2, <3>1, <3>3, <4>1 DEF NoOrphan
    <3> QED
      BY <3>2, <3>3
  <2>2. CASE UNCHANGED <<tree, disk, hold, live>> /\ running' \subseteq running
    <3>1. TabsShown' = TabsShown
      BY <2>2 DEF TabsShown
    <3>2. running \subseteq stranded \cup
        (IF InView THEN {tab.id : tab \in TabsShown \cup TabsHeld} ELSE live)
          /\ (live # {} => running \cap {tab.id : tab \in TabsShown} \subseteq live)
      BY DEF Accounted, NoOrphan
    <3>3. live' # {} => running' \cap {tab.id : tab \in TabsShown'} \subseteq live'
      BY <2>2, <3>1, <3>2
    <3>4. CASE InView
      BY <1>1, <1>2, <3>3, <3>4 DEF NoOrphan
    <3>5. CASE ~InView
      BY <1>1, <2>2, <3>2, <3>3, <3>5 DEF NoOrphan
    <3> QED
      BY <3>4, <3>5
  <2> QED
    BY <2>1, <2>2
<1>8. NoSessionLost'
  <2>1. \A s \in opened' : s # NoSession
    BY Bounds
  <2>2. \A s \in opened' : s \in history' \cup forgone \cup SessionsOf(TabSet(tree')) \cup
      SessionsOf(TabsHeld')
    BY <2>1 DEF SessionsOf
  <2>3. SessionsOf(TabSet(tree') \cup TabsHeld') = SessionsOf(TabSet(tree')) \cup SessionsOf(TabsHeld')
    BY DEF SessionsOf
  <2>4. SessionsOf(TabsShown \cup TabsHeld)' = SessionsOf(TabSet(tree') \cup TabsHeld')
    BY <1>2 DEF SessionsOf
  <2>5. CASE InView
    BY <1>1, <1>2, <2>2, <2>3, <2>4, <2>5 DEF NoSessionLost
  <2>6. CASE ~InView
    <3>1. SessionsOf(TabsHeld') = {}
      BY <1>1, <2>6 DEF SessionsOf
    <3>2. \A s \in opened' : s \in history' \cup forgone \cup SavedSessions(disk')
      BY <1>4, <2>2, <3>1
    <3> QED
      BY <1>1, <1>2, <2>6, <3>2 DEF NoSessionLost
  <2> QED
    BY <2>5, <2>6
<1> QED
  BY <1>1, <1>3, <1>5, <1>6, <1>7, <1>8 DEF Accounted

\* The steps of a view that is mounted, and those that end a call.
LEMMA OnlyWhenBusy ==
  ASSUME Accounted, Races = {}, Next, ~(PtyDies \/ Unmounts \/ Quits \/ Reloads \/ Mounts \/ Restore)
  PROVE  /\ Busy
         /\ TabLands \/ ResumeLands \/ SplitLands \/ RestartLands \/ LayoutLands \/ StartFails \/ InView
<1>1. view \in {"mounted", "unmounted"} /\ (~InView => pending = {} /\ pendingPanes = {})
  BY DEF Accounted, Away
<1>2. CASE TabLands \/ ResumeLands \/ SplitLands \/ RestartLands \/ LayoutLands \/ StartFails
  <2>1. BagToSet(flights) # {}
    BY <1>2 DEF TabLands, ResumeLands, SplitLands, RestartLands, LayoutLands, StartFails
  <2>2. Calls # {} /\ Settled
    BY <2>1 DEF Calls, Accounted, Quiet
  <2> QED
    BY <1>2, <2>2 DEF Busy
<1>3. CASE ~(TabLands \/ ResumeLands \/ SplitLands \/ RestartLands \/ LayoutLands \/ StartFails)
  <2>1. AskTab \/ AskSplit \/ AskRestart \/ AskResume \/ AskLayout => InView
    BY <1>1 DEF AskTab, AskSplit, AskRestart, AskResume, AskLayout, InView
  <2>2. EnsureRootPane \/ FocusTerminal \/ FocusService \/ FocusPane \/ ReorderTerminals \/
      MoveTerminal => InView
    BY <1>1 DEF EnsureRootPane, FocusTerminal, FocusService, FocusPane, ReorderTerminals,
        MoveTerminal, InView
  <2>3. CloseTerminal \/ CloseOthers \/ CloseTerminalsById \/ ClosePane => InView
    BY DEF CloseTerminal, CloseOthers, CloseTerminalsById, ClosePane
  <2>4. UndoClose \/ FinalizeClose \/ UndoPaneClose \/ FinalizePaneClose => InView
    BY <1>1 DEF UndoClose, FinalizeClose, UndoPaneClose, FinalizePaneClose
  <2>5. InView
    BY <1>3, <2>1, <2>2, <2>3, <2>4 DEF Next
  <2>6. CASE ~Settled
    <3>1. tree = NoTree /\ pending = {} /\ pendingPanes = {}
      BY <2>6 DEF Accounted, Quiet
    <3>2. Ids(tree) = {} /\ TabsShown = {}
      BY <3>1, NoPanes DEF TabsShown
    <3>3. ~AskTab /\ ~AskSplit /\ ~AskRestart /\ ~AskResume /\ ~AskLayout
      BY <2>6, <3>2 DEF AskTab, AskSplit, AskRestart, AskResume, AskLayout
    <3>4. ~EnsureRootPane /\ ~FocusTerminal /\ ~FocusService /\ ~FocusPane /\ ~ReorderTerminals /\
        ~MoveTerminal
      BY <2>6, <3>1, <3>2 DEF EnsureRootPane, FocusTerminal, FocusService, FocusPane,
          ReorderTerminals, MoveTerminal
    <3>5. ~CloseTerminal /\ ~CloseOthers /\ ~ClosePane /\ ~UndoClose /\ ~FinalizeClose /\
        ~UndoPaneClose /\ ~FinalizePaneClose
      BY <3>1, <3>2 DEF CloseTerminal, CloseOthers, ClosePane, UndoClose, FinalizeClose,
          UndoPaneClose, FinalizePaneClose
    <3>6. ~CloseTerminalsById
      BY <3>2 DEF CloseTerminalsById
    <3> QED
      BY <1>3, <3>3, <3>4, <3>5, <3>6 DEF Next
  <2> QED
    BY <2>5, <2>6 DEF Busy
<1> QED
  BY <1>2, <1>3

\* A step that moves no tab.
LEMMA StandingAccounted ==
  ASSUME Inv, Accounted, Busy,
         UNCHANGED <<tree, pending, pendingPanes, opened, history, restoring, page>>,
             running' \subseteq running,
         Persist(tree) \/ UNCHANGED <<disk, hold, live>>, \A f \in Calls' : f \in Calls \/
             f.old \notin running
  PROVE  Accounted'
<1>1. TabSet(tree') = TabsShown /\ TabsHeld' = TabsHeld /\ GoodTree(tree')
  BY OnScreen DEF TabsShown, TabsHeld
<1>2. /\ \A id \in running' : id \in stranded \/ \E x \in TabSet(tree') \cup TabsHeld' : x.id = id
      /\ \A s \in opened' : s \in history' \cup forgone \/ \E x \in TabSet(tree') \cup TabsHeld' :
           x.s = s
      /\ \A f \in Calls' : f.old \notin running'
      /\ opened' \subseteq Sessions
  BY <1>1, AccountedIs, OnScreen
<1>3. \/ GoodTree(tree') /\ Persist(tree')
      \/ UNCHANGED <<tree, disk, hold, live>> /\ running' \subseteq running /\
           opened' \subseteq opened /\ history \subseteq history'
  BY <1>1
<1> QED
  BY <1>2, <1>3, AccountedStep

\* A terminal is asked for: a restart has stopped its pty.
LEMMA AskedAccounted ==
  ASSUME Inv, Accounted, Busy, NEW f, f.old \notin running, Awaits(f)
  PROVE  Accounted'
<1>1. UNCHANGED <<tree, pending, pendingPanes, opened, history, restoring, page, running, disk, hold, live>>
  BY DEF Awaits
<1>2. \A c \in Calls' : c \in Calls \/ c.old \notin running
  BY CallFacts
<1> QED
  BY <1>1, <1>2, StandingAccounted

\* The five ways to ask for one.
LEMMA AsksAccounted ==
  ASSUME Inv, Accounted, Busy, AskTab \/ AskSplit \/ AskRestart \/ AskResume \/ AskLayout
  PROVE  Accounted'
<1>1. NoPty \notin running
  BY Bounds, OnScreen
<1>2. \A kind, at, s : Flight(kind, at, NoPty, s).old \notin running
  BY <1>1 DEF Flight
<1>3. CASE AskTab
  BY <1>2, <1>3, AskedAccounted DEF AskTab
<1>4. CASE AskSplit
  BY <1>2, <1>4, AskedAccounted DEF AskSplit
<1>5. CASE AskRestart
  <2>1. PICK tab \in TabsShown : tab.id \notin running /\
      Awaits(Flight("restart", NoPane, tab.id, NoSession))
    BY <1>5 DEF AskRestart
  <2>2. Flight("restart", NoPane, tab.id, NoSession).old \notin running
    BY <2>1 DEF Flight
  <2> QED
    BY <2>1, <2>2, AskedAccounted
<1>6. CASE AskResume
  BY <1>2, <1>6, AskedAccounted DEF AskResume
<1>7. CASE AskLayout
  BY <1>2, <1>7, AskedAccounted DEF AskLayout
<1> QED
  BY <1>3, <1>4, <1>5, <1>6, <1>7

\* A start that fails, and a focus.
LEMMA StandingStepsAccounted ==
  ASSUME Inv, Accounted, Busy, StartFails \/ FocusPane
  PROVE  Accounted'
<1>1. CASE StartFails
  <2>1. /\ UNCHANGED <<tree, pending, pendingPanes, opened, history, restoring, page, running, disk, hold, live>>
        /\ Calls' \subseteq Calls
    BY <1>1, CallFacts DEF StartFails
  <2> QED
    BY <2>1, StandingAccounted
<1>2. CASE FocusPane
  <2>1. /\ UNCHANGED <<tree, pending, pendingPanes, opened, history, restoring, page, running, flights>>
        /\ (Persist(tree) \/ UNCHANGED <<disk, hold, live>>)
    BY <1>2 DEF FocusPane, Arranged
  <2>2. Calls' = Calls
    BY <2>1 DEF Calls
  <2> QED
    BY <2>1, <2>2, StandingAccounted
<1> QED
  BY <1>1, <1>2

\* The five operations of usePaneOps.ts that move tabs and panes.
LEMMA PaneStepsAccounted ==
  ASSUME Inv, Accounted, Busy, EnsureRootPane \/ FocusTerminal \/ FocusService \/ ReorderTerminals \/
         MoveTerminal
  PROVE  Accounted'
<1>1. Arranged
  BY DEF EnsureRootPane, FocusTerminal, FocusService, ReorderTerminals, MoveTerminal
<1>2. \E names \in SUBSET (Ids(tree) \cup FreePanes) : Shows(TabsShown, names)
  BY EnsureRootPaneShows, FocusTerminalShows, FocusServiceShows, ReorderTerminalsShows, MoveTerminalShows
<1>3. GoodTree(tree') /\ Persist(tree') /\ TabSet(tree') = TabsShown
  BY <1>2 DEF Shows
<1>4. UNCHANGED <<pending, pendingPanes, flights, running, history, opened, restoring, page>> /\
    TabsHeld' = TabsHeld /\ Calls' = Calls
  BY <1>1 DEF Arranged, TabsHeld, Calls
<1>5. /\ \A id \in running' : id \in stranded \/ \E x \in TabSet(tree') \cup TabsHeld' : x.id = id
      /\ \A s \in opened' : s \in history' \cup forgone \/ \E x \in TabSet(tree') \cup TabsHeld' :
           x.s = s
      /\ \A f \in Calls' : f.old \notin running'
      /\ opened' \subseteq Sessions
  BY <1>3, <1>4, AccountedIs, OnScreen
<1> QED
  BY <1>3, <1>4, <1>5, AccountedStep

\* Tabs that are final: their ptys are stopped and their sessions listed.
LEMMA DisposedAccounted ==
  ASSUME Inv, Accounted, Busy, InView, NEW tabs \in SUBSET (TabsShown \cup TabsHeld), Dispose(tabs),
         \A x \in TabsShown \cup TabsHeld : x \in tabs \/ x \in TabSet(tree') \cup TabsHeld',
         (GoodTree(tree') /\ Persist(tree')) \/ UNCHANGED <<tree, disk, hold, live>>,
         Calls' \subseteq Calls, UNCHANGED <<opened, restoring, page>>
  PROVE  Accounted'
<1>1. running' = running \ {x.id : x \in tabs} /\ history' = history \cup SessionsOf(tabs)
  BY DEF Dispose, Recorded
<1>2. \A id \in running' : id \in stranded \/ \E x \in TabSet(tree') \cup TabsHeld' : x.id = id
  <2>1. ASSUME NEW id \in running', id \notin stranded
        PROVE  \E x \in TabSet(tree') \cup TabsHeld' : x.id = id
    <3>1. PICK x \in TabsShown \cup TabsHeld : x.id = id
      BY <1>1, <2>1, AccountedIs
    <3>2. x \notin tabs
      BY <1>1, <2>1, <3>1
    <3> QED
      BY <3>1, <3>2
  <2> QED
    BY <2>1
<1>3. \A s \in opened' : s \in history' \cup forgone \/ \E x \in TabSet(tree') \cup TabsHeld' : x.s = s
  <2>1. ASSUME NEW s \in opened, s \notin history' \cup forgone, NEW x \in TabsShown \cup TabsHeld,
      x.s = s
        PROVE  x \in TabSet(tree') \cup TabsHeld'
    <3>1. s # NoSession
      BY <2>1, OnScreen, Bounds
    <3>2. x \notin tabs
      BY <1>1, <2>1, <3>1 DEF SessionsOf
    <3> QED
      BY <3>2
  <2>2. ASSUME NEW s \in opened, s \notin history' \cup forgone
        PROVE  \E x \in TabSet(tree') \cup TabsHeld' : x.s = s
    <3>1. s \notin history \cup forgone
      BY <1>1, <2>2
    <3>2. PICK x \in TabsShown \cup TabsHeld : x.s = s
      BY <3>1, AccountedIs
    <3> QED
      BY <2>1, <2>2, <3>2
  <2> QED
    BY <2>2
<1>4. opened' \subseteq Sessions /\ \A f \in Calls' : f.old \notin running'
  BY <1>1, OnScreen, AccountedIs
<1>5. \/ GoodTree(tree') /\ Persist(tree')
      \/ UNCHANGED <<tree, disk, hold, live>> /\ running' \subseteq running /\
           opened' \subseteq opened /\ history \subseteq history'
  BY <1>1
<1> QED
  BY <1>2, <1>3, <1>4, <1>5, AccountedStep

\* The two batch closes stop what they close and list its sessions.
LEMMA BatchClosesAccounted ==
  ASSUME Inv, Accounted, Busy, InView, CloseOthers \/ CloseTerminalsById
  PROVE  Accounted'
<1>1. PICK closing \in SUBSET TabsShown :
        /\ Shows(TabsShown \ closing, Ids(tree)) /\ Dispose(closing)
        /\ UNCHANGED <<pending, pendingPanes, flights, opened, restoring, page>>
  BY BatchClosed
<1>2. GoodTree(tree') /\ Persist(tree') /\ TabSet(tree') = TabsShown \ closing /\
    TabsHeld' = TabsHeld /\ Calls' = Calls
  BY <1>1 DEF Shows, TabsHeld, Calls
<1>3. \A x \in TabsShown \cup TabsHeld : x \in closing \/ x \in TabSet(tree') \cup TabsHeld'
  BY <1>2
<1> QED
  BY <1>1, <1>2, <1>3, DisposedAccounted

\* A step after which each tab that was shown or held is shown or held.
LEMMA HandedOver ==
  ASSUME Inv, Accounted, Busy, InView, GoodTree(tree'), Persist(tree'),
         TabsShown \cup TabsHeld \subseteq TabSet(tree') \cup TabsHeld',
         UNCHANGED <<flights, running, history, opened, restoring, page>>
  PROVE  Accounted'
<1>1. Calls' = Calls
  BY DEF Calls
<1>2. /\ \A id \in running' : id \in stranded \/ \E x \in TabSet(tree') \cup TabsHeld' : x.id = id
      /\ \A s \in opened' : s \in history' \cup forgone \/ \E x \in TabSet(tree') \cup TabsHeld' :
           x.s = s
      /\ \A f \in Calls' : f.old \notin running'
      /\ opened' \subseteq Sessions
  BY <1>1, AccountedIs, OnScreen
<1> QED
  BY <1>2, AccountedStep

\* A closed tab is held behind its toast, or had ended and is listed.
LEMMA CloseTerminalAccounted ==
  ASSUME Inv, Accounted, Busy, InView, CloseTerminal
  PROVE  Accounted'
<1>1. PICK tab \in TabsShown : TabClosed(tab)
  BY CloseTerminalCloses
<1>2. /\ GoodTree(tree') /\ Persist(tree') /\ TabSet(tree') = TabsShown \ {tab}
      /\ UNCHANGED <<pendingPanes, flights, running, opened, restoring, page>>
  BY <1>1 DEF TabClosed, Shows
<1>3. CASE tab.id \notin running /\ history' = Recorded({tab}) /\ UNCHANGED pending
  <2>1. Dispose({tab})
    BY <1>2, <1>3 DEF Dispose
  <2>2. TabsHeld' = TabsHeld /\ Calls' = Calls
    BY <1>2, <1>3 DEF TabsHeld, Calls
  <2>3. \A x \in TabsShown \cup TabsHeld : x \in {tab} \/ x \in TabSet(tree') \cup TabsHeld'
    BY <1>2, <2>2
  <2>4. {tab} \in SUBSET (TabsShown \cup TabsHeld)
    BY <1>1
  <2> QED
    BY <1>2, <2>1, <2>2, <2>3, <2>4, DisposedAccounted
<1>4. CASE (\E id \in Ids(tree), i \in Nat \ {0} : pending' = pending \cup
    {Closing(tab, id, i, TRUE)}) /\ UNCHANGED history
  <2>1. PICK id \in Ids(tree) : \E i \in Nat \ {0} : pending' = pending \cup {Closing(tab, id, i, TRUE)}
    BY <1>4
  <2>2. PICK i \in Nat \ {0} : pending' = pending \cup {Closing(tab, id, i, TRUE)}
    BY <2>1
  <2> DEFINE new == Closing(tab, id, i, TRUE)
  <2>3. new.tab = tab /\ pending' = pending \cup {new}
    BY <2>2 DEF Closing
  <2> HIDE DEF new
  <2>4. TabsHeld' = TabsHeld \cup {tab}
    BY <2>3 DEF TabsHeld
  <2>5. TabsShown \cup TabsHeld \subseteq TabSet(tree') \cup TabsHeld'
    BY <1>2, <2>4
  <2> QED
    BY <1>2, <1>4, <2>5, HandedOver
<1> QED
  BY <1>1, <1>3, <1>4 DEF TabClosed

\* A closed pane's tabs are held behind its toast.
LEMMA ClosePaneAccounted ==
  ASSUME Inv, Accounted, Busy, InView, "close" \notin Races, ClosePane
  PROVE  Accounted'
<1>1. PICK pane, spot : PaneClosed(pane, spot)
  BY ClosePaneCloses
<1> DEFINE new == {Closing(pane.tabs[i], pane.id, i, FALSE) : i \in 1 .. Len(pane.tabs)}
<1>2. /\ GoodTree(tree') /\ Persist(tree') /\ TabSet(tree') = TabsShown \ ToSet(pane.tabs)
      /\ pending' = pending \cup new /\ UNCHANGED <<flights, running, history, opened, restoring, page>>
      /\ pane = PaneOf(tree, pane.id) /\ pane.id \in Ids(tree)
  BY <1>1 DEF PaneClosed, Shows
<1>3. pane.tabs \in Seq(TabRecs)
  BY <1>2, OnScreen, TabsOfPane
<1>4. ASSUME NEW x \in ToSet(pane.tabs)
      PROVE  x \in TabsHeld'
  <2>1. PICK i \in 1 .. Len(pane.tabs) : x = pane.tabs[i]
    <3> HIDE DEF TabRecs
    <3> QED
      BY <1>3, <1>4, ToSetFacts
  <2>2. Closing(x, pane.id, i, FALSE) \in pending' /\ Closing(x, pane.id, i, FALSE).tab = x
    BY <1>2, <2>1 DEF Closing
  <2> QED
    BY <2>2 DEF TabsHeld
<1>5. TabsHeld \subseteq TabsHeld'
  <2> HIDE DEF new
  <2> QED
    BY <1>2 DEF TabsHeld
<1>6. TabsShown \cup TabsHeld \subseteq TabSet(tree') \cup TabsHeld'
  BY <1>2, <1>4, <1>5
<1> QED
  BY <1>2, <1>6, HandedOver

\* The held tab is on screen again,
LEMMA UndoCloseAccounted ==
  ASSUME Inv, Accounted, Busy, InView, UndoClose
  PROVE  Accounted'
<1>1. PICK e \in pending : e.own /\ pending' = pending \ {e} /\
    Shows(TabsShown \cup {e.tab}, Ids(tree) \cup FreePanes)
  BY UndoCloseShows
<1>2. UNCHANGED <<flights, running, history, opened, restoring, page>>
  BY DEF UndoClose
<1>3. GoodTree(tree') /\ Persist(tree') /\ TabSet(tree') = TabsShown \cup {e.tab}
  BY <1>1 DEF Shows
<1>4. TabsShown \cup TabsHeld \subseteq TabSet(tree') \cup TabsHeld'
  BY <1>1, <1>3 DEF TabsHeld
<1> QED
  BY <1>2, <1>3, <1>4, HandedOver

\* or is stopped and listed.
LEMMA FinalizeCloseAccounted ==
  ASSUME Inv, Accounted, Busy, InView, FinalizeClose
  PROVE  Accounted'
<1>1. PICK e \in pending : e.own /\ pending' = pending \ {e} /\ Dispose({e.tab})
  BY DEF FinalizeClose
<1>2. UNCHANGED <<tree, focused, pendingPanes, flights, disk, hold, live, opened, restoring, page>>
  BY DEF FinalizeClose
<1>3. TabSet(tree') = TabsShown /\ Calls' \subseteq Calls
  BY <1>2 DEF TabsShown, Calls
<1>4. {e.tab} \in SUBSET (TabsShown \cup TabsHeld)
  BY DEF TabsHeld
<1>5. \A x \in TabsShown \cup TabsHeld : x \in {e.tab} \/ x \in TabSet(tree') \cup TabsHeld'
  BY <1>1, <1>3 DEF TabsHeld
<1> QED
  BY <1>1, <1>2, <1>3, <1>4, <1>5, DisposedAccounted

\* The tabs held after those of a pane are taken.
LEMMA StillHeld ==
  ASSUME Inv, NEW e \in pendingPanes, pending' = TakesTabsToo(e)
  PROVE  TabsHeld \subseteq TabsHeld' \cup ToSet(e.pane.tabs) /\ ToSet(e.pane.tabs) \subseteq TabsHeld
<1> DEFINE gone == {c \in pending : c.tab \in ToSet(e.pane.tabs)}
<1>1. pending' = pending \ gone /\ \A x : x \in ToSet(e.pane.tabs) <=> \E c \in gone : x = c.tab
  BY TakenTabs
<1>2. gone \subseteq pending
  OBVIOUS
<1> HIDE DEF gone
<1> QED
  BY <1>1, <1>2 DEF TabsHeld

\* The held pane is on screen again, all of its tabs with it,
LEMMA UndoPaneCloseAccounted ==
  ASSUME Inv, Accounted, Busy, InView, UndoPaneClose
  PROVE  Accounted'
<1>1. PICK e \in pendingPanes :
        /\ pendingPanes' = pendingPanes \ {e} /\ pending' = TakesTabsToo(e)
        /\ ApplyTree(RestorePane(tree, e.pane, e.spot), e.pane.id)
        /\ UNCHANGED <<flights, running, history, opened, restoring, page>>
  BY DEF UndoPaneClose
<1>2. GoodTree(tree') /\ Persist(tree') /\ TabSet(tree') = TabsShown \cup ToSet(e.pane.tabs)
  BY <1>1, UndoPaneCloseShows DEF Shows
<1>3. TabsShown \cup TabsHeld \subseteq TabSet(tree') \cup TabsHeld'
  BY <1>1, <1>2, StillHeld
<1> QED
  BY <1>1, <1>2, <1>3, HandedOver

\* or they are stopped and listed.
LEMMA FinalizePaneCloseAccounted ==
  ASSUME Inv, Accounted, Busy, InView, FinalizePaneClose
  PROVE  Accounted'
<1>1. PICK e \in pendingPanes :
        /\ pendingPanes' = pendingPanes \ {e} /\ pending' = TakesTabsToo(e)
        /\ Dispose(ToSet(e.pane.tabs))
        /\ UNCHANGED <<tree, focused, flights, disk, hold, live, opened, restoring, page>>
  BY DEF FinalizePaneClose
<1>2. TabSet(tree') = TabsShown /\ Calls' \subseteq Calls
  BY <1>1 DEF TabsShown, Calls
<1>3. ToSet(e.pane.tabs) \in SUBSET (TabsShown \cup TabsHeld)
  BY <1>1, StillHeld
<1>4. \A x \in TabsShown \cup TabsHeld : x \in ToSet(e.pane.tabs) \/ x \in TabSet(tree') \cup TabsHeld'
  BY <1>1, <1>2, StillHeld
<1> QED
  BY <1>1, <1>2, <1>3, <1>4, DisposedAccounted

\* New ptys, each with a tab on screen; every tab that ran or that has a session stays.
LEMMA LandedAccounted ==
  ASSUME Inv, Accounted, Busy, NEW new \in SUBSET FreePtys, running' = running \cup new,
         \A id \in new : \E x \in TabSet(tree') : x.id = id,
         \A y \in TabsShown : (y.id \in running => y \in TabSet(tree')) /\ \E x \in TabSet(tree') :
             x.s = y.s,
         \A s \in opened' : s \in opened \/ \E x \in TabSet(tree') : x.s = s,
         \A s \in history : s \in history' \/ \E x \in TabSet(tree') : x.s = s,
         opened' \subseteq Sessions, GoodTree(tree'), Persist(tree'),
         Calls' \subseteq Calls, UNCHANGED <<pending, pendingPanes, restoring, page>>
  PROVE  Accounted'
<1>1. TabsHeld' = TabsHeld
  BY DEF TabsHeld
<1>2. \A id \in running' : id \in stranded \/ \E x \in TabSet(tree') \cup TabsHeld' : x.id = id
  <2>1. ASSUME NEW id \in running, id \notin stranded
        PROVE  \E x \in TabSet(tree') \cup TabsHeld' : x.id = id
    <3>1. PICK x \in TabsShown \cup TabsHeld : x.id = id
      BY <2>1, AccountedIs
    <3>2. x \in TabSet(tree') \cup TabsHeld'
      BY <1>1, <2>1, <3>1
    <3> QED
      BY <3>1, <3>2
  <2> QED
    BY <2>1
<1>3. \A s \in opened' : s \in history' \cup forgone \/ \E x \in TabSet(tree') \cup TabsHeld' : x.s = s
  <2>1. ASSUME NEW s \in opened
        PROVE  s \in history' \cup forgone \/ \E x \in TabSet(tree') \cup TabsHeld' : x.s = s
    <3>1. CASE s \in history \cup forgone
      BY <3>1
    <3>2. CASE \E x \in TabsShown \cup TabsHeld : x.s = s
      BY <1>1, <3>2
    <3> QED
      BY <2>1, <3>1, <3>2, AccountedIs
  <2> QED
    BY <2>1
<1>4. \A f \in Calls' : f.old \notin running'
  BY AccountedIs, FreePtyFacts
<1> QED
  BY <1>2, <1>3, <1>4, AccountedStep

\* A tab that is added, with a new pty.
LEMMA AddedAccounted ==
  ASSUME Inv, Accounted, Busy, Inv', NEW s \in Names, Min(FreePtys) \in FreePtys,
         TabSet(tree') = TabsShown \cup {[s |-> s, id |-> Min(FreePtys)]}, Persist(tree'),
         running' = running \cup {Min(FreePtys)}, opened' \subseteq opened \cup {s},
             history \subseteq history' \cup {s},
         Calls' \subseteq Calls, UNCHANGED <<pending, pendingPanes, restoring, page>>
  PROVE  Accounted'
<1> DEFINE new == {Min(FreePtys)}
           tab == [s |-> s, id |-> Min(FreePtys)]
<1>1. /\ tab \in TabSet(tree') /\ tab.s = s /\ tab.id = Min(FreePtys) /\
           TabSet(tree') = TabsShown \cup {tab}
      /\ new \in SUBSET FreePtys /\ running' = running \cup new /\ \A id \in new : id = Min(FreePtys)
  OBVIOUS
<1>2. GoodTree(tree') /\ opened' \subseteq Sessions
  BY DEF Inv, Known
<1> HIDE DEF new, tab
<1>3. /\ \A id \in new : \E x \in TabSet(tree') : x.id = id
      /\ \A y \in TabsShown : (y.id \in running => y \in TabSet(tree')) /\ \E x \in TabSet(tree') :
           x.s = y.s
      /\ \A n \in opened' : n \in opened \/ \E x \in TabSet(tree') : x.s = n
      /\ \A n \in history : n \in history' \/ \E x \in TabSet(tree') : x.s = n
  BY <1>1
<1> QED
  BY <1>1, <1>2, <1>3, LandedAccounted

\* The answer to a new tab,
LEMMA TabLandsAccounted ==
  ASSUME Inv, Accounted, Busy, TabLands
  PROVE  Accounted'
<1>1. PICK f \in BagToSet(flights), background \in BOOLEAN :
        /\ f.kind = "add" /\ Answered(f) /\ CanLand
        /\ \E s \in FreshSessions :
             /\ opened' = opened \cup ({s} \ {NoSession})
             /\ AddTerminal([s |-> s, id |-> Min(FreePtys)], f.at, background)
        /\ running' = running \cup {Min(FreePtys)}
        /\ UNCHANGED <<pending, pendingPanes, history, restoring, page>>
  BY DEF TabLands
<1>2. PICK s \in FreshSessions :
             /\ opened' = opened \cup ({s} \ {NoSession})
             /\ AddTerminal([s |-> s, id |-> Min(FreePtys)], f.at, background)
  BY <1>1
<1>3. s \in Names /\ opened \subseteq opened' /\ opened' \subseteq Sessions /\
    {s} \ {NoSession} \subseteq opened'
      /\ opened' \subseteq opened \cup {s}
  BY <1>2, FreshSessionFacts, OnScreen
<1>4. f \in Calls /\ Calls' \subseteq Calls /\ Min(FreePtys) \in FreePtys
  BY <1>1, CallFacts, FreePtyFacts DEF CanLand
<1>5. Inv' /\ TabSet(tree') = TabsShown \cup {[s |-> s, id |-> Min(FreePtys)]} /\ Persist(tree')
  BY <1>1, <1>2, <1>3, <1>4, AddedKeepsInv
<1> QED
  BY <1>1, <1>3, <1>4, <1>5, AddedAccounted

\* to a resume, which takes its session off the list,
LEMMA ResumeLandsAccounted ==
  ASSUME Inv, Accounted, Busy, ResumeLands
  PROVE  Accounted'
<1>1. PICK f \in BagToSet(flights), background \in BOOLEAN :
        /\ f.kind = "resume" /\ Answered(f) /\ CanLand
        /\ history' = history \ {f.s}
        /\ AddTerminal([s |-> f.s, id |-> Min(FreePtys)], NoPane, background)
        /\ running' = running \cup {Min(FreePtys)}
        /\ UNCHANGED <<pending, pendingPanes, opened, restoring, page>>
  BY DEF ResumeLands
<1>2. f \in Calls /\ Calls' \subseteq Calls /\ Min(FreePtys) \in FreePtys
  BY <1>1, CallFacts, FreePtyFacts DEF CanLand
<1>3. f.s \in {NoSession} \cup opened /\ opened \subseteq Sessions
  BY <1>2 DEF Inv, GoodCall, Known
<1>4. f.s \in Names /\ {f.s} \ {NoSession} \subseteq opened' /\ opened \subseteq opened' /\
    opened' \subseteq Sessions
  BY <1>1, <1>3 DEF Names
<1>5. Inv' /\ TabSet(tree') = TabsShown \cup {[s |-> f.s, id |-> Min(FreePtys)]} /\ Persist(tree')
  BY <1>1, <1>2, <1>4, AddedKeepsInv
<1>6. opened' \subseteq opened \cup {f.s} /\ history \subseteq history' \cup {f.s}
  BY <1>1
<1> QED
  BY <1>1, <1>2, <1>4, <1>5, <1>6, AddedAccounted

\* An answer whose tab is gone: StopTerminal ends the new pty.
LEMMA UnplacedAccounted ==
  ASSUME Inv, Accounted, Busy,
         UNCHANGED <<tree, disk, hold, live, running, pending, pendingPanes, history, opened, restoring, page>>,
         Calls' \subseteq Calls
  PROVE  Accounted'
<1>1. running' \subseteq running /\ \A f \in Calls' : f \in Calls
  OBVIOUS
<1> QED
  BY <1>1, StandingAccounted

\* The answer to a split,
LEMMA SplitLandsAccounted ==
  ASSUME Inv, Accounted, Busy, Inv', SplitLands
  PROVE  Accounted'
<1> DEFINE new == Min(FreePtys)
           id == Min(FreePanes)
           tab == [s |-> NoSession, id |-> new]
<1>1. PICK f \in BagToSet(flights) :
        /\ f.kind = "split" /\ Answered(f) /\ CanLand
        /\ f.at \in Ids(tree) => FreePanes # {}
        /\ running' = StoppedUnless(f.at \in Ids(tree), new)
        /\ IF f.at \in Ids(tree)
           THEN ApplyTree(SplitAtPane(tree, f.at, Pane(id, <<tab>>, 1, FALSE)), id)
           ELSE UNCHANGED <<tree, focused, disk, hold, live>>
        /\ UNCHANGED <<pending, pendingPanes, history, opened, restoring, page>>
  BY DEF SplitLands
<1>2. f \in Calls /\ Calls' \subseteq Calls
  BY <1>1, CallFacts
<1>3. new \in FreePtys /\ new \in Ptys
  BY <1>1, FreePtyFacts DEF CanLand
<1>4. CASE f.at \in Ids(tree)
  <2>1. tab \in TabRecs /\ tab.s = NoSession /\ tab.id = new
    BY <1>3 DEF TabRecs, Names
  <2>2. \A y \in TabsShown : tab.id # y.id
    BY <1>3, <2>1, FreePtyFacts
  <2>3. ApplyTree(SplitAtPane(tree, f.at, Pane(id, <<tab>>, 1, FALSE)), id) /\ FreePanes # {}
    BY <1>1, <1>4
  <2>4. running' = running \cup {new}
    BY <1>1, <1>4, Zenon DEF StoppedUnless
  <2>5. tab = [s |-> NoSession, id |-> Min(FreePtys)] /\ running' = running \cup {Min(FreePtys)} /\
      Min(FreePtys) \in FreePtys
    BY <1>3, <2>4
  <2> HIDE DEF new, tab
  <2>6. Shows(TabsShown \cup {tab}, Ids(tree) \cup FreePanes)
    BY <1>4, <2>1, <2>2, <2>3, SplitShows
  <2>7. Persist(tree') /\ TabSet(tree') = TabsShown \cup {[s |-> NoSession, id |-> Min(FreePtys)]}
    BY <2>5, <2>6 DEF Shows
  <2>8. NoSession \in Names /\ opened' \subseteq opened \cup {NoSession} /\
      history \subseteq history' \cup {NoSession}
    BY <1>1 DEF Names
  <2> QED
    BY <1>1, <1>2, <2>5, <2>7, <2>8, AddedAccounted
<1>5. CASE f.at \notin Ids(tree)
  <2>1. running' = running
    BY <1>1, <1>5, Zenon DEF StoppedUnless
  <2>2. UNCHANGED <<tree, disk, hold, live>>
    BY <1>1, <1>5
  <2> QED
    BY <1>1, <1>2, <2>1, <2>2, UnplacedAccounted
<1> QED
  BY <1>4, <1>5

\* to a restart, whose tab is where it was or gone,
LEMMA RestartLandsAccounted ==
  ASSUME Inv, Accounted, Busy, RestartLands
  PROVE  Accounted'
<1> DEFINE pty == Min(FreePtys)
           tabs == TabSet(tree')
           new == {pty}
<1>1. PICK f \in Calls : RestartLanded(f, pty)
  BY RestartLandsShows
<1>2. f \in Calls /\ Calls' \subseteq Calls /\ pty \in FreePtys /\
    UNCHANGED <<pending, pendingPanes, history, opened, restoring, page>>
  BY <1>1, CallFacts DEF RestartLanded
<1>3. f.old \notin running
  BY <1>2, AccountedIs
<1>4. CASE running' = running \cup {pty} /\ Shows(tabs, Ids(tree)) /\ Restarted(tabs, f.old, pty)
  <2>1. GoodTree(tree') /\ Persist(tree')
    BY <1>4 DEF Shows
  <2>2. new \in SUBSET FreePtys /\ running' = running \cup new
    BY <1>2, <1>4
  <2>3. \A id \in new : \E x \in tabs : x.id = id
    BY <1>4 DEF Restarted
  <2>4. \A y \in TabsShown : (y.id \in running => y \in tabs) /\ \E x \in tabs : x.s = y.s
    BY <1>3, <1>4 DEF Restarted
  <2>5. opened' \subseteq Sessions /\ (\A s \in opened' : s \in opened) /\ \A s \in history :
      s \in history'
    BY <1>2, OnScreen
  <2> QED
    BY <1>2, <2>1, <2>2, <2>3, <2>4, <2>5, LandedAccounted
<1>5. CASE UNCHANGED <<tree, focused, disk, hold, live, running>>
  BY <1>2, <1>5, UnplacedAccounted
<1> QED
  BY <1>1, <1>4, <1>5 DEF RestartLanded

\* and to a layout.
LEMMA LayoutLandsAccounted ==
  ASSUME Inv, Accounted, Busy, LayoutLands
  PROVE  Accounted'
<1>1. PICK f \in Calls, new \in SUBSET FreePtys : Answered(f) /\ LayoutLanded(new)
  BY LayoutShows
<1>2. UNCHANGED <<pending, pendingPanes, history, opened, restoring, page>>
  BY DEF LayoutLands
<1>3. Calls' \subseteq Calls
  BY <1>1, CallFacts
<1>4. /\ GoodTree(tree') /\ Persist(tree') /\ running' = running \cup new
      /\ TabsShown \subseteq TabSet(tree') /\ \A id \in new : \E x \in TabSet(tree') : x.id = id
  BY <1>1 DEF LayoutLanded, Shows
<1>5. \A y \in TabsShown : (y.id \in running => y \in TabSet(tree')) /\ \E x \in TabSet(tree') :
    x.s = y.s
  BY <1>4
<1>6. opened' \subseteq Sessions /\ (\A s \in opened' : s \in opened) /\ \A s \in history :
    s \in history'
  BY <1>2, OnScreen
<1> QED
  BY <1>1, <1>2, <1>3, <1>4, <1>5, <1>6, LandedAccounted

-----------------------------------------------------------------------------
(* The page and the view, once more.                                       *)

\* A process that ends is a tab's or a stranded one; nothing else is touched.
LEMMA PtyDiesAccounted ==
  ASSUME Inv, Accounted, PtyDies
  PROVE  Accounted'
<1>1. PICK id \in running :
        /\ running' = running \ {id} /\ stranded' = stranded \ {id}
        /\ UNCHANGED <<tree, focused, pending, pendingPanes, flights, disk, hold, live, history,
                       opened, restoring, view, forgone>>
  BY DEF PtyDies
<1>2. /\ TabsShown' = TabsShown /\ TabsHeld' = TabsHeld /\ Calls' = Calls /\ Settled' = Settled /\
           InView' = InView
      /\ SavedSessions(disk)' = SavedSessions(disk) /\
           SavedSessions(restoring)' = SavedSessions(restoring)
  BY <1>1 DEF TabsShown, TabsHeld, Calls, Settled, InView, SavedSessions
<1>3. SessionsOf(TabsShown)' = SessionsOf(TabsShown) /\
    SessionsOf(TabsShown \cup TabsHeld)' = SessionsOf(TabsShown \cup TabsHeld)
  BY <1>2 DEF SessionsOf
<1>4. Away' /\ Quiet' /\ Backed'
  BY <1>1, <1>2, <1>3 DEF Accounted, Away, Quiet, Backed
<1>5. Busy' = Busy
  BY <1>2 DEF Busy
<1>6. Placed'
  BY <1>1, <1>2, <1>5 DEF Accounted, Placed
<1>7. NoOrphan'
  BY <1>1, <1>2 DEF Accounted, NoOrphan
<1>8. NoSessionLost'
  BY <1>1, <1>2, <1>3 DEF Accounted, NoSessionLost
<1>9. \A f \in Calls' : f.old \notin running'
  BY <1>1, <1>2 DEF Accounted
<1> QED
  BY <1>4, <1>6, <1>7, <1>8, <1>9 DEF Accounted

\* Where the sessions are when a view or the page goes.
LEMMA WhereSessionsAre ==
  ASSUME Inv, Accounted
  PROVE  \A s \in opened : s \in history \cup forgone \cup SessionsOf(TabsHeld) \cup SavedSessions(disk)
<1>1. SessionsOf(TabsShown \cup TabsHeld) = SessionsOf(TabsShown) \cup SessionsOf(TabsHeld)
  BY DEF SessionsOf
<1>2. SessionsOf(TabsShown) \subseteq SavedSessions(disk) \cup history
  BY DEF Accounted, Backed
<1>3. SavedSessions(restoring) \subseteq SavedSessions(disk)
  <2>1. CASE Settled
    BY <2>1, NothingSaved DEF Settled
  <2>2. CASE ~Settled
    BY <2>2 DEF Accounted, Quiet
  <2> QED
    BY <2>1, <2>2
<1> QED
  BY <1>1, <1>2, <1>3 DEF Accounted, NoSessionLost

\* The view is unmounted: what was held is listed, what was shown is saved and stopped.
LEMMA UnmountsAccounted ==
  ASSUME Inv, Accounted, Races = {}, Unmounts
  PROVE  Accounted'
<1>1. /\ InView /\ view' = "unmounted" /\ pending' = {} /\ pendingPanes' = {} /\ restoring' = NoTree
      /\ running' = running \ {tab.id : tab \in TabsShown \cup TabsHeld}
      /\ history' = history \cup SessionsOf(TabsHeld)
      /\ UNCHANGED <<tree, focused, flights, disk, hold, live, opened, stranded, forgone>>
  BY DEF Unmounts, Recorded
<1>2. /\ TabsShown' = TabsShown /\ TabsHeld' = {} /\ Calls' = Calls /\ Settled' /\ ~InView'
      /\ SavedSessions(disk)' = SavedSessions(disk)
  BY <1>1 DEF TabsShown, TabsHeld, Calls, Settled, InView, SavedSessions
<1>3. Away' /\ Quiet'
  BY <1>1, <1>2 DEF Away, Quiet
<1>4. Backed'
  <2>1. SessionsOf(TabsShown)' = SessionsOf(TabsShown)
    BY <1>2 DEF SessionsOf
  <2> QED
    BY <1>1, <1>2, <2>1 DEF Accounted, Backed
<1>5. \A id \in running' : id \in stranded
  BY <1>1 DEF Accounted, NoOrphan
<1>6. Placed'
  <2>1. SUFFICES ASSUME Calls # {}, NEW s \in opened, s \notin history' \cup forgone
                 PROVE  \E x \in TabsShown : x.s = s
    BY <1>1, <1>2, <1>5 DEF Placed, Busy
  <2>2. Settled
    BY <2>1 DEF Accounted, Quiet
  <2>3. PICK x \in TabsShown \cup TabsHeld : x.s = s
    BY <1>1, <2>1, <2>2, AccountedIs DEF Busy
  <2>4. s # NoSession
    BY <2>1, OnScreen, Bounds
  <2>5. x \notin TabsHeld
    BY <1>1, <2>1, <2>3, <2>4 DEF SessionsOf
  <2> QED
    BY <2>3, <2>5
<1>7. NoOrphan'
  <2>1. running' \cap {tab.id : tab \in TabsShown} = {}
    BY <1>1
  <2> QED
    BY <1>1, <1>2, <1>5, <2>1 DEF NoOrphan
<1>8. NoSessionLost'
  BY <1>1, <1>2, WhereSessionsAre DEF NoSessionLost
<1>9. \A f \in Calls' : f.old \notin running'
  BY <1>1, <1>2 DEF Accounted
<1> QED
  BY <1>3, <1>4, <1>6, <1>7, <1>8, <1>9 DEF Accounted

\* The app quits or the window is reloaded: what the page kept goes, and what was
\* behind a toast is forgone unless it is listed or saved.
LEMMA PageGoesAccounted ==
  ASSUME Inv, Accounted, Quits \/ Reloads
  PROVE  Accounted'
<1>1. PageGoes
  BY DEF Quits, Reloads
<1>2. /\ tree' = NoTree /\ restoring' = NoTree
      /\ pending' = {} /\ pendingPanes' = {} /\ Calls' = {} /\ view' = "unmounted"
      /\ UNCHANGED <<disk, history, opened>>
      /\ forgone' = forgone \cup (SessionsOf(TabsHeld) \ (SessionsOf(TabsShown) \cup history \cup
           SavedSessions(disk)))
  BY <1>1, PageGoesFacts
<1>3. /\ TabsShown' = {} /\ Settled' /\ ~InView' /\ SavedSessions(disk)' = SavedSessions(disk)
  BY <1>2, NoPanes DEF TabsShown, Settled, InView, SavedSessions
<1>4. Away' /\ Quiet' /\ Placed'
  BY <1>2, <1>3 DEF Away, Quiet, Placed, Busy
<1>5. Backed'
  <2>1. SessionsOf(TabsShown)' = {}
    BY <1>3 DEF SessionsOf
  <2> QED
    BY <2>1 DEF Backed
<1>6. NoOrphan'
  <2>1. running' \subseteq stranded' \cup live'
    <3>1. CASE Quits
      BY <3>1 DEF Quits
    <3>2. CASE Reloads
      BY <3>2, ReloadLeaves DEF Reloads
    <3> QED
      BY <3>1, <3>2
  <2> QED
    BY <1>3, <2>1 DEF NoOrphan
<1>7. NoSessionLost'
  <2>1. SessionsOf(TabsShown) \subseteq SavedSessions(disk) \cup history
    BY DEF Accounted, Backed
  <2>2. \A s \in opened : s \in history \cup forgone' \cup SavedSessions(disk)
    BY <1>2, <2>1, WhereSessionsAre
  <2> QED
    BY <1>2, <1>3, <2>2 DEF NoSessionLost
<1> QED
  BY <1>2, <1>4, <1>5, <1>6, <1>7 DEF Accounted

\* The view comes back with what is saved, and stops what was kept for it.
LEMMA MountsAccounted ==
  ASSUME Inv, Accounted, Mounts
  PROVE  Accounted'
<1>1. /\ ~InView /\ view' = "mounted" /\ tree' = NoTree /\ restoring' = disk /\ disk' = disk
      /\ running' = running \ live /\ live' = {}
      /\ flights = EmptyBag /\ flights' = flights
      /\ UNCHANGED <<pending, pendingPanes, history, opened, stranded, forgone>>
  BY DEF Mounts
<1>2. /\ TabsShown' = {} /\ TabsHeld' = {} /\ Calls' = {} /\ InView' /\ pending' = {} /\
           pendingPanes' = {}
      /\ SavedSessions(disk)' = SavedSessions(disk) /\ SavedSessions(restoring)' = SavedSessions(disk)
  BY <1>1, NoPanes, NoCalls DEF TabsShown, TabsHeld, Calls, InView, SavedSessions, Accounted, Away
<1>3. Away' /\ Quiet'
  BY <1>1, <1>2 DEF Away, Quiet
<1>4. Backed'
  <2>1. SessionsOf(TabsShown)' = {}
    BY <1>2 DEF SessionsOf
  <2> QED
    BY <2>1 DEF Backed
<1>5. running' \subseteq stranded'
  BY <1>1 DEF Accounted, NoOrphan
<1>6. opened' \subseteq history' \cup forgone' \cup SavedSessions(disk)
  BY <1>1 DEF Accounted, NoSessionLost
<1>7. NoOrphan' /\ NoSessionLost'
  BY <1>1, <1>2, <1>5, <1>6 DEF NoOrphan, NoSessionLost
<1>8. Placed'
  <2>1. Settled' => SavedSessions(disk) = {}
    BY <1>1, NothingSaved DEF Settled
  <2> QED
    BY <1>5, <1>6, <2>1 DEF Placed, Busy
<1> QED
  BY <1>2, <1>3, <1>4, <1>7, <1>8 DEF Accounted

\* The restore settles: what did not come back is listed.
LEMMA RestoreAccounted ==
  ASSUME Inv, Accounted, Restore
  PROVE  Accounted'
<1>1. GoodSaved(restoring) /\ GoodSaved(disk) /\ hold \in BOOLEAN
  BY DEF Inv, SavedOK
<1>2. restoring' = NoTree /\
    UNCHANGED <<pending, pendingPanes, flights, opened, view, stranded, forgone>> /\ ~Settled
  BY DEF Restore, page
<1>3. /\ InView /\ tree = NoTree /\ Calls = {} /\ pending = {} /\ pendingPanes = {} /\
           restoring = disk /\ live = {}
  BY <1>2 DEF Accounted, Quiet
<1>4. TabsShown = {} /\ TabsHeld = {} /\ Calls' = {} /\ TabsHeld' = {}
  BY <1>2, <1>3, NoPanes DEF TabsShown, TabsHeld, Calls
<1>5. (\A s \in opened : s \in history \cup forgone \cup SavedSessions(restoring)) /\
    running \subseteq stranded
  BY <1>3, <1>4 DEF Accounted, NoSessionLost, NoOrphan, SessionsOf
<1>6. /\ Settled' /\ Quiet' /\ InView' /\ Away' /\ SavedSessions(disk)' = SavedSessions(disk')
  BY <1>2, <1>3 DEF Settled, Quiet, SavedSessions, InView, Away, Accounted
<1>7. /\ SessionsOf(TabsShown)' = SessionsOf(TabSet(tree')) /\ TabsShown' = TabSet(tree')
      /\ SessionsOf(TabsShown \cup TabsHeld)' = SessionsOf(TabSet(tree'))
  BY <1>4 DEF SessionsOf, TabsShown
<1>8. CASE /\ hold' = TRUE
           /\ history' = history \cup SavedSessions(restoring)
           /\ UNCHANGED <<tree, focused, disk, live, running>>
  <2>1. TabSet(tree') = {} /\ SessionsOf(TabSet(tree')) = {}
    BY <1>3, <1>8, NoPanes DEF SessionsOf
  <2>2. Backed' /\ NoOrphan'
    BY <1>2, <1>3, <1>5, <1>7, <1>8, <2>1 DEF Backed, NoOrphan
  <2>3. NoSessionLost' /\ Placed'
    BY <1>2, <1>5, <1>6, <1>8 DEF NoSessionLost, Placed
  <2> QED
    BY <1>4, <1>6, <2>2, <2>3 DEF Accounted
<1>9. ASSUME NEW failed \in SUBSET SavedTabs, NEW tabs, RestoreLanded(failed, tabs)
      PROVE  Accounted'
  <2>1. /\ GoodTree(tree') /\ tabs = TabSet(tree')
        /\ SessionsOf(tabs) \subseteq SavedSessions(restoring)
        /\ SavedSessions(restoring) \subseteq SessionsOf(tabs) \cup LostSessions(failed)
        /\ running' = running \cup {tab.id : tab \in tabs}
        /\ history' = history \cup LostSessions(failed)
        /\ Persist(tree') \/ UNCHANGED <<disk, hold, live>>
    BY <1>9 DEF RestoreLanded, RestoreLost
  <2>2. live' = {} \/ live' = {tab.id : tab \in TabSet(tree')}
    BY <1>3, <2>1 DEF Persist
  <2>3. NoOrphan'
    BY <1>2, <1>4, <1>5, <1>6, <1>7, <2>1, <2>2 DEF NoOrphan
  <2>4. \A s \in opened' : s \in history' \cup forgone' \cup SessionsOf(TabSet(tree'))
    BY <1>2, <1>5, <2>1
  <2>5. NoSessionLost'
    BY <1>6, <1>7, <2>4 DEF NoSessionLost
  <2>6. Placed'
    <3>1. \A s \in SessionsOf(TabSet(tree')) : \E x \in TabSet(tree') : x.s = s
      BY DEF SessionsOf
    <3>2. \A id \in running' : id \in stranded' \/ \E x \in TabSet(tree') : x.id = id
      BY <1>2, <1>5, <2>1
    <3> QED
      BY <1>4, <1>7, <2>4, <3>1, <3>2 DEF Placed
  <2>7. Backed'
    <3>1. SessionsOf(tabs) \subseteq SavedSessions(disk')
      <4>1. CASE Persist(tree')
        BY <1>1, <2>1, <4>1, PersistFacts
      <4>2. CASE UNCHANGED <<disk, hold, live>>
        BY <1>3, <2>1, <4>2
      <4> QED
        BY <2>1, <4>1, <4>2
    <3> QED
      BY <1>6, <1>7, <2>1, <3>1 DEF Backed
  <2> QED
    BY <1>4, <1>6, <2>3, <2>5, <2>6, <2>7 DEF Accounted
<1> QED
  BY <1>1, <1>8, <1>9, RestoreShows

\* A step that does nothing.
LEMMA StutterAccounted ==
  ASSUME Accounted, UNCHANGED vars
  PROVE  Accounted'
<1>1. /\ tree' = tree /\ pending' = pending /\ pendingPanes' = pendingPanes /\ flights' = flights /\
           running' = running
      /\ disk' = disk /\ history' = history /\ opened' = opened /\ restoring' = restoring /\ live' = live
      /\ view' = view /\ stranded' = stranded /\ forgone' = forgone
  BY DEF vars, page
<1>2. TabsShown' = TabsShown /\ TabsHeld' = TabsHeld /\ Calls' = Calls /\ Settled' = Settled /\
    InView' = InView
      /\ SavedSessions(disk)' = SavedSessions(disk) /\
           SavedSessions(restoring)' = SavedSessions(restoring)
  BY <1>1 DEF TabsShown, TabsHeld, Calls, Settled, InView, SavedSessions
<1>3. SessionsOf(TabsShown)' = SessionsOf(TabsShown) /\
    SessionsOf(TabsShown \cup TabsHeld)' = SessionsOf(TabsShown \cup TabsHeld)
  BY <1>2 DEF SessionsOf
<1>4. Busy' = Busy
  BY <1>2 DEF Busy
<1>5. Away' /\ Quiet' /\ Backed' /\ Placed' /\ NoOrphan' /\ NoSessionLost'
  BY <1>1, <1>2, <1>3, <1>4 DEF Accounted, Away, Quiet, Backed, Placed, NoOrphan, NoSessionLost
<1> QED
  BY <1>1, <1>2, <1>5 DEF Accounted

\* Every step keeps the second invariant.
LEMMA NextKeepsAccounted ==
  ASSUME Inv, Inv', Accounted, Races = {}, [Next]_vars
  PROVE  Accounted'
<1>1. CASE PtyDies \/ Unmounts \/ Quits \/ Reloads \/ Mounts \/ Restore
  BY <1>1, PtyDiesAccounted, UnmountsAccounted, PageGoesAccounted, MountsAccounted, RestoreAccounted
<1>2. CASE UNCHANGED vars
  BY <1>2, StutterAccounted
<1>3. CASE Next /\ ~(PtyDies \/ Unmounts \/ Quits \/ Reloads \/ Mounts \/ Restore)
  <2>1. /\ Busy /\ "close" \notin Races
        /\ TabLands \/ ResumeLands \/ SplitLands \/ RestartLands \/ LayoutLands \/ StartFails \/ InView
    BY <1>3, OnlyWhenBusy
  <2>2. CASE TabLands \/ ResumeLands \/ SplitLands \/ RestartLands \/ LayoutLands
    BY <2>1, <2>2, TabLandsAccounted, ResumeLandsAccounted, SplitLandsAccounted,
        RestartLandsAccounted, LayoutLandsAccounted
  <2>3. CASE StartFails \/ FocusPane
    BY <2>1, <2>3, StandingStepsAccounted
  <2>4. CASE AskTab \/ AskSplit \/ AskRestart \/ AskResume \/ AskLayout
    BY <2>1, <2>4, AsksAccounted
  <2>5. CASE EnsureRootPane \/ FocusTerminal \/ FocusService \/ ReorderTerminals \/ MoveTerminal
    BY <2>1, <2>5, PaneStepsAccounted
  <2>6. CASE InView /\ (CloseTerminal \/ CloseOthers \/ CloseTerminalsById \/ ClosePane)
    BY <2>1, <2>6, CloseTerminalAccounted, BatchClosesAccounted, ClosePaneAccounted
  <2>7. CASE InView /\ (UndoClose \/ FinalizeClose \/ UndoPaneClose \/ FinalizePaneClose)
    BY <2>1, <2>7, UndoCloseAccounted, FinalizeCloseAccounted, UndoPaneCloseAccounted,
        FinalizePaneCloseAccounted
  <2> QED
    BY <1>3, <2>1, <2>2, <2>3, <2>4, <2>5, <2>6, <2>7 DEF Next
<1> QED
  BY <1>1, <1>2, <1>3

\* It is so at the start.
LEMMA InitAccounted ==
  ASSUME Init
  PROVE  Accounted
<1>1. TabsShown = {} /\ TabsHeld = {} /\ Calls = {} /\ Settled /\ InView
  BY NoPanes, NoCalls DEF Init, TabsShown, TabsHeld, Settled, InView
<1>2. SessionsOf(TabsShown) = {}
  BY <1>1 DEF SessionsOf
<1> QED
  BY <1>1, <1>2 DEF Init, Accounted, Away, Quiet, Backed, Placed, NoOrphan, NoSessionLost, InView

\* Every running pty has a tab or was stranded by a reload, and every session has a place,
\* unless something resumes before the restore settles, an unmount cuts the restore short
\* or a pane is closed under a terminal that is being started.
THEOREM Accounting ==
  ASSUME Races = {}
  PROVE  Spec => []Accounted
<1>1. Init => Accounted
  BY InitAccounted
<1>2. Inv /\ Inv' /\ Accounted /\ [Next]_vars => Accounted'
  BY NextKeepsAccounted
<1>3. Spec => []Inv
  <2>1. Races \subseteq {"resume", "unmount"}
    OBVIOUS
  <2> QED
    BY <2>1, Invariance
<1> QED
  BY <1>1, <1>2, <1>3, PTL DEF Spec

\* No pty runs without a tab, shown or held behind an undo toast, that would stop it
\* (StopTerminal in useTabClose.ts, usePaneClose.ts and useTabCreation.ts), or the next
\* mount's stopLeftoverPtys: but for those a reload strands, none of which a saved tree
\* showed (leftoverPtys.ts).
THEOREM NothingOrphaned ==
  ASSUME Races = {}
  PROVE  Spec => []NoOrphan
<1>1. Accounted => NoOrphan
  BY DEF Accounted
<1> QED
  BY <1>1, Accounting, PTL

\* A session that a tab had is on screen, held behind an undo toast, in the resume list
\* (recordClosingTabs, rememberLostSessions) or among the saved tabs that a restore brings
\* back, unless its close was behind a toast that a reload or a quit cut short.  With a
\* resume before the restore has settled, or an unmount before that, it can be lost.
THEOREM SessionsKept ==
  ASSUME Races = {}
  PROVE  Spec => []NoSessionLost
<1>1. Accounted => NoSessionLost
  BY DEF Accounted
<1> QED
  BY <1>1, Accounting, PTL
=============================================================================
