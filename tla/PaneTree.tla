------------------------------ MODULE PaneTree ------------------------------
(***************************************************************************)
(* The split tree of a project's terminals (paneTree.ts, paneSpot.ts).     *)
(*                                                                         *)
(* A tree is a function from the paths of its leaves to panes: a path is   *)
(* the turns taken from the root, 0 into a split's `a` and 1 into its `b`. *)
(* No path is null's tree, and the path <<>> alone a single pane.  A       *)
(* split's direction and ratio are left out.                               *)
(***************************************************************************)
EXTENDS Integers, FiniteSets, SequencesExt

NoTree     == <<>>
Single(pane) == [q \in {<<>>} |-> pane]

\* The elements of a finite set, from the least one on.
InOrder(S, op(_, _)) ==
  [k \in 1 .. Cardinality(S) |-> CHOOSE x \in S : Cardinality({y \in S : op(y, x)}) = k - 1]

\* The entries of s at the places in keep, in their order.
Only(s, keep) == [k \in 1 .. Cardinality(keep) |-> s[InOrder(keep, <)[k]]]

\* What is left of the path q below the node at r.
Below(q, r) == SubSeq(q, Len(r) + 1, Len(q))

\* The nodes of t, splits and leaves.
Nodes(t) == UNION {{SubSeq(q, 1, n) : n \in 0 .. Len(q)} : q \in DOMAIN t}

\* The two sides of every split are there, and a leaf is no split.
WellFormed(t) ==
  \A q \in Nodes(t) :
    IF q \in DOMAIN t THEN \A p \in DOMAIN t : IsPrefix(q, p) => p = q
    ELSE Append(q, 0) \in Nodes(t) /\ Append(q, 1) \in Nodes(t)

Ids(t)      == {t[q].id : q \in DOMAIN t}
PathOf(t, id) == CHOOSE q \in DOMAIN t : t[q].id = id
PaneOf(t, id) == t[PathOf(t, id)]

\* The panes under the node at r, in the order they are drawn.
Before(p, q) ==
  \E n \in 1 .. Len(p) : n <= Len(q) /\ SubSeq(p, 1, n - 1) = SubSeq(q, 1, n - 1) /\ p[n] < q[n]
Leaves(t, r) == InOrder({q \in DOMAIN t : IsPrefix(r, q)}, Before)
PaneIds(t, r) == LET ls == Leaves(t, r) IN [i \in 1 .. Len(ls) |-> t[ls[i]].id]

\* The pane reached from r by taking one side all the way.
Outermost(t, r, side) ==
  t[CHOOSE q \in DOMAIN t : IsPrefix(r, q) /\ \A n \in Len(r) + 1 .. Len(q) : q[n] = side].id
FirstPaneId(t, r) == Outermost(t, r, 0)
LastPaneId(t, r)  == Outermost(t, r, 1)

\* The node beside the leaf at q.
Beside(q) == Append(Front(q), 1 - Last(q))

\* siblingPaneId: the pane drawn right beside id, which is not the whole tree.
SiblingPaneId(t, id) ==
  LET q == PathOf(t, id) IN
  IF Last(q) = 0 THEN FirstPaneId(t, Beside(q)) ELSE LastPaneId(t, Beside(q))

\* mapPane: fn on the pane id, where it is.
MapPane(t, id, fn(_)) == [q \in DOMAIN t |-> IF t[q].id = id THEN fn(t[q]) ELSE t[q]]

\* removePane: the sibling takes the split's place.
RemovePane(t, id) ==
  LET q   == PathOf(t, id)
      up  == Front(q)
      sib == Beside(q)
      kept == {p \in DOMAIN t : ~IsPrefix(up, p)}
      moved == {up \o Below(p, sib) : p \in {x \in DOMAIN t : IsPrefix(sib, x)}}
  IN IF q = <<>> THEN NoTree
     ELSE [p \in kept \cup moved |-> IF p \in kept THEN t[p] ELSE t[sib \o Below(p, up)]]

\* The panes in ids go, one after another.
RemovePanes(t, ids) == FoldSet(LAMBDA id, u : RemovePane(u, id), t, ids)

\* A split in the place of the node at r: pane on one side, the node on the other.
SplitNode(t, r, side, pane) ==
  LET under == Append(r, 1 - side)
      kept  == {p \in DOMAIN t : ~IsPrefix(r, p)}
      moved == {under \o Below(p, r) : p \in DOMAIN t \ kept}
  IN [p \in kept \cup moved \cup {Append(r, side)} |->
        IF p = Append(r, side) THEN pane
        ELSE IF p \in kept THEN t[p] ELSE t[r \o Below(p, under)]]

SplitAtPane(t, id, pane) == SplitNode(t, PathOf(t, id), 1, pane)

\* paneSpot: where a pane sat, which side of what; the whole tree has none.
NoSpot == [side |-> 0, sibs |-> <<>>]
PaneSpot(t, id) ==
  LET q == PathOf(t, id) IN
  IF q = <<>> THEN NoSpot ELSE [side |-> Last(q), sibs |-> PaneIds(t, Beside(q))]

\* siblingNow: the node with just those panes, else the nearest of them that is
\* still there, else the root.
SiblingNow(t, spot) ==
  LET exact == {r \in Nodes(t) : ToSet(PaneIds(t, r)) = ToSet(spot.sibs)}
      near  == IF spot.side = 0 THEN spot.sibs ELSE Reverse(spot.sibs)
      open  == {i \in 1 .. Len(near) : near[i] \in Ids(t)}
  IN IF exact # {} THEN CHOOSE r \in exact : TRUE
     ELSE IF open # {} THEN PathOf(t, near[Min(open)]) ELSE <<>>

\* Mutant: beside the root, whatever stood there.
AtRoot(t, pane, spot) == IF t = NoTree THEN Single(pane) ELSE SplitNode(t, <<>>, spot.side, pane)

RestorePane(t, pane, spot) ==
  IF t = NoTree THEN Single(pane) ELSE SplitNode(t, SiblingNow(t, spot), spot.side, pane)

\* The tabs of every pane, in order, and as a set.
Tabs(t) == LET ls == Leaves(t, <<>>) IN FlattenSeq([i \in 1 .. Len(ls) |-> t[ls[i]].tabs])
TabSet(t) == UNION {ToSet(t[q].tabs) : q \in DOMAIN t}

\* Closing any pane of t and taking it back at once leaves t as it was.
BackInPlace(t) ==
  \A id \in Ids(t) : RestorePane(RemovePane(t, id), PaneOf(t, id), PaneSpot(t, id)) = t
=============================================================================
