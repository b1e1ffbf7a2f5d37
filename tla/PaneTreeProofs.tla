--------------------------- MODULE PaneTreeProofs ---------------------------
(***************************************************************************)
(* What the operators of PaneTree do to any tree: removePane takes one     *)
(* pane out and splitAtPane and restorePane put one in, each leaving the   *)
(* other panes as they are, and what is closed and restored at once is     *)
(* where it was.                                                           *)
(*                                                                         *)
(* A tree is a prefix-free set of paths, so what a step does is told by    *)
(* the order of paths (PrefixOrder, TurnOrder, JoinOrder): the lemmas up   *)
(* to there look into sequences, those after it do not.  A removal moves   *)
(* the leaves below the removed one's sibling up a node, a split moves     *)
(* those below a node down one, and the moves are inverse (JoinOrder);     *)
(* that the way back starts at the same node is SameLeaves, since a spot   *)
(* names the node by the panes under it.                                   *)
(*                                                                         *)
(* Functions that are defined over the sizes of finite sets, or over the   *)
(* places of a sequence, are shown to satisfy their equation by a least    *)
(* size at which no function does (LeastNumber).                           *)
(***************************************************************************)
EXTENDS PaneTree, FiniteSetTheorems, WellFoundedInduction, NaturalsInduction, TLAPS

-----------------------------------------------------------------------------
(* Paths.                                                                  *)

\* A set of numbers that is not empty has a least one: what the arguments about data
\* of any size start from.
LEMMA LeastNumber ==
  ASSUME NEW T, T \subseteq Nat, T # {}
  PROVE  \E n \in T : \A m \in T : n <= m
<1> DEFINE R == {ss \in Nat \X Nat : ss[1] < ss[2]}
<1>0. OpToRel(<, Nat) = R
  BY Zenon DEF OpToRel
<1>a. IsWellFoundedOn(R, Nat)
  BY <1>0, NatLessThanWellFounded
<1> HIDE DEF R
<1>1. PICK x \in T : \A y \in T : ~ (<<y, x>> \in R)
  BY <1>a, WFMin
<1> USE DEF R
<1>2. ASSUME NEW y \in T PROVE x <= y
  <2>1. <<y, x>> \notin R
    BY <1>1
  <2>2. <<y, x>> \in Nat \X Nat /\ <<y, x>>[1] = y /\ <<y, x>>[2] = x
    OBVIOUS
  <2>3. ~(y < x)
    BY <2>1, <2>2
  <2> QED
    BY <2>3
<1> QED
  BY <1>2

\* The ways from the root: 0 is the first side of a split, 1 the second.
Paths == Seq({0, 1})

\* A path is its turns.
LEMMA PathFacts ==
  ASSUME NEW q \in Paths
  PROVE  /\ Len(q) \in Nat
         /\ \A i \in 1 .. Len(q) : q[i] \in {0, 1}
         /\ DOMAIN q = 1 .. Len(q)
BY DEF Paths

\* Paths with the same turns are the same.
LEMMA SamePath ==
  ASSUME NEW p \in Paths, NEW q \in Paths, Len(p) = Len(q), \A i \in 1 .. Len(p) : p[i] = q[i]
  PROVE  p = q
BY DEF Paths

\* One path is on the way to another.
LEMMA PrefixFacts ==
  ASSUME NEW r \in Paths, NEW p \in Paths
  PROVE  IsPrefix(r, p) <=> Len(r) <= Len(p) /\ \A i \in 1 .. Len(r) : r[i] = p[i]
<1>1. SubSeq(r, 1, Len(r)) = r
  BY DEF Paths
<1>2. CASE Len(r) <= Len(p)
  <2>1. SubSeq(p, 1, Len(r)) \in Paths /\ Len(SubSeq(p, 1, Len(r))) = Len(r)
    BY <1>2 DEF Paths
  <2>2. \A i \in 1 .. Len(r) : SubSeq(p, 1, Len(r))[i] = p[i]
    BY <1>2 DEF Paths
  <2>3. r = SubSeq(p, 1, Len(r)) <=> \A i \in 1 .. Len(r) : r[i] = SubSeq(p, 1, Len(r))[i]
    BY <2>1, SamePath
  <2> QED
    BY <1>1, <1>2, <2>2, <2>3 DEF IsPrefix
<1>3. CASE ~(Len(r) <= Len(p))
  BY <1>3 DEF IsPrefix
<1> QED
  BY <1>2, <1>3

\* A path taken on from the end of another.
LEMMA JoinFacts ==
  ASSUME NEW r \in Paths, NEW b \in Paths
  PROVE  /\ r \o b \in Paths
         /\ Len(r \o b) = Len(r) + Len(b)
         /\ \A i \in 1 .. Len(r) : (r \o b)[i] = r[i]
         /\ \A i \in 1 .. Len(b) : (r \o b)[Len(r) + i] = b[i]
BY DEF Paths

\* What is left of a path below a node on it.
LEMMA BelowFacts ==
  ASSUME NEW r \in Paths, NEW p \in Paths, Len(r) <= Len(p)
  PROVE  /\ Below(p, r) \in Paths
         /\ Len(Below(p, r)) = Len(p) - Len(r)
         /\ \A i \in 1 .. Len(p) - Len(r) : Below(p, r)[i] = p[Len(r) + i]
BY DEF Paths, Below

\* One more turn.
LEMMA TurnFacts ==
  ASSUME NEW r \in Paths, NEW x \in {0, 1}
  PROVE  /\ Append(r, x) \in Paths
         /\ Len(Append(r, x)) = Len(r) + 1
         /\ \A i \in 1 .. Len(r) : Append(r, x)[i] = r[i]
         /\ Append(r, x)[Len(r) + 1] = x
BY DEF Paths

\* The first turns of a path.
LEMMA UpToFacts ==
  ASSUME NEW q \in Paths, NEW n \in Nat, n <= Len(q)
  PROVE  /\ SubSeq(q, 1, n) \in Paths /\ Len(SubSeq(q, 1, n)) = n
         /\ \A i \in 1 .. n : SubSeq(q, 1, n)[i] = q[i]
BY DEF Paths

\* The node above, and the turn that was taken there.
LEMMA FrontFacts ==
  ASSUME NEW q \in Paths, q # <<>>
  PROVE  /\ Front(q) \in Paths /\ Last(q) \in {0, 1}
         /\ Len(Front(q)) = Len(q) - 1 /\ Len(q) # 0
         /\ q = Append(Front(q), Last(q))
<1>1. Len(q) \in Nat /\ Len(q) # 0 /\ \A i \in 1 .. Len(q) : q[i] \in {0, 1}
  BY DEF Paths
<1>2. Last(q) = q[Len(q)] /\ Front(q) = SubSeq(q, 1, Len(q) - 1)
  BY DEF Last, Front
<1>3. Last(q) \in {0, 1}
  BY <1>1, <1>2
<1>4. Front(q) \in Paths /\ Len(Front(q)) = Len(q) - 1
  <2>1. Len(q) - 1 \in Nat /\ Len(q) - 1 <= Len(q) /\ q \in Seq({0, 1})
    BY <1>1 DEF Paths
  <2> QED
    BY <1>2, <2>1, UpToFacts
<1>5. \A i \in 1 .. Len(q) - 1 : Front(q)[i] = q[i]
  BY <1>1, <1>2 DEF Paths
<1> DEFINE f == Front(q)
           x == Last(q)
<1>6. /\ Append(f, x) \in Paths
      /\ Len(Append(f, x)) = Len(f) + 1
      /\ \A i \in 1 .. Len(f) : Append(f, x)[i] = f[i]
      /\ Append(f, x)[Len(f) + 1] = x
  BY <1>3, <1>4, TurnFacts
<1>7. Len(q) = Len(Append(f, x)) /\ \A i \in 1 .. Len(q) : q[i] = Append(f, x)[i]
  BY <1>1, <1>2, <1>4, <1>5, <1>6
<1>8. q = Append(f, x)
  BY <1>6, <1>7, SamePath
<1> QED
  BY <1>1, <1>3, <1>4, <1>8

\* Being on the way to is an order, and the nodes on the way to one are in a line.
LEMMA PrefixOrder ==
  /\ \A p \in Paths : IsPrefix(p, p) /\ IsPrefix(<<>>, p)
  /\ \A p, q, r \in Paths : IsPrefix(p, q) /\ IsPrefix(q, r) => IsPrefix(p, r)
  /\ \A p, q \in Paths : IsPrefix(p, q) /\ IsPrefix(q, p) => p = q
  /\ \A p, q, r \in Paths : IsPrefix(p, r) /\ IsPrefix(q, r) => IsPrefix(p, q) \/ IsPrefix(q, p)
<1>0. <<>> \in Paths /\ Len(<<>>) = 0
  BY DEF Paths
<1>1. \A p \in Paths : IsPrefix(p, p) /\ IsPrefix(<<>>, p)
  BY <1>0, PrefixFacts, PathFacts
<1>2. \A p, q, r \in Paths : IsPrefix(p, q) /\ IsPrefix(q, r) => IsPrefix(p, r)
  BY PrefixFacts, PathFacts
<1>3. \A p, q \in Paths : IsPrefix(p, q) /\ IsPrefix(q, p) => p = q
  BY PrefixFacts, PathFacts, SamePath
<1>4. \A p, q, r \in Paths : IsPrefix(p, r) /\ IsPrefix(q, r) => IsPrefix(p, q) \/ IsPrefix(q, p)
  BY PrefixFacts, PathFacts
<1> QED
  BY <1>1, <1>2, <1>3, <1>4

\* The two turns at a node: what is below it is below one of them, and not below both.
LEMMA TurnOrder ==
  /\ <<>> \in Paths
  /\ \A r \in Paths, x \in {0, 1} :
       /\ Append(r, x) \in Paths /\ IsPrefix(r, Append(r, x)) /\ Append(r, x) # r
       /\ ~IsPrefix(Append(r, x), r)
       /\ Append(r, x) # <<>>
       /\ Front(Append(r, x)) = r /\ Last(Append(r, x)) = x
  /\ \A r, s \in Paths, x, y \in {0, 1} : Append(r, x) = Append(s, y) => r = s /\ x = y
  /\ \A r, p \in Paths, x \in {0, 1} : IsPrefix(Append(r, x), p) =>
       IsPrefix(r, p) /\ r # p /\ ~IsPrefix(Append(r, 1 - x), p)
  /\ \A r, p \in Paths : IsPrefix(r, p) /\ r # p => \E x \in {0, 1} : IsPrefix(Append(r, x), p)
  /\ \A r, p \in Paths, x \in {0, 1} : IsPrefix(p, Append(r, x)) => p = Append(r, x) \/ IsPrefix(p, r)
<1>0. <<>> \in Paths /\ Len(<<>>) = 0
  BY DEF Paths
<1>1. ASSUME NEW r \in Paths, NEW x \in {0, 1}
      PROVE  /\ Append(r, x) \in Paths /\ IsPrefix(r, Append(r, x)) /\ Append(r, x) # r
             /\ ~IsPrefix(Append(r, x), r)
             /\ Append(r, x) # <<>>
  <2> DEFINE q == Append(r, x)
  <2>1. q \in Paths /\ Len(q) = Len(r) + 1 /\ (\A i \in 1 .. Len(r) : q[i] = r[i]) /\ Len(r) \in Nat
    BY TurnFacts, PathFacts
  <2> HIDE DEF q
  <2>2. IsPrefix(r, q)
    BY <2>1, PrefixFacts
  <2>3. q # r /\ q # <<>>
    BY <1>0, <2>1
  <2>4. ~IsPrefix(q, r)
    BY <2>1, PrefixFacts
  <2> QED
    BY <2>1, <2>2, <2>3, <2>4 DEF q
<1>2. ASSUME NEW r \in Paths, NEW s \in Paths, NEW x \in {0, 1}, NEW y \in {0, 1},
             Append(r, x) = Append(s, y)
      PROVE  r = s /\ x = y
  <2>1. Len(r) = Len(s) /\ x = y
    <3>1. Len(Append(r, x)) = Len(r) + 1 /\ Append(r, x)[Len(r) + 1] = x
      BY TurnFacts
    <3>2. Len(Append(s, y)) = Len(s) + 1 /\ Append(s, y)[Len(s) + 1] = y
      BY TurnFacts
    <3>3. Len(r) \in Nat /\ Len(s) \in Nat
      BY PathFacts
    <3> QED
      BY <1>2, <3>1, <3>2, <3>3
  <2>2. \A i \in 1 .. Len(r) : r[i] = s[i]
    BY <1>2, <2>1, TurnFacts
  <2> QED
    BY <2>1, <2>2, SamePath
<1>3. ASSUME NEW r \in Paths, NEW x \in {0, 1}
      PROVE  Front(Append(r, x)) = r /\ Last(Append(r, x)) = x
  <2> DEFINE q == Append(r, x)
  <2>1. q \in Paths /\ q # <<>>
    BY <1>1
  <2>2. q = Append(Front(q), Last(q)) /\ Front(q) \in Paths /\ Last(q) \in {0, 1}
    BY <2>1, FrontFacts
  <2> QED
    BY <2>2, <1>2
<1>4. ASSUME NEW r \in Paths, NEW p \in Paths, NEW x \in {0, 1}, IsPrefix(Append(r, x), p)
      PROVE  IsPrefix(r, p) /\ r # p /\ ~IsPrefix(Append(r, 1 - x), p)
  <2>1. Len(p) >= Len(r) + 1 /\ p[Len(r) + 1] = x /\ \A i \in 1 .. Len(r) : r[i] = p[i]
    <3> DEFINE q == Append(r, x)
    <3>1. q \in Paths /\ Len(q) = Len(r) + 1 /\ (\A i \in 1 .. Len(r) : q[i] = r[i]) /\ q[Len(r) + 1] = x
          /\ Len(r) \in Nat /\ IsPrefix(q, p)
      BY <1>4, TurnFacts, PathFacts
    <3> HIDE DEF q
    <3>2. Len(q) <= Len(p) /\ \A i \in 1 .. Len(q) : q[i] = p[i]
      BY <3>1, PrefixFacts
    <3> QED
      BY <3>1, <3>2, PathFacts
  <2>2. 1 - x \in {0, 1} /\ 1 - x # x
    OBVIOUS
  <2>3. IsPrefix(r, p) /\ r # p
    BY <2>1, PrefixFacts, PathFacts
  <2>4. ~IsPrefix(Append(r, 1 - x), p)
    <3> DEFINE q == Append(r, 1 - x)
    <3>1. q \in Paths /\ Len(q) = Len(r) + 1 /\ q[Len(r) + 1] = 1 - x /\ Len(r) \in Nat
      BY <2>2, TurnFacts, PathFacts
    <3> HIDE DEF q
    <3>2. ASSUME IsPrefix(q, p) PROVE FALSE
      <4>1. q[Len(r) + 1] = p[Len(r) + 1]
        BY <3>1, <3>2, PrefixFacts
      <4> QED
        BY <4>1, <3>1, <2>1, <2>2
    <3> QED
      BY <3>2 DEF q
  <2> QED
    BY <2>3, <2>4
<1>5. ASSUME NEW r \in Paths, NEW p \in Paths, IsPrefix(r, p), r # p
      PROVE  \E x \in {0, 1} : IsPrefix(Append(r, x), p)
  <2>1. Len(r) <= Len(p) /\ \A i \in 1 .. Len(r) : r[i] = p[i]
    BY <1>5, PrefixFacts
  <2>2. Len(r) < Len(p)
    BY <1>5, <2>1, SamePath, PathFacts
  <2>3. p[Len(r) + 1] \in {0, 1}
    BY <2>2, PathFacts
  <2> DEFINE x == p[Len(r) + 1]
  <2>4. Append(r, x) \in Paths /\ Len(Append(r, x)) = Len(r) + 1
        /\ (\A i \in 1 .. Len(r) : Append(r, x)[i] = r[i]) /\ Append(r, x)[Len(r) + 1] = x
    BY <2>3, TurnFacts
  <2>5. Len(Append(r, x)) <= Len(p) /\ \A i \in 1 .. Len(Append(r, x)) : Append(r, x)[i] = p[i]
    BY <2>1, <2>2, <2>4, PathFacts
  <2>6. IsPrefix(Append(r, x), p)
    BY <2>4, <2>5, PrefixFacts
  <2> QED
    BY <2>3, <2>6
<1>6. ASSUME NEW r \in Paths, NEW p \in Paths, NEW x \in {0, 1}, IsPrefix(p, Append(r, x)),
    p # Append(r, x)
      PROVE  IsPrefix(p, r)
  <2> DEFINE q == Append(r, x)
  <2>1. q \in Paths /\ Len(q) = Len(r) + 1 /\ \A i \in 1 .. Len(r) : q[i] = r[i]
    BY TurnFacts
  <2>2. Len(p) <= Len(q) /\ \A i \in 1 .. Len(p) : p[i] = q[i]
    BY <1>6, <2>1, PrefixFacts
  <2>3. Len(p) # Len(q)
    BY <1>6, <2>1, <2>2, SamePath
  <2>4. Len(p) <= Len(r) /\ \A i \in 1 .. Len(p) : p[i] = r[i]
    BY <2>1, <2>2, <2>3, PathFacts
  <2> QED
    BY <2>4, PrefixFacts
<1> QED
  BY <1>0, <1>1, <1>2, <1>3, <1>4, <1>5, <1>6

\* A path on from a node and what is left below it are inverse to each other.
LEMMA JoinOrder ==
  /\ \A r, b \in Paths : r \o b \in Paths /\ IsPrefix(r, r \o b) /\ Below(r \o b, r) = b
  /\ \A r, p \in Paths : IsPrefix(r, p) => Below(p, r) \in Paths /\ p = r \o Below(p, r)
  /\ \A r, a, b \in Paths : IsPrefix(r \o a, r \o b) <=> IsPrefix(a, b)
  /\ \A r, b \in Paths, x \in {0, 1} : r \o Append(b, x) = Append(r \o b, x)
  /\ \A r \in Paths : r \o <<>> = r /\ <<>> \o r = r /\ Below(r, r) = <<>>
  /\ \A r, a, b \in Paths : r \o a = r \o b => a = b
<1>0. <<>> \in Paths /\ Len(<<>>) = 0
  BY DEF Paths
<1>1. ASSUME NEW r \in Paths, NEW b \in Paths
      PROVE  r \o b \in Paths /\ IsPrefix(r, r \o b) /\ Below(r \o b, r) = b
  <2> DEFINE p == r \o b
  <2>1. p \in Paths /\ Len(p) = Len(r) + Len(b) /\ (\A i \in 1 .. Len(r) : p[i] = r[i])
        /\ \A i \in 1 .. Len(b) : p[Len(r) + i] = b[i]
    BY JoinFacts
  <2>2. Len(r) <= Len(p)
    BY <2>1, PathFacts
  <2>3. IsPrefix(r, p)
    BY <2>1, <2>2, PrefixFacts
  <2> DEFINE c == Below(p, r)
  <2>4. c \in Paths /\ Len(c) = Len(p) - Len(r) /\ \A i \in 1 .. Len(p) - Len(r) : c[i] = p[Len(r) + i]
    BY <2>1, <2>2, BelowFacts
  <2>5. Len(c) = Len(b) /\ \A i \in 1 .. Len(c) : c[i] = b[i]
    BY <2>1, <2>4, PathFacts
  <2>6. c = b
    BY <2>4, <2>5, SamePath
  <2> QED
    BY <2>1, <2>3, <2>6
<1>2. ASSUME NEW r \in Paths, NEW p \in Paths, IsPrefix(r, p)
      PROVE  Below(p, r) \in Paths /\ p = r \o Below(p, r)
  <2>1. Len(r) <= Len(p) /\ (\A i \in 1 .. Len(r) : r[i] = p[i]) /\ Len(r) \in Nat /\ Len(p) \in Nat
    BY <1>2, PrefixFacts, PathFacts
  <2> DEFINE c == Below(p, r)
  <2>2. c \in Paths /\ Len(c) = Len(p) - Len(r) /\ \A i \in 1 .. Len(p) - Len(r) : c[i] = p[Len(r) + i]
    BY <2>1, BelowFacts
  <2> DEFINE s == r \o c
  <2>3. s \in Paths /\ Len(s) = Len(r) + Len(c) /\ (\A i \in 1 .. Len(r) : s[i] = r[i])
        /\ \A i \in 1 .. Len(c) : s[Len(r) + i] = c[i]
    BY <2>2, JoinFacts
  <2>4. Len(s) = Len(p)
    BY <2>2, <2>3, PathFacts
  <2>5. ASSUME NEW i \in 1 .. Len(p) PROVE p[i] = s[i]
    <3>1. CASE i <= Len(r)
      BY <3>1, <2>1, <2>3, PathFacts
    <3>2. CASE i > Len(r)
      <4>1. i - Len(r) \in 1 .. Len(c) /\ i = Len(r) + (i - Len(r))
        BY <3>2, <2>2, PathFacts
      <4>2. s[Len(r) + (i - Len(r))] = c[i - Len(r)] /\ c[i - Len(r)] = p[Len(r) + (i - Len(r))]
        BY <4>1, <2>2, <2>3
      <4> QED
        BY <4>1, <4>2
    <3>3. i <= Len(r) \/ i > Len(r)
      BY <2>1
    <3> QED
      BY <3>1, <3>2, <3>3
  <2>6. p = s
    BY <2>3, <2>4, <2>5, SamePath
  <2> QED
    BY <2>2, <2>6
<1>3. ASSUME NEW r \in Paths, NEW a \in Paths, NEW b \in Paths
      PROVE  IsPrefix(r \o a, r \o b) <=> IsPrefix(a, b)
  <2>1. /\ r \o a \in Paths /\ r \o b \in Paths
        /\ Len(r \o a) = Len(r) + Len(a) /\ Len(r \o b) = Len(r) + Len(b)
        /\ Len(a) \in Nat /\ Len(b) \in Nat /\ Len(r) \in Nat
    BY JoinFacts, PathFacts
  <2>2. ASSUME IsPrefix(r \o a, r \o b) PROVE IsPrefix(a, b)
    <3>0. Len(r \o a) <= Len(r \o b)
      BY <2>1, <2>2, PrefixFacts
    <3>1. Len(a) <= Len(b)
      BY <2>1, <3>0
    <3>2. ASSUME NEW i \in 1 .. Len(a) PROVE a[i] = b[i]
      <4>1. (r \o a)[Len(r) + i] = a[i] /\ (r \o b)[Len(r) + i] = b[i]
        BY <2>1, <3>1, JoinFacts
      <4>2. Len(r) + i \in 1 .. Len(r \o a)
        BY <2>1
      <4> QED
        BY <4>1, <4>2, <2>1, <2>2, PrefixFacts
    <3> QED
      BY <3>1, <3>2, PrefixFacts
  <2>3. ASSUME IsPrefix(a, b) PROVE IsPrefix(r \o a, r \o b)
    <3>1. Len(a) <= Len(b) /\ \A i \in 1 .. Len(a) : a[i] = b[i]
      BY <2>3, PrefixFacts
    <3>2. ASSUME NEW i \in 1 .. Len(r \o a) PROVE (r \o a)[i] = (r \o b)[i]
      <4>1. CASE i <= Len(r)
        BY <4>1, <2>1, JoinFacts
      <4>2. CASE i > Len(r)
        <5>1. i - Len(r) \in 1 .. Len(a) /\ i - Len(r) \in 1 .. Len(b) /\ i = Len(r) + (i - Len(r))
          BY <4>2, <2>1, <3>1
        <5>2. (r \o a)[Len(r) + (i - Len(r))] = a[i - Len(r)] /\
            (r \o b)[Len(r) + (i - Len(r))] = b[i - Len(r)]
          BY <5>1, JoinFacts
        <5> QED
          BY <5>1, <5>2, <3>1
      <4>3. i <= Len(r) \/ i > Len(r)
        BY <2>1
      <4> QED
        BY <4>1, <4>2, <4>3
    <3>3. Len(r \o a) <= Len(r \o b)
      BY <2>1, <3>1
    <3> QED
      BY <3>2, <3>3, <2>1, PrefixFacts
  <2> QED
    BY <2>2, <2>3
<1>4. ASSUME NEW r \in Paths, NEW b \in Paths, NEW x \in {0, 1}
      PROVE  r \o Append(b, x) = Append(r \o b, x)
  BY DEF Paths
<1>5. ASSUME NEW r \in Paths
      PROVE  r \o <<>> = r /\ <<>> \o r = r /\ Below(r, r) = <<>>
  BY DEF Paths, Below
<1>6. ASSUME NEW r \in Paths, NEW a \in Paths, NEW b \in Paths, r \o a = r \o b
      PROVE  a = b
  <2>1. Below(r \o a, r) = a
    BY <1>1
  <2>2. Below(r \o b, r) = b
    BY <1>1
  <2> QED
    BY <1>6, <2>1, <2>2
<1> QED
  BY <1>1, <1>2, <1>3, <1>4, <1>5, <1>6

-----------------------------------------------------------------------------
(* Trees.                                                                  *)

\* A tree of panes: finitely many leaves, none on the way to another, and two sides to
\* each split.
TreeShape(t) ==
  /\ DOMAIN t \subseteq Paths /\ IsFiniteSet(DOMAIN t)
  /\ t = [q \in DOMAIN t |-> t[q]]
  /\ \A p, q \in DOMAIN t : IsPrefix(p, q) => p = q
  /\ \A r \in Paths, x \in {0, 1} : Append(r, x) \in Nodes(t) => Append(r, 1 - x) \in Nodes(t)

\* No two panes have the same name.
Named(t) == \A p, q \in DOMAIN t : t[p].id = t[q].id => p = q

\* A node is a path to a leaf, as far as one likes.
LEMMA NodeFacts ==
  ASSUME NEW t, DOMAIN t \subseteq Paths
  PROVE  \A r : r \in Nodes(t) <=> r \in Paths /\ \E q \in DOMAIN t : IsPrefix(r, q)
<1>1. ASSUME NEW r \in Nodes(t) PROVE r \in Paths /\ \E q \in DOMAIN t : IsPrefix(r, q)
  <2>1. PICK q \in DOMAIN t : \E n \in 0 .. Len(q) : r = SubSeq(q, 1, n)
    BY DEF Nodes
  <2>2. PICK n \in 0 .. Len(q) : r = SubSeq(q, 1, n)
    BY <2>1
  <2>3. q \in Paths /\ n \in Nat /\ n <= Len(q)
    BY <2>2, PathFacts
  <2>4. r \in Paths /\ Len(r) = n /\ \A i \in 1 .. n : r[i] = q[i]
    BY <2>2, <2>3, UpToFacts
  <2>5. IsPrefix(r, q)
    BY <2>3, <2>4, PrefixFacts
  <2> QED
    BY <2>4, <2>5
<1>2. ASSUME NEW r \in Paths, NEW q \in DOMAIN t, IsPrefix(r, q) PROVE r \in Nodes(t)
  <2>1. q \in Paths /\ Len(r) \in Nat /\ Len(q) \in Nat /\ Len(r) <= Len(q) /\ \A i \in 1 .. Len(r) :
      r[i] = q[i]
    BY <1>2, PrefixFacts, PathFacts
  <2> DEFINE s == SubSeq(q, 1, Len(r))
  <2>2. s \in Paths /\ Len(s) = Len(r) /\ \A i \in 1 .. Len(r) : s[i] = q[i]
    BY <2>1, UpToFacts
  <2>3. r = s
    BY <2>1, <2>2, SamePath
  <2>4. Len(r) \in 0 .. Len(q)
    BY <2>1
  <2>5. s \in {SubSeq(q, 1, n) : n \in 0 .. Len(q)}
    BY <2>4
  <2> HIDE DEF s
  <2>6. s \in Nodes(t)
    BY <2>5 DEF Nodes
  <2> QED
    BY <2>3, <2>6
<1> QED
  BY <1>1, <1>2

\* A node that is no leaf is a split.
LEMMA SplitFacts ==
  ASSUME NEW t, TreeShape(t), NEW r \in Nodes(t), r \notin DOMAIN t, NEW x \in {0, 1}
  PROVE  Append(r, x) \in Nodes(t)
<1>1. DOMAIN t \subseteq Paths
  BY DEF TreeShape
<1>2. r \in Paths /\ \E q \in DOMAIN t : IsPrefix(r, q)
  BY <1>1, NodeFacts
<1>3. PICK q \in DOMAIN t : IsPrefix(r, q)
  BY <1>2
<1>4. PICK y \in {0, 1} : IsPrefix(Append(r, y), q)
  BY <1>1, <1>2, <1>3, TurnOrder
<1>5. Append(r, y) \in Paths
  BY <1>2, TurnOrder
<1>6. Append(r, y) \in Nodes(t)
  BY <1>1, <1>4, <1>5, NodeFacts
<1>7. Append(r, 1 - y) \in Nodes(t)
  BY <1>2, <1>6 DEF TreeShape
<1>8. x = y \/ x = 1 - y
  OBVIOUS
<1> QED
  BY <1>6, <1>7, <1>8

\* Trees of this shape are WellFormed, as paneTree.ts types a tree: a split has two sides.
LEMMA ShapeWellFormed ==
  ASSUME NEW t, TreeShape(t)
  PROVE  WellFormed(t)
BY SplitFacts DEF WellFormed, TreeShape

\* The tree without panes.
LEMMA Empty ==
  /\ DOMAIN NoTree = {}
  /\ \A t : TreeShape(t) => (t = NoTree <=> DOMAIN t = {})
  /\ Nodes(NoTree) = {}
  /\ TreeShape(NoTree)
<1>1. DOMAIN NoTree = {}
  BY DEF NoTree
<1>2. ASSUME NEW t, TreeShape(t), DOMAIN t = {} PROVE t = NoTree
  <2>1. t = [q \in {} |-> t[q]]
    BY <1>2 DEF TreeShape
  <2>2. NoTree = [q \in {} |-> t[q]]
    BY DEF NoTree
  <2> QED
    BY <2>1, <2>2
<1>3. Nodes(NoTree) = {}
  BY <1>1 DEF Nodes
<1>4. NoTree = [q \in DOMAIN NoTree |-> NoTree[q]]
  BY DEF NoTree
<1>5. TreeShape(NoTree)
  BY <1>1, <1>3, <1>4, FS_EmptySet DEF TreeShape
<1> QED
  BY <1>1, <1>2, <1>3, <1>5

\* The root, and that a node with one below it is no leaf.
LEMMA RootFacts ==
  ASSUME NEW t, TreeShape(t)
  PROVE  /\ <<>> \in Nodes(t) <=> DOMAIN t # {}
         /\ <<>> \in DOMAIN t => DOMAIN t = {<<>>}
         /\ Nodes(t) \subseteq Paths
         /\ DOMAIN t \subseteq Nodes(t)
         /\ \A r \in Paths, x \in {0, 1} : Append(r, x) \in Nodes(t) =>
              r \in Nodes(t) /\ r \notin DOMAIN t
<1>1. DOMAIN t \subseteq Paths
  BY DEF TreeShape
<1>2. <<>> \in Nodes(t) <=> DOMAIN t # {}
  <2>1. <<>> \in Nodes(t) <=> <<>> \in Paths /\ \E q \in DOMAIN t : IsPrefix(<<>>, q)
    BY <1>1, NodeFacts, Zenon
  <2>2. <<>> \in Paths /\ \A q \in DOMAIN t : IsPrefix(<<>>, q)
    BY <1>1, TurnOrder, PrefixOrder
  <2> QED
    BY <2>1, <2>2, Zenon
<1>3. <<>> \in DOMAIN t => DOMAIN t = {<<>>}
  BY <1>1, PrefixOrder DEF TreeShape
<1>4. Nodes(t) \subseteq Paths /\ DOMAIN t \subseteq Nodes(t)
  BY <1>1, NodeFacts, PrefixOrder
<1>5. ASSUME NEW r \in Paths, NEW x \in {0, 1}, Append(r, x) \in Nodes(t)
      PROVE  r \in Nodes(t) /\ r \notin DOMAIN t
  <2>1. PICK q \in DOMAIN t : IsPrefix(Append(r, x), q)
    BY <1>1, <1>5, NodeFacts
  <2>2. IsPrefix(r, q) /\ r # q
    BY <1>1, <2>1, TurnOrder
  <2> QED
    BY <1>1, <2>2, NodeFacts DEF TreeShape
<1> QED
  BY <1>2, <1>3, <1>4, <1>5

-----------------------------------------------------------------------------
(* Taking a leaf out.                                                      *)

\* RemovePane at a path, whatever the pane there is called.
Cut(t, q) ==
  LET up  == Front(q)
      sib == Beside(q)
      kept == {p \in DOMAIN t : ~IsPrefix(up, p)}
      moved == {up \o Below(p, sib) : p \in {x \in DOMAIN t : IsPrefix(sib, x)}}
  IN [p \in kept \cup moved |-> IF p \in kept THEN t[p] ELSE t[sib \o Below(p, up)]]

\* A turn after a path taken on from another.
LEMMA JoinTurn ==
  ASSUME NEW r \in Paths, NEW b \in Paths, NEW x \in {0, 1}
  PROVE  r \o Append(b, x) = Append(r \o b, x)
BY DEF Paths

\* The values of a function on a finite set.
LEMMA ImageFinite ==
  ASSUME NEW S, IsFiniteSet(S), NEW f
  PROVE  IsFiniteSet({f[x] : x \in S}) /\ Cardinality({f[x] : x \in S}) <= Cardinality(S)
<1> DEFINE g == [x \in S |-> f[x]]
           T == {f[x] : x \in S}
<1>1. g \in Surjection(S, T)
  BY DEF Surjection
<1> HIDE DEF g, T
<1>2. IsFiniteSet(T) /\ Cardinality(T) <= Cardinality(S)
  BY <1>1, FS_Surjection
<1> QED
  BY <1>2 DEF T

\* u is t without its leaf q: what stood at sib, beside q, stands at the node above them.
IsCut(t, up, q, sib, u) ==
  /\ TreeShape(u)
  /\ \A p \in DOMAIN t : IsPrefix(up, p) <=> p = q \/ IsPrefix(sib, p)
  /\ \A p \in DOMAIN t : ~IsPrefix(up, p) => p \in DOMAIN u /\ u[p] = t[p]
  /\ \A p \in DOMAIN t : IsPrefix(sib, p) => up \o Below(p, sib) \in DOMAIN u /\
       u[up \o Below(p, sib)] = t[p]
  /\ \A s \in DOMAIN u : \/ s \in DOMAIN t /\ ~IsPrefix(up, s)
                         \/ \E p \in DOMAIN t : IsPrefix(sib, p) /\ s = up \o Below(p, sib)
  /\ \A r \in Paths : r \in Nodes(u) <=> IF IsPrefix(up, r) THEN sib \o Below(r, up) \in Nodes(t)
                                         ELSE r \in Nodes(t)

\* Taking a leaf out gives a tree: the other side of its split moves up one node.
LEMMA CutFacts ==
  ASSUME NEW t, TreeShape(t), NEW up \in Paths, NEW x \in {0, 1}, Append(up, x) \in DOMAIN t
  PROVE  IsCut(t, up, Append(up, x), Append(up, 1 - x), Cut(t, Append(up, x)))
<1> DEFINE q == Append(up, x)
           sib == Append(up, 1 - x)
           u == Cut(t, q)
           kept == {p \in DOMAIN t : ~IsPrefix(up, p)}
           under == {p \in DOMAIN t : IsPrefix(sib, p)}
           moved == {up \o Below(p, sib) : p \in under}
<1>1. /\ 1 - x \in {0, 1} /\ q \in Paths /\ sib \in Paths
      /\ Front(q) = up /\ Last(q) = x /\ Beside(q) = sib
      /\ IsPrefix(up, q) /\ IsPrefix(up, sib)
  BY TurnOrder DEF Beside
<1>2. u = [p \in kept \cup moved |-> IF p \in kept THEN t[p] ELSE t[sib \o Below(p, up)]]
  BY <1>1, Zenon DEF Cut
<1>3. DOMAIN t \subseteq Paths /\ IsFiniteSet(DOMAIN t) /\ \A p, r \in DOMAIN t : IsPrefix(p, r) => p = r
  BY DEF TreeShape
<1>3a. q \in DOMAIN t
  OBVIOUS
<1>3b. q = Append(up, x) /\ sib = Append(up, 1 - x)
  OBVIOUS
<1> HIDE DEF q, sib, u
<1>4. sib \in Nodes(t) /\ up \in Nodes(t) /\ up \notin DOMAIN t
  BY <1>1, <1>3, <1>3a, <1>3b, RootFacts DEF TreeShape
<1>5. ASSUME NEW p \in DOMAIN t
      PROVE  IsPrefix(up, p) <=> p = q \/ IsPrefix(sib, p)
  <2>1. ASSUME IsPrefix(up, p) PROVE p = q \/ IsPrefix(sib, p)
    <3>1. PICK y \in {0, 1} : IsPrefix(Append(up, y), p)
      BY <1>3, <1>4, <2>1, TurnOrder
    <3>2. CASE y = x
      BY <3>1, <3>2, <1>3, <1>3a, <1>3b
    <3>3. CASE y = 1 - x
      BY <3>1, <3>3, <1>3b
    <3> QED
      BY <3>2, <3>3
  <2>2. ASSUME IsPrefix(sib, p) PROVE IsPrefix(up, p)
    BY <1>1, <1>3, <2>2, PrefixOrder
  <2> QED
    BY <1>1, <2>1, <2>2
<1>6. ASSUME NEW p \in under
      PROVE  /\ Below(p, sib) \in Paths /\ p = sib \o Below(p, sib)
             /\ up \o Below(p, sib) \in Paths /\ IsPrefix(up, up \o Below(p, sib))
             /\ Below(up \o Below(p, sib), up) = Below(p, sib)
  <2>1. p \in Paths /\ IsPrefix(sib, p)
    BY <1>3
  <2>2. Below(p, sib) \in Paths /\ p = sib \o Below(p, sib)
    BY <1>1, <2>1, JoinOrder
  <2> QED
    BY <2>2, JoinOrder
<1>7. DOMAIN u = kept \cup moved
  BY <1>2
<1>8. ASSUME NEW p \in kept PROVE p \in DOMAIN u /\ u[p] = t[p]
  BY <1>2
<1>9. ASSUME NEW p \in under PROVE up \o Below(p, sib) \in DOMAIN u /\ u[up \o Below(p, sib)] = t[p]
  <2> DEFINE s == up \o Below(p, sib)
  <2>1. s \in moved /\ s \notin kept
    BY <1>6
  <2>2. sib \o Below(s, up) = p
    BY <1>6
  <2> HIDE DEF s
  <2>3. s \in DOMAIN u /\ u[s] = t[p]
    BY <1>2, <2>1, <2>2
  <2> QED
    BY <2>3 DEF s
<1>10. ASSUME NEW s \in DOMAIN u
       PROVE  \/ s \in kept
              \/ \E p \in under : s = up \o Below(p, sib)
  BY <1>7
<1>11. DOMAIN u \subseteq Paths
  <2>1. kept \subseteq Paths
    BY <1>3
  <2>2. moved \subseteq Paths
    BY <1>6
  <2> QED
    BY <1>7, <2>1, <2>2
<1>12. IsFiniteSet(DOMAIN u)
  <2>1. IsFiniteSet(kept) /\ IsFiniteSet(under)
    BY <1>3, FS_Subset
  <2>2. IsFiniteSet(moved)
    <3> DEFINE f == [p \in under |-> up \o Below(p, sib)]
    <3>1. moved = {f[p] : p \in under}
      OBVIOUS
    <3> HIDE DEF f, under, moved
    <3> QED
      BY <2>1, <3>1, ImageFinite
  <2> QED
    BY <1>7, <2>1, <2>2, FS_Union
<1>13. ASSUME NEW r \in Paths
       PROVE  r \in Nodes(u) <=> IF IsPrefix(up, r) THEN sib \o Below(r, up) \in Nodes(t)
           ELSE r \in Nodes(t)
  <2>1. r \in Nodes(u) <=> \E s \in DOMAIN u : IsPrefix(r, s)
    BY <1>11, NodeFacts
  <2>2. CASE IsPrefix(up, r)
    <3> DEFINE b == Below(r, up)
    <3>1. b \in Paths /\ r = up \o b
      BY <2>2, JoinOrder
    <3> HIDE DEF b
    <3>2. sib \o b \in Paths
      BY <1>1, <3>1, JoinOrder
    <3>3. sib \o b \in Nodes(t) <=> \E p \in DOMAIN t : IsPrefix(sib \o b, p)
      BY <1>3, <3>2, NodeFacts
    <3>4. ASSUME NEW p \in DOMAIN t, IsPrefix(sib \o b, p) PROVE \E s \in DOMAIN u : IsPrefix(r, s)
      <4>1. p \in under
        BY <1>1, <1>3, <3>1, <3>2, <3>4, JoinOrder, PrefixOrder
      <4>2. IsPrefix(b, Below(p, sib))
        <5>1. IsPrefix(sib \o b, sib \o Below(p, sib)) /\ Below(p, sib) \in Paths
          BY <1>6, <3>4, <4>1
        <5> QED
          BY <5>1, <1>1, <3>1, JoinOrder
      <4>3. IsPrefix(r, up \o Below(p, sib))
        BY <1>6, <3>1, <4>1, <4>2, JoinOrder
      <4> QED
        BY <1>9, <4>1, <4>3
    <3>5. ASSUME NEW s \in DOMAIN u, IsPrefix(r, s) PROVE \E p \in DOMAIN t : IsPrefix(sib \o b, p)
      <4>1. IsPrefix(up, s)
        BY <1>11, <2>2, <3>5, PrefixOrder
      <4>2. PICK p \in under : s = up \o Below(p, sib)
        BY <1>10, <4>1
      <4>3. IsPrefix(b, Below(p, sib))
        BY <1>6, <3>1, <3>5, <4>2, JoinOrder
      <4>4. IsPrefix(sib \o b, sib \o Below(p, sib))
        BY <1>1, <1>6, <3>1, <4>3, JoinOrder
      <4> QED
        BY <1>6, <4>4
    <3> QED
      BY <2>1, <2>2, <3>3, <3>4, <3>5 DEF b
  <2>3. CASE ~IsPrefix(up, r)
    <3>1. r \in Nodes(t) <=> \E p \in DOMAIN t : IsPrefix(r, p)
      BY <1>3, NodeFacts
    <3>2. ASSUME NEW p \in DOMAIN t, IsPrefix(r, p) PROVE \E s \in DOMAIN u : IsPrefix(r, s)
      <4>1. CASE p \in kept
        BY <1>8, <3>2, <4>1
      <4>2. CASE p \notin kept
        <5>1. IsPrefix(r, up)
          BY <1>3, <2>3, <3>2, <4>2, PrefixOrder
        <5>2. PICK p2 \in DOMAIN t : IsPrefix(sib, p2)
          BY <1>3, <1>4, NodeFacts
        <5>3. IsPrefix(r, up \o Below(p2, sib))
          BY <1>6, <5>1, <5>2, PrefixOrder
        <5> QED
          BY <1>9, <5>2, <5>3
      <4> QED
        BY <4>1, <4>2
    <3>3. ASSUME NEW s \in DOMAIN u, IsPrefix(r, s) PROVE \E p \in DOMAIN t : IsPrefix(r, p)
      <4>1. CASE s \in kept
        BY <3>3, <4>1
      <4>2. CASE s \notin kept
        <5>1. IsPrefix(up, s)
          BY <1>6, <1>10, <4>2
        <5>2. IsPrefix(r, up)
          BY <1>11, <2>3, <3>3, <5>1, PrefixOrder
        <5>3. IsPrefix(r, q)
          BY <1>1, <5>2, PrefixOrder
        <5> QED
          BY <5>3, <1>3a
      <4> QED
        BY <4>1, <4>2
    <3> QED
      BY <2>1, <2>3, <3>1, <3>2, <3>3
  <2> QED
    BY <2>2, <2>3
<1>14. ASSUME NEW s1 \in DOMAIN u, NEW s2 \in DOMAIN u, IsPrefix(s1, s2) PROVE s1 = s2
  <2>1. CASE s1 \in kept /\ s2 \in kept
    BY <1>3, <1>14, <2>1
  <2>2. CASE s1 \in kept /\ s2 \notin kept
    <3>1. IsPrefix(up, s2)
      BY <1>6, <1>10, <2>2
    <3>2. IsPrefix(s1, up)
      BY <1>3, <1>11, <1>14, <2>2, <3>1, PrefixOrder
    <3>3. IsPrefix(s1, q)
      BY <1>1, <1>3, <2>2, <3>2, PrefixOrder
    <3>4. s1 = q
      BY <1>3, <1>3a, <2>2, <3>3
    <3> QED
      BY <1>1, <2>2, <3>4
  <2>3. CASE s1 \notin kept /\ s2 \in kept
    <3>1. IsPrefix(up, s1)
      BY <1>6, <1>10, <2>3
    <3> QED
      BY <1>3, <1>11, <1>14, <2>3, <3>1, PrefixOrder
  <2>4. CASE s1 \notin kept /\ s2 \notin kept
    <3>1. PICK p1 \in under : s1 = up \o Below(p1, sib)
      BY <1>10, <2>4
    <3>2. PICK p2 \in under : s2 = up \o Below(p2, sib)
      BY <1>10, <2>4
    <3>3. IsPrefix(Below(p1, sib), Below(p2, sib))
      BY <1>6, <1>14, <3>1, <3>2, JoinOrder
    <3>4. IsPrefix(sib \o Below(p1, sib), sib \o Below(p2, sib))
      BY <1>1, <1>6, <3>3, JoinOrder
    <3>5. p1 = p2
      BY <1>3, <1>6, <3>4
    <3> QED
      BY <3>1, <3>2, <3>5
  <2> QED
    BY <2>1, <2>2, <2>3, <2>4
<1>15. ASSUME NEW r \in Paths, NEW y \in {0, 1}, Append(r, y) \in Nodes(u)
       PROVE  Append(r, 1 - y) \in Nodes(u)
  <2>0. 1 - y \in {0, 1} /\ Append(r, y) \in Paths /\ Append(r, 1 - y) \in Paths /\ 1 - (1 - y) = y
    BY TurnOrder
  <2>1. CASE IsPrefix(up, r)
    <3> DEFINE b == Below(r, up)
    <3>1. b \in Paths /\ r = up \o b /\ sib \o b \in Paths
      BY <1>1, <2>1, JoinOrder
    <3> HIDE DEF b
    <3>2. ASSUME NEW z \in {0, 1}
          PROVE  /\ IsPrefix(up, Append(r, z))
                 /\ sib \o Below(Append(r, z), up) = Append(sib \o b, z)
      <4>1. up \o Append(b, z) = Append(up \o b, z) /\ sib \o Append(b, z) = Append(sib \o b, z)
        <5>1. up \in Paths /\ sib \in Paths /\ b \in Paths
          BY <1>1, <3>1
        <5>2. up \o Append(b, z) = Append(up \o b, z)
          BY <5>1, JoinTurn
        <5>3. sib \o Append(b, z) = Append(sib \o b, z)
          BY <5>1, JoinTurn
        <5> QED
          BY <5>2, <5>3
      <4> DEFINE c == Append(b, z)
      <4>2. c \in Paths
        BY <3>1, TurnOrder
      <4>3. Append(r, z) = up \o c /\ Append(sib \o b, z) = sib \o c
        BY <3>1, <4>1
      <4> HIDE DEF c
      <4>4. IsPrefix(up, up \o c) /\ Below(up \o c, up) = c
        BY <4>2, JoinOrder
      <4> QED
        BY <4>3, <4>4
    <3>3. Append(sib \o b, y) \in Nodes(t)
      BY <1>13, <1>15, <2>0, <3>2
    <3>4. Append(sib \o b, 1 - y) \in Nodes(t)
      BY <3>1, <3>3 DEF TreeShape
    <3> QED
      BY <1>13, <2>0, <3>2, <3>4
  <2>2. CASE ~IsPrefix(up, r)
    <3>1. ASSUME NEW z \in {0, 1}
          PROVE  IsPrefix(up, Append(r, z)) => up = Append(r, z)
      BY <2>2, TurnOrder
    <3>2. Append(r, y) \in Nodes(t)
      <4>1. CASE IsPrefix(up, Append(r, y))
        BY <1>4, <3>1, <4>1
      <4>2. CASE ~IsPrefix(up, Append(r, y))
        BY <1>13, <1>15, <2>0, <4>2
      <4> QED
        BY <4>1, <4>2
    <3>3. Append(r, 1 - y) \in Nodes(t)
      BY <3>2 DEF TreeShape
    <3>4. CASE IsPrefix(up, Append(r, 1 - y))
      <4>1. Append(r, 1 - y) = up /\ IsPrefix(up, up)
        BY <2>0, <3>1, <3>4, PrefixOrder
      <4>2. sib \o Below(up, up) = sib
        BY <1>1, JoinOrder
      <4> QED
        BY <1>4, <1>13, <4>1, <4>2
    <3>5. CASE ~IsPrefix(up, Append(r, 1 - y))
      BY <1>13, <2>0, <3>3, <3>5
    <3> QED
      BY <3>4, <3>5
  <2> QED
    BY <2>1, <2>2
<1>16. u = [p \in DOMAIN u |-> u[p]]
  BY <1>2
<1>17. TreeShape(u)
  BY <1>11, <1>12, <1>14, <1>15, <1>16 DEF TreeShape
<1>18. IsCut(t, up, q, sib, u)
  BY <1>5, <1>8, <1>9, <1>10, <1>13, <1>17 DEF IsCut
<1> QED
  BY <1>18 DEF q, sib, u

-----------------------------------------------------------------------------
(* Putting a leaf in.                                                      *)

\* v is t with the leaf new beside what stood at r, which stands at under now.
IsSplit(t, r, new, under, pane, v) ==
  /\ TreeShape(v)
  /\ new \in DOMAIN v /\ v[new] = pane
  /\ \A p \in DOMAIN t : ~IsPrefix(r, p) => p \in DOMAIN v /\ v[p] = t[p]
  /\ \A p \in DOMAIN t : IsPrefix(r, p) => under \o Below(p, r) \in DOMAIN v /\
       v[under \o Below(p, r)] = t[p]
  /\ \A s \in DOMAIN v : \/ s = new
                         \/ s \in DOMAIN t /\ ~IsPrefix(r, s)
                         \/ \E p \in DOMAIN t : IsPrefix(r, p) /\ s = under \o Below(p, r)

\* Splitting a node gives a tree: what stood there moves down one turn.
LEMMA SplitNodeFacts ==
  ASSUME NEW t, TreeShape(t), NEW r \in Nodes(t), NEW x \in {0, 1}, NEW pane
  PROVE  IsSplit(t, r, Append(r, x), Append(r, 1 - x), pane, SplitNode(t, r, x, pane))
<1> DEFINE new == Append(r, x)
           under == Append(r, 1 - x)
           v == SplitNode(t, r, x, pane)
           kept == {p \in DOMAIN t : ~IsPrefix(r, p)}
           below == DOMAIN t \ kept
           moved == {under \o Below(p, r) : p \in below}
<1>1. v = [p \in kept \cup moved \cup {new} |->
             IF p = new THEN pane ELSE IF p \in kept THEN t[p] ELSE t[r \o Below(p, under)]]
  BY Zenon DEF SplitNode
<1>2. DOMAIN t \subseteq Paths /\ IsFiniteSet(DOMAIN t) /\ r \in Paths /\ \A p, q \in DOMAIN t :
    IsPrefix(p, q) => p = q
  BY RootFacts DEF TreeShape
<1>3. /\ 1 - x \in {0, 1} /\ new \in Paths /\ under \in Paths
      /\ IsPrefix(r, new) /\ IsPrefix(r, under) /\ new # r /\ under # r
      /\ ~IsPrefix(new, r) /\ ~IsPrefix(under, r)
  BY <1>2, TurnOrder
<1>4. ASSUME NEW s \in Paths
      PROVE  /\ ~(IsPrefix(new, s) /\ IsPrefix(under, s))
             /\ IsPrefix(r, s) => s = r \/ IsPrefix(new, s) \/ IsPrefix(under, s)
             /\ IsPrefix(new, s) \/ IsPrefix(under, s) => IsPrefix(r, s)
  <2>1. ASSUME IsPrefix(r, s), s # r PROVE IsPrefix(new, s) \/ IsPrefix(under, s)
    <3>1. PICK y \in {0, 1} : IsPrefix(Append(r, y), s)
      BY <1>2, <2>1, TurnOrder
    <3>2. y = x \/ y = 1 - x
      OBVIOUS
    <3> QED
      BY <3>1, <3>2
  <2>2. IsPrefix(new, s) => ~IsPrefix(under, s)
    BY <1>2, TurnOrder
  <2>3. IsPrefix(new, s) \/ IsPrefix(under, s) => IsPrefix(r, s)
    BY <1>2, <1>3, PrefixOrder
  <2> QED
    BY <2>1, <2>2, <2>3
<1>5. new = Append(r, x) /\ under = Append(r, 1 - x)
  OBVIOUS
<1> HIDE DEF new, under, v
<1>6. ASSUME NEW p \in below
      PROVE  /\ p \in DOMAIN t /\ IsPrefix(r, p)
             /\ Below(p, r) \in Paths /\ p = r \o Below(p, r)
             /\ under \o Below(p, r) \in Paths /\ IsPrefix(under, under \o Below(p, r))
             /\ Below(under \o Below(p, r), under) = Below(p, r)
             /\ IsPrefix(r, under \o Below(p, r))
             /\ under \o Below(p, r) # new
  <2>1. p \in Paths /\ IsPrefix(r, p) /\ p \in DOMAIN t
    BY <1>2
  <2>2. Below(p, r) \in Paths /\ p = r \o Below(p, r)
    BY <1>2, <2>1, JoinOrder
  <2> DEFINE b == Below(p, r)
  <2> HIDE DEF b
  <2>3. under \o b \in Paths /\ IsPrefix(under, under \o b) /\ Below(under \o b, under) = b
    BY <1>3, <2>2, JoinOrder DEF b
  <2>4. IsPrefix(r, under \o b)
    BY <1>4, <2>3
  <2>5. under \o b # new
    BY <1>3, <1>4, <2>3, PrefixOrder
  <2> QED
    BY <2>1, <2>2, <2>3, <2>4, <2>5 DEF b
<1>7. DOMAIN v = kept \cup moved \cup {new}
  BY <1>1
<1>8. ASSUME NEW p \in kept PROVE p \in DOMAIN v /\ v[p] = t[p]
  BY <1>1, <1>3
<1>9. ASSUME NEW p \in below PROVE under \o Below(p, r) \in DOMAIN v /\ v[under \o Below(p, r)] = t[p]
  <2> DEFINE s == under \o Below(p, r)
  <2>1. s \in moved /\ s \notin kept /\ s # new
    BY <1>6
  <2>2. r \o Below(s, under) = p
    BY <1>6
  <2> HIDE DEF s
  <2>3. s \in DOMAIN v /\ v[s] = t[p]
    BY <1>1, <2>1, <2>2
  <2> QED
    BY <2>3 DEF s
<1>10. ASSUME NEW s \in DOMAIN v
       PROVE  \/ s = new
              \/ s \in kept
              \/ \E p \in below : s = under \o Below(p, r)
  BY <1>7
<1>10a. new \in DOMAIN v /\ v[new] = pane
  BY <1>1
<1>11. DOMAIN v \subseteq Paths
  <2>1. kept \subseteq Paths
    BY <1>2
  <2>2. moved \subseteq Paths
    BY <1>6
  <2> QED
    BY <1>3, <1>7, <2>1, <2>2
<1>12. IsFiniteSet(DOMAIN v)
  <2>1. IsFiniteSet(kept) /\ IsFiniteSet(below)
    BY <1>2, FS_Subset
  <2>2. IsFiniteSet(moved)
    <3> DEFINE f == [p \in below |-> under \o Below(p, r)]
    <3>1. moved = {f[p] : p \in below}
      OBVIOUS
    <3> HIDE DEF f, below, moved
    <3> QED
      BY <2>1, <3>1, ImageFinite
  <2>3. IsFiniteSet(kept \cup moved)
    BY <2>1, <2>2, FS_Union
  <2>4. IsFiniteSet({new})
    BY FS_Singleton
  <2> HIDE DEF kept, moved
  <2>5. IsFiniteSet((kept \cup moved) \cup {new})
    BY <2>3, <2>4, FS_Union
  <2> QED
    BY <1>7, <2>5
<1>13. ASSUME NEW s \in Paths, ~IsPrefix(r, s)
       PROVE  s \in Nodes(v) <=> s \in Nodes(t)
  <2>1. s \in Nodes(v) <=> \E p \in DOMAIN v : IsPrefix(s, p)
    BY <1>11, NodeFacts
  <2>2. s \in Nodes(t) <=> \E p \in DOMAIN t : IsPrefix(s, p)
    BY <1>2, NodeFacts
  <2>3. ASSUME NEW p \in DOMAIN t, IsPrefix(s, p) PROVE \E y \in DOMAIN v : IsPrefix(s, y)
    <3>1. CASE p \in kept
      BY <1>8, <2>3, <3>1
    <3>2. CASE p \notin kept
      <4>1. IsPrefix(s, r)
        BY <1>2, <1>13, <2>3, <3>2, PrefixOrder
      <4>2. IsPrefix(s, new)
        BY <1>2, <1>3, <4>1, PrefixOrder
      <4> QED
        BY <1>10a, <4>2
    <3> QED
      BY <3>1, <3>2
  <2>4. ASSUME NEW y \in DOMAIN v, IsPrefix(s, y) PROVE \E p \in DOMAIN t : IsPrefix(s, p)
    <3>1. CASE y \in kept
      BY <2>4, <3>1
    <3>2. CASE y \notin kept
      <4>1. IsPrefix(r, y)
        BY <1>3, <1>6, <1>10, <3>2
      <4>2. IsPrefix(s, r)
        BY <1>2, <1>11, <1>13, <2>4, <4>1, PrefixOrder
      <4>3. PICK p \in DOMAIN t : IsPrefix(r, p)
        BY <1>2, NodeFacts
      <4>4. IsPrefix(s, p)
        BY <1>2, <4>2, <4>3, PrefixOrder
      <4> QED
        BY <4>4
    <3> QED
      BY <3>1, <3>2
  <2> QED
    BY <2>1, <2>2, <2>3, <2>4
<1>14. ASSUME NEW s \in Paths, IsPrefix(under, s)
       PROVE  s \in Nodes(v) <=> r \o Below(s, under) \in Nodes(t)
  <2> DEFINE b == Below(s, under)
  <2>1. b \in Paths /\ s = under \o b
    BY <1>3, <1>14, JoinOrder
  <2> HIDE DEF b
  <2>2. r \o b \in Paths
    BY <1>2, <2>1, JoinOrder
  <2>3. s \in Nodes(v) <=> \E y \in DOMAIN v : IsPrefix(s, y)
    BY <1>11, NodeFacts
  <2>4. r \o b \in Nodes(t) <=> \E p \in DOMAIN t : IsPrefix(r \o b, p)
    BY <1>2, <2>2, NodeFacts
  <2>5. ASSUME NEW p \in DOMAIN t, IsPrefix(r \o b, p) PROVE \E y \in DOMAIN v : IsPrefix(s, y)
    <3>0. IsPrefix(r, r \o b)
      BY <1>2, <2>1, JoinOrder
    <3>1. IsPrefix(r, p)
      BY <1>2, <2>2, <2>5, <3>0, PrefixOrder
    <3>2. p \in below
      BY <3>1
    <3>3. IsPrefix(r \o b, r \o Below(p, r))
      BY <1>6, <2>5, <3>2
    <3>4. IsPrefix(b, Below(p, r))
      BY <1>2, <1>6, <2>1, <3>2, <3>3, JoinOrder
    <3>5. IsPrefix(s, under \o Below(p, r))
      BY <1>3, <1>6, <2>1, <3>2, <3>4, JoinOrder
    <3> QED
      BY <1>9, <3>2, <3>5
  <2>6. ASSUME NEW y \in DOMAIN v, IsPrefix(s, y) PROVE \E p \in DOMAIN t : IsPrefix(r \o b, p)
    <3>1. IsPrefix(under, y) /\ y \in Paths
      BY <1>3, <1>11, <1>14, <2>6, PrefixOrder
    <3>2. y # new /\ y \notin kept
      BY <1>3, <1>4, <3>1, PrefixOrder
    <3>3. PICK p \in below : y = under \o Below(p, r)
      BY <1>10, <3>2
    <3>4. IsPrefix(b, Below(p, r))
      BY <1>3, <1>6, <2>1, <2>6, <3>3, JoinOrder
    <3>5. IsPrefix(r \o b, r \o Below(p, r))
      BY <1>2, <1>6, <2>1, <3>4, JoinOrder
    <3> QED
      BY <1>6, <3>5
  <2> QED
    BY <2>3, <2>4, <2>5, <2>6 DEF b
<1>15. r \in Nodes(v) /\ new \in Nodes(v) /\ under \in Nodes(v)
  <2>1. r \in Nodes(v) /\ new \in Nodes(v)
    BY <1>2, <1>3, <1>10a, <1>11, NodeFacts, PrefixOrder
  <2>2. IsPrefix(under, under) /\ r \o Below(under, under) = r
    BY <1>2, <1>3, JoinOrder, PrefixOrder
  <2> QED
    BY <1>3, <1>14, <2>1, <2>2
<1>16. ASSUME NEW s1 \in DOMAIN v, NEW s2 \in DOMAIN v, IsPrefix(s1, s2) PROVE s1 = s2
  <2>0. s1 \in Paths /\ s2 \in Paths
    BY <1>11
  <2>1. CASE s1 \in kept
    <3>1. CASE s2 \in kept
      BY <1>2, <1>16, <2>1, <3>1
    <3>2. CASE s2 \notin kept
      <4>1. IsPrefix(r, s2)
        BY <1>3, <1>6, <1>10, <3>2
      <4>2. IsPrefix(s1, r)
        BY <1>2, <1>16, <2>0, <2>1, <4>1, PrefixOrder
      <4>3. PICK p \in DOMAIN t : IsPrefix(r, p)
        BY <1>2, NodeFacts
      <4>4. IsPrefix(s1, p)
        BY <1>2, <2>0, <4>2, <4>3, PrefixOrder
      <4> QED
        BY <1>2, <2>1, <4>3, <4>4
    <3> QED
      BY <3>1, <3>2
  <2>2. CASE s1 = new
    <3>1. IsPrefix(new, s2)
      BY <1>16, <2>2
    <3>2. s2 \notin kept /\ ~IsPrefix(under, s2)
      BY <1>4, <2>0, <3>1
    <3>3. \A p \in below : s2 # under \o Below(p, r)
      BY <1>6, <3>2
    <3>4. s2 = new
      BY <1>10, <3>2, <3>3
    <3> QED
      BY <2>2, <3>4
  <2>3. CASE s1 \notin kept /\ s1 # new
    <3>1. PICK p1 \in below : s1 = under \o Below(p1, r)
      BY <1>10, <2>3
    <3>2. IsPrefix(under, s2)
      BY <1>3, <1>6, <1>16, <2>0, <3>1, PrefixOrder
    <3>3. s2 # new /\ s2 \notin kept
      BY <1>3, <1>4, <2>0, <3>2, PrefixOrder
    <3>4. PICK p2 \in below : s2 = under \o Below(p2, r)
      BY <1>10, <3>3
    <3>5. IsPrefix(Below(p1, r), Below(p2, r))
      BY <1>3, <1>6, <1>16, <3>1, <3>4, JoinOrder
    <3>6. IsPrefix(r \o Below(p1, r), r \o Below(p2, r))
      BY <1>2, <1>6, <3>5, JoinOrder
    <3>7. p1 = p2
      BY <1>2, <1>6, <3>6
    <3> QED
      BY <3>1, <3>4, <3>7
  <2> QED
    BY <2>1, <2>2, <2>3
<1>17. ASSUME NEW a \in Paths, NEW y \in {0, 1}, Append(a, y) \in Nodes(v)
       PROVE  Append(a, 1 - y) \in Nodes(v)
  <2>0. 1 - y \in {0, 1} /\ Append(a, y) \in Paths /\ Append(a, 1 - y) \in Paths /\ 1 - (1 - y) = y
    BY TurnOrder
  <2>1. CASE IsPrefix(under, a)
    <3> DEFINE b == Below(a, under)
    <3>1. b \in Paths /\ a = under \o b /\ r \o b \in Paths
      BY <1>2, <1>3, <2>1, JoinOrder
    <3> HIDE DEF b
    <3>2. ASSUME NEW z \in {0, 1}
          PROVE  /\ IsPrefix(under, Append(a, z))
                 /\ r \o Below(Append(a, z), under) = Append(r \o b, z)
      <4>1. under \o Append(b, z) = Append(under \o b, z) /\ r \o Append(b, z) = Append(r \o b, z)
        BY <1>2, <1>3, <3>1, JoinTurn
      <4> DEFINE c == Append(b, z)
      <4>2. c \in Paths
        BY <3>1, TurnOrder
      <4>3. Append(a, z) = under \o c /\ Append(r \o b, z) = r \o c
        BY <3>1, <4>1
      <4> HIDE DEF c
      <4>4. IsPrefix(under, under \o c) /\ Below(under \o c, under) = c
        BY <1>3, <4>2, JoinOrder
      <4> QED
        BY <4>3, <4>4
    <3>3. Append(r \o b, y) \in Nodes(t)
      BY <1>14, <1>17, <2>0, <3>2
    <3>4. Append(r \o b, 1 - y) \in Nodes(t)
      BY <3>1, <3>3 DEF TreeShape
    <3> QED
      BY <1>14, <2>0, <3>2, <3>4
  <2>2. CASE a = r
    <3>1. y = x \/ y = 1 - x
      OBVIOUS
    <3>2. Append(a, 1 - y) = new \/ Append(a, 1 - y) = under
      BY <1>5, <2>0, <2>2, <3>1
    <3> QED
      BY <1>15, <3>2
  <2>3. CASE IsPrefix(new, a)
    <3>1. PICK s \in DOMAIN v : IsPrefix(Append(a, y), s)
      BY <1>11, <1>17, NodeFacts
    <3>2. IsPrefix(a, s) /\ a # s /\ s \in Paths
      BY <1>11, <2>0, <3>1, TurnOrder
    <3>3. IsPrefix(new, s)
      BY <1>3, <2>3, <3>2, PrefixOrder
    <3>4. s = new
      BY <1>10a, <1>16, <3>1, <3>3
    <3> QED
      BY <1>3, <2>3, <3>2, <3>4, PrefixOrder
  <2>4. CASE ~IsPrefix(r, a)
    <3>1. ASSUME NEW z \in {0, 1}, IsPrefix(r, Append(a, z)) PROVE r = Append(a, z)
      BY <1>2, <2>4, <3>1, TurnOrder
    <3>2. Append(a, y) \in Nodes(t)
      BY <1>13, <1>17, <2>0, <3>1
    <3>3. Append(a, 1 - y) \in Nodes(t)
      BY <3>2 DEF TreeShape
    <3>4. CASE IsPrefix(r, Append(a, 1 - y))
      BY <1>15, <2>0, <3>1, <3>4
    <3>5. CASE ~IsPrefix(r, Append(a, 1 - y))
      BY <1>13, <2>0, <3>3, <3>5
    <3> QED
      BY <3>4, <3>5
  <2> QED
    BY <1>4, <2>1, <2>2, <2>3, <2>4
<1>18. v = [p \in DOMAIN v |-> v[p]]
  BY <1>1
<1>19. TreeShape(v)
  BY <1>11, <1>12, <1>16, <1>17, <1>18 DEF TreeShape
<1>20. IsSplit(t, r, new, under, pane, v)
  BY <1>8, <1>9, <1>10, <1>10a, <1>19 DEF IsSplit
<1> QED
  BY <1>20 DEF new, under, v

-----------------------------------------------------------------------------
(* The order of leaves.                                                    *)

\* R orders S: one way between any two elements, and transitively.
Orders(R, S) ==
  /\ \A x \in S : <<x, x>> \notin R
  /\ \A x, y \in S : x # y => <<x, y>> \in R \/ <<y, x>> \in R
  /\ \A x, y, z \in S : <<x, y>> \in R /\ <<y, z>> \in R => <<x, z>> \in R

\* The elements of S by how many come before them.
Ranked(S, R) == [k \in 1 .. Cardinality(S) |-> CHOOSE x \in S :
    Cardinality({y \in S : <<y, x>> \in R}) = k - 1]

\* The elements of a finite ordered set, each once and in order.
LEMMA RankedFacts ==
  ASSUME NEW S, IsFiniteSet(S), NEW R, Orders(R, S)
  PROVE  /\ Cardinality(S) \in Nat
         /\ Ranked(S, R) \in [1 .. Cardinality(S) -> S]
         /\ \A x \in S : \E k \in 1 .. Cardinality(S) : Ranked(S, R)[k] = x
         /\ \A i, j \in 1 .. Cardinality(S) : i < j => <<Ranked(S, R)[i], Ranked(S, R)[j]>> \in R
         /\ \A i, j \in 1 .. Cardinality(S) : Ranked(S, R)[i] = Ranked(S, R)[j] => i = j
<1> DEFINE n == Cardinality(S)
           pred(x) == {y \in S : <<y, x>> \in R}
           rank == [x \in S |-> Cardinality(pred(x))]
           f == Ranked(S, R)
<1>1. n \in Nat
  BY FS_CardinalityType
<1>2. \A x \in S : IsFiniteSet(pred(x)) /\ rank[x] \in Nat
  <2>1. ASSUME NEW x \in S PROVE IsFiniteSet(pred(x)) /\ rank[x] \in Nat
    <3>1. pred(x) \in SUBSET S
      OBVIOUS
    <3>2. IsFiniteSet(pred(x))
      BY <3>1, FS_Subset
    <3>3. Cardinality(pred(x)) \in Nat
      BY <3>2, FS_CardinalityType
    <3> QED
      BY <3>2, <3>3
  <2> QED
    BY <2>1
<1>3. ASSUME NEW x \in S, NEW y \in S, <<x, y>> \in R PROVE rank[x] < rank[y]
  <2>1. pred(x) \in SUBSET pred(y) /\ x \in pred(y) /\ x \notin pred(x)
    BY <1>3 DEF Orders
  <2>2. Cardinality(pred(x)) <= Cardinality(pred(y)) /\ Cardinality(pred(x)) # Cardinality(pred(y))
    BY <1>2, <2>1, FS_Subset
  <2>3. rank[x] = Cardinality(pred(x)) /\ rank[y] = Cardinality(pred(y))
    OBVIOUS
  <2>4. rank[x] \in Nat /\ rank[y] \in Nat
    BY <1>2
  <2> HIDE DEF rank, pred
  <2> QED
    BY <2>2, <2>3, <2>4
<1>4. ASSUME NEW x \in S PROVE rank[x] \in 0 .. n - 1
  <2>1. pred(x) \in SUBSET S /\ x \notin pred(x)
    BY DEF Orders
  <2>2. Cardinality(pred(x)) <= n /\ Cardinality(pred(x)) # n
    BY <2>1, FS_Subset
  <2> QED
    BY <1>1, <1>2, <2>2
<1>5. \A x, y \in S : rank[x] = rank[y] => x = y
  <2>1. ASSUME NEW x \in S, NEW y \in S, x # y PROVE rank[x] # rank[y]
    <3>1. <<x, y>> \in R \/ <<y, x>> \in R
      BY <2>1 DEF Orders
    <3>2. rank[x] \in Nat /\ rank[y] \in Nat
      BY <1>2
    <3> HIDE DEF rank
    <3>3. rank[x] < rank[y] \/ rank[y] < rank[x]
      BY <1>3, <3>1
    <3> QED
      BY <3>2, <3>3
  <2> QED
    BY <2>1
<1>6. \A k \in 0 .. n - 1 : \E x \in S : rank[x] = k
  <2>1. rank \in Injection(S, 0 .. n - 1)
    BY <1>4, <1>5 DEF Injection, IsInjective
  <2>2. IsFiniteSet(0 .. n - 1) /\ Cardinality(0 .. n - 1) = n
    <3> HIDE DEF n, rank, f
    <3>1. 0 \in Int /\ n - 1 \in Int
      BY <1>1
    <3>2. IsFiniteSet(0 .. n - 1) /\ Cardinality(0 .. n - 1) = IF 0 > n - 1 THEN 0 ELSE n - 1 - 0 + 1
      BY <3>1, FS_Interval
    <3> QED
      BY <1>1, <3>2
  <2>3. rank \in Surjection(S, 0 .. n - 1)
    BY <2>1, <2>2, FS_Injection
  <2> QED
    BY <2>3 DEF Surjection
<1>7. f = [k \in 1 .. n |-> CHOOSE x \in S : Cardinality({y \in S : <<y, x>> \in R}) = k - 1]
  BY DEF Ranked
<1>7a. \A x \in S : rank[x] = Cardinality({y \in S : <<y, x>> \in R})
  OBVIOUS
<1>7b. \A x \in S : rank[x] \in Nat
  BY <1>2
<1> HIDE DEF f, rank, n
<1>8. ASSUME NEW k \in 1 .. n PROVE f[k] \in S /\ rank[f[k]] = k - 1
  <2>1. k - 1 \in 0 .. n - 1
    BY <1>1
  <2>2. \E x \in S : rank[x] = k - 1
    BY <1>6, <2>1
  <2>3. \E x \in S : Cardinality({y \in S : <<y, x>> \in R}) = k - 1
    BY <1>7a, <2>2
  <2>4. f[k] = CHOOSE x \in S : Cardinality({y \in S : <<y, x>> \in R}) = k - 1
    BY <1>7
  <2>5. f[k] \in S /\ Cardinality({y \in S : <<y, f[k]>> \in R}) = k - 1
    BY <2>3, <2>4
  <2> QED
    BY <1>7a, <2>5
<1>9. f \in [1 .. n -> S]
  BY <1>7, <1>8
<1>10. ASSUME NEW x \in S PROVE \E k \in 1 .. n : f[k] = x
  <2>1. rank[x] + 1 \in 1 .. n
    BY <1>1, <1>4
  <2>2. rank[f[rank[x] + 1]] = rank[x] /\ f[rank[x] + 1] \in S
    BY <1>4, <1>8, <2>1
  <2> QED
    BY <1>5, <2>1, <2>2
<1>11. ASSUME NEW i \in 1 .. n, NEW j \in 1 .. n, i < j PROVE <<f[i], f[j]>> \in R
  <2>1. rank[f[i]] < rank[f[j]] /\ f[i] \in S /\ f[j] \in S
    BY <1>1, <1>8, <1>11
  <2>1a. rank[f[i]] \in Nat /\ rank[f[j]] \in Nat
    BY <1>7b, <2>1
  <2>2. f[i] # f[j]
    BY <2>1, <2>1a
  <2>3. <<f[j], f[i]>> \notin R
    <3>1. <<f[j], f[i]>> \in R => rank[f[j]] < rank[f[i]]
      BY <1>3, <2>1
    <3> QED
      BY <2>1, <2>1a, <3>1
  <2> QED
    BY <2>1, <2>2, <2>3 DEF Orders
<1>12. ASSUME NEW i \in 1 .. n, NEW j \in 1 .. n, f[i] = f[j] PROVE i = j
  BY <1>1, <1>8, <1>12
<1> QED
  BY <1>1, <1>9, <1>10, <1>11, <1>12 DEF n, f

\* Before is told at the first turn two paths differ in.
LEMMA BeforeFacts ==
  ASSUME NEW p \in Paths, NEW q \in Paths
  PROVE  Before(p, q) <=> \E n \in 1 .. Len(p) : n <= Len(q) /\ p[n] < q[n] /\ \A i \in 1 .. n - 1 :
      p[i] = q[i]
<1>1. ASSUME NEW n \in 1 .. Len(p), n <= Len(q)
      PROVE  SubSeq(p, 1, n - 1) = SubSeq(q, 1, n - 1) <=> \A i \in 1 .. n - 1 : p[i] = q[i]
  <2>1. n - 1 \in Nat /\ n - 1 <= Len(p) /\ n - 1 <= Len(q)
    BY <1>1, PathFacts
  <2> DEFINE a == SubSeq(p, 1, n - 1)
             b == SubSeq(q, 1, n - 1)
  <2>2. a \in Paths /\ Len(a) = n - 1 /\ (\A i \in 1 .. n - 1 : a[i] = p[i])
        /\ b \in Paths /\ Len(b) = n - 1 /\ (\A i \in 1 .. n - 1 : b[i] = q[i])
    BY <2>1, UpToFacts
  <2> HIDE DEF a, b
  <2>3. a = b <=> \A i \in 1 .. n - 1 : a[i] = b[i]
    BY <2>2, SamePath
  <2>4. a = b <=> \A i \in 1 .. n - 1 : p[i] = q[i]
    BY <2>2, <2>3
  <2> QED
    BY <2>4 DEF a, b
<1> QED
  BY <1>1, PathFacts DEF Before

\* It orders leaves.
LEMMA BeforeOrders ==
  ASSUME NEW S, S \subseteq Paths, \A p, q \in S : IsPrefix(p, q) => p = q
  PROVE  Orders({w \in S \X S : Before(w[1], w[2])}, S)
<1> DEFINE R == {w \in S \X S : Before(w[1], w[2])}
<1>0. \A x, y \in S : <<x, y>> \in R <=> Before(x, y)
  OBVIOUS
<1>1. \A x \in S : ~Before(x, x)
  BY BeforeFacts, PathFacts
<1>2. ASSUME NEW x \in S, NEW y \in S, x # y PROVE Before(x, y) \/ Before(y, x)
  <2>0. x \in Paths /\ y \in Paths /\ Len(x) \in Nat /\ Len(y) \in Nat
    BY PathFacts
  <2> DEFINE D == {n \in 1 .. Len(x) : n <= Len(y) /\ x[n] # y[n]}
  <2>1. ~IsPrefix(x, y) /\ ~IsPrefix(y, x)
    BY <1>2
  <2>2. D # {}
    <3>1. CASE Len(x) <= Len(y)
      <4>1. \E i \in 1 .. Len(x) : x[i] # y[i]
        BY <2>0, <2>1, <3>1, PrefixFacts
      <4>2. \A i \in 1 .. Len(x) : i <= Len(y)
        BY <2>0, <3>1
      <4> QED
        BY <4>1, <4>2
    <3>2. CASE Len(y) <= Len(x)
      <4>1. \E i \in 1 .. Len(y) : y[i] # x[i]
        BY <2>0, <2>1, <3>2, PrefixFacts
      <4>2. \A i \in 1 .. Len(y) : i \in 1 .. Len(x) /\ i <= Len(y)
        BY <2>0, <3>2
      <4> QED
        BY <4>1, <4>2
    <3> QED
      BY <2>0, <3>1, <3>2
  <2>3. D \subseteq Nat
    OBVIOUS
  <2>4. PICK n \in D : \A m \in D : n <= m
    BY <2>2, <2>3, LeastNumber
  <2>5. n \in 1 .. Len(x) /\ n <= Len(y) /\ x[n] # y[n] /\ n \in 1 .. Len(y) /\ n <= Len(x)
    BY <2>0
  <2>6. \A i \in 1 .. n - 1 : x[i] = y[i] /\ y[i] = x[i]
    <3>1. ASSUME NEW i \in 1 .. n - 1 PROVE x[i] = y[i]
      <4>1. i \in 1 .. Len(x) /\ i <= Len(y) /\ ~(n <= i)
        BY <2>0, <2>5
      <4>2. i \notin D
        BY <2>4, <4>1
      <4> QED
        BY <4>1, <4>2
    <3> QED
      BY <3>1
  <2>7. x[n] \in {0, 1} /\ y[n] \in {0, 1}
    BY <2>0, <2>5, PathFacts
  <2>8. x[n] < y[n] \/ y[n] < x[n]
    BY <2>5, <2>7
  <2> QED
    BY <2>0, <2>5, <2>6, <2>8, BeforeFacts
<1>3. ASSUME NEW x \in S, NEW y \in S, NEW z \in S, Before(x, y), Before(y, z) PROVE Before(x, z)
  <2>0. x \in Paths /\ y \in Paths /\ z \in Paths /\ Len(x) \in Nat /\ Len(y) \in Nat /\ Len(z) \in Nat
    BY PathFacts
  <2>1. PICK n \in 1 .. Len(x) : n <= Len(y) /\ x[n] < y[n] /\ \A i \in 1 .. n - 1 : x[i] = y[i]
    BY <1>3, <2>0, BeforeFacts
  <2>2. PICK m \in 1 .. Len(y) : m <= Len(z) /\ y[m] < z[m] /\ \A i \in 1 .. m - 1 : y[i] = z[i]
    BY <1>3, <2>0, BeforeFacts
  <2>3. CASE n < m
    <3>1. n <= Len(z) /\ y[n] = z[n]
      BY <2>0, <2>1, <2>2, <2>3
    <3>2. \A i \in 1 .. n - 1 : x[i] = z[i]
      BY <2>0, <2>1, <2>2, <2>3
    <3>3. x[n] < z[n]
      BY <2>1, <3>1
    <3> QED
      BY <2>0, <2>1, <3>1, <3>2, <3>3, BeforeFacts
  <2>4. CASE n >= m
    <3>1. m \in 1 .. Len(x) /\ m <= Len(z)
      BY <2>0, <2>1, <2>2, <2>4
    <3>2. \A i \in 1 .. m - 1 : x[i] = z[i]
      BY <2>0, <2>1, <2>2, <2>4
    <3>3. x[m] < z[m]
      <4>1. CASE m = n
        <5>1. x[n] \in {0, 1} /\ y[n] \in {0, 1} /\ z[m] \in {0, 1}
          BY <2>0, <2>1, <2>2, <3>1, PathFacts
        <5> QED
          BY <2>1, <2>2, <4>1, <5>1
      <4>2. CASE m < n
        <5>1. m \in 1 .. n - 1
          BY <4>2
        <5>2. x[m] = y[m]
          BY <2>1, <5>1
        <5> QED
          BY <2>2, <5>2
      <4> QED
        BY <2>4, <4>1, <4>2
    <3> QED
      BY <2>0, <3>1, <3>2, <3>3, BeforeFacts
  <2> QED
    BY <2>3, <2>4
<1> HIDE DEF R
<1>4. Orders(R, S)
  BY <1>0, <1>1, <1>2, <1>3 DEF Orders
<1> QED
  BY <1>4 DEF R

\* The leaves under a node are listed once each.
LEMMA LeavesFacts ==
  ASSUME NEW t, TreeShape(t), NEW r
  PROVE  /\ Leaves(t, r) \in Seq(DOMAIN t)
         /\ \A k \in 1 .. Len(Leaves(t, r)) : IsPrefix(r, Leaves(t, r)[k])
         /\ \A q \in DOMAIN t : IsPrefix(r, q) => \E k \in 1 .. Len(Leaves(t, r)) : Leaves(t, r)[k] = q
         /\ \A i, j \in 1 .. Len(Leaves(t, r)) : Leaves(t, r)[i] = Leaves(t, r)[j] => i = j
<1> DEFINE S == {q \in DOMAIN t : IsPrefix(r, q)}
           R == {w \in S \X S : Before(w[1], w[2])}
           f == Leaves(t, r)
           n == Cardinality(S)
<1>1. IsFiniteSet(S)
  BY FS_Subset DEF TreeShape
<1>2. S \subseteq Paths /\ \A p, q \in S : IsPrefix(p, q) => p = q
  BY DEF TreeShape
<1>3. f = InOrder(S, Before)
  BY DEF Leaves
<1>3a. S \subseteq DOMAIN t /\ \A q \in S : IsPrefix(r, q)
  OBVIOUS
<1>3b. \A q \in DOMAIN t : IsPrefix(r, q) => q \in S
  OBVIOUS
<1> HIDE DEF S, f
<1>4. Orders(R, S)
  BY <1>2, BeforeOrders
<1>5. f = Ranked(S, R)
  <2>1. f = [k \in 1 .. Cardinality(S) |-> CHOOSE x \in S :
      Cardinality({y \in S : Before(y, x)}) = k - 1]
    BY <1>3 DEF InOrder
  <2>2. \A x \in S : {y \in S : Before(y, x)} = {y \in S : <<y, x>> \in R}
    OBVIOUS
  <2> HIDE DEF R
  <2> DEFINE g == Ranked(S, R)
  <2>3. g = [k \in 1 .. Cardinality(S) |-> CHOOSE x \in S :
      Cardinality({y \in S : <<y, x>> \in R}) = k - 1]
    BY DEF Ranked
  <2> HIDE DEF g
  <2>4. ASSUME NEW k \in 1 .. Cardinality(S) PROVE f[k] = g[k]
    <3>1. f[k] = CHOOSE x \in S : Cardinality({y \in S : Before(y, x)}) = k - 1
      BY <2>1
    <3>2. g[k] = CHOOSE x \in S : Cardinality({y \in S : <<y, x>> \in R}) = k - 1
      BY <2>3
    <3>3. \A x : (x \in S /\ Cardinality({y \in S : Before(y, x)}) = k - 1) <=>
        (x \in S /\ Cardinality({y \in S : <<y, x>> \in R}) = k - 1)
      BY <2>2
    <3>4. (CHOOSE x \in S : Cardinality({y \in S : Before(y, x)}) = k - 1)
          = CHOOSE x \in S : Cardinality({y \in S : <<y, x>> \in R}) = k - 1
      BY <3>3, Zenon
    <3> QED
      BY <3>1, <3>2, <3>4
  <2>5. f = g
    BY <2>1, <2>3, <2>4
  <2> QED
    BY <2>5 DEF g
<1> HIDE DEF R
<1>6. /\ n \in Nat /\ f \in [1 .. n -> S]
      /\ \A x \in S : \E k \in 1 .. n : f[k] = x
      /\ \A i, j \in 1 .. n : f[i] = f[j] => i = j
  BY <1>1, <1>4, <1>5, RankedFacts
<1> HIDE DEF n
<1>7. Len(f) = n /\ f \in Seq(S)
  BY <1>6
<1>8. f \in Seq(DOMAIN t)
  BY <1>3a, <1>7
<1>9. \A k \in 1 .. Len(f) : IsPrefix(r, f[k])
  BY <1>3a, <1>6, <1>7
<1> QED
  BY <1>3b, <1>6, <1>7, <1>8, <1>9 DEF f

-----------------------------------------------------------------------------
(* Names.                                                                  *)

\* A pane's name says where it is, and what it is.
LEMMA IdFacts ==
  ASSUME NEW t
  PROVE  /\ \A q \in DOMAIN t : t[q].id \in Ids(t)
         /\ \A id \in Ids(t) : PathOf(t, id) \in DOMAIN t /\ t[PathOf(t, id)].id = id /\
              PaneOf(t, id).id = id
         /\ Named(t) => \A q \in DOMAIN t : PathOf(t, t[q].id) = q /\ PaneOf(t, t[q].id) = t[q]
<1>1. \A q \in DOMAIN t : t[q].id \in Ids(t)
  BY DEF Ids
<1>2. ASSUME NEW id \in Ids(t) PROVE PathOf(t, id) \in DOMAIN t /\ t[PathOf(t, id)].id = id
  <2>1. \E q \in DOMAIN t : t[q].id = id
    BY DEF Ids
  <2> QED
    BY <2>1 DEF PathOf
<1>3. ASSUME Named(t), NEW q \in DOMAIN t PROVE PathOf(t, t[q].id) = q
  BY <1>1, <1>2, <1>3 DEF Named
<1> QED
  BY <1>1, <1>2, <1>3 DEF PaneOf

\* The names under a node are those of its leaves.
LEMMA PaneIdsFacts ==
  ASSUME NEW t, TreeShape(t), NEW r
  PROVE  ToSet(PaneIds(t, r)) = {t[q].id : q \in {p \in DOMAIN t : IsPrefix(r, p)}}
<1> DEFINE S == {q \in DOMAIN t : IsPrefix(r, q)}
           f == Leaves(t, r)
           n == Len(f)
           g == PaneIds(t, r)
<1>1. f \in Seq(DOMAIN t) /\ (\A k \in 1 .. n : f[k] \in S) /\ (\A x \in S : \E k \in 1 .. n : f[k] = x)
  <2>1. f \in Seq(DOMAIN t)
    BY LeavesFacts
  <2>2. \A k \in 1 .. n : f[k] \in DOMAIN t /\ IsPrefix(r, f[k])
    BY <2>1, LeavesFacts
  <2>3. \A x \in DOMAIN t : IsPrefix(r, x) => \E k \in 1 .. n : f[k] = x
    BY LeavesFacts
  <2> QED
    BY <2>1, <2>2, <2>3
<1>2. g = [i \in 1 .. Len(f) |-> t[f[i]].id]
  BY DEF PaneIds
<1> HIDE DEF f, n, S, g
<1>3. DOMAIN g = 1 .. n /\ \A i \in 1 .. n : g[i] = t[f[i]].id
  BY <1>2 DEF n
<1>4. ToSet(g) = {g[i] : i \in 1 .. n}
  BY <1>3 DEF ToSet
<1>5. \A x \in S : t[x].id \in ToSet(g)
  BY <1>1, <1>3, <1>4
<1>6. \A y \in ToSet(g) : \E x \in S : y = t[x].id
  BY <1>1, <1>3, <1>4
<1> QED
  BY <1>5, <1>6 DEF S, g

\* The first and the last pane under a node are under it.
LEMMA OutermostFacts ==
  ASSUME NEW t, TreeShape(t), NEW r \in Nodes(t), NEW side \in {0, 1}
  PROVE  \E q \in DOMAIN t : IsPrefix(r, q) /\ Outermost(t, r, side) = t[q].id
<1>0. DOMAIN t \subseteq Paths /\ IsFiniteSet(DOMAIN t) /\ Nodes(t) \subseteq Paths
  BY RootFacts DEF TreeShape
<1> DEFINE under(p) == {q \in DOMAIN t : IsPrefix(p, q)}
           P == {p \in Nodes(t) : IsPrefix(r, p) /\ \A n \in Len(r) + 1 .. Len(p) : p[n] = side}
           N == {Cardinality(under(p)) : p \in P}
<1>1. \A p : IsFiniteSet(under(p)) /\ Cardinality(under(p)) \in Nat
  BY <1>0, FS_Subset, FS_CardinalityType
<1>2. r \in P
  <2>1. r \in Paths /\ IsPrefix(r, r) /\ Len(r) \in Nat
    BY <1>0, PrefixOrder, PathFacts
  <2> QED
    BY <2>1
<1>3. PICK c \in N : \A m \in N : c <= m
  <2>1. N \subseteq Nat /\ N # {}
    BY <1>1, <1>2
  <2> HIDE DEF N
  <2> QED
    BY <2>1, LeastNumber
<1>4. PICK p \in P : c = Cardinality(under(p))
  BY <1>3
<1>5. \A s \in P : Cardinality(under(p)) <= Cardinality(under(s))
  BY <1>3, <1>4
<1>6. p \in DOMAIN t
  <2> SUFFICES ASSUME p \notin DOMAIN t PROVE FALSE
    OBVIOUS
  <2> DEFINE s == Append(p, side)
             o == Append(p, 1 - side)
  <2>1. p \in Paths /\ r \in Paths /\ 1 - side \in {0, 1} /\ p \in Nodes(t)
    BY <1>0
  <2>2. s \in Nodes(t) /\ o \in Nodes(t)
    BY <2>1, SplitFacts
  <2>3. s \in Paths /\ Len(s) = Len(p) + 1 /\ (\A i \in 1 .. Len(p) : s[i] = p[i]) /\
      s[Len(p) + 1] = side
        /\ Len(p) \in Nat /\ Len(r) \in Nat
    BY <2>1, TurnFacts, PathFacts
  <2>4. IsPrefix(r, s)
    <3>1. IsPrefix(r, p) /\ IsPrefix(p, s)
      BY <2>1, TurnOrder
    <3> QED
      BY <2>1, <2>3, <3>1, PrefixOrder
  <2>5. PICK q \in DOMAIN t : IsPrefix(o, q)
    BY <1>0, <2>2, NodeFacts
  <2>6. IsPrefix(p, q) /\ ~IsPrefix(s, q)
    <3>1. q \in Paths /\ 1 - (1 - side) = side
      BY <1>0
    <3> QED
      BY <2>1, <2>5, <3>1, TurnOrder
  <2>7. \A y \in DOMAIN t : IsPrefix(s, y) => IsPrefix(p, y)
    BY <1>0, <2>1, TurnOrder
  <2> HIDE DEF s, o
  <2>8. \A n \in Len(r) + 1 .. Len(s) : s[n] = side
    <3>1. ASSUME NEW n \in Len(r) + 1 .. Len(s) PROVE s[n] = side
      <4>1. n = Len(p) + 1 \/ (n \in 1 .. Len(p) /\ n \in Len(r) + 1 .. Len(p))
        BY <2>3
      <4> QED
        BY <2>3, <4>1
    <3> QED
      BY <3>1
  <2>9. s \in P
    BY <2>2, <2>4, <2>8
  <2>10. under(s) \in SUBSET under(p) /\ q \in under(p) /\ q \notin under(s)
    BY <2>6, <2>7
  <2>11. Cardinality(under(s)) <= Cardinality(under(p)) /\ Cardinality(under(s)) # Cardinality(under(p))
    BY <1>1, <2>10, FS_Subset
  <2> DEFINE cs == Cardinality(under(s))
             cp == Cardinality(under(p))
  <2>12. cs \in Nat /\ cp \in Nat
    BY <1>1
  <2>13. cp <= cs
    BY <1>5, <2>9
  <2>14. cs <= cp /\ cs # cp
    BY <2>11
  <2> HIDE DEF cs, cp
  <2> QED
    BY <2>12, <2>13, <2>14
<1> DEFINE w == CHOOSE q \in DOMAIN t : IsPrefix(r, q) /\ \A n \in Len(r) + 1 .. Len(q) : q[n] = side
<1>7. \E q \in DOMAIN t : IsPrefix(r, q) /\ \A n \in Len(r) + 1 .. Len(q) : q[n] = side
  BY <1>6
<1>8. w \in DOMAIN t /\ IsPrefix(r, w)
  BY <1>7
<1>9. Outermost(t, r, side) = t[w].id
  BY DEF Outermost
<1> HIDE DEF w
<1> QED
  BY <1>8, <1>9

\* A node is known by the leaves under it, which a spot relies on.
LEMMA SameLeaves ==
  ASSUME NEW t, TreeShape(t), NEW r \in Nodes(t), NEW s \in Nodes(t),
         \A q \in DOMAIN t : IsPrefix(r, q) <=> IsPrefix(s, q)
  PROVE  r = s
<1>0. DOMAIN t \subseteq Paths /\ r \in Paths /\ s \in Paths
  BY RootFacts DEF TreeShape
<1>1. ASSUME NEW a \in Nodes(t), NEW b \in Nodes(t), IsPrefix(a, b), a # b
      PROVE  \E q \in DOMAIN t : IsPrefix(a, q) /\ ~IsPrefix(b, q)
  <2>0. a \in Paths /\ b \in Paths
    BY RootFacts
  <2>1. PICK y \in {0, 1} : IsPrefix(Append(a, y), b)
    BY <1>1, <2>0, TurnOrder
  <2>2. PICK l \in DOMAIN t : IsPrefix(b, l)
    BY <1>0, NodeFacts
  <2>3. Append(a, y) \in Paths /\ IsPrefix(Append(a, y), l)
    <3> DEFINE c == Append(a, y)
    <3>1. c \in Paths /\ IsPrefix(c, b) /\ l \in Paths
      BY <1>0, <2>0, <2>1, TurnOrder
    <3> HIDE DEF c
    <3>2. IsPrefix(c, l)
      BY <2>0, <2>2, <3>1, PrefixOrder
    <3> QED
      BY <3>1, <3>2 DEF c
  <2>4. Append(a, y) \in Nodes(t)
    BY <1>0, <2>3, NodeFacts
  <2>5. Append(a, 1 - y) \in Nodes(t) /\ 1 - y \in {0, 1} /\ 1 - (1 - y) = y
    BY <2>0, <2>4 DEF TreeShape
  <2>6. PICK q \in DOMAIN t : IsPrefix(Append(a, 1 - y), q)
    BY <1>0, <2>5, NodeFacts
  <2>7. IsPrefix(a, q) /\ ~IsPrefix(Append(a, y), q)
    BY <1>0, <2>0, <2>5, <2>6, TurnOrder
  <2>8. ~IsPrefix(b, q)
    BY <1>0, <2>0, <2>1, <2>3, <2>7, PrefixOrder
  <2> QED
    BY <2>7, <2>8
<1>2. PICK l \in DOMAIN t : IsPrefix(r, l)
  BY <1>0, NodeFacts
<1>3. IsPrefix(r, s) \/ IsPrefix(s, r)
  BY <1>0, <1>2, PrefixOrder
<1> QED
  BY <1>1, <1>3

-----------------------------------------------------------------------------
(* Closing a pane and splitting one.                                       *)

\* What PaneTree's operators take and give.
Tree(t) == TreeShape(t) /\ Named(t)

\* RemovePane is a cut, but for the only pane.
LEMMA RemoveIsCut ==
  ASSUME NEW t, NEW id
  PROVE  RemovePane(t, id) = IF PathOf(t, id) = <<>> THEN NoTree ELSE Cut(t, PathOf(t, id))
BY Zenon DEF RemovePane, Cut

\* A cut keeps the panes apart, and every pane but one.
LEMMA CutNamed ==
  ASSUME NEW t, Tree(t), NEW up \in Paths, NEW x \in {0, 1}, Append(up, x) \in DOMAIN t
  PROVE  LET u == Cut(t, Append(up, x)) IN
         /\ Tree(u)
         /\ \A p \in DOMAIN t : p # Append(up, x) => \E s \in DOMAIN u : u[s] = t[p]
         /\ \A s \in DOMAIN u : \E p \in DOMAIN t : p # Append(up, x) /\ u[s] = t[p]
         /\ DOMAIN u # {}
<1> DEFINE q == Append(up, x)
           sib == Append(up, 1 - x)
           u == Cut(t, q)
<1>0. /\ TreeShape(t) /\ q \in Paths /\ sib \in Paths /\ 1 - x \in {0, 1} /\ IsPrefix(up, q) /\
           ~IsPrefix(sib, q)
      /\ DOMAIN t \subseteq Paths
  <2>1. 1 - x \in {0, 1} /\ 1 - (1 - x) = x
    OBVIOUS
  <2>2. q \in Paths /\ sib \in Paths /\ IsPrefix(up, q) /\ IsPrefix(q, q)
    BY <2>1, TurnOrder, PrefixOrder
  <2>3. ~IsPrefix(sib, q)
    BY <2>1, <2>2, TurnOrder
  <2> QED
    BY <2>1, <2>2, <2>3 DEF Tree, TreeShape
<1>1. /\ TreeShape(u)
      /\ \A p \in DOMAIN t : IsPrefix(up, p) <=> p = q \/ IsPrefix(sib, p)
      /\ \A p \in DOMAIN t : ~IsPrefix(up, p) => p \in DOMAIN u /\ u[p] = t[p]
      /\ \A p \in DOMAIN t : IsPrefix(sib, p) =>
           up \o Below(p, sib) \in DOMAIN u /\ u[up \o Below(p, sib)] = t[p]
      /\ \A s \in DOMAIN u : \/ s \in DOMAIN t /\ ~IsPrefix(up, s)
                             \/ \E p \in DOMAIN t : IsPrefix(sib, p) /\ s = up \o Below(p, sib)
  <2>1. IsCut(t, up, q, sib, u)
    BY <1>0, CutFacts
  <2> HIDE DEF q, sib, u
  <2> QED
    BY <2>1 DEF IsCut
<1>2. q \in DOMAIN t
  OBVIOUS
<1>3. sib \in Nodes(t)
  BY <1>0, <1>2, RootFacts DEF TreeShape
<1>4. PICK l \in DOMAIN t : IsPrefix(sib, l)
  BY <1>0, <1>3, NodeFacts
<1> HIDE DEF q, sib, u
<1>5. \A p \in DOMAIN t : p # q => \E s \in DOMAIN u : u[s] = t[p]
  BY <1>1
<1>6. \A s \in DOMAIN u : \E p \in DOMAIN t : p # q /\ u[s] = t[p]
  BY <1>0, <1>1
<1>7. DOMAIN u # {}
  BY <1>1, <1>4
<1>8. ASSUME NEW s1 \in DOMAIN u, NEW s2 \in DOMAIN u, u[s1].id = u[s2].id PROVE s1 = s2
  <2>1. CASE s1 \in DOMAIN t /\ ~IsPrefix(up, s1)
    <3>1. CASE s2 \in DOMAIN t /\ ~IsPrefix(up, s2)
      BY <1>1, <1>8, <2>1, <3>1 DEF Tree, Named
    <3>2. CASE \E p \in DOMAIN t : IsPrefix(sib, p) /\ s2 = up \o Below(p, sib)
      <4>1. PICK p \in DOMAIN t : IsPrefix(sib, p) /\ s2 = up \o Below(p, sib)
        BY <3>2
      <4>2. t[s1].id = t[p].id
        BY <1>1, <1>8, <2>1, <4>1
      <4> QED
        BY <1>1, <2>1, <4>1, <4>2 DEF Tree, Named
    <3> QED
      BY <1>1, <3>1, <3>2
  <2>2. CASE \E p \in DOMAIN t : IsPrefix(sib, p) /\ s1 = up \o Below(p, sib)
    <3>0. PICK p1 \in DOMAIN t : IsPrefix(sib, p1) /\ s1 = up \o Below(p1, sib)
      BY <2>2
    <3>1. CASE s2 \in DOMAIN t /\ ~IsPrefix(up, s2)
      <4>2. t[s2].id = t[p1].id
        BY <1>1, <1>8, <3>0, <3>1
      <4> QED
        BY <1>1, <3>0, <3>1, <4>2 DEF Tree, Named
    <3>2. CASE \E p \in DOMAIN t : IsPrefix(sib, p) /\ s2 = up \o Below(p, sib)
      <4>1. PICK p \in DOMAIN t : IsPrefix(sib, p) /\ s2 = up \o Below(p, sib)
        BY <3>2
      <4>2. t[p1].id = t[p].id
        BY <1>1, <1>8, <3>0, <4>1
      <4> QED
        BY <3>0, <4>1, <4>2 DEF Tree, Named
    <3> QED
      BY <1>1, <3>1, <3>2
  <2> QED
    BY <1>1, <2>1, <2>2
<1>9. Tree(u)
  BY <1>1, <1>8 DEF Tree, Named
<1> QED
  BY <1>5, <1>6, <1>7, <1>9 DEF q, u

\* The path of a pane, as the node above it and a turn.
LEMMA TurnsTo ==
  ASSUME NEW t, TreeShape(t), NEW id \in Ids(t), PathOf(t, id) # <<>>
  PROVE  \E up \in Paths, x \in {0, 1} :
           /\ PathOf(t, id) = Append(up, x) /\ Append(up, x) \in DOMAIN t
           /\ Front(PathOf(t, id)) = up /\ Last(PathOf(t, id)) = x /\
                Beside(PathOf(t, id)) = Append(up, 1 - x)
           /\ Append(up, 1 - x) \in Nodes(t)
<1> DEFINE q == PathOf(t, id)
<1>1. q \in DOMAIN t /\ q \in Paths
  BY IdFacts DEF TreeShape
<1>2. Front(q) \in Paths /\ Last(q) \in {0, 1} /\ q = Append(Front(q), Last(q))
  BY <1>1, FrontFacts
<1>3. Append(Front(q), Last(q)) \in Nodes(t)
  BY <1>1, <1>2, RootFacts
<1>4. Append(Front(q), 1 - Last(q)) \in Nodes(t)
  BY <1>2, <1>3 DEF TreeShape
<1> QED
  BY <1>1, <1>2, <1>4 DEF Beside

\* removePane takes the pane out of the tree, and leaves every other pane in it with all
\* that it holds.
THEOREM RemoveKeepsTheOthers ==
  ASSUME NEW t, Tree(t), NEW id \in Ids(t)
  PROVE  /\ Tree(RemovePane(t, id))
         /\ Ids(RemovePane(t, id)) = Ids(t) \ {id}
         /\ \A other \in Ids(t) \ {id} : PaneOf(RemovePane(t, id), other) = PaneOf(t, other)
<1> DEFINE q == PathOf(t, id)
           u == RemovePane(t, id)
<1>0. TreeShape(t) /\ Named(t) /\ q \in DOMAIN t /\ t[q].id = id
  BY IdFacts DEF Tree
<1>1. CASE q = <<>>
  <2>1. u = NoTree /\ DOMAIN t = {q}
    BY <1>0, <1>1, RemoveIsCut, RootFacts
  <2>2. Tree(NoTree) /\ Ids(NoTree) = {}
    BY Empty DEF Tree, Named, Ids
  <2>3. Ids(t) = {id}
    BY <1>0, <2>1 DEF Ids
  <2> QED
    BY <2>1, <2>2, <2>3
<1>2. CASE q # <<>>
  <2>1. PICK up \in Paths, x \in {0, 1} : q = Append(up, x) /\ Append(up, x) \in DOMAIN t
    BY <1>0, <1>2, TurnsTo
  <2>2. u = Cut(t, Append(up, x))
    BY <1>2, <2>1, RemoveIsCut
  <2>3. /\ Tree(u)
        /\ \A p \in DOMAIN t : p # q => \E s \in DOMAIN u : u[s] = t[p]
        /\ \A s \in DOMAIN u : \E p \in DOMAIN t : p # q /\ u[s] = t[p]
    BY <2>1, <2>2, CutNamed
  <2> HIDE DEF q, u
  <2>4. Ids(u) = Ids(t) \ {id}
    BY <1>0, <2>3 DEF Ids, Named
  <2>5. ASSUME NEW other \in Ids(t) \ {id} PROVE PaneOf(u, other) = PaneOf(t, other)
    <3>1. PICK p \in DOMAIN t : t[p].id = other
      BY DEF Ids
    <3>2. p # q
      BY <1>0, <3>1
    <3>3. PICK s \in DOMAIN u : u[s] = t[p]
      BY <2>3, <3>2
    <3>4. PaneOf(u, other) = u[s] /\ PaneOf(t, other) = t[p]
      BY <1>0, <2>3, <3>1, <3>3, IdFacts DEF Tree
    <3> QED
      BY <3>3, <3>4
  <2> QED
    BY <2>3, <2>4, <2>5 DEF u
<1> QED
  BY <1>1, <1>2

\* One pane is a tree.
LEMMA SingleFacts ==
  ASSUME NEW pane
  PROVE  /\ Tree(Single(pane)) /\ Ids(Single(pane)) = {pane.id} /\ PaneOf(Single(pane), pane.id) = pane
         /\ Single(pane) # NoTree
<1> DEFINE t == Single(pane)
<1>1. DOMAIN t = {<<>>} /\ t[<<>>] = pane /\ t = [q \in DOMAIN t |-> t[q]]
  BY DEF Single
<1> HIDE DEF t
<1>2. <<>> \in Paths
  BY TurnOrder
<1>3. \A r \in Paths, x \in {0, 1} : Append(r, x) \notin Nodes(t)
  <2>1. ASSUME NEW r \in Paths, NEW x \in {0, 1}, Append(r, x) \in Nodes(t) PROVE FALSE
    <3>0. DOMAIN t \subseteq Paths
      BY <1>1, <1>2
    <3>1. PICK q \in DOMAIN t : IsPrefix(Append(r, x), q)
      BY <2>1, <3>0, NodeFacts
    <3>2. Append(r, x) \in Paths /\ Append(r, x) # <<>> /\ IsPrefix(<<>>, Append(r, x)) /\
        IsPrefix(Append(r, x), <<>>)
      BY <1>1, <3>1, TurnOrder, PrefixOrder
    <3> QED
      BY <1>2, <3>2, PrefixOrder
  <2> QED
    BY <2>1
<1>4. IsFiniteSet(DOMAIN t)
  BY <1>1, FS_Singleton
<1>5. Tree(t)
  BY <1>1, <1>2, <1>3, <1>4 DEF Tree, TreeShape, Named
<1>6. Ids(t) = {pane.id}
  BY <1>1 DEF Ids
<1>7. PaneOf(t, pane.id) = pane
  BY <1>1, <1>5, IdFacts DEF Tree
<1>8. t # NoTree
  BY <1>1, Empty
<1> QED
  BY <1>5, <1>6, <1>7, <1>8 DEF t

\* splitAtPane adds its pane and leaves every other pane in the tree with all that it
\* holds.
THEOREM SplitAddsAPane ==
  ASSUME NEW t, Tree(t), NEW r \in Nodes(t), NEW x \in {0, 1}, NEW pane, pane.id \notin Ids(t)
  PROVE  /\ Tree(SplitNode(t, r, x, pane))
         /\ Ids(SplitNode(t, r, x, pane)) = Ids(t) \cup {pane.id}
         /\ \A other \in Ids(t) : PaneOf(SplitNode(t, r, x, pane), other) = PaneOf(t, other)
         /\ PaneOf(SplitNode(t, r, x, pane), pane.id) = pane
<1> DEFINE new == Append(r, x)
           under == Append(r, 1 - x)
           v == SplitNode(t, r, x, pane)
<1>0. TreeShape(t) /\ Named(t)
  BY DEF Tree
<1>1. /\ TreeShape(v)
      /\ new \in DOMAIN v /\ v[new] = pane
      /\ \A p \in DOMAIN t : ~IsPrefix(r, p) => p \in DOMAIN v /\ v[p] = t[p]
      /\ \A p \in DOMAIN t : IsPrefix(r, p) =>
           under \o Below(p, r) \in DOMAIN v /\ v[under \o Below(p, r)] = t[p]
      /\ \A s \in DOMAIN v : \/ s = new
                             \/ s \in DOMAIN t /\ ~IsPrefix(r, s)
                             \/ \E p \in DOMAIN t : IsPrefix(r, p) /\ s = under \o Below(p, r)
  <2>1. IsSplit(t, r, new, under, pane, v)
    BY <1>0, SplitNodeFacts
  <2> HIDE DEF new, under, v
  <2> QED
    BY <2>1 DEF IsSplit
<1> HIDE DEF new, under, v
<1>2. \A p \in DOMAIN t : t[p].id # pane.id
  BY DEF Ids
<1>3. \A p \in DOMAIN t : \E s \in DOMAIN v : v[s] = t[p]
  BY <1>1
<1>4. \A s \in DOMAIN v : s = new \/ \E p \in DOMAIN t : v[s] = t[p]
  BY <1>1
<1>5. ASSUME NEW s1 \in DOMAIN v, NEW s2 \in DOMAIN v, v[s1].id = v[s2].id PROVE s1 = s2
  <2> DEFINE Comes(s, p) == IF IsPrefix(r, p) THEN s = under \o Below(p, r) ELSE s = p
  <2>1. \A s \in DOMAIN v : s = new \/ \E p \in DOMAIN t : v[s] = t[p] /\ Comes(s, p)
    BY <1>1
  <2>2. \A a, b, p : Comes(a, p) /\ Comes(b, p) => a = b
    OBVIOUS
  <2> HIDE DEF Comes
  <2>3. CASE s1 = new \/ s2 = new
    BY <1>1, <1>2, <1>4, <1>5, <2>3
  <2>4. CASE s1 # new /\ s2 # new
    <3>1. PICK p1 \in DOMAIN t : v[s1] = t[p1] /\ Comes(s1, p1)
      BY <2>1, <2>4
    <3>2. PICK p2 \in DOMAIN t : v[s2] = t[p2] /\ Comes(s2, p2)
      BY <2>1, <2>4
    <3>3. p1 = p2
      BY <1>0, <1>5, <3>1, <3>2 DEF Named
    <3> QED
      BY <2>2, <3>1, <3>2, <3>3
  <2> QED
    BY <2>3, <2>4
<1>6. Tree(v)
  BY <1>1, <1>5 DEF Tree, Named
<1>7. Ids(v) = Ids(t) \cup {pane.id}
  <2>1. \A s \in DOMAIN v : v[s].id \in Ids(t) \cup {pane.id}
    BY <1>1, <1>4 DEF Ids
  <2>2. \A p \in DOMAIN t : \E s \in DOMAIN v : v[s].id = t[p].id
    BY <1>3
  <2>3. \E s \in DOMAIN v : v[s].id = pane.id
    BY <1>1
  <2> QED
    BY <2>1, <2>2, <2>3 DEF Ids
<1>8. ASSUME NEW other \in Ids(t) PROVE PaneOf(v, other) = PaneOf(t, other)
  <2>1. PICK p \in DOMAIN t : t[p].id = other
    BY DEF Ids
  <2>2. PICK s \in DOMAIN v : v[s] = t[p]
    BY <1>3
  <2> QED
    BY <1>0, <1>6, <2>1, <2>2, IdFacts DEF Tree
<1>9. PaneOf(v, pane.id) = pane
  BY <1>1, <1>6, IdFacts DEF Tree
<1> QED
  BY <1>6, <1>7, <1>8, <1>9 DEF v

-----------------------------------------------------------------------------
(* Taking a close back.                                                    *)

\* Min, of numbers.
LEMMA NumberMin ==
  ASSUME NEW S \in SUBSET Nat, S # {}
  PROVE  Min(S) \in S /\ \A y \in S : Min(S) <= y
<1>1. \E x \in S : \A y \in S : x <= y
  BY LeastNumber
<1> QED
  BY <1>1 DEF Min

\* A tree has a first pane, and a pane with another beside it has a sibling: what the
\* focus falls back to.
LEMMA OuterPanes ==
  ASSUME NEW t, Tree(t)
  PROVE  /\ t # NoTree => FirstPaneId(t, <<>>) \in Ids(t)
         /\ \A id \in Ids(t) : PathOf(t, id) # <<>> => SiblingPaneId(t, id) \in Ids(t) \ {id}
         /\ t = NoTree <=> Ids(t) = {}
         /\ \A id \in Ids(t) : PathOf(t, id) = <<>> <=> Cardinality(DOMAIN t) = 1
<1>0. TreeShape(t) /\ Named(t) /\ DOMAIN t \subseteq Paths /\ IsFiniteSet(DOMAIN t)
  BY DEF Tree, TreeShape
<1>1. t = NoTree <=> Ids(t) = {}
  BY <1>0, Empty DEF Ids
<1>2. ASSUME t # NoTree PROVE FirstPaneId(t, <<>>) \in Ids(t)
  <2>1. <<>> \in Nodes(t)
    BY <1>0, <1>2, Empty, RootFacts
  <2> HIDE DEF NoTree
  <2>2. \E q \in DOMAIN t : IsPrefix(<<>>, q) /\ Outermost(t, <<>>, 0) = t[q].id
    BY <1>0, <2>1, OutermostFacts
  <2> QED
    BY <2>2 DEF FirstPaneId, Ids
<1>3. ASSUME NEW id \in Ids(t), PathOf(t, id) # <<>> PROVE SiblingPaneId(t, id) \in Ids(t) \ {id}
  <2> DEFINE q == PathOf(t, id)
  <2>1. PICK up \in Paths, x \in {0, 1} :
           /\ q = Append(up, x) /\ Append(up, x) \in DOMAIN t /\ Last(q) = x /\
                Beside(q) = Append(up, 1 - x)
           /\ Append(up, 1 - x) \in Nodes(t)
    BY <1>0, <1>3, TurnsTo
  <2> DEFINE sib == Append(up, 1 - x)
  <2>2. SiblingPaneId(t, id) = Outermost(t, sib, x)
    <3>1. SiblingPaneId(t, id) = IF Last(q) = 0 THEN FirstPaneId(t, Beside(q))
        ELSE LastPaneId(t, Beside(q))
      BY Zenon DEF SiblingPaneId
    <3>2. CASE x = 0
      BY <2>1, <3>1, <3>2 DEF FirstPaneId
    <3>3. CASE x = 1
      BY <2>1, <3>1, <3>3 DEF LastPaneId
    <3> QED
      BY <3>2, <3>3
  <2> HIDE DEF sib
  <2>3. PICK p \in DOMAIN t : IsPrefix(sib, p) /\ Outermost(t, sib, x) = t[p].id
    BY <1>0, <2>1, OutermostFacts DEF sib
  <2>4. ~IsPrefix(sib, q)
    <3>1. q \in Paths /\ IsPrefix(Append(up, x), q)
      BY <1>0, <2>1, PrefixOrder
    <3> QED
      BY <3>1, TurnOrder DEF sib
  <2>5. p # q
    BY <2>3, <2>4
  <2>6. t[q].id = id /\ q \in DOMAIN t
    BY IdFacts
  <2>7. t[p].id # id
    BY <1>0, <2>5, <2>6 DEF Named
  <2> QED
    BY <2>2, <2>3, <2>7 DEF Ids
<1>4. ASSUME NEW id \in Ids(t) PROVE PathOf(t, id) = <<>> <=> Cardinality(DOMAIN t) = 1
  <2> DEFINE q == PathOf(t, id)
  <2>0. q \in DOMAIN t
    BY IdFacts
  <2>1. ASSUME q = <<>> PROVE Cardinality(DOMAIN t) = 1
    <3>1. DOMAIN t = {q}
      BY <1>0, <2>0, <2>1, RootFacts
    <3> QED
      BY <3>1, FS_Singleton
  <2>2. ASSUME Cardinality(DOMAIN t) = 1 PROVE q = <<>>
    <3>1. DOMAIN t = {q}
      BY <1>0, <2>0, <2>2, FS_Singleton
    <3> SUFFICES ASSUME q # <<>> PROVE FALSE
      OBVIOUS
    <3>2. PICK up \in Paths, x \in {0, 1} :
           /\ q = Append(up, x) /\ Append(up, x) \in DOMAIN t /\ Append(up, 1 - x) \in Nodes(t)
      BY <1>0, TurnsTo
    <3>3. IsPrefix(Append(up, 1 - x), q)
      BY <1>0, <3>1, <3>2, NodeFacts
    <3>4. q \in Paths /\ IsPrefix(Append(up, x), q)
      BY <1>0, <3>2, PrefixOrder
    <3> QED
      BY <3>2, <3>3, <3>4, TurnOrder
  <2> QED
    BY <2>1, <2>2
<1> QED
  BY <1>1, <1>2, <1>3, <1>4

\* Where a pane is taken back is a node.
LEMMA SiblingNowFacts ==
  ASSUME NEW t, Tree(t), t # NoTree, NEW spot, spot.sibs \in Seq(Int)
  PROVE  SiblingNow(t, spot) \in Nodes(t)
<1> DEFINE exact == {r \in Nodes(t) : ToSet(PaneIds(t, r)) = ToSet(spot.sibs)}
           near  == IF spot.side = 0 THEN spot.sibs ELSE Reverse(spot.sibs)
           open  == {i \in 1 .. Len(near) : near[i] \in Ids(t)}
<1>0. TreeShape(t)
  BY DEF Tree
<1>1. SiblingNow(t, spot) = IF exact # {} THEN CHOOSE r \in exact : TRUE
                            ELSE IF open # {} THEN PathOf(t, near[Min(open)]) ELSE <<>>
  BY Zenon DEF SiblingNow
<1>2. <<>> \in Nodes(t)
  BY <1>0, Empty, RootFacts
<1>3. exact # {} => (CHOOSE r \in exact : TRUE) \in Nodes(t)
  OBVIOUS
<1>4. ASSUME open # {} PROVE PathOf(t, near[Min(open)]) \in Nodes(t)
  <2>1. open \in SUBSET Nat
    OBVIOUS
  <2> HIDE DEF near
  <2>2. Min(open) \in open
    <3> HIDE DEF open
    <3> QED
      BY <1>4, <2>1, NumberMin
  <2>3. near[Min(open)] \in Ids(t)
    BY <2>2
  <2>4. PathOf(t, near[Min(open)]) \in DOMAIN t
    BY <2>3, IdFacts
  <2> QED
    BY <1>0, <2>4, RootFacts
<1> HIDE DEF exact, open, near
<1> QED
  BY <1>1, <1>2, <1>3, <1>4

\* restorePane, wherever the spot sends it, adds the pane and leaves the others as they are.
LEMMA RestoreAddsThePane ==
  ASSUME NEW t, Tree(t), NEW pane, pane.id \notin Ids(t), NEW spot, spot.sibs \in Seq(Int),
         spot.side \in {0, 1}
  PROVE  /\ Tree(RestorePane(t, pane, spot))
         /\ Ids(RestorePane(t, pane, spot)) = Ids(t) \cup {pane.id}
         /\ \A other \in Ids(t) : PaneOf(RestorePane(t, pane, spot), other) = PaneOf(t, other)
         /\ PaneOf(RestorePane(t, pane, spot), pane.id) = pane
<1>1. CASE t = NoTree
  <2>1. RestorePane(t, pane, spot) = Single(pane) /\ Ids(t) = {}
    BY <1>1, OuterPanes DEF RestorePane
  <2> QED
    BY <2>1, SingleFacts
<1>2. CASE t # NoTree
  <2>1. RestorePane(t, pane, spot) = SplitNode(t, SiblingNow(t, spot), spot.side, pane)
    BY <1>2 DEF RestorePane
  <2>2. SiblingNow(t, spot) \in Nodes(t)
    BY <1>2, SiblingNowFacts
  <2> QED
    BY <2>1, <2>2, SplitAddsAPane
<1> QED
  BY <1>1, <1>2

\* A pane replaced by one of the same name.
LEMMA MapFacts ==
  ASSUME NEW t, Tree(t), NEW u, DOMAIN u = DOMAIN t, u = [q \in DOMAIN t |-> u[q]],
         \A q \in DOMAIN t : u[q].id = t[q].id
  PROVE  /\ Tree(u) /\ Ids(u) = Ids(t)
         /\ \A id \in Ids(t) : PathOf(u, id) = PathOf(t, id) /\ PaneOf(u, id) = u[PathOf(t, id)]
<1>1. Nodes(u) = Nodes(t)
  BY DEF Nodes
<1>2. Tree(u)
  BY <1>1 DEF Tree, TreeShape, Named
<1>3. Ids(u) = Ids(t)
  BY DEF Ids
<1>4. ASSUME NEW id \in Ids(t) PROVE PathOf(u, id) = PathOf(t, id)
  <2>1. PathOf(t, id) \in DOMAIN t /\ t[PathOf(t, id)].id = id
    BY IdFacts
  <2>2. PathOf(u, id) \in DOMAIN u /\ u[PathOf(u, id)].id = id
    BY <1>3, IdFacts
  <2>3. t[PathOf(u, id)].id = id
    BY <2>2
  <2> QED
    BY <2>1, <2>2, <2>3 DEF Tree, Named
<1> QED
  BY <1>2, <1>3, <1>4 DEF PaneOf

\* A pane that is closed and brought back at once, nothing else having happened, is where
\* it was: paneSpot, removePane and restorePane give the tree there was before
\* (paneSpot.test.ts tries one tree; this is every tree).
THEOREM ClosedPaneComesBack ==
  ASSUME NEW t, Tree(t)
  PROVE  BackInPlace(t)
<1>1. SUFFICES ASSUME NEW id \in Ids(t)
               PROVE  RestorePane(RemovePane(t, id), PaneOf(t, id), PaneSpot(t, id)) = t
  BY DEF BackInPlace
<1> DEFINE q == PathOf(t, id)
           pane == PaneOf(t, id)
           u == RemovePane(t, id)
           spot == PaneSpot(t, id)
<1>2. TreeShape(t) /\ Named(t) /\ q \in DOMAIN t /\ t[q].id = id /\ pane = t[q] /\
    DOMAIN t \subseteq Paths /\ q \in Paths
  BY IdFacts DEF Tree, PaneOf, TreeShape
<1>3. CASE q = <<>>
  <2>1. u = NoTree /\ DOMAIN t = {<<>>}
    BY <1>2, <1>3, RemoveIsCut, RootFacts
  <2>2. RestorePane(u, pane, spot) = Single(pane)
    BY <2>1 DEF RestorePane
  <2>3. t = [p \in {<<>>} |-> t[p]]
    BY <1>2, <2>1 DEF TreeShape
  <2>4. Single(pane) = t
    BY <1>2, <1>3, <2>3 DEF Single
  <2> QED
    BY <2>2, <2>4
<1>4. CASE q # <<>>
  <2>1. PICK up \in Paths, x \in {0, 1} :
           /\ q = Append(up, x) /\ Append(up, x) \in DOMAIN t /\ Last(q) = x /\
                Beside(q) = Append(up, 1 - x)
           /\ Append(up, 1 - x) \in Nodes(t)
    BY <1>2, <1>4, TurnsTo
  <2> DEFINE sib == Append(up, 1 - x)
  <2>2. u = Cut(t, q)
    BY <1>4, RemoveIsCut
  <2>3. spot = [side |-> x, sibs |-> PaneIds(t, sib)]
    <3>1. spot = [side |-> Last(q), sibs |-> PaneIds(t, Beside(q))]
      BY <1>4 DEF PaneSpot
    <3> QED
      BY <2>1, <3>1
  <2>4. IsCut(t, up, q, sib, u)
    BY <1>2, <2>1, <2>2, CutFacts
  <2>5. Tree(u) /\ DOMAIN u # {}
    BY <2>1, <2>2, CutNamed
  <2>6. u # NoTree
    BY <2>5, Empty
  <2> DEFINE r == SiblingNow(u, spot)
             v == SplitNode(u, r, x, pane)
  <2>7. RestorePane(u, pane, spot) = v
    <3>1. spot.side = x
      BY <2>3
    <3> HIDE DEF u, spot, pane
    <3> QED
      BY <2>6, <3>1 DEF RestorePane
  <2>8. sib \in Paths /\ sib \in Nodes(t) /\ IsPrefix(up, q) /\ ~IsPrefix(sib, q) /\
      IsPrefix(up, up) /\ IsPrefix(sib, sib)
    <3>1. sib \in Paths /\ sib \in Nodes(t) /\ IsPrefix(up, q) /\ IsPrefix(Append(up, x), q)
      <4>1. 1 - x \in {0, 1}
        OBVIOUS
      <4>2. sib \in Paths /\ IsPrefix(up, Append(up, x))
        BY <4>1, TurnOrder
      <4>3. IsPrefix(q, q)
        BY <1>2, PrefixOrder
      <4> QED
        BY <2>1, <4>2, <4>3
    <3>2. ~IsPrefix(sib, q)
      BY <1>2, <3>1, TurnOrder
    <3> QED
      BY <3>1, <3>2, PrefixOrder
  <2> HIDE DEF q, pane, u, spot, sib
  <2> DEFINE spotted(n) == {u[p].id : p \in {s \in DOMAIN u : IsPrefix(n, s)}}
  <2>9. ToSet(spot.sibs) = {t[p].id : p \in {s \in DOMAIN t : IsPrefix(sib, s)}}
    BY <1>2, <2>3, PaneIdsFacts
  <2>10. \A n : ToSet(PaneIds(u, n)) = spotted(n)
    BY <2>5, PaneIdsFacts DEF Tree
  <2>11. \A p \in DOMAIN t : IsPrefix(sib, p) =>
           /\ Below(p, sib) \in Paths /\ p = sib \o Below(p, sib)
           /\ up \o Below(p, sib) \in Paths /\ IsPrefix(up, up \o Below(p, sib))
           /\ Below(up \o Below(p, sib), up) = Below(p, sib)
    <3>1. ASSUME NEW p \in DOMAIN t, IsPrefix(sib, p)
          PROVE  /\ Below(p, sib) \in Paths /\ p = sib \o Below(p, sib)
                 /\ up \o Below(p, sib) \in Paths /\ IsPrefix(up, up \o Below(p, sib))
                 /\ Below(up \o Below(p, sib), up) = Below(p, sib)
      <4>1. p \in Paths
        BY <1>2
      <4>2. Below(p, sib) \in Paths /\ p = sib \o Below(p, sib)
        BY <2>8, <3>1, <4>1, JoinOrder
      <4> QED
        BY <4>2, JoinOrder
    <3> QED
      BY <3>1
  <2>12. spotted(up) = ToSet(spot.sibs)
    <3>1. \A s \in DOMAIN u : IsPrefix(up, s) => \E p \in DOMAIN t : IsPrefix(sib, p) /\ u[s] = t[p]
      BY <2>4 DEF IsCut
    <3>2. \A p \in DOMAIN t : IsPrefix(sib, p) => \E s \in DOMAIN u : IsPrefix(up, s) /\ u[s] = t[p]
      BY <2>4, <2>11 DEF IsCut
    <3> QED
      BY <2>9, <3>1, <3>2
  <2>13. up \in Nodes(u)
    <3>1. sib \o Below(up, up) = sib
      BY <2>8, JoinOrder
    <3> QED
      BY <2>4, <2>8, <3>1 DEF IsCut
  <2>14. \A n \in Nodes(u) : spotted(n) = spotted(up) => n = up
    <3>1. ASSUME NEW n \in Nodes(u), spotted(n) = spotted(up) PROVE n = up
      <4>1. ASSUME NEW a \in DOMAIN u, NEW b, NEW c, IsPrefix(b, a), spotted(b) = spotted(c)
            PROVE  IsPrefix(c, a)
        <5>1. u[a].id \in spotted(c)
          BY <4>1
        <5>2. PICK d \in DOMAIN u : IsPrefix(c, d) /\ u[d].id = u[a].id
          BY <5>1
        <5> QED
          BY <2>5, <5>2 DEF Tree, Named
      <4>2. \A a \in DOMAIN u : IsPrefix(n, a) <=> IsPrefix(up, a)
        BY <3>1, <4>1
      <4> QED
        BY <2>5, <2>13, <4>2, SameLeaves DEF Tree
    <3> QED
      BY <3>1
  <2>15. r = up
    <3> DEFINE exact == {n \in Nodes(u) : ToSet(PaneIds(u, n)) = ToSet(spot.sibs)}
    <3> HIDE DEF spotted
    <3>1. exact = {up}
      BY <2>10, <2>12, <2>13, <2>14
    <3>2. r = IF exact # {} THEN CHOOSE n \in exact : TRUE
              ELSE LET near  == IF spot.side = 0 THEN spot.sibs ELSE Reverse(spot.sibs)
                       open  == {i \in 1 .. Len(near) : near[i] \in Ids(u)}
                   IN IF open # {} THEN PathOf(u, near[Min(open)]) ELSE <<>>
      BY Zenon DEF SiblingNow
    <3> HIDE DEF exact, r
    <3> QED
      BY <3>1, <3>2
  <2>16. q = Append(up, x) /\ sib = Append(up, 1 - x)
    BY <2>1 DEF sib
  <2>17. IsSplit(u, up, q, sib, pane, v)
    BY <2>5, <2>13, <2>15, <2>16, SplitNodeFacts DEF Tree
  <2> HIDE DEF v, r, spotted
  <2>18. \A s \in DOMAIN t : s \in DOMAIN v /\ v[s] = t[s]
    <3>1. ASSUME NEW s \in DOMAIN t PROVE s \in DOMAIN v /\ v[s] = t[s]
      <4>1. CASE ~IsPrefix(up, s)
        BY <2>4, <2>17, <4>1 DEF IsCut, IsSplit
      <4>2. CASE s = q
        BY <1>2, <2>17, <4>2 DEF IsSplit
      <4>3. CASE IsPrefix(sib, s)
        <5> DEFINE p == up \o Below(s, sib)
        <5>1. p \in DOMAIN u /\ u[p] = t[s]
          BY <2>4, <4>3 DEF IsCut
        <5>2. IsPrefix(up, p) /\ sib \o Below(p, up) = s
          BY <2>11, <4>3
        <5> HIDE DEF p
        <5> QED
          BY <2>17, <5>1, <5>2 DEF IsSplit
      <4> QED
        BY <2>4, <4>1, <4>2, <4>3 DEF IsCut
    <3> QED
      BY <3>1
  <2>19. \A s \in DOMAIN v : s \in DOMAIN t
    <3>1. ASSUME NEW s \in DOMAIN v PROVE s \in DOMAIN t
      <4>1. CASE s = q
        BY <1>2, <4>1
      <4>2. CASE s \in DOMAIN u /\ ~IsPrefix(up, s)
        <5>1. s \in DOMAIN t \/ \E p \in DOMAIN t : IsPrefix(sib, p) /\ s = up \o Below(p, sib)
          BY <2>4, <4>2 DEF IsCut
        <5> QED
          BY <2>11, <4>2, <5>1
      <4>3. CASE \E p \in DOMAIN u : IsPrefix(up, p) /\ s = sib \o Below(p, up)
        <5>1. PICK p \in DOMAIN u : IsPrefix(up, p) /\ s = sib \o Below(p, up)
          BY <4>3
        <5>2. PICK p0 \in DOMAIN t : IsPrefix(sib, p0) /\ p = up \o Below(p0, sib)
          BY <2>4, <5>1 DEF IsCut
        <5>3. s = p0
          BY <2>11, <5>1, <5>2
        <5> QED
          BY <5>3
      <4> QED
        BY <2>17, <4>1, <4>2, <4>3 DEF IsSplit
    <3> QED
      BY <3>1
  <2>20. v = [s \in DOMAIN v |-> v[s]] /\ t = [s \in DOMAIN t |-> t[s]]
    BY <1>2, <2>17 DEF IsSplit, TreeShape
  <2>21. v = t
    BY <2>18, <2>19, <2>20
  <2> QED
    BY <2>7, <2>21 DEF u, pane, spot
<1> QED
  BY <1>3, <1>4

-----------------------------------------------------------------------------
(* Closing several panes.                                                  *)

\* The pane RemovePanes takes next.
First(s) == CHOOSE x \in s : TRUE

\* One step of RemovePanes, given the trees of smaller sets.
Taken(iter, t, s) == IF s = {} THEN t ELSE RemovePane(iter[s \ {First(s)}], First(s))

\* The fold of RemovePanes, as what it is for a set and for one pane less.
LEMMA RemovePanesIs ==
  ASSUME NEW t, NEW E, IsFiniteSet(E)
  PROVE  \E iter : /\ iter = [s \in SUBSET E |-> Taken(iter, t, s)]
                   /\ RemovePanes(t, E) = iter[E]
<1> DEFINE Small(n) == {s \in SUBSET E : Cardinality(s) <= n}
           Is(g, n) == g = [s \in Small(n) |-> Taken(g, t, s)]
           T == {n \in Nat : \A g : ~Is(g, n)}
<1>0. \A s \in SUBSET E : /\ IsFiniteSet(s) /\ Cardinality(s) \in Nat
                          /\ s # {} => First(s) \in s /\ s \ {First(s)} \in SUBSET E /\
                               Cardinality(s \ {First(s)}) = Cardinality(s) - 1
                          /\ Cardinality(s) <= Cardinality(E)
                          /\ Cardinality(s) = 0 => s = {}
  <2>1. ASSUME NEW s \in SUBSET E
        PROVE  /\ IsFiniteSet(s) /\ Cardinality(s) \in Nat /\ Cardinality(s) <= Cardinality(E)
               /\ Cardinality(s) = 0 => s = {}
    BY FS_Subset, FS_CardinalityType, FS_EmptySet
  <2>2. ASSUME NEW s \in SUBSET E, s # {}
        PROVE  First(s) \in s /\ s \ {First(s)} \in SUBSET E /\
            Cardinality(s \ {First(s)}) = Cardinality(s) - 1
    <3>1. First(s) \in s
      BY <2>2 DEF First
    <3>2. Cardinality(s \ {First(s)}) = Cardinality(s) - 1
      BY <2>1, <3>1, FS_RemoveElement
    <3> QED
      BY <3>1, <3>2
  <2> QED
    BY <2>1, <2>2
<1>1. T = {}
  <2> SUFFICES ASSUME T # {} PROVE FALSE
    OBVIOUS
  <2>1. PICK n \in T : \A m \in T : n <= m
    <3>1. T \subseteq Nat
      OBVIOUS
    <3> HIDE DEF T
    <3> QED
      BY <3>1, LeastNumber
  <2>2. n # 0
    <3> DEFINE g == [s \in Small(0) |-> t]
    <3>1. \A s \in Small(0) : s = {}
      <4>1. \A s \in Small(0) : s \in SUBSET E /\ Cardinality(s) <= 0 /\ Cardinality(s) \in Nat
        BY <1>0
      <4>2. \A s \in Small(0) : Cardinality(s) = 0
        BY <4>1
      <4> QED
        BY <1>0, <4>1, <4>2
    <3>2. \A s \in Small(0) : Taken(g, t, s) = t
      BY <3>1 DEF Taken
    <3>3. Is(g, 0)
      BY <3>2
    <3> HIDE DEF g, Is
    <3> QED
      BY <3>3
  <2>3. n - 1 \in Nat /\ n - 1 \notin T
    BY <2>1, <2>2
  <2>4. PICK g : Is(g, n - 1)
    BY <2>3
  <2> DEFINE h == [s \in Small(n) |-> IF s \in Small(n - 1) THEN g[s] ELSE Taken(g, t, s)]
  <2>5. \A s \in Small(n) : s # {} => s \ {First(s)} \in Small(n - 1) /\ s \ {First(s)} \in Small(n)
    <3>1. ASSUME NEW s \in Small(n), s # {} PROVE s \ {First(s)} \in Small(n - 1) /\
        s \ {First(s)} \in Small(n)
      <4>1. Cardinality(s) \in Nat /\ Cardinality(s) <= n /\ s \ {First(s)} \in SUBSET E /\
          Cardinality(s \ {First(s)}) = Cardinality(s) - 1
        BY <1>0, <3>1
      <4> QED
        BY <2>3, <4>1
    <3> QED
      BY <3>1
  <2>6. \A s \in Small(n) : Taken(h, t, s) = Taken(g, t, s)
    <3> HIDE DEF Small
    <3>1. \A s \in Small(n) : s # {} => h[s \ {First(s)}] = g[s \ {First(s)}]
      BY <2>5
    <3> HIDE DEF h
    <3> QED
      BY <3>1 DEF Taken
  <2>7. \A s \in Small(n - 1) : g[s] = Taken(g, t, s)
    BY <2>4
  <2>8. \A s \in Small(n) : h[s] = Taken(h, t, s)
    <3> HIDE DEF Small
    <3>1. \A s \in Small(n) : h[s] = Taken(g, t, s)
      BY <2>7
    <3> HIDE DEF h
    <3> QED
      BY <2>6, <3>1
  <2>9. DOMAIN h = Small(n) /\ h = [s \in Small(n) |-> h[s]]
    OBVIOUS
  <2> HIDE DEF h
  <2>10. Is(h, n)
    <3> HIDE DEF Small
    <3>1. h = [s \in Small(n) |-> Taken(h, t, s)]
      BY <2>8, <2>9
    <3> QED
      BY <3>1
  <2> HIDE DEF Is
  <2> QED
    BY <2>1, <2>10
<1>2. Cardinality(E) \in Nat
  BY FS_CardinalityType
<1>3a. \A m \in Nat : \E g : Is(g, m)
  <2> HIDE DEF Is
  <2> QED
    BY <1>1
<1> HIDE DEF T
<1>3. PICK g : Is(g, Cardinality(E))
  <2> HIDE DEF Is
  <2> QED
    BY <1>2, <1>3a
<1>4. Small(Cardinality(E)) = SUBSET E
  BY <1>0
<1>5. g = [s \in SUBSET E |-> Taken(g, t, s)]
  BY <1>3, <1>4
<1> DEFINE iter == CHOOSE i : i = [s \in SUBSET E |-> Taken(i, t, s)]
<1>6. iter = [s \in SUBSET E |-> Taken(iter, t, s)]
  BY <1>5, Zenon
<1>7. RemovePanes(t, E) = iter[E]
  BY DEF RemovePanes, FoldSet, MapThenFoldSet, Taken, First
<1> QED
  BY <1>6, <1>7

\* Panes closed one after another, as closeTerminalsById and reifyTree do, are gone from
\* the tree in whatever order they go, and the others are in it with all that they hold.
THEOREM RemovePanesKeepsTheOthers ==
  ASSUME NEW t, Tree(t), NEW E \in SUBSET Ids(t), IsFiniteSet(E)
  PROVE  /\ Tree(RemovePanes(t, E))
         /\ Ids(RemovePanes(t, E)) = Ids(t) \ E
         /\ \A other \in Ids(t) \ E : PaneOf(RemovePanes(t, E), other) = PaneOf(t, other)
<1> DEFINE Good(u, s) == /\ Tree(u) /\ Ids(u) = Ids(t) \ s
                         /\ \A other \in Ids(t) \ s : PaneOf(u, other) = PaneOf(t, other)
<1>1. PICK iter : /\ iter = [s \in SUBSET E |-> Taken(iter, t, s)]
                  /\ RemovePanes(t, E) = iter[E]
  BY RemovePanesIs
<1> DEFINE T == {n \in Nat : \E s \in SUBSET E : Cardinality(s) = n /\ ~Good(iter[s], s)}
<1>2. \A s \in SUBSET E : iter[s] = Taken(iter, t, s)
  BY <1>1
<1>3. T = {}
  <2> SUFFICES ASSUME T # {} PROVE FALSE
    OBVIOUS
  <2>1. PICK n \in T : \A m \in T : n <= m
    <3>1. T \subseteq Nat
      OBVIOUS
    <3> HIDE DEF T
    <3> QED
      BY <3>1, LeastNumber
  <2>2. PICK s \in SUBSET E : Cardinality(s) = n /\ ~Good(iter[s], s)
    BY <2>1
  <2>3. s # {}
    <3>1. Good(t, {})
      OBVIOUS
    <3> HIDE DEF Good
    <3>2. ASSUME s = {} PROVE iter[s] = t
      BY <1>2, <3>2 DEF Taken
    <3> QED
      BY <2>2, <3>1, <3>2
  <2> DEFINE x == First(s)
             r == s \ {x}
  <2>4. x \in s /\ r \in SUBSET E
    BY <2>3 DEF First
  <2>5. IsFiniteSet(s)
    BY FS_Subset
  <2>6. Cardinality(r) = n - 1 /\ n \in Nat
    BY <2>2, <2>4, <2>5, FS_RemoveElement
  <2>7. Cardinality(r) \in Nat
    BY <2>5, FS_Subset, FS_CardinalityType
  <2> HIDE DEF x, Good
  <2>8. Good(iter[r], r)
    BY <2>1, <2>4, <2>6, <2>7
  <2>9. iter[s] = RemovePane(iter[r], x)
    BY <1>2, <2>3 DEF Taken, x
  <2> DEFINE u == iter[r]
  <2>10. Tree(u) /\ Ids(u) = Ids(t) \ r /\ \A other \in Ids(t) \ r : PaneOf(u, other) = PaneOf(t, other)
    BY <2>8 DEF Good
  <2> HIDE DEF u
  <2>11. x \in Ids(u)
    BY <2>4, <2>10
  <2>12. /\ Tree(RemovePane(u, x)) /\ Ids(RemovePane(u, x)) = Ids(u) \ {x}
         /\ \A other \in Ids(u) \ {x} : PaneOf(RemovePane(u, x), other) = PaneOf(u, other)
    BY <2>10, <2>11, RemoveKeepsTheOthers
  <2>13. Ids(u) \ {x} = Ids(t) \ s
    BY <2>4, <2>10
  <2>14. Good(RemovePane(u, x), s)
    BY <2>10, <2>12, <2>13 DEF Good
  <2> QED
    BY <2>2, <2>9, <2>14 DEF u
<1>4. Good(iter[E], E)
  BY <1>3, FS_CardinalityType
<1> QED
  BY <1>1, <1>4

-----------------------------------------------------------------------------
(* The tabs of panes: sequences of entries with ids.                       *)

\* No two entries of s have the same id.
Apart(s) == \A i, j \in 1 .. Len(s) : s[i].id = s[j].id => i = j

\* The entries of a sequence.
LEMMA ToSetFacts ==
  ASSUME NEW T, NEW s \in Seq(T)
  PROVE  /\ ToSet(s) = {s[i] : i \in 1 .. Len(s)} /\ ToSet(s) \subseteq T
         /\ \A x : x \in ToSet(s) <=> \E i \in 1 .. Len(s) : x = s[i]
<1>1. DOMAIN s = 1 .. Len(s)
  OBVIOUS
<1> QED
  BY <1>1 DEF ToSet

\* A finite set of numbers, listed from the least one on.
LEMMA InOrderFacts ==
  ASSUME NEW n \in Nat, NEW keep \in SUBSET (1 .. n)
  PROVE  /\ IsFiniteSet(keep) /\ Cardinality(keep) \in Nat
         /\ InOrder(keep, <) \in [1 .. Cardinality(keep) -> keep]
         /\ \A x \in keep : \E k \in 1 .. Cardinality(keep) : InOrder(keep, <)[k] = x
         /\ \A i, j \in 1 .. Cardinality(keep) : InOrder(keep, <)[i] = InOrder(keep, <)[j] => i = j
<1> DEFINE R == {w \in keep \X keep : w[1] < w[2]}
           f == Ranked(keep, R)
<1>0. keep \subseteq Nat
  OBVIOUS
<1>1. IsFiniteSet(keep)
  <2>1. n \in Int /\ 1 \in Int
    OBVIOUS
  <2>2. IsFiniteSet(1 .. n)
    BY <2>1, FS_Interval
  <2> QED
    BY <2>2, FS_Subset
<1>2. \A i, j \in keep : <<i, j>> \in R <=> i < j
  OBVIOUS
<1>3. Orders(R, keep)
  <2> HIDE DEF R
  <2> QED
    BY <1>0, <1>2 DEF Orders
<1>4. InOrder(keep, <) = f
  <2> DEFINE g == InOrder(keep, <)
  <2>1. g = [k \in 1 .. Cardinality(keep) |-> CHOOSE x \in keep :
      Cardinality({y \in keep : y < x}) = k - 1]
    BY DEF InOrder
  <2> HIDE DEF R
  <2>2. f = [k \in 1 .. Cardinality(keep) |-> CHOOSE x \in keep :
      Cardinality({y \in keep : <<y, x>> \in R}) = k - 1]
    BY DEF Ranked
  <2> HIDE DEF f, g
  <2>3. \A x \in keep : {y \in keep : y < x} = {y \in keep : <<y, x>> \in R}
    BY <1>2
  <2>4. ASSUME NEW k \in 1 .. Cardinality(keep) PROVE f[k] = g[k]
    <3>1. \A x : (x \in keep /\ Cardinality({y \in keep : y < x}) = k - 1) <=>
        (x \in keep /\ Cardinality({y \in keep : <<y, x>> \in R}) = k - 1)
      BY <2>3
    <3>2. (CHOOSE x \in keep : Cardinality({y \in keep : y < x}) = k - 1)
          = CHOOSE x \in keep : Cardinality({y \in keep : <<y, x>> \in R}) = k - 1
      BY <3>1, Zenon
    <3>3. g[k] = CHOOSE x \in keep : Cardinality({y \in keep : y < x}) = k - 1
      BY <2>1
    <3>4. f[k] = CHOOSE x \in keep : Cardinality({y \in keep : <<y, x>> \in R}) = k - 1
      BY <2>2
    <3> QED
      BY <3>2, <3>3, <3>4
  <2>5. f = g
    BY <2>1, <2>2, <2>4
  <2> QED
    BY <2>5 DEF g
<1> HIDE DEF R
<1>5. /\ Cardinality(keep) \in Nat
      /\ Ranked(keep, R) \in [1 .. Cardinality(keep) -> keep]
      /\ \A x \in keep : \E k \in 1 .. Cardinality(keep) : Ranked(keep, R)[k] = x
      /\ \A i, j \in 1 .. Cardinality(keep) : Ranked(keep, R)[i] = Ranked(keep, R)[j] => i = j
  BY <1>1, <1>3, RankedFacts
<1> QED
  BY <1>1, <1>4, <1>5 DEF f

\* Only the entries at some places: those, once each.
LEMMA OnlyFacts ==
  ASSUME NEW T, NEW s \in Seq(T), NEW keep \in SUBSET (1 .. Len(s))
  PROVE  /\ Only(s, keep) \in Seq(T) /\ Len(Only(s, keep)) = Cardinality(keep) /\
              Cardinality(keep) \in Nat
         /\ ToSet(Only(s, keep)) = {s[i] : i \in keep}
         /\ \A i \in keep : \E k \in 1 .. Len(Only(s, keep)) : Only(s, keep)[k] = s[i]
         /\ Apart(s) => Apart(Only(s, keep))
<1> DEFINE f == InOrder(keep, <)
           n == Cardinality(keep)
           o == Only(s, keep)
<1>1. Len(s) \in Nat
  OBVIOUS
<1>2. n \in Nat /\ f \in [1 .. n -> keep] /\ (\A x \in keep : \E k \in 1 .. n : f[k] = x)
      /\ \A i, j \in 1 .. n : f[i] = f[j] => i = j
  BY <1>1, InOrderFacts
<1>6. o = [k \in 1 .. n |-> s[f[k]]]
  BY DEF Only
<1> HIDE DEF n, o, f
<1>7. ASSUME NEW k \in 1 .. n PROVE f[k] \in keep /\ f[k] \in 1 .. Len(s) /\ s[f[k]] \in T
  <2>1. f[k] \in keep
    BY <1>2
  <2>2. f[k] \in 1 .. Len(s)
    BY <2>1
  <2>3. s[f[k]] \in T
    BY <2>2
  <2> QED
    BY <2>1, <2>2, <2>3
<1>8. o \in [1 .. n -> T]
  BY <1>6, <1>7
<1>9. o \in Seq(T) /\ Len(o) = n
  BY <1>2, <1>8
<1>10. \A k \in 1 .. n : o[k] = s[f[k]] /\ f[k] \in keep
  BY <1>7, <1>6
<1>11. \A i \in keep : \E k \in 1 .. Len(o) : o[k] = s[i]
  BY <1>2, <1>9, <1>10
<1>12. ToSet(o) = {s[i] : i \in keep}
  <2>1. ToSet(o) = {o[k] : k \in 1 .. n}
    BY <1>9, ToSetFacts
  <2>2. ASSUME NEW x \in ToSet(o) PROVE \E i \in keep : x = s[i]
    <3>1. PICK k \in 1 .. n : x = o[k]
      BY <2>1
    <3>2. f[k] \in keep /\ x = s[f[k]]
      BY <1>10, <3>1
    <3> QED
      BY <3>2
  <2>3. \A i \in keep : s[i] \in ToSet(o)
    BY <1>9, <1>11, <2>1
  <2> QED
    BY <2>2, <2>3
<1>13. ASSUME Apart(s), NEW i \in 1 .. Len(o), NEW j \in 1 .. Len(o), o[i].id = o[j].id PROVE i = j
  <2>1. f[i] = f[j]
    BY <1>7, <1>9, <1>10, <1>13 DEF Apart
  <2> QED
    BY <1>2, <1>9, <2>1
<1>14. Apart(s) => Apart(o)
  BY <1>13 DEF Apart
<1> QED
  BY <1>2, <1>9, <1>11, <1>12, <1>14 DEF n, o

\* One sequence after another.
LEMMA ConcatFacts ==
  ASSUME NEW T, NEW a \in Seq(T), NEW b \in Seq(T)
  PROVE  /\ a \o b \in Seq(T) /\ Len(a \o b) = Len(a) + Len(b)
         /\ \A k \in 1 .. Len(a) : (a \o b)[k] = a[k]
         /\ \A k \in 1 .. Len(b) : (a \o b)[Len(a) + k] = b[k]
OBVIOUS

\* A sequence without the entry at a place.
LEMMA RemoveAtFacts ==
  ASSUME NEW T, NEW s \in Seq(T), NEW i \in 1 .. Len(s)
  PROVE  /\ RemoveAt(s, i) \in Seq(T) /\ Len(RemoveAt(s, i)) = Len(s) - 1
         /\ \A k \in 1 .. Len(s) - 1 : RemoveAt(s, i)[k] = IF k < i THEN s[k] ELSE s[k + 1]
<1> DEFINE a == SubSeq(s, 1, i - 1)
           b == SubSeq(s, i + 1, Len(s))
<1>1. a \in Seq(T) /\ Len(a) = i - 1 /\ \A k \in 1 .. i - 1 : a[k] = s[k]
  OBVIOUS
<1>2. b \in Seq(T) /\ Len(b) = Len(s) - i /\ \A k \in 1 .. Len(s) - i : b[k] = s[k + i]
  OBVIOUS
<1>3. RemoveAt(s, i) = a \o b
  BY DEF RemoveAt
<1> HIDE DEF a, b
<1>4. a \o b \in Seq(T) /\ Len(a \o b) = Len(s) - 1
  <2>1. Len(a \o b) = Len(a) + Len(b)
    BY <1>1, <1>2, ConcatFacts
  <2>2. a \o b \in Seq(T)
    BY <1>1, <1>2
  <2> QED
    BY <1>1, <1>2, <2>1, <2>2
<1>5. ASSUME NEW k \in 1 .. Len(s) - 1 PROVE (a \o b)[k] = IF k < i THEN s[k] ELSE s[k + 1]
  <2>1. CASE k < i
    BY <1>1, <1>2, <2>1
  <2>0. k < i \/ k >= i
    OBVIOUS
  <2>2. CASE k >= i
    <3>1. k - (i - 1) \in 1 .. Len(s) - i /\ k - (i - 1) + i = k + 1
      BY <2>2
    <3>2. (a \o b)[k] = b[k - Len(a)]
      BY <1>1, <1>2, <2>2
    <3>3. b[k - (i - 1)] = s[k + 1]
      BY <1>2, <3>1
    <3> QED
      BY <1>1, <2>2, <3>2, <3>3
  <2> QED
    BY <2>0, <2>1, <2>2
<1> QED
  BY <1>3, <1>4, <1>5

\* A sequence with another entry at a place.
LEMMA InsertAtFacts ==
  ASSUME NEW T, NEW s \in Seq(T), NEW i \in 1 .. Len(s) + 1, NEW e \in T
  PROVE  /\ InsertAt(s, i, e) \in Seq(T) /\ Len(InsertAt(s, i, e)) = Len(s) + 1
         /\ \A k \in 1 .. Len(s) + 1 : InsertAt(s, i, e)[k] = IF k < i THEN s[k] ELSE IF k = i
              THEN e ELSE s[k - 1]
<1> DEFINE a == SubSeq(s, 1, i - 1)
           b == SubSeq(s, i, Len(s))
           c == a \o <<e>>
<1>1. a \in Seq(T) /\ Len(a) = i - 1 /\ \A k \in 1 .. i - 1 : a[k] = s[k]
  OBVIOUS
<1>2. b \in Seq(T) /\ Len(b) = Len(s) - i + 1 /\ \A k \in 1 .. Len(s) - i + 1 : b[k] = s[k + i - 1]
  OBVIOUS
<1>3. InsertAt(s, i, e) = c \o b
  BY DEF InsertAt
<1> HIDE DEF a, b
<1>4. c \in Seq(T) /\ Len(c) = i /\ c[i] = e /\ \A k \in 1 .. i - 1 : c[k] = s[k]
  BY <1>1
<1> HIDE DEF c
<1>5. c \o b \in Seq(T) /\ Len(c \o b) = Len(s) + 1
  <2>1. Len(c \o b) = Len(c) + Len(b)
    BY <1>2, <1>4, ConcatFacts
  <2>2. c \o b \in Seq(T)
    BY <1>2, <1>4
  <2> QED
    BY <1>2, <1>4, <2>1, <2>2
<1>6. ASSUME NEW k \in 1 .. Len(s) + 1 PROVE (c \o b)[k] = IF k < i THEN s[k] ELSE IF k = i THEN e
    ELSE s[k - 1]
  <2>1. CASE k <= i
    BY <1>2, <1>4, <2>1
  <2>0. k <= i \/ k > i
    OBVIOUS
  <2>2. CASE k > i
    <3>1. k - i \in 1 .. Len(s) - i + 1 /\ (k - i) + i - 1 = k - 1
      BY <2>2
    <3>2. (c \o b)[k] = b[k - Len(c)]
      BY <1>2, <1>4, <2>2
    <3>3. b[k - i] = s[(k - i) + i - 1]
      BY <1>2, <3>1
    <3> QED
      BY <1>4, <2>2, <3>1, <3>2, <3>3
  <2> QED
    BY <2>0, <2>1, <2>2
<1> QED
  BY <1>3, <1>5, <1>6

\* A tab taken out of a pane, and one put in.
LEMMA RemovedTab ==
  ASSUME NEW T, NEW s \in Seq(T), NEW i \in 1 .. Len(s), Apart(s)
  PROVE  Apart(RemoveAt(s, i)) /\ ToSet(RemoveAt(s, i)) = ToSet(s) \ {s[i]}
<1> DEFINE r == RemoveAt(s, i)
<1>1. /\ r \in Seq(T) /\ Len(r) = Len(s) - 1
      /\ \A k \in 1 .. Len(s) - 1 : r[k] = IF k < i THEN s[k] ELSE s[k + 1]
  BY RemoveAtFacts
<1> HIDE DEF r
<1> DEFINE from(k) == IF k < i THEN k ELSE k + 1
<1>2. \A k \in 1 .. Len(r) : from(k) \in 1 .. Len(s) /\ from(k) # i /\ r[k] = s[from(k)]
  BY <1>1
<1>3. \A k, l \in 1 .. Len(r) : from(k) = from(l) => k = l
  OBVIOUS
<1>4. \A m \in 1 .. Len(s) : m # i => \E k \in 1 .. Len(r) : from(k) = m
  <2>1. ASSUME NEW m \in 1 .. Len(s), m # i PROVE \E k \in 1 .. Len(r) : from(k) = m
    <3>1. CASE m < i
      BY <1>1, <3>1
    <3>2. CASE m > i
      <4>1. m - 1 \in 1 .. Len(r) /\ from(m - 1) = m
        BY <1>1, <3>2
      <4> QED
        BY <4>1
    <3> QED
      BY <2>1, <3>1, <3>2
  <2> QED
    BY <2>1
<1> HIDE DEF from
<1>5. Apart(r)
  <2>1. \A k, l \in 1 .. Len(s) : s[k].id = s[l].id => k = l
    BY DEF Apart
  <2>2. ASSUME NEW k \in 1 .. Len(r), NEW l \in 1 .. Len(r), r[k].id = r[l].id PROVE k = l
    <3>1. from(k) = from(l)
      BY <1>2, <2>1, <2>2
    <3> QED
      BY <1>3, <3>1
  <2> QED
    BY <2>2 DEF Apart
<1>6. ToSet(r) = {r[k] : k \in 1 .. Len(r)} /\ ToSet(s) = {s[k] : k \in 1 .. Len(s)}
  BY <1>1, ToSetFacts
<1>7. \A m \in 1 .. Len(s) : s[m] = s[i] => m = i
  BY DEF Apart
<1>8. ToSet(r) = ToSet(s) \ {s[i]}
  <2>1. \A x \in ToSet(r) : x \in ToSet(s) \ {s[i]}
    BY <1>2, <1>6, <1>7
  <2>2. \A x \in ToSet(s) \ {s[i]} : x \in ToSet(r)
    BY <1>2, <1>4, <1>6
  <2> QED
    BY <2>1, <2>2
<1> QED
  BY <1>5, <1>8 DEF r

\* And one put in.
LEMMA InsertedTab ==
  ASSUME NEW T, NEW s \in Seq(T), NEW i \in 1 .. Len(s) + 1, NEW e \in T, Apart(s),
         \A x \in ToSet(s) : x.id # e.id
  PROVE  Apart(InsertAt(s, i, e)) /\ ToSet(InsertAt(s, i, e)) = ToSet(s) \cup {e}
<1> DEFINE r == InsertAt(s, i, e)
<1>1. /\ r \in Seq(T) /\ Len(r) = Len(s) + 1
      /\ \A k \in 1 .. Len(s) + 1 : r[k] = IF k < i THEN s[k] ELSE IF k = i THEN e ELSE s[k - 1]
  BY InsertAtFacts
<1> HIDE DEF r
<1> DEFINE from(k) == IF k < i THEN k ELSE k - 1
<1>2. \A k \in 1 .. Len(r) : k # i => from(k) \in 1 .. Len(s) /\ r[k] = s[from(k)]
  BY <1>1
<1>3. \A k, l \in 1 .. Len(r) : k # i /\ l # i /\ from(k) = from(l) => k = l
  OBVIOUS
<1>4. \A m \in 1 .. Len(s) : \E k \in 1 .. Len(r) : k # i /\ from(k) = m
  <2>1. ASSUME NEW m \in 1 .. Len(s) PROVE \E k \in 1 .. Len(r) : k # i /\ from(k) = m
    <3>1. CASE m < i
      BY <1>1, <3>1
    <3>2. CASE m >= i
      <4>1. m + 1 \in 1 .. Len(r) /\ from(m + 1) = m /\ m + 1 # i
        BY <1>1, <3>2
      <4> QED
        BY <4>1
    <3> QED
      BY <3>1, <3>2
  <2> QED
    BY <2>1
<1>5. i \in 1 .. Len(r) /\ r[i] = e
  BY <1>1
<1> HIDE DEF from
<1>6. ToSet(r) = {r[k] : k \in 1 .. Len(r)} /\ ToSet(s) = {s[k] : k \in 1 .. Len(s)}
  BY <1>1, ToSetFacts
<1>7. \A m \in 1 .. Len(s) : s[m].id # e.id
  BY <1>6
<1>8. Apart(r)
  <2>0. \A k, l \in 1 .. Len(s) : s[k].id = s[l].id => k = l
    BY DEF Apart
  <2>1. ASSUME NEW k \in 1 .. Len(r), NEW l \in 1 .. Len(r), r[k].id = r[l].id PROVE k = l
    <3>1. CASE k # i /\ l # i
      <4>1. from(k) = from(l)
        BY <1>2, <2>0, <2>1, <3>1
      <4> QED
        BY <1>3, <3>1, <4>1
    <3>2. CASE k = i /\ l # i
      BY <1>2, <1>5, <1>7, <2>1, <3>2
    <3>3. CASE k # i /\ l = i
      BY <1>2, <1>5, <1>7, <2>1, <3>3
    <3> QED
      BY <3>1, <3>2, <3>3
  <2> QED
    BY <2>1 DEF Apart
<1>9. ToSet(r) = ToSet(s) \cup {e}
  <2>1. \A x \in ToSet(r) : x \in ToSet(s) \cup {e}
    BY <1>2, <1>5, <1>6
  <2>2. \A m \in 1 .. Len(s) : \E k \in 1 .. Len(r) : r[k] = s[m]
    BY <1>2, <1>4
  <2>3. e \in ToSet(r)
    BY <1>5, <1>6
  <2>4. ToSet(s) \subseteq ToSet(r)
    BY <1>6, <2>2
  <2> QED
    BY <2>1, <2>3, <2>4
<1> QED
  BY <1>8, <1>9 DEF r

\* The ids of two sequences' entries differ.
Distinct(a, b) == \A x \in ToSet(a), y \in ToSet(b) : x.id # y.id

\* Two tabs of a pane change places.
LEMMA SwappedTabs ==
  ASSUME NEW T, NEW s \in Seq(T), Apart(s), NEW i \in 1 .. Len(s), NEW j \in 1 .. Len(s), i # j,
         NEW r \in Seq(T), Len(r) = Len(s),
         \A k \in 1 .. Len(s) : r[k] = IF k = i THEN s[j] ELSE IF k = j THEN s[i] ELSE s[k]
  PROVE  Apart(r) /\ ToSet(r) = ToSet(s)
<1>1. r \in Seq(T) /\ Len(r) = Len(s)
  OBVIOUS
<1> DEFINE from(k) == IF k = i THEN j ELSE IF k = j THEN i ELSE k
<1>2. \A k \in 1 .. Len(s) : from(k) \in 1 .. Len(s) /\ r[k] = s[from(k)] /\ from(from(k)) = k
  OBVIOUS
<1> HIDE DEF from
<1>3. Apart(r)
  <2>0. \A k, l \in 1 .. Len(s) : s[k].id = s[l].id => k = l
    BY DEF Apart
  <2>1. ASSUME NEW k \in 1 .. Len(r), NEW l \in 1 .. Len(r), r[k].id = r[l].id PROVE k = l
    <3>1. from(k) = from(l)
      BY <1>1, <1>2, <2>0, <2>1
    <3> QED
      BY <1>1, <1>2, <3>1
  <2> QED
    BY <2>1 DEF Apart
<1>4. /\ \A x : x \in ToSet(r) <=> \E k \in 1 .. Len(s) : x = r[k]
      /\ \A x : x \in ToSet(s) <=> \E k \in 1 .. Len(s) : x = s[k]
  <2>1. \A x : x \in ToSet(r) <=> \E k \in 1 .. Len(r) : x = r[k]
    BY <1>1, ToSetFacts
  <2>2. \A x : x \in ToSet(s) <=> \E k \in 1 .. Len(s) : x = s[k]
    BY ToSetFacts
  <2> QED
    BY <1>1, <2>1, <2>2
<1>5. \A k \in 1 .. Len(s) : s[k] = r[from(k)] /\ from(k) \in 1 .. Len(s)
  BY <1>2
<1>6. ToSet(r) = ToSet(s)
  <2>1. ASSUME NEW x \in ToSet(r) PROVE x \in ToSet(s)
    <3>1. PICK k \in 1 .. Len(s) : x = r[k]
      BY <1>4
    <3>2. x = s[from(k)] /\ from(k) \in 1 .. Len(s)
      BY <1>2, <3>1
    <3> QED
      BY <1>4, <3>2
  <2>2. ASSUME NEW x \in ToSet(s) PROVE x \in ToSet(r)
    <3>1. PICK k \in 1 .. Len(s) : x = s[k]
      BY <1>4
    <3>2. x = r[from(k)] /\ from(k) \in 1 .. Len(s)
      BY <1>5, <3>1
    <3> QED
      BY <1>4, <3>2
  <2> QED
    BY <2>1, <2>2
<1> QED
  BY <1>1, <1>3, <1>6

\* The tabs of one pane after those of another.
LEMMA JoinedTabs ==
  ASSUME NEW T, NEW a \in Seq(T), NEW b \in Seq(T), Apart(a), Apart(b), Distinct(a, b)
  PROVE  Apart(a \o b) /\ ToSet(a \o b) = ToSet(a) \cup ToSet(b)
<1> DEFINE r == a \o b
<1>1. /\ r \in Seq(T) /\ Len(r) = Len(a) + Len(b)
      /\ \A k \in 1 .. Len(a) : r[k] = a[k]
      /\ \A k \in 1 .. Len(b) : r[Len(a) + k] = b[k]
  BY ConcatFacts
<1> HIDE DEF r
<1>2. /\ \A x : x \in ToSet(r) <=> \E k \in 1 .. Len(r) : x = r[k]
      /\ \A x : x \in ToSet(a) <=> \E k \in 1 .. Len(a) : x = a[k]
      /\ \A x : x \in ToSet(b) <=> \E k \in 1 .. Len(b) : x = b[k]
  BY <1>1, ToSetFacts
<1>3. \A k \in 1 .. Len(r) : k \in 1 .. Len(a) \/ \E l \in 1 .. Len(b) : k = Len(a) + l
  <2>1. ASSUME NEW k \in 1 .. Len(r), k \notin 1 .. Len(a) PROVE \E l \in 1 .. Len(b) : k = Len(a) + l
    <3>1. k - Len(a) \in 1 .. Len(b) /\ k = Len(a) + (k - Len(a))
      BY <1>1, <2>1
    <3> QED
      BY <3>1
  <2> QED
    BY <2>1
<1>4. \A k \in 1 .. Len(a), l \in 1 .. Len(b) : a[k].id # b[l].id
  BY <1>2 DEF Distinct
<1>5. ASSUME NEW k \in 1 .. Len(r), NEW l \in 1 .. Len(r), r[k].id = r[l].id PROVE k = l
  <2>1. CASE k \in 1 .. Len(a) /\ l \in 1 .. Len(a)
    BY <1>1, <1>5, <2>1 DEF Apart
  <2>2. CASE k \in 1 .. Len(a) /\ l \notin 1 .. Len(a)
    <3>1. PICK y \in 1 .. Len(b) : l = Len(a) + y
      BY <1>3, <2>2
    <3> QED
      BY <1>1, <1>4, <1>5, <2>2, <3>1
  <2>3. CASE k \notin 1 .. Len(a) /\ l \in 1 .. Len(a)
    <3>1. PICK y \in 1 .. Len(b) : k = Len(a) + y
      BY <1>3, <2>3
    <3> QED
      BY <1>1, <1>4, <1>5, <2>3, <3>1
  <2>4. CASE k \notin 1 .. Len(a) /\ l \notin 1 .. Len(a)
    <3>1. PICK x \in 1 .. Len(b) : k = Len(a) + x
      BY <1>3, <2>4
    <3>2. PICK y \in 1 .. Len(b) : l = Len(a) + y
      BY <1>3, <2>4
    <3>3. b[x].id = b[y].id
      BY <1>1, <1>5, <3>1, <3>2
    <3> QED
      BY <3>1, <3>2, <3>3 DEF Apart
  <2> QED
    BY <2>1, <2>2, <2>3, <2>4
<1>6. Apart(r)
  BY <1>5 DEF Apart
<1>7. ToSet(r) = ToSet(a) \cup ToSet(b)
  <2>1. ASSUME NEW x \in ToSet(r) PROVE x \in ToSet(a) \cup ToSet(b)
    <3>1. PICK k \in 1 .. Len(r) : x = r[k]
      BY <1>2
    <3>2. CASE k \in 1 .. Len(a)
      BY <1>1, <1>2, <3>1, <3>2
    <3>3. CASE k \notin 1 .. Len(a)
      <4>1. PICK l \in 1 .. Len(b) : k = Len(a) + l
        BY <1>3, <3>3
      <4>2. x = b[l]
        BY <1>1, <3>1, <4>1
      <4> QED
        BY <1>2, <4>2
    <3> QED
      BY <3>2, <3>3
  <2>2. \A k \in 1 .. Len(a) : k \in 1 .. Len(r)
    BY <1>1
  <2>3. \A k \in 1 .. Len(b) : Len(a) + k \in 1 .. Len(r)
    BY <1>1
  <2>4. \A k \in 1 .. Len(a) : a[k] \in ToSet(r)
    BY <1>1, <1>2, <2>2
  <2>5. \A k \in 1 .. Len(b) : b[k] \in ToSet(r)
    <3>1. \A k \in 1 .. Len(b) : r[Len(a) + k] \in ToSet(r)
      BY <1>2, <2>3
    <3> QED
      BY <1>1, <3>1
  <2>6. ToSet(a) \subseteq ToSet(r)
    BY <1>2, <2>4
  <2>7. ToSet(b) \subseteq ToSet(r)
    BY <1>2, <2>5
  <2> QED
    BY <2>1, <2>6, <2>7
<1> QED
  BY <1>6, <1>7 DEF r

\* What becomes of the tabs of s in r: old's has another pty and the same session.
Renewed(s, r, old, new) ==
  /\ \A x \in ToSet(r) : (x \in ToSet(s) /\ x.id # old) \/
       (x.id = new /\ \E y \in ToSet(s) : x.s = y.s /\ y.id = old)
  /\ \A y \in ToSet(s) : y.id # old => y \in ToSet(r)
  /\ \A y \in ToSet(s) : y.id = old => \E x \in ToSet(r) : x.id = new /\ x.s = y.s

\* A tab's pty is replaced, and nothing else of it.
LEMMA RestartedTabs ==
  ASSUME NEW T, NEW s \in Seq(T), Apart(s), NEW old, NEW new, \A x \in ToSet(s) : x.id # new,
         NEW r \in Seq(T), Len(r) = Len(s),
         \A k \in 1 .. Len(s) : /\ s[k].id # old => r[k] = s[k]
                                /\ s[k].id = old => r[k].id = new /\ r[k].s = s[k].s
  PROVE  Apart(r) /\ Renewed(s, r, old, new)
<1>1. \A k \in 1 .. Len(s) : s[k] \in T
  OBVIOUS
<1>2. \A k \in 1 .. Len(s) : s[k].id # old => r[k] = s[k]
  OBVIOUS
<1>3. \A k \in 1 .. Len(s) : s[k].id = old => r[k].id = new /\ r[k].s = s[k].s
  OBVIOUS
<1>4. DOMAIN r = 1 .. Len(s) /\ Len(s) \in Nat
  OBVIOUS
<1>7. r \in Seq(T) /\ Len(r) = Len(s)
  OBVIOUS
<1>8. /\ \A x : x \in ToSet(r) <=> \E k \in 1 .. Len(s) : x = r[k]
      /\ \A x : x \in ToSet(s) <=> \E k \in 1 .. Len(s) : x = s[k]
  <2>1. \A x : x \in ToSet(r) <=> \E k \in 1 .. Len(r) : x = r[k]
    BY <1>7, ToSetFacts
  <2>2. \A x : x \in ToSet(s) <=> \E k \in 1 .. Len(s) : x = s[k]
    BY ToSetFacts
  <2> QED
    BY <1>7, <2>1, <2>2
<1>9. \A k \in 1 .. Len(s) : s[k].id # new
  BY <1>8
<1>10. Apart(r)
  <2>1. ASSUME NEW k \in 1 .. Len(s), NEW l \in 1 .. Len(s), r[k].id = r[l].id PROVE s[k].id = s[l].id
    <3>1. CASE s[k].id = old /\ s[l].id = old
      BY <3>1
    <3>2. CASE s[k].id = old /\ s[l].id # old
      BY <1>2, <1>3, <1>9, <2>1, <3>2
    <3>3. CASE s[k].id # old /\ s[l].id = old
      BY <1>2, <1>3, <1>9, <2>1, <3>3
    <3>4. CASE s[k].id # old /\ s[l].id # old
      BY <1>2, <2>1, <3>4
    <3> QED
      BY <3>1, <3>2, <3>3, <3>4
  <2> QED
    BY <1>7, <2>1 DEF Apart
<1>11. ASSUME NEW k \in 1 .. Len(s)
       PROVE (r[k] \in ToSet(s) /\ r[k].id # old) \/
           (r[k].id = new /\ \E y \in ToSet(s) : r[k].s = y.s /\ y.id = old)
  <2>1. s[k] \in ToSet(s)
    BY <1>8
  <2>2. CASE s[k].id # old
    <3>1. r[k] = s[k]
      BY <1>2, <2>2
    <3> QED
      BY <2>1, <2>2, <3>1
  <2>3. CASE s[k].id = old
    <3>1. r[k].id = new /\ r[k].s = s[k].s
      BY <1>3, <2>3
    <3>2. r[k].s = s[k].s
      BY <3>1
    <3>3. \E y \in ToSet(s) : r[k].s = y.s /\ y.id = old
      BY <2>1, <2>3, <3>2
    <3>4. r[k].id = new
      BY <3>1
    <3> QED
      BY <3>3, <3>4
  <2> QED
    BY <2>2, <2>3
<1>12. ASSUME NEW k \in 1 .. Len(s)
       PROVE /\ s[k].id # old => s[k] \in ToSet(r)
             /\ s[k].id = old => \E x \in ToSet(r) : x.id = new /\ x.s = s[k].s
  <2>1. r[k] \in ToSet(r)
    BY <1>8
  <2> QED
    BY <1>2, <1>3, <2>1
<1>13. \A x \in ToSet(r) : (x \in ToSet(s) /\ x.id # old) \/
    (x.id = new /\ \E y \in ToSet(s) : x.s = y.s /\ y.id = old)
  <2>1. ASSUME NEW x \in ToSet(r)
        PROVE  (x \in ToSet(s) /\ x.id # old) \/
            (x.id = new /\ \E y \in ToSet(s) : x.s = y.s /\ y.id = old)
    <3>1. PICK k \in 1 .. Len(s) : x = r[k]
      BY <1>8
    <3> QED
      BY <1>11, <3>1
  <2> QED
    BY <2>1
<1>14. ASSUME NEW y \in ToSet(s) PROVE (y.id # old => y \in ToSet(r)) /\
    (y.id = old => \E x \in ToSet(r) : x.id = new /\ x.s = y.s)
  <2>1. PICK k \in 1 .. Len(s) : y = s[k]
    BY <1>8
  <2> QED
    BY <1>12, <2>1
<1> QED
  BY <1>7, <1>10, <1>13, <1>14 DEF Renewed

\* One step of FlattenSeq, given the earlier ones.
Step(f, ss, i) == IF i = 1 THEN ss[i] ELSE f[i - 1] \o ss[i]

\* The sequences flattened up to each place.
LEMMA FlattenIs ==
  ASSUME NEW ss, Len(ss) \in Nat, Len(ss) # 0
  PROVE  \E f : f = [i \in 1 .. Len(ss) |-> Step(f, ss, i)] /\ FlattenSeq(ss) = f[Len(ss)]
<1> DEFINE Is(g, n) == g = [i \in 1 .. n |-> Step(g, ss, i)]
           T == {n \in Nat : \A g : ~Is(g, n)}
<1>1. T = {}
  <2> SUFFICES ASSUME T # {} PROVE FALSE
    OBVIOUS
  <2>1. PICK n \in T : \A m \in T : n <= m
    <3>1. T \subseteq Nat
      OBVIOUS
    <3> HIDE DEF T
    <3> QED
      BY <3>1, LeastNumber
  <2>2. n # 0
    <3> DEFINE g == [i \in 1 .. 0 |-> 0]
    <3>1. Is(g, 0)
      OBVIOUS
    <3> HIDE DEF g, Is
    <3> QED
      BY <3>1
  <2>3. n \in Nat /\ n - 1 \in Nat /\ n - 1 \notin T
    BY <2>1, <2>2
  <2>4. PICK g : Is(g, n - 1)
    BY <2>3
  <2> DEFINE h == [i \in 1 .. n |-> IF i \in 1 .. n - 1 THEN g[i] ELSE Step(g, ss, i)]
  <2>5. \A i \in 1 .. n : i # 1 => i - 1 \in 1 .. n - 1 /\ i - 1 \in 1 .. n
    BY <2>3
  <2>6. \A i \in 1 .. n : Step(h, ss, i) = Step(g, ss, i)
    <3>1. \A i \in 1 .. n : i # 1 => h[i - 1] = g[i - 1]
      BY <2>5
    <3> HIDE DEF h
    <3> QED
      BY <3>1 DEF Step
  <2>7. \A i \in 1 .. n - 1 : g[i] = Step(g, ss, i)
    BY <2>4
  <2>8. \A i \in 1 .. n : h[i] = Step(h, ss, i)
    <3>1. \A i \in 1 .. n : h[i] = Step(g, ss, i)
      BY <2>7
    <3> HIDE DEF h
    <3> QED
      BY <2>6, <3>1
  <2>9. h = [i \in 1 .. n |-> h[i]]
    OBVIOUS
  <2> HIDE DEF h
  <2>10. Is(h, n)
    BY <2>8, <2>9
  <2> HIDE DEF Is
  <2> QED
    BY <2>1, <2>3, <2>10
<1>2. PICK g : Is(g, Len(ss))
  BY <1>1
<1> DEFINE f == CHOOSE i : i = [k \in 1 .. Len(ss) |-> Step(i, ss, k)]
<1>3. f = [i \in 1 .. Len(ss) |-> Step(f, ss, i)]
  BY <1>2, Zenon
<1>4. FlattenSeq(ss) = f[Len(ss)]
  BY DEF FlattenSeq, Step
<1> QED
  BY <1>3, <1>4

\* The tabs of panes that share none, in one sequence: each once.
LEMMA FlattenedTabs ==
  ASSUME NEW T, NEW ss, Len(ss) \in Nat, ss = [i \in 1 .. Len(ss) |-> ss[i]],
         \A i \in 1 .. Len(ss) : ss[i] \in Seq(T) /\ Apart(ss[i]),
         \A i, j \in 1 .. Len(ss) : i # j => Distinct(ss[i], ss[j])
  PROVE  /\ FlattenSeq(ss) \in Seq(T) /\ Apart(FlattenSeq(ss))
         /\ ToSet(FlattenSeq(ss)) = UNION {ToSet(ss[i]) : i \in 1 .. Len(ss)}
<1>1. CASE Len(ss) = 0
  <2>1. FlattenSeq(ss) = ss
    BY <1>1 DEF FlattenSeq
  <2>2. ss \in Seq(T)
    BY <1>1
  <2>3. ToSet(ss) = {}
    <3>1. \A x : x \in ToSet(ss) <=> \E i \in 1 .. Len(ss) : x = ss[i]
      BY <2>2, ToSetFacts
    <3> QED
      BY <1>1, <3>1
  <2> QED
    BY <1>1, <2>1, <2>2, <2>3 DEF Apart
<1>2. CASE Len(ss) # 0
  <2>1. PICK f : f = [i \in 1 .. Len(ss) |-> Step(f, ss, i)] /\ FlattenSeq(ss) = f[Len(ss)]
    BY <1>2, FlattenIs
  <2> DEFINE Good(i) == /\ f[i] \in Seq(T) /\ Apart(f[i])
                        /\ ToSet(f[i]) = UNION {ToSet(ss[k]) : k \in 1 .. i}
             B == {i \in Nat : i \in 1 .. Len(ss) /\ ~Good(i)}
  <2>2. \A i \in 1 .. Len(ss) : f[i] = Step(f, ss, i)
    BY <2>1
  <2>3. B = {}
    <3> SUFFICES ASSUME B # {} PROVE FALSE
      OBVIOUS
    <3>1. PICK n \in B : \A m \in B : n <= m
      <4>1. B \subseteq Nat
        OBVIOUS
      <4> HIDE DEF B
      <4> QED
        BY <4>1, LeastNumber
    <3>2. n \in 1 .. Len(ss) /\ ~Good(n) /\ f[n] = Step(f, ss, n)
      BY <2>2, <3>1
    <3>3. ASSUME n = 1 PROVE Good(n)
      <4>1. f[n] = ss[1]
        BY <3>2, <3>3 DEF Step
      <4>2. 1 .. n = {1}
        BY <3>3
      <4> QED
        BY <3>2, <3>3, <4>1, <4>2
    <3>4. ASSUME n # 1 PROVE Good(n)
      <4>1. n - 1 \in 1 .. Len(ss) /\ Good(n - 1) /\ f[n] = f[n - 1] \o ss[n]
        <5>1. n - 1 \in 1 .. Len(ss) /\ n - 1 \in Nat
          BY <3>2, <3>4
        <5>2. n - 1 \notin B
          <6> HIDE DEF B
          <6>1. B \subseteq Int
            BY DEF B
          <6> QED
            BY <3>1, <3>2, <6>1
        <5>3. Good(n - 1)
          BY <5>1, <5>2
        <5>4. f[n] = f[n - 1] \o ss[n]
          BY <3>2, <3>4 DEF Step
        <5> HIDE DEF Good
        <5> QED
          BY <5>1, <5>3, <5>4
      <4>2. 1 .. n = (1 .. n - 1) \cup {n}
        BY <3>2
      <4>3. Distinct(f[n - 1], ss[n])
        <5>1. \A x \in ToSet(f[n - 1]) : \E k \in 1 .. n - 1 : x \in ToSet(ss[k])
          BY <4>1
        <5>2. \A k \in 1 .. n - 1 : k \in 1 .. Len(ss) /\ k # n
          BY <3>2
        <5> QED
          BY <3>2, <5>1, <5>2 DEF Distinct
      <4>4. f[n - 1] \in Seq(T) /\ ss[n] \in Seq(T) /\ Apart(f[n - 1]) /\ Apart(ss[n])
        BY <3>2, <4>1
      <4>5. Apart(f[n]) /\ ToSet(f[n]) = ToSet(f[n - 1]) \cup ToSet(ss[n])
        BY <4>1, <4>3, <4>4, JoinedTabs
      <4>6. f[n] \in Seq(T)
        BY <4>1, <4>4, ConcatFacts
      <4>7. ToSet(f[n]) = UNION {ToSet(ss[k]) : k \in 1 .. n}
        BY <4>1, <4>2, <4>5
      <4> QED
        BY <4>5, <4>6, <4>7
    <3> QED
      BY <3>2, <3>3, <3>4
  <2>4. Good(Len(ss))
    <3>1. Len(ss) \in 1 .. Len(ss)
      BY <1>2
    <3> HIDE DEF Good
    <3> QED
      BY <2>3, <3>1
  <2> QED
    BY <2>1, <2>4
<1> QED
  BY <1>1, <1>2

-----------------------------------------------------------------------------
(* Panes that stay where they are.                                         *)

\* The tree t with another pane of the name id.
Put(t, id, pane) == [q \in DOMAIN t |-> IF t[q].id = id THEN pane ELSE t[q]]

\* A pane's new contents change nothing of the tree.
LEMMA PutFacts ==
  ASSUME NEW t, Tree(t), NEW id \in Ids(t), NEW pane, pane.id = id
  PROVE  /\ Tree(Put(t, id, pane)) /\ Ids(Put(t, id, pane)) = Ids(t)
         /\ PaneOf(Put(t, id, pane), id) = pane
         /\ \A other \in Ids(t) \ {id} : PaneOf(Put(t, id, pane), other) = PaneOf(t, other)
<1> DEFINE u == Put(t, id, pane)
<1>1. u = [q \in DOMAIN t |-> IF t[q].id = id THEN pane ELSE t[q]]
  BY DEF Put
<1> HIDE DEF u
<1>2. DOMAIN u = DOMAIN t /\ u = [q \in DOMAIN t |-> u[q]]
  BY <1>1
<1>3. \A q \in DOMAIN t : u[q] = IF t[q].id = id THEN pane ELSE t[q]
  BY <1>1
<1>4. \A q \in DOMAIN t : u[q].id = t[q].id
  BY <1>3
<1>5. /\ Tree(u) /\ Ids(u) = Ids(t)
      /\ \A o \in Ids(t) : PaneOf(u, o) = u[PathOf(t, o)]
  BY <1>2, <1>4, MapFacts
<1>6. \A o \in Ids(t) : PathOf(t, o) \in DOMAIN t /\ t[PathOf(t, o)].id = o /\
    PaneOf(t, o) = t[PathOf(t, o)]
  BY IdFacts DEF PaneOf
<1>7. \A o \in Ids(t) \ {id} : PaneOf(u, o) = PaneOf(t, o)
  BY <1>3, <1>5, <1>6
<1> QED
  BY <1>3, <1>5, <1>6, <1>7 DEF u

\* The tabs of a tree are those of its panes.
LEMMA TabSetFacts ==
  ASSUME NEW t, Tree(t)
  PROVE  \A x : x \in TabSet(t) <=> \E id \in Ids(t) : x \in ToSet(PaneOf(t, id).tabs)
<1>1. \A x : x \in TabSet(t) <=> \E q \in DOMAIN t : x \in ToSet(t[q].tabs)
  BY DEF TabSet
<1>2. /\ \A q \in DOMAIN t : t[q].id \in Ids(t) /\ PaneOf(t, t[q].id) = t[q]
      /\ \A id \in Ids(t) : PathOf(t, id) \in DOMAIN t /\ PaneOf(t, id) = t[PathOf(t, id)]
  BY IdFacts DEF Tree, PaneOf
<1> QED
  BY <1>1, <1>2

\* The tabs of all panes, in the order they are drawn.
LEMMA TabsFacts ==
  ASSUME NEW t, Tree(t), NEW T, \A q \in DOMAIN t : t[q].tabs \in Seq(T) /\ Apart(t[q].tabs),
         \A p, q \in DOMAIN t : p # q => Distinct(t[p].tabs, t[q].tabs)
  PROVE  Tabs(t) \in Seq(T) /\ Apart(Tabs(t)) /\ ToSet(Tabs(t)) = TabSet(t)
<1> DEFINE ls == Leaves(t, <<>>)
           ss == [i \in 1 .. Len(ls) |-> t[ls[i]].tabs]
<1>1. Tabs(t) = FlattenSeq(ss)
  BY DEF Tabs
<1>2. /\ Len(ls) \in Nat
      /\ \A i \in 1 .. Len(ls) : ls[i] \in DOMAIN t
      /\ \A q \in DOMAIN t : \E i \in 1 .. Len(ls) : ls[i] = q
      /\ \A i, j \in 1 .. Len(ls) : ls[i] = ls[j] => i = j
  <2>1. \A q \in DOMAIN t : IsPrefix(<<>>, q)
    BY PrefixFacts, RootFacts, PathFacts DEF Tree, TreeShape
  <2>2. /\ ls \in Seq(DOMAIN t)
        /\ \A q \in DOMAIN t : IsPrefix(<<>>, q) => \E k \in 1 .. Len(ls) : ls[k] = q
        /\ \A i, j \in 1 .. Len(ls) : ls[i] = ls[j] => i = j
    BY LeavesFacts DEF Tree
  <2> HIDE DEF ls
  <2>3. Len(ls) \in Nat /\ \A i \in 1 .. Len(ls) : ls[i] \in DOMAIN t
    BY <2>2
  <2> QED
    BY <2>1, <2>2, <2>3
<1> HIDE DEF ls
<1>3. Len(ss) = Len(ls) /\ ss = [i \in 1 .. Len(ls) |-> ss[i]] /\ \A i \in 1 .. Len(ls) :
    ss[i] = t[ls[i]].tabs
  BY <1>2
<1> HIDE DEF ss
<1>4. /\ FlattenSeq(ss) \in Seq(T) /\ Apart(FlattenSeq(ss))
      /\ ToSet(FlattenSeq(ss)) = UNION {ToSet(ss[i]) : i \in 1 .. Len(ss)}
  <2>1. Len(ss) \in Nat /\ ss = [i \in 1 .. Len(ss) |-> ss[i]]
    BY <1>2, <1>3
  <2>2. \A i \in 1 .. Len(ss) : ss[i] \in Seq(T) /\ Apart(ss[i])
    BY <1>2, <1>3
  <2>3. \A i, j \in 1 .. Len(ss) : i # j => Distinct(ss[i], ss[j])
    BY <1>2, <1>3
  <2> QED
    BY <2>1, <2>2, <2>3, FlattenedTabs
<1>5. UNION {ToSet(ss[i]) : i \in 1 .. Len(ss)} = TabSet(t)
  <2>1. \A x : x \in TabSet(t) <=> \E q \in DOMAIN t : x \in ToSet(t[q].tabs)
    BY DEF TabSet
  <2>2. \A x : x \in UNION {ToSet(ss[i]) : i \in 1 .. Len(ss)} <=>
      \E i \in 1 .. Len(ls) : x \in ToSet(t[ls[i]].tabs)
    BY <1>3
  <2>3. \A x : x \in UNION {ToSet(ss[i]) : i \in 1 .. Len(ss)} <=> x \in TabSet(t)
    BY <1>2, <2>1, <2>2
  <2> QED
    BY <2>3
<1> QED
  BY <1>1, <1>4, <1>5

\* Max, of numbers up to a bound.
LEMMA NumberMax ==
  ASSUME NEW n \in Nat, NEW S \in SUBSET (0 .. n), S # {}
  PROVE  Max(S) \in S /\ \A y \in S : y <= Max(S)
<1> DEFINE U == {m \in Nat : \E x \in S : m = n - x}
<1>1. U # {} /\ U \subseteq Nat
  <2>1. PICK x \in S : TRUE
    OBVIOUS
  <2>2. n - x \in Nat
    BY <2>1
  <2> QED
    BY <2>1, <2>2
<1>2. PICK m \in U : \A k \in U : m <= k
  <2> HIDE DEF U
  <2> QED
    BY <1>1, LeastNumber
<1>3. n - m \in S /\ \A y \in S : y <= n - m
  BY <1>2
<1>4. \E x \in S : \A y \in S : x >= y
  BY <1>3
<1>5. Max(S) \in S /\ \A y \in S : Max(S) >= y
  BY <1>4 DEF Max
<1> QED
  BY <1>5

\* Enough ids: one for each.
LEMMA FreshFacts ==
  ASSUME NEW S, IsFiniteSet(S), NEW I, IsFiniteSet(I), Cardinality(I) >= Cardinality(S)
  PROVE  \E f \in [S -> I] : IsInjective(f)
<1> DEFINE n == Cardinality(S)
           m == Cardinality(I)
<1>1. n \in Nat /\ m \in Nat /\ n <= m
  BY FS_CardinalityType
<1>2. PICK a \in Bijection(1 .. n, S) : TRUE
  BY FS_CardinalityType DEF ExistsBijection
<1>3. PICK b \in Bijection(1 .. m, I) : TRUE
  BY FS_CardinalityType DEF ExistsBijection
<1> HIDE DEF n, m
<1>4. a \in [1 .. n -> S] /\ \A x \in S : \E k \in 1 .. n : a[k] = x
  BY <1>2 DEF Bijection, Surjection
<1>5. b \in [1 .. m -> I] /\ \A k, l \in 1 .. m : b[k] = b[l] => k = l
  BY <1>3 DEF Bijection, Injection, IsInjective
<1> DEFINE at == [x \in S |-> CHOOSE k \in 1 .. n : a[k] = x]
           f == [x \in S |-> b[at[x]]]
<1>6. \A x \in S : at[x] \in 1 .. n /\ a[at[x]] = x
  BY <1>4
<1> HIDE DEF at
<1>7. \A x \in S : at[x] \in 1 .. m
  BY <1>1, <1>6
<1>8. f \in [S -> I]
  BY <1>5, <1>7
<1>9. \A x, y \in S : f[x] = f[y] => x = y
  BY <1>5, <1>6, <1>7
<1>10. IsInjective(f)
  BY <1>9 DEF IsInjective
<1> QED
  BY <1>8, <1>10
=============================================================================
