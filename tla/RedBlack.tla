------------------------------ MODULE RedBlack ------------------------------
(***************************************************************************)
(* The red-black tree of rbtree.c as operators from the tree before a call *)
(* to the tree after it.  A tree is a record of the nodes' fields; the     *)
(* mirrored halves of the C functions are one definition with a side d.    *)
(*                                                                         *)
(* A loop is a step that is repeated until it changes nothing, at most as  *)
(* often as there are nodes (RBTreeProofs: no loop needs more).            *)
(***************************************************************************)
EXTENDS Integers, FiniteSets, Sequences

CONSTANTS
  Nodes,
  Sentinel,
  Null,
  Half      \* 2^(w-1) for an rbtree_key_t of w bits

ASSUME RedBlackAssumption ==
  /\ IsFiniteSet(Nodes)
  /\ Sentinel \notin Nodes /\ Null \notin Nodes /\ Sentinel # Null
  /\ Half \in Nat \ {0}

Circle == 2 * Half
Keys == 0 .. Circle - 1

\* (rbtree_key_int_t)(a - b), which is signed.
Signed(a, b) == LET diff == (a - b) % Circle IN IF diff < Half THEN diff ELSE diff - Circle

Limit == Cardinality(Nodes)
Sides == {"left", "right"}
Other(d) == IF d = "left" THEN "right" ELSE "left"

EmptyTree == [
  root   |-> Sentinel,
  child  |-> [d \in Sides |-> [x \in Nodes |-> Null]],
  parent |-> [x \in Nodes \cup {Sentinel} |-> Null],
  key    |-> [x \in Nodes |-> 0],
  red    |-> {} ]

Black(t, x) == [t EXCEPT !.red = @ \ {x}]
Red(t, x) == [t EXCEPT !.red = @ \cup {x}]
CopyColor(t, x, y) == IF y \in t.red THEN Red(t, x) ELSE Black(t, x)

SetChild(t, d, x, y) == [t EXCEPT !.child[d][x] = y]
SetChildren(t, x, l, r) == SetChild(SetChild(t, "left", x, l), "right", x, r)
SetParent(t, x, y) == [t EXCEPT !.parent[x] = y]

\* x becomes the parent of y, if that is a node.
Adopt(t, x, y) == IF y = Sentinel THEN t ELSE SetParent(t, y, x)

\* The node below x on the side d, or x if there is none.
Below(t, d, x) == LET y == t.child[d][x] IN IF y = Sentinel THEN x ELSE y

RbtreeMin(t, x) ==
  LET at[i \in 0..Limit] == IF i = 0 THEN x ELSE Below(t, "left", at[i - 1]) IN at[Limit]

\* The side of its parent that x is on.
SideOf(t, x) == IF t.child["left"][t.parent[x]] = x THEN "left" ELSE "right"

\* Put y where x hangs: in the root or under x's parent.
Replace(t, x, y) ==
  IF t.root = x THEN [t EXCEPT !.root = y] ELSE SetChild(t, SideOf(t, x), t.parent[x], y)

\* Faulty variant: the subtree that changes hands keeps its parent.
RotateKeepsParent(t, x, d) ==
  LET y    == t.child[Other(d)][x]
      hung == SetChild(SetChild(Replace(t, x, y), Other(d), x, t.child[d][y]), d, y, x)
  IN  SetParent(SetParent(hung, y, t.parent[x]), x, y)

\* rbtree_left_rotate() for d = "left", rbtree_right_rotate() for d = "right".
Rotate(t, x, d) ==
  LET y     == t.child[Other(d)][x]
      inner == t.child[d][y]
      hung  == SetChild(SetChild(Replace(t, x, y), Other(d), x, inner), d, y, x)
  IN  SetParent(SetParent(Adopt(hung, x, inner), y, t.parent[x]), x, y)

\* Faulty variant: rbtree_insert_value(), which compares keys as numbers.
PlaceByValue(t, k, x) == IF k < t.key[x] THEN "left" ELSE "right"

\* The comparison of rbtree_insert_timer_value(), for keys that overflow.
Place(t, k, x) == IF Signed(k, t.key[x]) < 0 THEN "left" ELSE "right"

Descend(t, k) ==
  LET Down(x) == Below(t, Place(t, k, x), x)
      at[i \in 0..Limit] == IF i = 0 THEN t.root ELSE Down(at[i - 1])
  IN  at[Limit]

\* rbtree_insert_timer_value(): n becomes a red leaf.
InsertLeaf(t, n) ==
  LET above == Descend(t, t.key[n])
      hung  == SetChild(t, Place(t, t.key[n], above), above, n)
  IN  Red(SetChildren(SetParent(hung, n, above), n, Sentinel, Sentinel), n)

\* The turn at the grandparent of low, when both are on the side d, ends the loop.
TurnTop(t, low, d) ==
  LET mid == t.parent[low]
      top == t.parent[mid]
  IN  [t |-> Rotate(Red(Black(t, mid), top), top, Other(d)), n |-> low]

\* One round of the re-balancing loop of rbtree_insert(), on the tree and node.
InsertRound(s) ==
  LET t     == s.t
      n     == s.n
      up    == t.parent[n]
      grand == t.parent[up]
      d     == SideOf(t, up)
      uncle == t.child[Other(d)][grand]
  IN  IF n = t.root \/ up \notin t.red THEN s
      ELSE IF uncle \in t.red THEN [t |-> Red(Black(Black(t, up), uncle), grand), n |-> grand]
      ELSE IF SideOf(t, n) = d THEN TurnTop(t, n, d)
      ELSE TurnTop(Rotate(t, up, d), up, d)

InsertFixup(t, n) ==
  LET at[i \in 0..Limit] == IF i = 0 THEN [t |-> t, n |-> n] ELSE InsertRound(at[i - 1])
      done == at[Limit].t
  IN  Black(done, done.root)

RbtreeInsert(t, n, k) ==
  LET keyed == [t EXCEPT !.key[n] = k]
  IN  IF t.root = Sentinel
      THEN Black(SetChildren(SetParent([keyed EXCEPT !.root = n], n, Null), n, Sentinel, Sentinel), n)
      ELSE InsertFixup(InsertLeaf(keyed, n), n)

\* The sibling of the node that lacks a black one has a red child on the outside.
TurnSibling(t, up, d) ==
  LET w == t.child[Other(d)][up]
      u == Rotate(Black(Black(CopyColor(t, w, up), up), t.child[Other(d)][w]), up, d)
  IN  [t |-> u, n |-> u.root]

\* The sibling is black.
BlackSibling(t, up, d) ==
  LET o == Other(d)
      w == t.child[o][up]
  IN  IF t.child[d][w] \notin t.red /\ t.child[o][w] \notin t.red THEN [t |-> Red(t, w), n |-> up]
      ELSE IF t.child[o][w] \in t.red THEN TurnSibling(t, up, d)
      ELSE TurnSibling(Rotate(Red(Black(t, t.child[d][w]), w), w, o), up, d)

\* One round of the delete fixup: the ways through x have one black node too few.
DeleteRound(s) ==
  LET t  == s.t
      x  == s.n
      up == t.parent[x]
      d  == SideOf(t, x)
      w  == t.child[Other(d)][up]
  IN  IF x = t.root \/ x \in t.red THEN s
      ELSE IF w \in t.red THEN BlackSibling(Rotate(Red(Black(t, w), up), up, d), up, d)
      ELSE BlackSibling(t, up, d)

DeleteFixup(t, x) ==
  LET at[i \in 0..Limit] == IF i = 0 THEN [t |-> t, n |-> x] ELSE DeleteRound(at[i - 1])
  IN  Black(at[Limit].t, at[Limit].n)

\* The fields of a deleted node: "DEBUG stuff" in the code.
Forget(t, n) == [SetChildren(SetParent(t, n, Null), n, Null, Null) EXCEPT !.key[n] = 0]

\* s, which has no other child than x, is taken out; up is the parent for x.
Splice(t, s, x, up) == SetParent(Replace(t, s, x), x, up)

\* subst takes the place of n: its children, its parent, its colour.
TakePlace(t, n, subst) ==
  LET hung  == Replace(t, n, subst)
      l     == hung.child["left"][n]
      r     == hung.child["right"][n]
      given == SetChildren(SetParent(hung, subst, t.parent[n]), subst, l, r)
  IN  CopyColor(Adopt(Adopt(given, subst, l), subst, r), subst, n)

\* n leaves the tree, by way of subst and of its child x.
Unlink(t, n, subst, x) ==
  LET up == t.parent[subst]
  IN  IF subst = n THEN Forget(Splice(t, n, x, up), n)
      ELSE IF up = n THEN Forget(TakePlace(Splice(t, subst, x, subst), n, subst), n)
      ELSE Forget(TakePlace(Splice(t, subst, x, up), n, subst), n)

\* Faulty variant: no fixup when the removed node was black.
RbtreeDeleteNoFixup(t, n) ==
  LET d == IF t.child["left"][n] = Sentinel THEN "right" ELSE "left"
      x == t.child[d][n]
  IN  IF Sentinel \in {t.child["left"][n], t.child["right"][n]}
      THEN Forget(Splice(t, n, x, t.parent[n]), n)
      ELSE t

RbtreeDelete(t, n) ==
  LET one   == Sentinel \in {t.child["left"][n], t.child["right"][n]}
      subst == IF one THEN n ELSE RbtreeMin(t, t.child["right"][n])
      x     == IF t.child["left"][subst] # Sentinel THEN t.child["left"][subst] ELSE t.child["right"][subst]
  IN  IF subst = t.root THEN Forget(Black([t EXCEPT !.root = x], x), n)
      ELSE IF subst \in t.red THEN Unlink(t, n, subst, x)
      ELSE DeleteFixup(Unlink(t, n, subst, x), x)

\* Faulty variant: one step up, from whichever side.
RbtreeNextParent(t, x) ==
  IF t.child["right"][x] # Sentinel THEN RbtreeMin(t, t.child["right"][x])
  ELSE IF x = t.root THEN Null ELSE t.parent[x]

\* rbtree_next(): the least on the right, else up to the first node that x is
\* on the left of.
RbtreeNext(t, x) ==
  LET Top(y) == y = t.root \/ t.child["left"][t.parent[y]] = y
      at[i \in 0..Limit] == IF i = 0 \/ Top(at[i - 1]) THEN (IF i = 0 THEN x ELSE at[i - 1]) ELSE t.parent[at[i - 1]]
      last == at[Limit]
  IN  IF t.child["right"][x] # Sentinel THEN RbtreeMin(t, t.child["right"][x])
      ELSE IF last = t.root THEN Null ELSE t.parent[last]

-----------------------------------------------------------------------------
(* What a tree is, for the properties. *)

\* The nodes under the root, from left to right, as deep as there are nodes.
InOrder(t) ==
  LET under[i \in 0..Limit] ==
        [x \in Nodes \cup {Sentinel, Null} |->
           IF i = 0 \/ x \notin Nodes THEN <<>>
           ELSE under[i - 1][t.child["left"][x]] \o <<x>> \o under[i - 1][t.child["right"][x]]]
  IN  under[Limit][t.root]

\* The black nodes on the way down from the root, -1 if the ways differ.
BlackHeight(t) ==
  LET height[i \in 0..Limit] ==
        [x \in Nodes \cup {Sentinel, Null} |->
           IF i = 0 \/ x \notin Nodes THEN 0
           ELSE LET l == height[i - 1][t.child["left"][x]]
                    r == height[i - 1][t.child["right"][x]]
                IN  IF l = -1 \/ l # r THEN -1 ELSE l + (IF x \in t.red THEN 0 ELSE 1)]
  IN  height[Limit][t.root]
=============================================================================
