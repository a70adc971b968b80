------------------------------- MODULE RBTree -------------------------------
(***************************************************************************)
(* rbtree.c in use: its callers insert nodes that are in no tree, delete   *)
(* nodes that are in it, and walk it with rbtree_min() and rbtree_next().  *)
(* The keys are those of timers: the ones in the tree at any time lie in   *)
(* one half of the key circle, which may be the half where they overflow.  *)
(***************************************************************************)
EXTENDS RedBlack

VARIABLES
  t,       \* the tree: the fields of all nodes and of the sentinel
  linked   \* the nodes their owners have inserted and not deleted

treeVars == <<t, linked>>

TreeInit == t = EmptyTree /\ linked = {}

\* "Timer values are spread in small range" (rbtree.c:115).
Near(ks) == \E first \in Keys : \A k \in ks : (k - first) % Circle < Half

KeysOf(xs) == {t.key[x] : x \in xs}

Insert(n, k) ==
  /\ n \notin linked /\ Near(KeysOf(linked) \cup {k})
  /\ t' = RbtreeInsert(t, n, k)
  /\ linked' = linked \cup {n}

Delete(n) ==
  /\ n \in linked
  /\ t' = RbtreeDelete(t, n)
  /\ linked' = linked \ {n}

TreeNext == \E n \in Nodes : Delete(n) \/ \E k \in Keys : Insert(n, k)

TreeSpec == TreeInit /\ [][TreeNext]_treeVars

-----------------------------------------------------------------------------
Kids(x) == {t.child[d][x] : d \in Sides} \ {Sentinel}
Order == InOrder(t)

\* Parents and children agree, whatever was rotated or spliced out before,
\* and the nodes under the root are the ones that were inserted.  The parent
\* field of the root is stale after some deletions, and never read.
LinksOK ==
  /\ LET order == Order
     IN  {order[i] : i \in DOMAIN order} = linked /\ Len(order) = Cardinality(linked)
  /\ \A x \in linked : \A y \in Kids(x) : t.parent[y] = x

\* The balance that the fixups of rbtree_insert() and rbtree_delete() restore:
\* no red node under a red one, as many black nodes on every way down, a black
\* root, and, as rbtree.h says, a black sentinel, which the fixups colour too.
RedBlackOK ==
  /\ t.root \notin t.red /\ Sentinel \notin t.red
  /\ \A x \in t.red \cap linked : Kids(x) \cap t.red = {}
  /\ BlackHeight(t) # -1

\* The walk of event_no_timers_left(), from rbtree_min() along rbtree_next()
\* to NULL, meets every node once, in order.
NextWalks ==
  LET order == Order
  IN  t.root # Sentinel =>
        /\ RbtreeMin(t, t.root) = order[1]
        /\ \A i \in DOMAIN order :
             RbtreeNext(t, order[i]) = IF i = Len(order) THEN Null ELSE order[i + 1]

\* A tree is the sorted list of its nodes, also when the keys have overflowed.
List == LET order == Order IN [i \in 1..Len(order) |-> [node |-> order[i], key |-> t.key[order[i]]]]
Less == {p \in Keys \X Keys : Signed(p[1], p[2]) < 0}

Sorted == INSTANCE SortedList WITH list <- List
ImplementsSortedList == Sorted!Spec
=============================================================================
