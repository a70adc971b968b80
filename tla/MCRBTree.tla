------------------------------ MODULE MCRBTree ------------------------------
EXTENDS RBTree

\* A node counts by its place in the order, 0 if it is in no tree: trees that
\* differ in the names of their nodes, or in the fields of nodes that are out,
\* which rbtree_insert() overwrites, are one state.
Shape ==
  LET order == Order
      place == [x \in Nodes \cup {Sentinel, Null} |->
                  IF x \in linked THEN CHOOSE i \in DOMAIN order : order[i] = x ELSE 0]
  IN  <<[i \in DOMAIN order |->
           LET x == order[i]
           IN  <<place[t.child["left"][x]], place[t.child["right"][x]], place[t.parent[x]], x \in t.red, t.key[x]>>],
        place[t.parent[Sentinel]], Sentinel \in t.red>>
=============================================================================
