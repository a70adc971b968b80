---------------------------- MODULE RBTreeProofs ----------------------------
(***************************************************************************)
(* The red-black tree, for any number of nodes and any width of the keys.  *)
(*                                                                         *)
(* TreeGood(T, S, at) is what a tree T of the nodes S is: at[x] is the     *)
(* place of the node x, from left to right.                                *)
(*                                                                         *)
(*   Shape   D[x] are the nodes of the subtree of x: the child on a side   *)
(*           of x has the part of D[x] on that side of x in the order, and *)
(*           x for its parent                                              *)
(*   Even    bh[x] are the black nodes on every way down from x; a way     *)
(*           through an edge of K has one too few                          *)
(*   FewRed  no red node, but a given one, is the root or under a red one  *)
(*                                                                         *)
(* A rotation changes D, bh and K at two nodes.  The loops are followed    *)
(* round by round, by a set of states for each number of rounds: a loop    *)
(* that has not stopped after i rounds is at a subtree of more than i      *)
(* nodes, so that no loop needs more rounds than there are nodes.          *)
(***************************************************************************)
EXTENDS RBTree, FiniteSetTheorems, SequenceTheorems, WellFoundedInduction, TLAPS

-----------------------------------------------------------------------------
(* Induction, and loops.                                                   *)

\* A set of numbers has a least one.
LEMMA LeastOf ==
  ASSUME NEW S \in SUBSET Nat, S # {}
  PROVE  \E m \in S : \A k \in S : m <= k
<1>0. PICK n \in S : TRUE
  OBVIOUS
<1> DEFINE T == {0..k : k \in {j \in S : j <= n}}
<1>1. T \subseteq SUBSET (0..n)
  OBVIOUS
<1>2. 0..n \in T
  BY <1>0
<1>3. IsFiniteSet(0..n)
  BY <1>0, FS_Interval
<1>4. IsWellFoundedOn(StrictSubsetOrdering(0..n), SUBSET (0..n))
  BY <1>3, FS_StrictSubsetOrderingWellFounded, FS_FiniteSubsetsOfFinite
<1>5. PICK x \in T : \A y \in T : ~(<<y, x>> \in StrictSubsetOrdering(0..n))
  <2> HIDE DEF T
  <2> QED BY <1>1, <1>2, <1>4, WFMin
<1>6. PICK m \in S : m <= n /\ x = 0..m
  OBVIOUS
<1>7. ASSUME NEW k \in S, k < m PROVE FALSE
  <2>1. 0..k \in T
    BY <1>6, <1>7
  <2>2. <<0..k, x>> \in StrictSubsetOrdering(0..n)
    <3>1. 0..k \subseteq 0..m /\ m \in 0..m /\ m \notin 0..k
      BY <1>7
    <3>2. 0..k \in SUBSET (0..n) /\ 0..m \in SUBSET (0..n)
      BY <1>6, <1>7
    <3> QED BY <1>6, <3>1, <3>2 DEF StrictSubsetOrdering
  <2> QED BY <1>5, <2>1, <2>2
<1> QED BY <1>7

\* What a loop keeps from round to round it has in the end.
LEMMA LoopStays ==
  ASSUME NEW N \in Nat, NEW G, NEW at, at[0] \in G[0],
         \A i \in 1..N : at[i - 1] \in G[i - 1] => at[i] \in G[i]
  PROVE  \A i \in 0..N : at[i] \in G[i]
<1> DEFINE Bad == {i \in 0..N : at[i] \notin G[i]}
<1>1. SUFFICES ASSUME Bad # {} PROVE FALSE
  OBVIOUS
<1>2. PICK i \in Bad : \A j \in Bad : i <= j
  <2>1. Bad \in SUBSET Nat
    OBVIOUS
  <2> HIDE DEF Bad
  <2> QED BY <1>1, <2>1, LeastOf
<1>3. i \in 0..N /\ at[i] \notin G[i] /\ i # 0
  BY <1>2
<1>4. i - 1 \in 0..N /\ i \in 1..N /\ ~(i <= i - 1)
  BY <1>3
<1>5. at[i - 1] \in G[i - 1]
  BY <1>2, <1>4
<1> QED BY <1>3, <1>4, <1>5

\* g is what becomes of x, round by round.
Loop(N, f, x, g) == g = [i \in 0..N |-> IF i = 0 THEN x ELSE f[g[i - 1]]]

\* A loop can be run, whatever its rounds are.
LEMMA LoopRuns ==
  ASSUME NEW N \in Nat, NEW f, NEW x, NEW G, x \in G[0],
         \A i \in 1..N : \A s \in G[i - 1] : f[s] \in G[i]
  PROVE  \E g : Loop(N, f, x, g) /\ \A i \in 0..N : g[i] \in G[i]
<1> DEFINE Runs(m, g) ==
             /\ g = [i \in 0..m |-> g[i]] /\ g[0] = x
             /\ \A i \in 1..m : g[i] = f[g[i - 1]]
           Bad == {m \in 0..N : ~\E g : Runs(m, g)}
<1>1. \A m \in 0..N : \E g : Runs(m, g)
  <2>1. SUFFICES ASSUME Bad # {} PROVE FALSE
    OBVIOUS
  <2>2. PICK m \in Bad : \A k \in Bad : m <= k
    <3>1. Bad \in SUBSET Nat
      OBVIOUS
    <3> HIDE DEF Bad
    <3> QED BY <2>1, <3>1, LeastOf
  <2>3. m # 0
    <3>1. Runs(0, [i \in 0..0 |-> x])
      OBVIOUS
    <3> QED BY <3>1, <2>2
  <2>4. m \in 1..N /\ m - 1 \in 0..N /\ ~(m <= m - 1) /\ m - 1 \in 0..(m - 1)
    BY <2>2, <2>3
  <2>5. PICK g : Runs(m - 1, g)
    <3>1. m - 1 \notin Bad
      <4> HIDE DEF Bad
      <4> QED BY <2>2, <2>4
    <3> QED BY <2>4, <3>1
  <2> DEFINE h == [i \in 0..m |-> IF i = m THEN f[g[m - 1]] ELSE g[i]]
  <2>6. h = [i \in 0..m |-> h[i]] /\ h[0] = x
    BY <2>4, <2>5
  <2>7. ASSUME NEW i \in 1..m PROVE h[i] = f[h[i - 1]]
    <3>1. i \in 0..m /\ i - 1 \in 0..m /\ i - 1 # m
      BY <2>4
    <3>2. h[i - 1] = g[i - 1] /\ h[i] = IF i = m THEN f[g[m - 1]] ELSE g[i]
      BY <3>1
    <3>3. i # m => i \in 1..(m - 1)
      BY <2>4
    <3> HIDE DEF h
    <3> QED BY <2>5, <3>2, <3>3
  <2> HIDE DEF h
  <2>8. Runs(m, h)
    BY <2>6, <2>7
  <2> QED BY <2>2, <2>8
<1>2. PICK g : Runs(N, g)
  BY <1>1
<1>3. Loop(N, f, x, g)
  <2>1. g = [i \in 0..N |-> g[i]] /\ g[0] = x /\ \A i \in 1..N : g[i] = f[g[i - 1]]
    BY <1>2
  <2>2. \A i \in 0..N : i # 0 => i \in 1..N
    OBVIOUS
  <2>3. \A i \in 0..N : g[i] = IF i = 0 THEN x ELSE f[g[i - 1]]
    BY <2>1, <2>2
  <2>4. [i \in 0..N |-> g[i]] = [i \in 0..N |-> IF i = 0 THEN x ELSE f[g[i - 1]]]
    BY <2>3
  <2> QED BY <2>1, <2>4 DEF Loop
<1>4. \A i \in 0..N : g[i] \in G[i]
  <2>1. \A i \in 1..N : g[i - 1] \in G[i - 1] => g[i] \in G[i]
    BY <1>2
  <2> QED BY <1>2, <2>1, LoopStays
<1> QED BY <1>3, <1>4

-----------------------------------------------------------------------------
(* The fields that the small operations change.                            *)

\* What a child or the root can be, and what a tree is.
Ends == Nodes \cup {Sentinel}

Trees == [
  root   : Ends,
  child  : [Sides -> [Nodes -> Ends \cup {Null}]],
  parent : [Ends -> Ends \cup {Null}],
  key    : [Nodes -> Keys],
  red    : SUBSET Nodes ]

\* The fields of a tree have their types.
LEMMA TreeFields ==
  ASSUME NEW T \in Trees
  PROVE  /\ T.root \in Ends /\ T.red \subseteq Nodes /\ Sentinel \notin T.red /\ Null \notin T.red
         /\ \A d \in Sides, x \in Nodes : T.child[d][x] \in Ends \cup {Null}
         /\ \A x \in Ends : T.parent[x] \in Ends \cup {Null}
         /\ \A x \in Nodes : T.key[x] \in Keys
BY RedBlackAssumption DEF Trees, Ends

\* One child pointer is written.
LEMMA SetChildOK ==
  ASSUME NEW T \in Trees, NEW d \in Sides, NEW x \in Nodes, NEW y \in Ends \cup {Null}
  PROVE  LET U == SetChild(T, d, x, y)
         IN  /\ U \in Trees /\ U.root = T.root /\ U.parent = T.parent /\ U.key = T.key /\ U.red = T.red
             /\ \A e \in Sides, z \in Nodes : U.child[e][z] = IF e = d /\ z = x THEN y ELSE T.child[e][z]
<1> DEFINE U == SetChild(T, d, x, y)
           c == [T.child EXCEPT ![d][x] = y]
<1>1. T.child \in [Sides -> [Nodes -> Ends \cup {Null}]]
  BY DEF Trees
<1>2. c \in [Sides -> [Nodes -> Ends \cup {Null}]]
  BY <1>1
<1>3. \A e \in Sides, z \in Nodes : c[e][z] = IF e = d /\ z = x THEN y ELSE T.child[e][z]
  BY <1>1
<1>4. U = [T EXCEPT !.child = c]
  BY DEF SetChild, Trees
<1> HIDE DEF c
<1>5. U \in Trees /\ U.root = T.root /\ U.parent = T.parent /\ U.key = T.key /\ U.red = T.red /\ U.child = c
  BY <1>2, <1>4 DEF Trees
<1> QED BY <1>3, <1>5

\* One parent pointer is written.
LEMMA SetParentOK ==
  ASSUME NEW T \in Trees, NEW x \in Ends, NEW y \in Ends \cup {Null}
  PROVE  LET U == SetParent(T, x, y)
         IN  /\ U \in Trees /\ U.root = T.root /\ U.child = T.child /\ U.key = T.key /\ U.red = T.red
             /\ \A z \in Ends : U.parent[z] = IF z = x THEN y ELSE T.parent[z]
<1> DEFINE U == SetParent(T, x, y)
           c == [T.parent EXCEPT ![x] = y]
<1>1. T.parent \in [Ends -> Ends \cup {Null}]
  BY DEF Trees
<1>2. c \in [Ends -> Ends \cup {Null}] /\ \A z \in Ends : c[z] = IF z = x THEN y ELSE T.parent[z]
  BY <1>1
<1>3. U = [T EXCEPT !.parent = c]
  BY DEF SetParent, Trees
<1> HIDE DEF c
<1>4. U \in Trees /\ U.root = T.root /\ U.child = T.child /\ U.key = T.key /\ U.red = T.red /\ U.parent = c
  BY <1>2, <1>3 DEF Trees
<1> QED BY <1>2, <1>4

\* y gets the parent x, if it is a node.
LEMMA AdoptOK ==
  ASSUME NEW T \in Trees, NEW x \in Ends \cup {Null}, NEW y \in Ends
  PROVE  LET U == Adopt(T, x, y)
         IN  /\ U \in Trees /\ U.root = T.root /\ U.child = T.child /\ U.key = T.key /\ U.red = T.red
             /\ \A z \in Ends : U.parent[z] = IF z = y /\ y # Sentinel THEN x ELSE T.parent[z]
<1> DEFINE U == Adopt(T, x, y)
<1>1. CASE y = Sentinel
  BY <1>1 DEF Adopt
<1>2. CASE y # Sentinel
  <2>1. U = SetParent(T, y, x)
    BY <1>2 DEF Adopt
  <2>2. /\ U \in Trees /\ U.root = T.root /\ U.child = T.child /\ U.key = T.key /\ U.red = T.red
        /\ \A z \in Ends : U.parent[z] = IF z = y THEN x ELSE T.parent[z]
    BY <2>1, SetParentOK, Z3
  <2> QED BY <1>2, <2>2
<1> QED BY <1>1, <1>2

\* A node becomes black.
LEMMA BlackOK ==
  ASSUME NEW T \in Trees, NEW x
  PROVE  LET U == Black(T, x)
         IN  /\ U \in Trees /\ U.root = T.root /\ U.child = T.child /\ U.parent = T.parent /\ U.key = T.key
             /\ U.red = T.red \ {x}
BY DEF Black, Trees

\* A node becomes red.
LEMMA RedOK ==
  ASSUME NEW T \in Trees, NEW x \in Nodes
  PROVE  LET U == Red(T, x)
         IN  /\ U \in Trees /\ U.root = T.root /\ U.child = T.child /\ U.parent = T.parent /\ U.key = T.key
             /\ U.red = T.red \cup {x}
BY DEF Red, Trees

\* The colour of y is given to x.
LEMMA CopyColorOK ==
  ASSUME NEW T \in Trees, NEW x \in Nodes, NEW y
  PROVE  LET U == CopyColor(T, x, y)
         IN  /\ U \in Trees /\ U.root = T.root /\ U.child = T.child /\ U.parent = T.parent /\ U.key = T.key
             /\ \A z : z \in U.red <=> IF z = x THEN y \in T.red ELSE z \in T.red
<1> DEFINE U == CopyColor(T, x, y)
<1>1. CASE y \in T.red
  <2>1. U = Red(T, x)
    BY <1>1 DEF CopyColor
  <2> QED BY <1>1, <2>1, RedOK
<1>2. CASE y \notin T.red
  <2>1. U = Black(T, x)
    BY <1>2 DEF CopyColor
  <2> QED BY <1>2, <2>1, BlackOK
<1> QED BY <1>1, <1>2

\* The root is written.
LEMMA SetRootOK ==
  ASSUME NEW T \in Trees, NEW y \in Ends
  PROVE  LET U == [T EXCEPT !.root = y]
         IN  /\ U \in Trees /\ U.root = y /\ U.child = T.child /\ U.parent = T.parent /\ U.key = T.key
             /\ U.red = T.red
BY DEF Trees

\* A key is written.
LEMMA SetKeyOK ==
  ASSUME NEW T \in Trees, NEW x \in Nodes, NEW k \in Keys
  PROVE  LET U == [T EXCEPT !.key[x] = k]
         IN  /\ U \in Trees /\ U.root = T.root /\ U.child = T.child /\ U.parent = T.parent /\ U.red = T.red
             /\ \A z \in Nodes : U.key[z] = IF z = x THEN k ELSE T.key[z]
<1> DEFINE U == [T EXCEPT !.key[x] = k]
           c == [T.key EXCEPT ![x] = k]
<1>1. T.key \in [Nodes -> Keys]
  BY DEF Trees
<1>2. c \in [Nodes -> Keys] /\ \A z \in Nodes : c[z] = IF z = x THEN k ELSE T.key[z]
  BY <1>1
<1>3. U = [T EXCEPT !.key = c]
  BY DEF Trees
<1> HIDE DEF c
<1>4. U \in Trees /\ U.root = T.root /\ U.child = T.child /\ U.parent = T.parent /\ U.red = T.red /\ U.key = c
  BY <1>2, <1>3 DEF Trees
<1> QED BY <1>2, <1>4

\* Both child pointers of a node are written.
LEMMA SetChildrenOK ==
  ASSUME NEW T \in Trees, NEW x \in Nodes, NEW l \in Ends \cup {Null}, NEW r \in Ends \cup {Null}
  PROVE  LET U == SetChildren(T, x, l, r)
         IN  /\ U \in Trees /\ U.root = T.root /\ U.parent = T.parent /\ U.key = T.key /\ U.red = T.red
             /\ \A e \in Sides, z \in Nodes :
                  U.child[e][z] = IF z = x THEN IF e = "left" THEN l ELSE r ELSE T.child[e][z]
<1> DEFINE U == SetChildren(T, x, l, r)
           U1 == SetChild(T, "left", x, l)
<1>1. "left" \in Sides /\ "right" \in Sides /\ \A e \in Sides : e # "left" <=> e = "right"
  BY DEF Sides
<1>2. U = SetChild(U1, "right", x, r)
  BY DEF SetChildren
<1>3. /\ U1 \in Trees /\ U1.root = T.root /\ U1.parent = T.parent /\ U1.key = T.key /\ U1.red = T.red
      /\ \A e \in Sides, z \in Nodes : U1.child[e][z] = IF e = "left" /\ z = x THEN l ELSE T.child[e][z]
  BY <1>1, SetChildOK
<1> HIDE DEF U1
<1>4. /\ U \in Trees /\ U.root = U1.root /\ U.parent = U1.parent /\ U.key = U1.key /\ U.red = U1.red
      /\ \A e \in Sides, z \in Nodes : U.child[e][z] = IF e = "right" /\ z = x THEN r ELSE U1.child[e][z]
  <2>1. U1 \in Trees /\ "right" \in Sides
    BY <1>1, <1>3
  <2> QED BY <1>2, <2>1, SetChildOK
<1>5. ASSUME NEW e \in Sides, NEW z \in Nodes
      PROVE  U.child[e][z] = IF z = x THEN IF e = "left" THEN l ELSE r ELSE T.child[e][z]
  BY <1>1, <1>3, <1>4
<1> QED BY <1>3, <1>4, <1>5

-----------------------------------------------------------------------------
(* What the pointers of a tree stand for.                                  *)

\* z is on the side d of x in the order `at`.
Toward(at, d, z, x) == IF d = "left" THEN at[z] < at[x] ELSE at[x] < at[z]

\* The order has a place for every node.
Ordered(S, at) == \A x \in S : at[x] \in Int /\ \A y \in S : at[x] = at[y] => x = y

\* D[y] are the nodes of the subtree of y: on the side d, x has the part of its
\* own that lies there in the order.
Under(T, S, at, D, x, d) ==
  IF T.child[d][x] = Sentinel THEN \A z \in D[x] : ~Toward(at, d, z, x)
  ELSE /\ T.child[d][x] \in S /\ T.parent[T.child[d][x]] = x
       /\ \A z \in S : z \in D[T.child[d][x]] <=> z \in D[x] /\ Toward(at, d, z, x)

\* T is a tree of the nodes S, whose order from left to right is that of `at`.
Shape(T, S, at, D) ==
  /\ T \in Trees /\ S \subseteq Nodes /\ Ordered(S, at)
  /\ \A x \in S : D[x] \subseteq S /\ x \in D[x]
  /\ \A x \in S, d \in Sides : Under(T, S, at, D, x, d)
  /\ IF S = {} THEN T.root = Sentinel ELSE T.root \in S /\ D[T.root] = S

\* There are two sides.
LEMMA SidesOK ==
  /\ "left" \in Sides /\ "right" \in Sides
  /\ \A d \in Sides : /\ Other(d) \in Sides /\ Other(d) # d /\ Other(Other(d)) = d
                      /\ \A e \in Sides : e = d \/ e = Other(d)
BY DEF Sides, Other

\* Nodes, the sentinel and NULL are told apart.
LEMMA EndsOK ==
  /\ Sentinel \in Ends /\ Nodes \subseteq Ends /\ Null \notin Ends /\ Sentinel \notin Nodes
  /\ \A x \in Ends : x # Sentinel => x \in Nodes
BY RedBlackAssumption DEF Ends

\* The order is one.
LEMMA TowardOK ==
  ASSUME NEW S, NEW at, Ordered(S, at), NEW d \in Sides
  PROVE  /\ \A a \in S : ~Toward(at, d, a, a)
         /\ \A a, b \in S : a # b => Toward(at, d, a, b) \/ Toward(at, d, b, a)
         /\ \A a, b \in S : Toward(at, Other(d), a, b) <=> Toward(at, d, b, a)
         /\ \A a, b, c \in S : Toward(at, d, a, b) /\ Toward(at, d, b, c) => Toward(at, d, a, c)
<1>1. \A a \in S : at[a] \in Int
  BY DEF Ordered
<1>2. d = "left" \/ d = "right"
  BY DEF Sides
<1>3. \A a, b \in S : a # b => Toward(at, d, a, b) \/ Toward(at, d, b, a)
  BY <1>1, <1>2 DEF Toward, Ordered
<1>4. \A a, b \in S : Toward(at, Other(d), a, b) <=> Toward(at, d, b, a)
  BY <1>1, <1>2 DEF Toward, Other
<1>5. \A a, b, c \in S : Toward(at, d, a, b) /\ Toward(at, d, b, c) => Toward(at, d, a, c)
  BY <1>1, <1>2 DEF Toward
<1>6. \A a \in S : ~Toward(at, d, a, a)
  BY <1>1, <1>2 DEF Toward
<1> QED BY <1>3, <1>4, <1>5, <1>6

\* A set that lacks an element of another one is smaller.
LEMMA Smaller ==
  ASSUME NEW A, NEW B, IsFiniteSet(B), A \subseteq B, NEW x \in B, x \notin A
  PROVE  /\ IsFiniteSet(A) /\ Cardinality(A) \in Nat /\ Cardinality(B) \in Nat
         /\ Cardinality(A) < Cardinality(B)
<1>1. IsFiniteSet(A) /\ Cardinality(A) \in Nat /\ Cardinality(B) \in Nat
  BY FS_Subset, FS_CardinalityType
<1>2. A \cup {x} \subseteq B /\ Cardinality(A \cup {x}) = Cardinality(A) + 1
  BY <1>1, FS_AddElement
<1>3. Cardinality(A \cup {x}) <= Cardinality(B)
  BY <1>2, FS_Subset
<1> QED BY <1>1, <1>2, <1>3

\* What a child is.
LEMMA ChildOK ==
  ASSUME NEW T, NEW S, NEW at, NEW D, Shape(T, S, at, D), NEW x \in S, NEW d \in Sides
  PROVE  /\ T.child[d][x] \in Ends /\ T.child[d][x] # x /\ x \in Nodes
         /\ T.child[d][x] = Sentinel => \A z \in D[x] : ~Toward(at, d, z, x)
         /\ T.child[d][x] # Sentinel =>
              /\ T.child[d][x] \in S /\ T.parent[T.child[d][x]] = x
              /\ \A z \in S : z \in D[T.child[d][x]] <=> z \in D[x] /\ Toward(at, d, z, x)
              /\ T.child[d][x] \in D[x] /\ Toward(at, d, T.child[d][x], x)
              /\ D[T.child[d][x]] \subseteq D[x] /\ x \notin D[T.child[d][x]]
<1> DEFINE y == T.child[d][x]
<1>1. x \in Nodes /\ S \subseteq Ends /\ Ordered(S, at) /\ Under(T, S, at, D, x, d)
      /\ x \in D[x] /\ D[x] \subseteq S
  BY EndsOK DEF Shape
<1>2. x # Sentinel /\ Sentinel \in Ends
  BY <1>1, EndsOK
<1>3. y = Sentinel => \A z \in D[x] : ~Toward(at, d, z, x)
  BY <1>1 DEF Under
<1>4. y # Sentinel => /\ y \in S /\ T.parent[y] = x
                      /\ \A z \in S : z \in D[y] <=> z \in D[x] /\ Toward(at, d, z, x)
  BY <1>1 DEF Under
<1>5. y # Sentinel => y \in D[y] /\ D[y] \subseteq S
  BY <1>4 DEF Shape
<1>6. ~Toward(at, d, x, x)
  BY <1>1, TowardOK
<1> HIDE DEF y
<1>7. y # Sentinel => /\ y \in D[x] /\ Toward(at, d, y, x) /\ D[y] \subseteq D[x] /\ x \notin D[y]
  BY <1>4, <1>5, <1>6
<1>8. y \in Ends /\ y # x
  BY <1>1, <1>2, <1>4, <1>6, <1>7
<1> QED BY <1>1, <1>3, <1>4, <1>7, <1>8 DEF y

\* The least of a measure.
LEMMA LeastBy ==
  ASSUME NEW A, A # {}, NEW f, \A x \in A : f[x] \in Nat
  PROVE  \E x \in A : \A y \in A : f[x] <= f[y]
<1> DEFINE M == {f[x] : x \in A}
<1>1. M \in SUBSET Nat /\ M # {}
  OBVIOUS
<1> HIDE DEF M
<1>2. PICK m \in M : \A k \in M : m <= k
  BY <1>1, LeastOf
<1> QED BY <1>2 DEF M

\* A set of nodes is finite, and so is the part of it in a subtree.
LEMMA Finite ==
  ASSUME NEW T, NEW S, NEW at, NEW D, Shape(T, S, at, D)
  PROVE  /\ IsFiniteSet(S) /\ Cardinality(S) \in Nat /\ Cardinality(S) <= Limit /\ Limit \in Nat
         /\ \A x \in S : /\ IsFiniteSet(D[x]) /\ Cardinality(D[x]) \in Nat
                         /\ 1 <= Cardinality(D[x]) /\ Cardinality(D[x]) <= Limit
<1>1. IsFiniteSet(Nodes) /\ Limit = Cardinality(Nodes) /\ Limit \in Nat
  BY RedBlackAssumption, FS_CardinalityType DEF Limit
<1>2. S \subseteq Nodes
  BY DEF Shape
<1>3. IsFiniteSet(S) /\ Cardinality(S) \in Nat /\ Cardinality(S) <= Limit
  BY <1>1, <1>2, FS_Subset, FS_CardinalityType
<1>4. ASSUME NEW x \in S
      PROVE  /\ IsFiniteSet(D[x]) /\ Cardinality(D[x]) \in Nat
             /\ 1 <= Cardinality(D[x]) /\ Cardinality(D[x]) <= Limit
  <2>1. D[x] \subseteq Nodes /\ x \in D[x]
    BY <1>2 DEF Shape
  <2>2. IsFiniteSet(D[x]) /\ Cardinality(D[x]) \in Nat /\ Cardinality(D[x]) <= Limit
    BY <1>1, <2>1, FS_Subset, FS_CardinalityType
  <2>3. Cardinality(D[x]) # 0
    BY <2>1, <2>2, FS_EmptySet
  <2> QED BY <2>2, <2>3
<1> QED BY <1>1, <1>3, <1>4

\* The subtree of a child is smaller.
LEMMA ChildSmaller ==
  ASSUME NEW T, NEW S, NEW at, NEW D, Shape(T, S, at, D), NEW x \in S, NEW d \in Sides,
         T.child[d][x] # Sentinel
  PROVE  Cardinality(D[T.child[d][x]]) < Cardinality(D[x])
<1> DEFINE y == T.child[d][x]
<1>1. D[y] \subseteq D[x] /\ x \notin D[y] /\ IsFiniteSet(D[x]) /\ x \in D[x]
  <2>1. x \in D[x]
    BY DEF Shape
  <2> QED BY <2>1, ChildOK, Finite
<1> HIDE DEF y
<1>2. Cardinality(D[y]) < Cardinality(D[x])
  BY <1>1, Smaller
<1> QED BY <1>2 DEF y

\* No node is the child of two, or on both sides of one, and the root of none.
LEMMA OneParent ==
  ASSUME NEW T, NEW S, NEW at, NEW D, Shape(T, S, at, D), NEW a \in S, NEW f \in Sides,
         T.child[f][a] # Sentinel
  PROVE  /\ T.child[f][a] # T.root
         /\ \A b \in S, e \in Sides : T.child[e][b] = T.child[f][a] => b = a /\ e = f
<1> DEFINE y == T.child[f][a]
<1>1. y \in S /\ T.parent[y] = a /\ y \in D[a] /\ Toward(at, f, y, a) /\ a \notin D[y]
  BY ChildOK
<1> HIDE DEF y
<1>2. y # T.root
  <2>1. S # {}
    OBVIOUS
  <2> QED BY <1>1, <2>1 DEF Shape
<1>3. ASSUME NEW b \in S, NEW e \in Sides, T.child[e][b] = y PROVE b = a /\ e = f
  <2>1. y # Sentinel
    BY DEF y
  <2>2. T.parent[y] = b /\ Toward(at, e, y, b)
    BY <1>3, <2>1, ChildOK
  <2>3. b = a
    BY <1>1, <2>2
  <2>4. e = f \/ e = Other(f)
    BY SidesOK
  <2>5. Ordered(S, at)
    BY DEF Shape
  <2>6. ~Toward(at, Other(f), y, a)
    BY <1>1, <2>5, TowardOK
  <2> QED BY <2>2, <2>3, <2>4, <2>6
<1> QED BY <1>2, <1>3 DEF y

\* Every node but the root hangs under its parent.
LEMMA HasParent ==
  ASSUME NEW T, NEW S, NEW at, NEW D, Shape(T, S, at, D), NEW x \in S, x # T.root
  PROVE  /\ T.parent[x] \in S /\ SideOf(T, x) \in Sides /\ T.child[SideOf(T, x)][T.parent[x]] = x
         /\ T.parent[x] # x /\ x # Sentinel
         /\ \A a \in S, f \in Sides : T.child[f][a] = x => a = T.parent[x] /\ f = SideOf(T, x)
<1> DEFINE Above == {p \in S : p # x /\ x \in D[p]}
           size == [p \in S |-> Cardinality(D[p])]
<1>1. T.root \in Above
  <2>1. S # {}
    OBVIOUS
  <2> QED BY <2>1 DEF Shape
<1>2. \A p \in Above : p \in S /\ size[p] \in Nat
  BY Finite
<1> HIDE DEF Above, size
<1>3. PICK p \in Above : \A q \in Above : size[p] <= size[q]
  BY <1>1, <1>2, LeastBy
<1>4. p \in S /\ p # x /\ x \in D[p] /\ Ordered(S, at)
  BY DEF Above, Shape
<1>5. PICK e \in Sides : Toward(at, e, x, p)
  <2>1. Toward(at, "left", x, p) \/ Toward(at, "left", p, x)
    BY <1>4, SidesOK, TowardOK
  <2>2. Toward(at, "left", p, x) => Toward(at, Other("left"), x, p)
    BY <1>4, SidesOK, TowardOK
  <2> QED BY <2>1, <2>2, SidesOK
<1> DEFINE y == T.child[e][p]
<1>6. y # Sentinel
  BY <1>4, <1>5, ChildOK
<1>7. y \in S /\ x \in D[y] /\ T.parent[y] = p
  BY <1>4, <1>5, <1>6, ChildOK
<1>8. Cardinality(D[y]) < Cardinality(D[p])
  BY <1>4, <1>6, ChildSmaller
<1> HIDE DEF y
<1>9. y = x
  <2>1. size[y] < size[p] /\ size[y] \in Int /\ size[p] \in Int
    BY <1>4, <1>7, <1>8, Finite DEF size
  <2>2. y \notin Above
    BY <1>3, <2>1
  <2> QED BY <1>7, <2>2 DEF Above
<1>10. T.parent[x] = p /\ T.child[e][p] = x
  BY <1>7, <1>9 DEF y
<1>11. x # Sentinel
  BY <1>6, <1>9
<1>12. \A a \in S, f \in Sides : T.child[f][a] = x => a = p /\ f = e
  BY <1>4, <1>10, <1>11, OneParent
<1>13. SideOf(T, x) = e
  <2>1. e = "left" \/ e = "right"
    BY DEF Sides
  <2>2. T.child["left"][p] = x => e = "left"
    BY <1>4, <1>12, SidesOK
  <2> QED BY <1>10, <2>1, <2>2 DEF SideOf
<1> QED BY <1>4, <1>10, <1>11, <1>12, <1>13

-----------------------------------------------------------------------------
(* Rotations. *)

\* y takes the place of x under its parent, or as the root.
LEMMA ReplaceOK ==
  ASSUME NEW T, NEW S, NEW at, NEW D, Shape(T, S, at, D), NEW x \in S, NEW y \in Ends
  PROVE  LET U == Replace(T, x, y)
         IN  /\ U \in Trees /\ U.parent = T.parent /\ U.key = T.key /\ U.red = T.red
             /\ U.root = IF x = T.root THEN y ELSE T.root
             /\ \A e \in Sides, z \in S : U.child[e][z] = IF T.child[e][z] = x THEN y ELSE T.child[e][z]
<1> DEFINE U == Replace(T, x, y)
<1>1. T \in Trees /\ S \subseteq Nodes /\ x # Sentinel
  BY EndsOK DEF Shape
<1>2. CASE x = T.root
  <2>1. U = [T EXCEPT !.root = y]
    BY <1>2 DEF Replace
  <2>2. U \in Trees /\ U.root = y /\ U.child = T.child /\ U.parent = T.parent /\ U.key = T.key /\ U.red = T.red
    BY <1>1, <2>1, SetRootOK
  <2>3. \A e \in Sides, z \in S : T.child[e][z] # x
    BY <1>1, <1>2, OneParent
  <2> QED BY <1>2, <2>2, <2>3
<1>3. CASE x # T.root
  <2> DEFINE d == SideOf(T, x)
             p == T.parent[x]
  <2>1. /\ p \in S /\ d \in Sides /\ T.child[d][p] = x
        /\ \A e \in Sides, z \in S : T.child[e][z] = x => z = p /\ e = d
    BY <1>3, HasParent
  <2>2. U = SetChild(T, d, p, y)
    BY <1>3 DEF Replace
  <2> HIDE DEF d, p
  <2>3. p \in Nodes /\ y \in Ends \cup {Null}
    BY <1>1, <2>1
  <2>4. /\ U \in Trees /\ U.root = T.root /\ U.parent = T.parent /\ U.key = T.key /\ U.red = T.red
        /\ \A e \in Sides, z \in Nodes : U.child[e][z] = IF e = d /\ z = p THEN y ELSE T.child[e][z]
    BY <1>1, <2>1, <2>2, <2>3, SetChildOK
  <2> QED BY <1>1, <1>3, <2>1, <2>4
<1> QED BY <1>2, <1>3

\* A rotation, with names for the two nodes that come up or change hands.
Turn(T, x, d, y, inner) ==
  LET hung == SetChild(SetChild(Replace(T, x, y), Other(d), x, inner), d, y, x)
  IN  SetParent(SetParent(Adopt(hung, x, inner), y, T.parent[x]), x, y)

\* A rotation is the turn of the links around two nodes.
LEMMA RotateIsTurn ==
  ASSUME NEW T, NEW x, NEW d
  PROVE  Rotate(T, x, d) = Turn(T, x, d, T.child[Other(d)][x], T.child[d][T.child[Other(d)][x]])
BY DEF Rotate, Turn

\* The pointers after a rotation: y comes up for x, and gives it its inner child.
LEMMA RotateFields ==
  ASSUME NEW T, NEW S, NEW at, NEW D, Shape(T, S, at, D), NEW x \in S, NEW d \in Sides,
         NEW y, y = T.child[Other(d)][x], y # Sentinel, NEW inner, inner = T.child[d][y]
  PROVE  LET U == Rotate(T, x, d)
         IN  /\ U \in Trees /\ U.key = T.key /\ U.red = T.red
             /\ U.root = IF x = T.root THEN y ELSE T.root
             /\ \A e \in Sides, z \in S :
                  U.child[e][z] = IF z = x /\ e = Other(d) THEN inner
                                  ELSE IF z = y /\ e = d THEN x
                                  ELSE IF T.child[e][z] = x THEN y ELSE T.child[e][z]
             /\ \A z \in Ends :
                  U.parent[z] = IF z = x THEN y ELSE IF z = y THEN T.parent[x]
                                ELSE IF z = inner /\ inner # Sentinel THEN x ELSE T.parent[z]
<1> DEFINE U == Rotate(T, x, d)
           o == Other(d)
           R == Replace(T, x, y)
           A == SetChild(R, o, x, inner)
           B == SetChild(A, d, y, x)
           C == Adopt(B, x, inner)
           E == SetParent(C, y, T.parent[x])
<1>1. T \in Trees /\ S \subseteq Nodes /\ S \subseteq Ends
  BY EndsOK DEF Shape
<1>2. o \in Sides /\ o # d
  BY SidesOK
<1>3. y \in S /\ y # x /\ inner \in Ends /\ inner # y
  <2>1. y \in S /\ y # x
    BY <1>2, ChildOK
  <2> QED BY <2>1, ChildOK
<1>4. U = SetParent(E, x, y)
  <2>1. U = Turn(T, x, d, y, inner)
    BY RotateIsTurn
  <2> QED BY <2>1 DEF Turn
<1>5. /\ R \in Trees /\ R.parent = T.parent /\ R.key = T.key /\ R.red = T.red
      /\ R.root = IF x = T.root THEN y ELSE T.root
      /\ \A e \in Sides, z \in S : R.child[e][z] = IF T.child[e][z] = x THEN y ELSE T.child[e][z]
  BY <1>1, <1>3, ReplaceOK, SMTT(30)
<1> HIDE DEF R, o
<1>6. /\ A \in Trees /\ A.root = R.root /\ A.parent = R.parent /\ A.key = R.key /\ A.red = R.red
      /\ \A e \in Sides, z \in Nodes : A.child[e][z] = IF e = o /\ z = x THEN inner ELSE R.child[e][z]
  <2>1. x \in Nodes /\ inner \in Ends \cup {Null}
    BY <1>1, <1>3
  <2> QED BY <1>2, <1>5, <2>1, SetChildOK
<1> HIDE DEF A
<1>7. /\ B \in Trees /\ B.root = A.root /\ B.parent = A.parent /\ B.key = A.key /\ B.red = A.red
      /\ \A e \in Sides, z \in Nodes : B.child[e][z] = IF e = d /\ z = y THEN x ELSE A.child[e][z]
  <2>1. y \in Nodes /\ x \in Ends \cup {Null}
    BY <1>1, <1>3
  <2> QED BY <1>6, <2>1, SetChildOK
<1> HIDE DEF B
<1>8. /\ C \in Trees /\ C.root = B.root /\ C.child = B.child /\ C.key = B.key /\ C.red = B.red
      /\ \A z \in Ends : C.parent[z] = IF z = inner /\ inner # Sentinel THEN x ELSE B.parent[z]
  <2>1. B \in Trees /\ x \in Ends \cup {Null} /\ inner \in Ends /\ C = Adopt(B, x, inner)
    BY <1>1, <1>3, <1>7
  <2> QED BY <2>1, AdoptOK
<1> HIDE DEF C
<1>9. /\ E \in Trees /\ E.root = C.root /\ E.child = C.child /\ E.key = C.key /\ E.red = C.red
      /\ \A z \in Ends : E.parent[z] = IF z = y THEN T.parent[x] ELSE C.parent[z]
  <2>1. T.parent[x] \in Ends \cup {Null} /\ y \in Ends
    BY <1>1, <1>3, TreeFields
  <2> QED BY <1>8, <2>1, SetParentOK, ZenonT(30)
<1> HIDE DEF E
<1>10. /\ U \in Trees /\ U.root = E.root /\ U.child = E.child /\ U.key = E.key /\ U.red = E.red
       /\ \A z \in Ends : U.parent[z] = IF z = x THEN y ELSE E.parent[z]
  <2> DEFINE V == SetParent(E, x, y)
  <2>1. x \in Ends /\ y \in Ends \cup {Null}
    BY <1>1, <1>3
  <2>2. /\ V \in Trees /\ V.root = E.root /\ V.child = E.child /\ V.key = E.key /\ V.red = E.red
        /\ \A z \in Ends : V.parent[z] = IF z = x THEN y ELSE E.parent[z]
    BY <1>9, <2>1, SetParentOK, Zenon
  <2>3. U = V
    BY <1>4
  <2> HIDE DEF U, V
  <2> QED BY <2>2, <2>3
<1> HIDE DEF U
<1>11. U \in Trees /\ U.key = T.key /\ U.red = T.red /\ U.root = IF x = T.root THEN y ELSE T.root
  BY <1>5, <1>6, <1>7, <1>8, <1>9, <1>10
<1>12. U.child = B.child
  BY <1>8, <1>9, <1>10
<1>13. ASSUME NEW e \in Sides, NEW z \in S
       PROVE  U.child[e][z] = IF z = x /\ e = o THEN inner
                              ELSE IF z = y /\ e = d THEN x
                              ELSE IF T.child[e][z] = x THEN y ELSE T.child[e][z]
  <2>1. z \in Nodes
    BY <1>1
  <2>2. U.child[e][z] = IF e = d /\ z = y THEN x ELSE A.child[e][z]
    BY <1>7, <1>12, <2>1
  <2>3. A.child[e][z] = IF e = o /\ z = x THEN inner ELSE R.child[e][z]
    BY <1>6, <2>1
  <2> QED BY <1>3, <1>5, <2>2, <2>3
<1>14. ASSUME NEW z \in Ends
       PROVE  U.parent[z] = IF z = x THEN y ELSE IF z = y THEN T.parent[x]
                            ELSE IF z = inner /\ inner # Sentinel THEN x ELSE T.parent[z]
  <2>1. B.parent = T.parent
    BY <1>5, <1>6, <1>7
  <2> QED BY <1>8, <1>9, <1>10, <2>1
<1> QED BY <1>11, <1>13, <1>14 DEF o, U

\* The shape does not depend on keys and colours.
LEMMA SameShape ==
  ASSUME NEW T, NEW S, NEW at, NEW D, Shape(T, S, at, D),
         NEW U \in Trees, U.root = T.root, U.child = T.child, U.parent = T.parent
  PROVE  Shape(U, S, at, D)
BY DEF Shape, Under

\* The nodes of the subtrees after y has come up for x.
Turned(S, at, D, x, d, y) ==
  [z \in S |-> IF z = y THEN D[x] ELSE IF z = x THEN {w \in D[x] : Toward(at, d, w, y)} ELSE D[z]]

\* A rotation leaves the order as it is.
LEMMA RotateShape ==
  ASSUME NEW T, NEW S, NEW at, NEW D, Shape(T, S, at, D), NEW x \in S, NEW d \in Sides,
         T.child[Other(d)][x] # Sentinel
  PROVE  Shape(Rotate(T, x, d), S, at, Turned(S, at, D, x, d, T.child[Other(d)][x]))
<1> DEFINE o == Other(d)
           y == T.child[o][x]
           inner == T.child[d][y]
           U == Rotate(T, x, d)
           E == Turned(S, at, D, x, d, y)
<1>1. o \in Sides /\ o # d /\ Other(o) = d /\ \A e \in Sides : e = d \/ e = o
  BY SidesOK
<1>2. /\ y \in S /\ y # x /\ y # Sentinel /\ y \in D[x] /\ Toward(at, o, y, x) /\ x \notin D[y]
      /\ \A z \in S : z \in D[y] <=> z \in D[x] /\ Toward(at, o, z, x)
      /\ D[y] \subseteq D[x] /\ T.parent[y] = x
  BY <1>1, ChildOK
<1>3. /\ U \in Trees /\ U.root = IF x = T.root THEN y ELSE T.root
      /\ \A e \in Sides, z \in S :
           U.child[e][z] = IF z = x /\ e = o THEN inner
                           ELSE IF z = y /\ e = d THEN x
                           ELSE IF T.child[e][z] = x THEN y ELSE T.child[e][z]
      /\ \A z \in Ends :
           U.parent[z] = IF z = x THEN y ELSE IF z = y THEN T.parent[x]
                         ELSE IF z = inner /\ inner # Sentinel THEN x ELSE T.parent[z]
  BY <1>2, RotateFields
<1>4. /\ S \subseteq Nodes /\ S \subseteq Ends /\ Sentinel \notin S /\ Ordered(S, at)
      /\ \A z \in S : D[z] \subseteq S /\ z \in D[z]
  BY EndsOK DEF Shape
<1>5. /\ \A z \in S : E[z] \subseteq S
      /\ E[y] = D[x] /\ \A w \in S : w \in E[x] <=> w \in D[x] /\ Toward(at, d, w, y)
      /\ \A z \in S : z # x /\ z # y => E[z] = D[z]
  BY <1>2, <1>4 DEF Turned
<1>6. inner # Sentinel => /\ inner \in S /\ inner # y /\ inner # x /\ T.parent[inner] = y
                          /\ \A z \in S : z \in D[inner] <=> z \in D[y] /\ Toward(at, d, z, y)
  <2>1. inner # Sentinel => inner \in S /\ inner # y /\ T.parent[inner] = y /\ inner \in D[y]
                            /\ \A z \in S : z \in D[inner] <=> z \in D[y] /\ Toward(at, d, z, y)
    BY <1>2, ChildOK
  <2> HIDE DEF inner
  <2> QED BY <1>2, <2>1
<1>7. inner = Sentinel => \A z \in D[y] : ~Toward(at, d, z, y)
  BY <1>2, ChildOK
<1>8. \A e \in Sides, z \in S :
        /\ T.child[e][z] = x => /\ z # x /\ z # y /\ T.parent[x] = z /\ x # T.root
                                /\ \A w \in S : w \in D[x] <=> w \in D[z] /\ Toward(at, e, w, z)
        /\ T.child[e][z] = y => z = x /\ e = o
  <2> TAKE e \in Sides, z \in S
  <2>1. ASSUME T.child[e][z] = x
        PROVE  /\ z # x /\ z # y /\ T.parent[x] = z /\ x # T.root
               /\ \A w \in S : w \in D[x] <=> w \in D[z] /\ Toward(at, e, w, z)
    <3>1. T.child[e][z] # Sentinel
      BY <1>4, <2>1
    <3>2. /\ T.parent[x] = z /\ z # x /\ x \in D[z]
          /\ \A w \in S : w \in D[x] <=> w \in D[z] /\ Toward(at, e, w, z)
      BY <2>1, <3>1, ChildOK
    <3>3. x # T.root
      BY <2>1, <3>1, OneParent
    <3> QED BY <1>2, <3>2, <3>3
  <2>2. ASSUME T.child[e][z] = y PROVE z = x /\ e = o
    BY <1>1, <1>2, <2>2, OneParent
  <2> QED BY <2>1, <2>2
<1> HIDE DEF o, y, inner, U, E
<1>9. /\ \A a \in S : ~Toward(at, d, a, a) /\ ~Toward(at, o, a, a)
      /\ \A a, b \in S : Toward(at, o, a, b) <=> Toward(at, d, b, a)
      /\ \A a, b, c \in S : Toward(at, d, a, b) /\ Toward(at, d, b, c) => Toward(at, d, a, c)
  <2>1. /\ \A a \in S : ~Toward(at, d, a, a)
        /\ \A a, b \in S : Toward(at, o, a, b) <=> Toward(at, d, b, a)
        /\ \A a, b, c \in S : Toward(at, d, a, b) /\ Toward(at, d, b, c) => Toward(at, d, a, c)
    BY <1>4, TowardOK DEF o
  <2> QED BY <2>1
<1>10. \A z \in S : E[z] \subseteq S /\ z \in E[z]
  BY <1>2, <1>4, <1>5, <1>9
<1>11. IF S = {} THEN U.root = Sentinel ELSE U.root \in S /\ E[U.root] = S
  <2>1. T.root \in S /\ D[T.root] = S
    BY DEF Shape
  <2>2. y # T.root
    BY <1>2, <1>4, <2>1
  <2> QED BY <1>2, <1>3, <1>5, <2>1, <2>2
<1>12. ASSUME NEW a \in S, NEW e \in Sides PROVE Under(U, S, at, E, a, e)
  <2>1. CASE a = x /\ e = o
    <3>1. U.child[e][a] = inner
      BY <1>3, <2>1
    <3>2. inner # Sentinel => U.parent[inner] = x /\ E[inner] = D[inner]
      BY <1>3, <1>4, <1>5, <1>6
    <3>3. ASSUME NEW z \in S
          PROVE  (z \in E[x] /\ Toward(at, o, z, x)) <=> (z \in D[y] /\ Toward(at, d, z, y))
      BY <1>2, <1>5
    <3> QED BY <1>5, <1>6, <1>7, <1>10, <2>1, <3>1, <3>2, <3>3 DEF Under
  <2>2. CASE a = y /\ e = d
    <3>1. U.child[e][a] = x /\ U.parent[x] = y /\ x # Sentinel
      BY <1>2, <1>3, <1>4, <2>2
    <3> QED BY <1>5, <2>2, <3>1 DEF Under
  <2>3. CASE a = x /\ e = d
    <3> DEFINE c == T.child[d][x]
    <3>1. U.child[e][a] = c /\ c # x
      <4>1. T.child[d][x] # x
        BY ChildOK
      <4> QED BY <1>1, <1>2, <1>3, <2>3, <4>1
    <3>2. c # Sentinel => c \in S /\ T.parent[c] = x /\ \A z \in S : z \in D[c] <=> z \in D[x] /\ Toward(at, d, z, x)
      BY ChildOK
    <3>3. c = Sentinel => \A z \in D[x] : ~Toward(at, d, z, x)
      BY ChildOK
    <3>4. c # y
      BY <1>1, <1>8
    <3> HIDE DEF c
    <3>5. c # Sentinel => c # inner \/ inner = Sentinel
      BY <1>2, <1>6, <3>2
    <3>6. c # Sentinel => U.parent[c] = x /\ E[c] = D[c]
      BY <1>3, <1>4, <1>5, <3>1, <3>2, <3>4, <3>5
    <3>7. ASSUME NEW z \in S
          PROVE  z \in E[x] /\ Toward(at, d, z, x) <=> z \in D[x] /\ Toward(at, d, z, x)
      BY <1>2, <1>5, <1>9
    <3> QED BY <1>5, <1>10, <2>3, <3>1, <3>2, <3>3, <3>6, <3>7 DEF Under
  <2>4. CASE a = y /\ e = o
    <3> DEFINE c == T.child[o][y]
    <3>1. U.child[e][a] = c /\ c # x /\ c # y
      <4>1. T.child[o][y] # x
        BY <1>1, <1>2, <1>8
      <4>2. T.child[o][y] # y
        BY <1>1, <1>2, ChildOK
      <4> QED BY <1>1, <1>2, <1>3, <2>4, <4>1, <4>2
    <3>2. c # Sentinel => c \in S /\ T.parent[c] = y /\ \A z \in S : z \in D[c] <=> z \in D[y] /\ Toward(at, o, z, y)
      BY <1>1, <1>2, ChildOK
    <3>3. c = Sentinel => \A z \in D[y] : ~Toward(at, o, z, y)
      BY <1>1, <1>2, ChildOK
    <3>4. c = inner => c = Sentinel
      BY <1>1, <1>2, OneParent DEF inner
    <3> HIDE DEF c
    <3>5. c # Sentinel => U.parent[c] = y /\ E[c] = D[c]
      BY <1>3, <1>4, <1>5, <3>1, <3>2, <3>4
    <3>6. ASSUME NEW z \in S
          PROVE  z \in E[y] /\ Toward(at, o, z, y) <=> z \in D[y] /\ Toward(at, o, z, y)
      BY <1>2, <1>5, <1>9
    <3> QED BY <1>5, <1>10, <2>4, <3>1, <3>2, <3>3, <3>5, <3>6 DEF Under
  <2>5. CASE a # x /\ a # y
    <3> DEFINE c == T.child[e][a]
    <3>1. E[a] = D[a]
      BY <1>5, <2>5
    <3>2. CASE c = x
      <4>1. U.child[e][a] = y /\ U.parent[y] = a
        BY <1>2, <1>3, <1>4, <1>8, <2>5, <3>2
      <4>2. \A w \in S : w \in D[x] <=> w \in D[a] /\ Toward(at, e, w, a)
        BY <1>8, <3>2
      <4> QED BY <1>2, <1>5, <3>1, <4>1, <4>2 DEF Under
    <3>3. CASE c # x
      <4>1. U.child[e][a] = c
        BY <1>3, <2>5, <3>3
      <4>2. c # Sentinel => c \in S /\ T.parent[c] = a /\ \A z \in S : z \in D[c] <=> z \in D[a] /\ Toward(at, e, z, a)
        BY ChildOK
      <4>3. c = Sentinel => \A z \in D[a] : ~Toward(at, e, z, a)
        BY ChildOK
      <4>4. c # y
        BY <1>8, <2>5
      <4> HIDE DEF c
      <4>5. c # Sentinel => c # inner \/ inner = Sentinel
        BY <1>6, <2>5, <4>2
      <4>6. c # Sentinel => U.parent[c] = a /\ E[c] = D[c]
        BY <1>3, <1>4, <1>5, <3>3, <4>2, <4>4, <4>5
      <4> QED BY <3>1, <4>1, <4>2, <4>3, <4>6 DEF Under
    <3> QED BY <3>2, <3>3
  <2> QED BY <1>1, <2>1, <2>2, <2>3, <2>4, <2>5
<1>13. Shape(U, S, at, E)
  BY <1>3, <1>4, <1>10, <1>11, <1>12 DEF Shape
<1> QED BY <1>13 DEF U, E, y, o

-----------------------------------------------------------------------------
(* Balance. *)

\* From x on, every way down to the end has bh[x] black nodes; a way through an
\* edge of K has one too few.
Even(T, S, bh, K) ==
  /\ bh[Sentinel] = 0 /\ \A x \in S : bh[x] \in Nat
  /\ \A x \in S, d \in Sides :
       bh[x] = bh[T.child[d][x]] + (IF x \in T.red THEN 0 ELSE 1) + (IF <<x, d>> \in K THEN 1 ELSE 0)

\* Nothing but n may be red under a red node, or as the root.
FewRed(T, S, n) ==
  /\ \A x \in S, d \in Sides : x \in T.red /\ T.child[d][x] \in T.red => T.child[d][x] = n
  /\ T.root \in T.red => T.root = n

\* The pointers of U are those of T, but that y has come up for x.
Turns(T, U, S, x, d, y) ==
  /\ U.root = IF x = T.root THEN y ELSE T.root
  /\ \A e \in Sides, z \in S :
       U.child[e][z] = IF z = x /\ e = Other(d) THEN T.child[d][y]
                       ELSE IF z = y /\ e = d THEN x
                       ELSE IF T.child[e][z] = x THEN y ELSE T.child[e][z]
  /\ \A z \in Ends :
       U.parent[z] = IF z = x THEN y ELSE IF z = y THEN T.parent[x]
                     ELSE IF z = T.child[d][y] /\ T.child[d][y] # Sentinel THEN x ELSE T.parent[z]

\* The black nodes below, after x and y have changed places and colours.
Swapped(S, bh, x, y) ==
  [z \in S \cup {Sentinel} |-> IF z = x THEN bh[y] ELSE IF z = y THEN bh[x] ELSE bh[z]]

\* y is red and the child of x on the side that a rotation to the side d brings
\* up, and not at an edge of K.
MayClimb(T, S, K, x, d, y) ==
  /\ x \in S /\ d \in Sides /\ y = T.child[Other(d)][x] /\ y \in T.red
  /\ <<x, Other(d)>> \notin K /\ \A e \in Sides : <<y, e>> \notin K

\* V is T but for the colours of x, which is red, and y, which has that of x.
TradesColours(T, V, S, x, y) ==
  /\ V \in Trees /\ V.root = T.root /\ V.child = T.child /\ V.parent = T.parent /\ V.key = T.key
  /\ \A z \in S : z \in V.red <=> z = x \/ (z = y /\ x \in T.red) \/ (z # y /\ z \in T.red)

\* A rotation that makes x red and gives its colour to y, which was red, leaves
\* as many black nodes on every way.
LEMMA TurnUp ==
  ASSUME NEW T, NEW S, NEW at, NEW D, Shape(T, S, at, D), NEW bh, NEW K, Even(T, S, bh, K),
         NEW x, NEW d, NEW y, MayClimb(T, S, K, x, d, y), NEW V, TradesColours(T, V, S, x, y)
  PROVE  LET U == Rotate(V, x, d)
         IN  /\ Shape(U, S, at, Turned(S, at, D, x, d, y))
             /\ Even(U, S, Swapped(S, bh, x, y), K)
             /\ Turns(T, U, S, x, d, y) /\ U.key = T.key /\ U.red = V.red
<1> DEFINE o == Other(d)
           U == Rotate(V, x, d)
           inner == T.child[d][y]
           h == Swapped(S, bh, x, y)
<1>0. /\ x \in S /\ d \in Sides /\ y = T.child[Other(d)][x] /\ y \in T.red
      /\ <<x, Other(d)>> \notin K /\ \A e \in Sides : <<y, e>> \notin K
      /\ V \in Trees /\ V.root = T.root /\ V.child = T.child /\ V.parent = T.parent /\ V.key = T.key
      /\ \A z \in S : z \in V.red <=> z = x \/ (z = y /\ x \in T.red) \/ (z # y /\ z \in T.red)
  BY DEF MayClimb, TradesColours
<1> USE <1>0
<1>1. Shape(V, S, at, D)
  BY SameShape
<1>2. y # Sentinel /\ T \in Trees
  BY TreeFields DEF Shape
<1>3. Shape(U, S, at, Turned(S, at, D, x, d, y))
  BY <1>1, <1>2, RotateShape, SMTT(30)
<1>4. U.key = T.key /\ U.red = V.red /\ Turns(T, U, S, x, d, y)
  <2>1. y = V.child[Other(d)][x] /\ inner = V.child[d][y]
    OBVIOUS
  <2> HIDE DEF inner
  <2>2. /\ U \in Trees /\ U.key = V.key /\ U.red = V.red
        /\ U.root = IF x = V.root THEN y ELSE V.root
        /\ \A e \in Sides, z \in S :
             U.child[e][z] = IF z = x /\ e = Other(d) THEN inner
                             ELSE IF z = y /\ e = d THEN x
                             ELSE IF V.child[e][z] = x THEN y ELSE V.child[e][z]
        /\ \A z \in Ends :
             U.parent[z] = IF z = x THEN y ELSE IF z = y THEN V.parent[x]
                           ELSE IF z = inner /\ inner # Sentinel THEN x ELSE V.parent[z]
    BY <1>1, <1>2, <2>1, RotateFields
  <2> QED BY <2>2 DEF Turns, inner
<1>5. /\ y \in S /\ y # x /\ Sentinel \notin S
      /\ \A e \in Sides, z \in S : T.child[e][z] = Sentinel \/ T.child[e][z] \in S
      /\ \A e \in Sides, z \in S : T.child[e][z] = y => z = x /\ e = o
      /\ \A e \in Sides : T.child[e][x] # x /\ T.child[e][y] # x /\ T.child[e][y] # y
  <2>1. y \in S /\ y # x /\ o \in Sides
    BY <1>2, SidesOK, ChildOK
  <2>2. Sentinel \notin S
    BY EndsOK DEF Shape
  <2>3. \A e \in Sides, z \in S : T.child[e][z] = Sentinel \/ T.child[e][z] \in S
    BY ChildOK
  <2>4. \A e \in Sides, z \in S : T.child[e][z] = y => z = x /\ e = o
    BY <1>2, <2>1, OneParent
  <2>5. ASSUME NEW e \in Sides PROVE T.child[e][x] # x /\ T.child[e][y] # x /\ T.child[e][y] # y
    <3>1. T.child[e][x] # x /\ T.child[e][y] # y
      BY <2>1, ChildOK
    <3>2. T.child[e][y] = x => FALSE
      <4>1. y \in D[x] /\ x \notin D[y]
        BY <1>2, <2>1, ChildOK
      <4>2. x \in D[x] /\ x # Sentinel
        BY <2>2 DEF Shape
      <4>3. T.child[e][y] = x => x \in D[y]
        BY <2>1, <4>2, ChildOK
      <4> QED BY <4>1, <4>3
    <3> QED BY <3>1, <3>2
  <2> QED BY <2>1, <2>2, <2>3, <2>4, <2>5
<1>6. /\ bh[Sentinel] = 0 /\ \A z \in S : bh[z] \in Nat
      /\ \A z \in S, e \in Sides :
           bh[z] = bh[T.child[e][z]] + (IF z \in T.red THEN 0 ELSE 1) + (IF <<z, e>> \in K THEN 1 ELSE 0)
  BY DEF Even
<1>7. /\ h[Sentinel] = 0 /\ h[x] = bh[y] /\ h[y] = bh[x]
      /\ \A z \in S : h[z] \in Nat
      /\ \A z \in S \cup {Sentinel} : z # x /\ z # y => h[z] = bh[z]
  BY <1>2, <1>5, <1>6 DEF Swapped
<1>8. o \in Sides /\ o # d /\ \A e \in Sides : e = d \/ e = o
  BY SidesOK
<1>9. \A e \in Sides, z \in S :
        U.child[e][z] = IF z = x /\ e = o THEN inner
                        ELSE IF z = y /\ e = d THEN x
                        ELSE IF T.child[e][z] = x THEN y ELSE T.child[e][z]
  BY <1>4 DEF Turns
<1>10. \A e \in Sides, z \in S : bh[T.child[e][z]] \in Nat
  BY <1>5, <1>6
<1> HIDE DEF h, U, o
<1>11. ASSUME NEW a \in S, NEW e \in Sides
       PROVE  h[a] = h[U.child[e][a]] + (IF a \in U.red THEN 0 ELSE 1) + (IF <<a, e>> \in K THEN 1 ELSE 0)
  <2>1. bh[x] = bh[y] + (IF x \in T.red THEN 0 ELSE 1)
    <3>1. y = T.child[o][x] /\ <<x, o>> \notin K
      BY DEF o
    <3>2. bh[y] \in Nat
      BY <1>5, <1>6
    <3> QED BY <1>6, <1>8, <3>1, <3>2
  <2>2. \A f \in Sides : bh[y] = bh[T.child[f][y]]
    <3> TAKE f \in Sides
    <3>1. y \in S /\ y \in T.red /\ <<y, f>> \notin K
      BY <1>5
    <3>2. bh[y] = bh[T.child[f][y]] + 0 + 0
      BY <1>6, <3>1
    <3>3. bh[T.child[f][y]] \in Nat
      BY <1>10, <3>1
    <3> QED BY <3>2, <3>3
  <2>3. x \in U.red /\ (y \in U.red <=> x \in T.red)
    BY <1>4, <1>5
  <2>4. CASE a = x /\ e = o
    <3>1. U.child[e][a] = inner /\ inner # x /\ inner # y /\ (inner = Sentinel \/ inner \in S)
      BY <1>5, <1>9, <2>4, SMTT(30)
    <3>2. h[inner] = bh[inner] /\ bh[inner] = bh[y] /\ bh[y] \in Nat
      <4>1. inner \in S \cup {Sentinel}
        BY <3>1
      <4> QED BY <1>5, <1>6, <1>7, <2>2, <3>1, <4>1
    <3>3. <<a, e>> \notin K
      BY <2>4 DEF o
    <3> QED BY <1>7, <2>3, <2>4, <3>1, <3>2, <3>3
  <2>5. CASE a = x /\ e = d
    <3> DEFINE c == T.child[d][x]
    <3>1. U.child[e][a] = c /\ c # x /\ c # y /\ (c = Sentinel \/ c \in S)
      BY <1>5, <1>8, <1>9, <2>5
    <3>2. h[c] = bh[c] /\ bh[c] \in Nat
      <4>1. c \in S \cup {Sentinel}
        BY <3>1
      <4> QED BY <1>7, <1>10, <3>1, <4>1
    <3>3. bh[x] = bh[c] + (IF x \in T.red THEN 0 ELSE 1) + (IF <<x, d>> \in K THEN 1 ELSE 0)
      BY <1>6
    <3> HIDE DEF c
    <3>4. bh[x] \in Nat /\ bh[y] \in Nat
      BY <1>5, <1>6
    <3> QED BY <1>7, <2>1, <2>3, <2>5, <3>1, <3>2, <3>3, <3>4
  <2>6. CASE a = y /\ e = d
    <3>1. U.child[e][a] = x /\ <<a, e>> \notin K
      BY <1>5, <1>9, <2>6
    <3>2. bh[x] \in Nat /\ bh[y] \in Nat
      BY <1>5, <1>6
    <3> QED BY <1>7, <2>1, <2>3, <2>6, <3>1, <3>2
  <2>7. CASE a = y /\ e = o
    <3> DEFINE c == T.child[o][y]
    <3>1. U.child[e][a] = c /\ c # x /\ c # y /\ (c = Sentinel \/ c \in S) /\ <<a, e>> \notin K
      BY <1>5, <1>8, <1>9, <2>7, SMTT(30)
    <3>2. h[c] = bh[c] /\ bh[c] = bh[y]
      <4>1. c \in S \cup {Sentinel}
        BY <3>1
      <4> QED BY <1>7, <1>8, <2>2, <3>1, <4>1
    <3> HIDE DEF c
    <3>3. bh[x] \in Nat /\ bh[y] \in Nat
      BY <1>5, <1>6
    <3> QED BY <1>7, <2>1, <2>3, <2>7, <3>1, <3>2, <3>3
  <2>8. CASE a # x /\ a # y
    <3> DEFINE c == T.child[e][a]
    <3>1. h[a] = bh[a] /\ (a \in U.red <=> a \in T.red)
      BY <1>4, <1>7, <2>8
    <3>2. bh[a] = bh[c] + (IF a \in T.red THEN 0 ELSE 1) + (IF <<a, e>> \in K THEN 1 ELSE 0)
      BY <1>6
    <3>3. c # y /\ (c = Sentinel \/ c \in S)
      BY <1>5, <2>8
    <3>4. U.child[e][a] = IF c = x THEN y ELSE c
      BY <1>9, <2>8
    <3> HIDE DEF c
    <3>5. h[U.child[e][a]] = bh[c]
      BY <1>7, <3>3, <3>4
    <3> QED BY <3>1, <3>2, <3>5
  <2> QED BY <1>8, <2>4, <2>5, <2>6, <2>7, <2>8
<1>12. Even(U, S, h, K)
  BY <1>7, <1>11 DEF Even
<1> QED BY <1>3, <1>4, <1>12 DEF h, U

-----------------------------------------------------------------------------
(* The loop of rbtree_insert(). *)

\* n is red under a red node, on the side f of it; d is the side of that node.
Family(T, S, n, up, grand, uncle, d, f) ==
  /\ n \in S /\ up \in S /\ grand \in S /\ d \in Sides /\ f \in Sides
  /\ T.child[f][up] = n /\ T.child[d][grand] = up /\ T.child[Other(d)][grand] = uncle
  /\ n # up /\ n # grand /\ up # grand /\ up # T.root /\ n # T.root
  /\ up \in T.red /\ grand \notin T.red
  /\ \A z \in S, e \in Sides : T.child[e][z] = n => z = up /\ e = f
  /\ \A z \in S, e \in Sides : T.child[e][z] = up => z = grand /\ e = d

\* A red node under a red one has a black grandparent.
LEMMA Grandparent ==
  ASSUME NEW T, NEW S, NEW at, NEW D, Shape(T, S, at, D), NEW n \in S, FewRed(T, S, n),
         n # T.root, T.parent[n] \in T.red
  PROVE  LET up    == T.parent[n]
             grand == T.parent[up]
             d     == SideOf(T, up)
         IN  /\ Family(T, S, n, up, grand, T.child[Other(d)][grand], d, SideOf(T, n))
             /\ n \in D[up] /\ up \in D[grand] /\ n \in D[grand] /\ D[n] \subseteq D[grand] /\ grand \notin D[n]
<1> DEFINE up == T.parent[n]
           grand == T.parent[up]
           d == SideOf(T, up)
           f == SideOf(T, n)
<1>1. /\ up \in S /\ f \in Sides /\ T.child[f][up] = n /\ up # n
      /\ \A z \in S, e \in Sides : T.child[e][z] = n => z = up /\ e = f
  BY HasParent
<1>2. up # T.root
  BY <1>1 DEF FewRed
<1>3. /\ grand \in S /\ d \in Sides /\ T.child[d][grand] = up /\ grand # up
      /\ \A z \in S, e \in Sides : T.child[e][z] = up => z = grand /\ e = d
  BY <1>1, <1>2, HasParent
<1>4. grand \notin T.red
  BY <1>1, <1>3 DEF FewRed
<1>5. n # Sentinel /\ up # Sentinel
  BY <1>1, EndsOK DEF Shape
<1>6. /\ n \in D[up] /\ up \in D[grand] /\ D[n] \subseteq D[up] /\ D[up] \subseteq D[grand]
      /\ grand \notin D[up]
  <2>1. n \in D[up] /\ D[n] \subseteq D[up]
    BY <1>1, <1>5, ChildOK
  <2>2. up \in D[grand] /\ D[up] \subseteq D[grand] /\ grand \notin D[up]
    BY <1>3, <1>5, ChildOK
  <2> QED BY <2>1, <2>2
<1>7. grand # n
  BY <1>6
<1>8. Family(T, S, n, up, grand, T.child[Other(d)][grand], d, f)
  BY <1>1, <1>2, <1>3, <1>4, <1>7 DEF Family
<1> QED BY <1>6, <1>8

\* One more black node on the ways from the nodes of A on.
Raised(S, bh, A) == [z \in S \cup {Sentinel} |-> IF z \in A THEN bh[z] + 1 ELSE bh[z]]

\* U is T but for the colours.
Recoloured(T, U, S, red) ==
  /\ U \in Trees /\ U.root = T.root /\ U.child = T.child /\ U.parent = T.parent /\ U.key = T.key
  /\ \A z \in S : z \in U.red <=> z \in red

\* Both children of a black node have become black, and it red.
LEMMA RaiseRed ==
  ASSUME NEW T, NEW S, NEW at, NEW D, Shape(T, S, at, D), NEW bh, Even(T, S, bh, {}),
         NEW n, FewRed(T, S, n), NEW up, NEW grand, NEW uncle, NEW d, NEW f,
         Family(T, S, n, up, grand, uncle, d, f), uncle \in T.red,
         NEW U, Recoloured(T, U, S, (T.red \ {up, uncle}) \cup {grand})
  PROVE  Shape(U, S, at, D) /\ FewRed(U, S, grand) /\ Even(U, S, Raised(S, bh, {up, uncle}), {})
<1> DEFINE o == Other(d)
           h == Raised(S, bh, {up, uncle})
<1>1. /\ up \in S /\ up # T.root /\ grand \in S /\ grand # up /\ d \in Sides
      /\ T.child[d][grand] = up /\ T.child[o][grand] = uncle /\ grand \notin T.red
      /\ \A z \in S, e \in Sides : T.child[e][z] = n => z = up
      /\ \A z \in S, e \in Sides : T.child[e][z] = up => z = grand
  BY DEF Family
<1>2. /\ o \in Sides /\ o # d /\ \A e \in Sides : e = d \/ e = o
  BY <1>1, SidesOK
<1>3. uncle # Sentinel /\ Sentinel \notin S /\ Sentinel \notin T.red /\ Sentinel \notin U.red
  BY EndsOK, TreeFields DEF Shape, Recoloured
<1> HIDE DEF o, h
<1>4. /\ uncle \in S /\ uncle # up /\ uncle # grand
      /\ \A z \in S, e \in Sides : T.child[e][z] = uncle => z = grand
  <2>1. T.child[o][grand] \in S /\ T.child[o][grand] # grand
    BY <1>1, <1>2, <1>3, ChildOK
  <2>2. \A z \in S, e \in Sides : T.child[e][z] = T.child[o][grand] => z = grand /\ e = o
    BY <1>1, <1>2, <1>3, OneParent
  <2> QED BY <1>1, <1>2, <2>1, <2>2
<1>5. \A z \in S, e \in Sides : T.child[e][z] = Sentinel \/ T.child[e][z] \in S
  BY ChildOK
<1>6. /\ bh[Sentinel] = 0 /\ \A z \in S : bh[z] \in Nat
      /\ \A z \in S, e \in Sides : bh[T.child[e][z]] \in Nat
      /\ \A z \in S, e \in Sides : bh[z] = bh[T.child[e][z]] + (IF z \in T.red THEN 0 ELSE 1)
  <2>1. \A z \in S, e \in Sides : bh[T.child[e][z]] \in Nat
    BY <1>5 DEF Even
  <2> QED BY <2>1 DEF Even
<1>7. /\ h[Sentinel] = 0 /\ h[up] = bh[up] + 1 /\ h[uncle] = bh[uncle] + 1
      /\ \A z \in S \cup {Sentinel} : z # up /\ z # uncle => h[z] = bh[z]
  BY <1>1, <1>3, <1>4, <1>6 DEF h, Raised
<1>8. ASSUME NEW z \in S PROVE h[z] \in Nat
  <2>1. bh[z] \in Nat
    BY <1>6
  <2>2. h[z] = bh[z] \/ h[z] = bh[z] + 1
    BY <1>7
  <2> QED BY <2>1, <2>2
<1>9. /\ U \in Trees /\ U.root = T.root /\ U.child = T.child /\ U.parent = T.parent
      /\ \A z \in S : z \in U.red <=> z = grand \/ (z # up /\ z # uncle /\ z \in T.red)
  BY DEF Recoloured
<1>10. ASSUME NEW z \in S, NEW e \in Sides
       PROVE  h[z] = h[U.child[e][z]] + (IF z \in U.red THEN 0 ELSE 1) + (IF <<z, e>> \in {} THEN 1 ELSE 0)
  <2> DEFINE c == T.child[e][z]
  <2>1. bh[z] = bh[c] + (IF z \in T.red THEN 0 ELSE 1)
    BY <1>6
  <2>2. c \in S \cup {Sentinel} /\ bh[c] \in Nat /\ bh[z] \in Nat
    BY <1>5, <1>6
  <2>3. z = grand => c = up \/ c = uncle
    BY <1>1, <1>2
  <2>4. z # grand => c # up /\ c # uncle
    BY <1>1, <1>4
  <2>5. U.child[e][z] = c
    BY <1>9
  <2> HIDE DEF c
  <2>6. CASE z = grand
    <3>1. h[c] = bh[c] + 1
      BY <1>7, <2>3, <2>6
    <3>2. h[z] = bh[z] /\ z \in U.red /\ z \notin T.red
      BY <1>1, <1>4, <1>7, <1>9, <2>6
    <3> QED BY <2>1, <2>2, <2>5, <3>1, <3>2
  <2>7. CASE z = up \/ z = uncle
    <3>1. h[c] = bh[c]
      BY <1>1, <1>4, <1>7, <2>2, <2>4, <2>7
    <3>2. h[z] = bh[z] + 1 /\ z \notin U.red /\ z \in T.red
      BY <1>1, <1>4, <1>7, <1>9, <2>7 DEF Family
    <3> QED BY <2>1, <2>2, <2>5, <3>1, <3>2
  <2>8. CASE z # grand /\ z # up /\ z # uncle
    <3>1. h[c] = bh[c] /\ h[z] = bh[z] /\ (z \in U.red <=> z \in T.red)
      BY <1>7, <1>9, <2>2, <2>4, <2>8
    <3> QED BY <2>1, <2>2, <2>5, <3>1
  <2> QED BY <2>6, <2>7, <2>8
<1>11. Even(U, S, h, {})
  BY <1>7, <1>8, <1>10 DEF Even
<1>12. FewRed(U, S, grand)
  <2>1. ASSUME NEW z \in S, NEW e \in Sides, z \in U.red, T.child[e][z] \in U.red, T.child[e][z] # grand
        PROVE  FALSE
    <3> DEFINE c == T.child[e][z]
    <3>1. c \in S
      BY <1>3, <1>5, <2>1
    <3>2. c \in T.red /\ c # up /\ c # uncle
      BY <1>9, <2>1, <3>1
    <3>3. z # grand
      BY <1>1, <1>2, <3>2
    <3>4. z \in T.red /\ z # up
      BY <1>9, <2>1, <3>3
    <3>5. c = n
      BY <3>2, <3>4 DEF FewRed
    <3> QED BY <1>1, <3>4, <3>5
  <2>2. U.root \in U.red => U.root = grand
    <3>1. T.root \in S
      BY <1>1 DEF Shape
    <3>2. T.root \notin T.red
      BY DEF FewRed, Family
    <3> QED BY <1>9, <3>1, <3>2
  <2> QED BY <1>9, <2>1, <2>2 DEF FewRed
<1> QED BY <1>9, <1>11, <1>12, SameShape DEF h

\* The turn that ends the loop: mid, between a red low and a black top on the
\* same side, comes up and becomes black, and top red.
LEMMA StraightTurn ==
  ASSUME NEW T, NEW S, NEW at, NEW D, Shape(T, S, at, D), NEW bh, Even(T, S, bh, {}),
         NEW low, FewRed(T, S, low), NEW mid, NEW top, NEW uncle, NEW d,
         Family(T, S, low, mid, top, uncle, d, d), uncle \notin T.red, low \in T.red,
         NEW V, Recoloured(T, V, S, (T.red \ {mid}) \cup {top})
  PROVE  LET U == Rotate(V, top, Other(d))
         IN  /\ Shape(U, S, at, Turned(S, at, D, top, Other(d), mid))
             /\ Even(U, S, Swapped(S, bh, top, mid), {}) /\ FewRed(U, S, Null)
             /\ U.key = T.key /\ U.parent[low] = mid /\ mid \notin U.red /\ low \in U.red
<1> DEFINE o == Other(d)
           U == Rotate(V, top, o)
           inner == T.child[o][mid]
<1>1. /\ low \in S /\ mid \in S /\ top \in S /\ d \in Sides
      /\ T.child[d][mid] = low /\ T.child[d][top] = mid /\ T.child[o][top] = uncle
      /\ low # mid /\ low # top /\ mid # top /\ mid # T.root /\ low # T.root
      /\ mid \in T.red /\ top \notin T.red
      /\ \A z \in S, e \in Sides : T.child[e][z] = low => z = mid /\ e = d
      /\ \A z \in S, e \in Sides : T.child[e][z] = mid => z = top /\ e = d
  BY DEF Family
<1>2. /\ o \in Sides /\ o # d /\ \A e \in Sides : e = d \/ e = o
      /\ Other(o) = d
  BY <1>1, SidesOK
<1>3. /\ V \in Trees /\ V.root = T.root /\ V.child = T.child /\ V.parent = T.parent /\ V.key = T.key
      /\ \A z \in S : z \in V.red <=> z = top \/ (z # mid /\ z \in T.red)
  BY DEF Recoloured
<1>4. Shape(U, S, at, Turned(S, at, D, top, o, mid)) /\ Even(U, S, Swapped(S, bh, top, mid), {})
      /\ Turns(T, U, S, top, o, mid) /\ U.key = T.key /\ U.red = V.red
  <2>1. MayClimb(T, S, {}, top, o, mid)
    BY <1>1, <1>2 DEF MayClimb
  <2>2. TradesColours(T, V, S, top, mid)
    BY <1>1, <1>3 DEF TradesColours
  <2> QED BY <2>1, <2>2, TurnUp
<1>5. /\ U.root = IF top = T.root THEN mid ELSE T.root
      /\ \A e \in Sides, z \in S :
           U.child[e][z] = IF z = top /\ e = d THEN inner
                           ELSE IF z = mid /\ e = o THEN top
                           ELSE IF T.child[e][z] = top THEN mid ELSE T.child[e][z]
      /\ \A z \in Ends :
           U.parent[z] = IF z = top THEN mid ELSE IF z = mid THEN T.parent[top]
                         ELSE IF z = inner /\ inner # Sentinel THEN top ELSE T.parent[z]
  <2> HIDE DEF U, o
  <2> QED BY <1>2, <1>4 DEF Turns
<1> HIDE DEF U
<1>6. inner \notin T.red /\ inner # low
  <2>1. inner # low
    BY <1>1, <1>2
  <2>2. inner \in T.red => inner = low
    BY <1>1, <1>2 DEF FewRed
  <2> QED BY <2>1, <2>2
<1>7. S \subseteq Ends /\ Sentinel \notin S /\ Sentinel \notin T.red /\ Sentinel \notin U.red
      /\ Null \notin S
  BY <1>3, <1>4, EndsOK, TreeFields, RedBlackAssumption DEF Shape
<1>8. U.parent[low] = mid
  <2>1. T.parent[low] = mid
    BY <1>1, <1>7, ChildOK
  <2> QED BY <1>1, <1>5, <1>6, <1>7, <2>1
<1>9. mid \notin U.red /\ low \in U.red
  BY <1>1, <1>3, <1>4
<1>10. \A z \in S, e \in Sides : T.child[e][z] = Sentinel \/ T.child[e][z] \in S
  BY ChildOK
<1> HIDE DEF inner
<1>11. inner = Sentinel \/ inner \in S
  BY <1>1, <1>2, <1>10 DEF inner
<1>12. FewRed(U, S, Null)
  <2>1. ASSUME NEW z \in S, NEW e \in Sides, z \in U.red, U.child[e][z] \in U.red PROVE FALSE
    <3> DEFINE c == T.child[e][z]
    <3>1. z # mid
      BY <1>9, <2>1
    <3>2. CASE z = top
      <4>1. e = o
        <5>1. e = d => U.child[e][z] = inner
          BY <1>1, <1>5, <3>2
        <5>2. inner \notin U.red
          <6>1. inner # top
            <7>1. inner \in S => T.parent[inner] = mid /\ inner \in D[mid]
              BY <1>1, <1>2, <1>7, ChildOK DEF inner
            <7>2. top \notin D[mid]
              BY <1>1, <1>7, ChildOK
            <7> QED BY <1>1, <7>1, <7>2
          <6> QED BY <1>3, <1>4, <1>6, <1>7, <1>11, <6>1
        <5> QED BY <1>2, <2>1, <5>1, <5>2
      <4>2. T.child[o][top] # top
        BY <1>1, <1>2, ChildOK
      <4>3. U.child[e][z] = uncle
        BY <1>1, <1>2, <1>5, <3>2, <4>1, <4>2
      <4>4. uncle \in S
        BY <1>1, <1>2, <1>7, <1>10, <2>1, <4>3
      <4> QED BY <1>1, <1>2, <1>3, <1>4, <2>1, <4>2, <4>3, <4>4
    <3>3. CASE z # top
      <4>1. U.child[e][z] = IF c = top THEN mid ELSE c
        BY <1>5, <3>1, <3>3
      <4>2. c # top /\ U.child[e][z] = c
        BY <1>9, <2>1, <4>1
      <4>3. c # mid /\ c \in S
        BY <1>1, <1>7, <1>10, <2>1, <3>3, <4>2
      <4>4. c \in T.red /\ z \in T.red
        BY <1>3, <1>4, <2>1, <3>3, <4>2, <4>3
      <4>5. c = low
        BY <4>4 DEF FewRed
      <4> HIDE DEF c
      <4> QED BY <1>1, <3>1, <4>5 DEF c
    <3> QED BY <3>2, <3>3
  <2>2. U.root \notin U.red
    <3>1. T.root \in S /\ T.root \notin T.red
      BY <1>1 DEF Shape, FewRed
    <3> QED BY <1>1, <1>3, <1>4, <1>5, <1>9, <3>1
  <2> QED BY <2>1, <2>2 DEF FewRed
<1> QED BY <1>4, <1>8, <1>9, <1>12 DEF U

\* The turn before, when n is on the inner side: n and its parent, both red,
\* change places.
LEMMA Straighten ==
  ASSUME NEW T, NEW S, NEW at, NEW D, Shape(T, S, at, D), NEW bh, Even(T, S, bh, {}),
         NEW n, FewRed(T, S, n), NEW up, NEW grand, NEW uncle, NEW d,
         Family(T, S, n, up, grand, uncle, d, Other(d)), n \in T.red
  PROVE  LET U == Rotate(T, up, d)
         IN  /\ Shape(U, S, at, Turned(S, at, D, up, d, n))
             /\ Even(U, S, Swapped(S, bh, up, n), {}) /\ FewRed(U, S, up)
             /\ Family(U, S, up, n, grand, uncle, d, d)
             /\ U.key = T.key /\ U.red = T.red /\ U.parent[up] = n /\ U.parent[n] = grand
<1> DEFINE o == Other(d)
           U == Rotate(T, up, d)
           inner == T.child[d][n]
<1>1. /\ n \in S /\ up \in S /\ grand \in S /\ d \in Sides
      /\ T.child[o][up] = n /\ T.child[d][grand] = up /\ T.child[o][grand] = uncle
      /\ n # up /\ n # grand /\ up # grand /\ up # T.root /\ n # T.root
      /\ up \in T.red /\ grand \notin T.red
      /\ \A z \in S, e \in Sides : T.child[e][z] = n => z = up /\ e = o
      /\ \A z \in S, e \in Sides : T.child[e][z] = up => z = grand /\ e = d
  BY DEF Family
<1>2. o \in Sides /\ o # d /\ Other(o) = d /\ \A e \in Sides : e = d \/ e = o
  BY <1>1, SidesOK
<1>3. T \in Trees /\ S \subseteq Ends /\ Sentinel \notin S /\ Sentinel \notin T.red
  BY EndsOK, TreeFields DEF Shape
<1>4. Shape(U, S, at, Turned(S, at, D, up, d, n)) /\ Even(U, S, Swapped(S, bh, up, n), {})
      /\ Turns(T, U, S, up, d, n) /\ U.key = T.key /\ U.red = T.red
  <2>1. MayClimb(T, S, {}, up, d, n)
    BY <1>1 DEF MayClimb
  <2>2. TradesColours(T, T, S, up, n)
    BY <1>1, <1>3 DEF TradesColours
  <2> QED BY <2>1, <2>2, TurnUp
<1>5. /\ U.root = T.root
      /\ \A e \in Sides, z \in S :
           U.child[e][z] = IF z = up /\ e = o THEN inner
                           ELSE IF z = n /\ e = d THEN up
                           ELSE IF T.child[e][z] = up THEN n ELSE T.child[e][z]
      /\ \A z \in Ends :
           U.parent[z] = IF z = up THEN n ELSE IF z = n THEN T.parent[up]
                         ELSE IF z = inner /\ inner # Sentinel THEN up ELSE T.parent[z]
  <2> HIDE DEF U
  <2> QED BY <1>1, <1>2, <1>4 DEF Turns
<1> HIDE DEF U
<1>6. T.parent[up] = grand
  BY <1>1, <1>3, ChildOK
<1>7. U.parent[up] = n /\ U.parent[n] = grand
  BY <1>1, <1>3, <1>5, <1>6
<1>8. inner \notin T.red
  <2>1. inner \in T.red => inner = n
    BY <1>1 DEF FewRed
  <2>2. inner # n
    BY <1>1, ChildOK
  <2> QED BY <2>1, <2>2
<1>9. inner # Sentinel => inner # up /\ inner # n /\ inner \in S /\ inner # grand
  <2>1. inner # Sentinel => inner \in S /\ inner \in D[n] /\ inner # n /\ D[n] \subseteq D[up]
        /\ up \notin D[n] /\ grand \notin D[up]
    <3>1. inner # Sentinel => inner \in S /\ inner \in D[n] /\ inner # n
      BY <1>1, ChildOK
    <3>2. D[n] \subseteq D[up] /\ up \notin D[n]
      BY <1>1, <1>2, <1>3, ChildOK
    <3>3. grand \notin D[up]
      BY <1>1, <1>3, ChildOK
    <3> QED BY <3>1, <3>2, <3>3
  <2> HIDE DEF inner
  <2> QED BY <2>1
<1> HIDE DEF inner
<1>10. Family(U, S, up, n, grand, uncle, d, d)
  <2>1. U.child[d][n] = up
    BY <1>1, <1>2, <1>5
  <2>2. U.child[d][grand] = n
    BY <1>1, <1>2, <1>5
  <2>3. U.child[o][grand] = uncle
    BY <1>1, <1>2, <1>5
  <2>4. ASSUME NEW z \in S, NEW e \in Sides, U.child[e][z] = up PROVE z = n /\ e = d
    BY <1>1, <1>3, <1>4, <2>1, <2>4, OneParent
  <2>5. ASSUME NEW z \in S, NEW e \in Sides, U.child[e][z] = n PROVE z = grand /\ e = d
    BY <1>1, <1>3, <1>4, <2>2, <2>5, OneParent
  <2> QED BY <1>1, <1>4, <1>5, <2>1, <2>2, <2>3, <2>4, <2>5 DEF Family
<1>11. FewRed(U, S, up)
  <2>1. ASSUME NEW z \in S, NEW e \in Sides, z \in T.red, U.child[e][z] \in T.red, U.child[e][z] # up
        PROVE  FALSE
    <3> DEFINE c == T.child[e][z]
    <3>1. U.child[e][z] # inner
      BY <1>8, <2>1
    <3>2. U.child[e][z] = IF c = up THEN n ELSE c
      BY <1>5, <2>1, <3>1
    <3>3. c # up
      BY <1>1, <2>1
    <3>4. c \in T.red
      BY <2>1, <3>2, <3>3
    <3>5. c = n
      BY <2>1, <3>4 DEF FewRed
    <3>6. z = up /\ e = o
      BY <1>1, <3>5
    <3> QED BY <1>5, <3>1, <3>6
  <2>2. T.root \notin T.red
    BY <1>1 DEF FewRed
  <2> QED BY <1>4, <1>5, <2>1, <2>2 DEF FewRed
<1> QED BY <1>4, <1>7, <1>10, <1>11 DEF U

\* In the loop of rbtree_insert() n is red, and the tree is right but for that.
InsertGood(T, S, at, D, bh, n) ==
  Shape(T, S, at, D) /\ Even(T, S, bh, {}) /\ FewRed(T, S, n) /\ n \in S /\ n \in T.red

\* When the loop of rbtree_insert() stops.
InsertStops(T, n) == n = T.root \/ T.parent[n] \notin T.red

\* The states of the loop, after i rounds: it has come to its end, or higher up.
InsertStates(S, at, key, i) ==
  {s \in [t : Trees, n : Nodes] :
     /\ s.t.key = key
     /\ \E D, bh : /\ InsertGood(s.t, S, at, D, bh, s.n)
                   /\ InsertStops(s.t, s.n) \/ i < Cardinality(D[s.n])}

\* The way up from low.
WayUp(T, low, mid, top) == T.parent[low] = mid /\ T.parent[mid] = top

\* Where the turn at the top leads to.
LEMMA TurnTopOK ==
  ASSUME NEW T, NEW S, NEW at, NEW D, Shape(T, S, at, D), NEW bh, Even(T, S, bh, {}),
         NEW low, FewRed(T, S, low), NEW mid, NEW top, NEW uncle, NEW d,
         Family(T, S, low, mid, top, uncle, d, d), uncle \notin T.red, low \in T.red,
         WayUp(T, low, mid, top), NEW i
  PROVE  TurnTop(T, low, d) \in InsertStates(S, at, T.key, i)
<1> DEFINE A == Black(T, mid)
           V == Red(A, top)
           U == Rotate(V, top, Other(d))
           s == [t |-> U, n |-> low]
<1>1. T \in Trees /\ S \subseteq Nodes /\ mid \in S /\ top \in S /\ low \in S /\ mid # top
  BY DEF Shape, Family
<1>2. TurnTop(T, low, d) = s
  BY DEF TurnTop, WayUp
<1>3. /\ A \in Trees /\ A.root = T.root /\ A.child = T.child /\ A.parent = T.parent /\ A.key = T.key
      /\ A.red = T.red \ {mid}
  BY <1>1, BlackOK
<1> HIDE DEF A
<1>4. /\ V \in Trees /\ V.root = A.root /\ V.child = A.child /\ V.parent = A.parent /\ V.key = A.key
      /\ V.red = A.red \cup {top}
  BY <1>1, <1>3, RedOK
<1>5. Recoloured(T, V, S, (T.red \ {mid}) \cup {top})
  BY <1>3, <1>4 DEF Recoloured
<1> HIDE DEF V
<1>6. /\ Shape(U, S, at, Turned(S, at, D, top, Other(d), mid))
      /\ Even(U, S, Swapped(S, bh, top, mid), {}) /\ FewRed(U, S, Null)
      /\ U.key = T.key /\ U.parent[low] = mid /\ mid \notin U.red /\ low \in U.red
  BY <1>5, StraightTurn
<1> HIDE DEF U
<1>7. FewRed(U, S, low)
  <2>1. Null \notin S /\ Null \notin U.red
    BY <1>1, <1>6, TreeFields, RedBlackAssumption DEF Shape
  <2> QED BY <1>6, <2>1 DEF FewRed
<1>8. InsertGood(U, S, at, Turned(S, at, D, top, Other(d), mid), Swapped(S, bh, top, mid), low)
  BY <1>1, <1>6, <1>7 DEF InsertGood
<1>9. InsertStops(U, low)
  BY <1>6 DEF InsertStops
<1>10. U \in Trees /\ low \in Nodes
  BY <1>1, <1>6 DEF Shape
<1>11. s \in [t : Trees, n : Nodes] /\ s.t = U /\ s.n = low
  BY <1>10
<1> HIDE DEF s
<1> QED BY <1>2, <1>6, <1>8, <1>9, <1>11 DEF InsertStates

\* A round keeps the tree as right as it was and comes higher, or to the end.
LEMMA InsertRoundOK ==
  ASSUME NEW S, NEW at, NEW key, NEW i \in Nat, NEW s \in InsertStates(S, at, key, i)
  PROVE  InsertRound(s) \in InsertStates(S, at, key, i + 1)
<1> DEFINE T == s.t
           n == s.n
<1>1. /\ T \in Trees /\ n \in Nodes /\ T.key = key /\ s = [t |-> T, n |-> n]
  BY DEF InsertStates
<1>2. PICK D, bh : InsertGood(T, S, at, D, bh, n) /\ (InsertStops(T, n) \/ i < Cardinality(D[n]))
  BY DEF InsertStates
<1>3. CASE InsertStops(T, n)
  <2>1. InsertRound(s) = s
    BY <1>3 DEF InsertRound, InsertStops
  <2>2. s \in InsertStates(S, at, key, i + 1)
    BY <1>1, <1>2, <1>3, SMTT(30) DEF InsertStates
  <2> QED BY <2>1, <2>2, SMTT(30)
<1>4. CASE ~InsertStops(T, n)
  <2> DEFINE up == T.parent[n]
             grand == T.parent[up]
             d == SideOf(T, up)
             f == SideOf(T, n)
             uncle == T.child[Other(d)][grand]
  <2>1. n # T.root /\ up \in T.red
    BY <1>4 DEF InsertStops
  <2>2. Shape(T, S, at, D) /\ Even(T, S, bh, {}) /\ FewRed(T, S, n) /\ n \in S /\ n \in T.red
    BY <1>2 DEF InsertGood
  <2>3. /\ Family(T, S, n, up, grand, uncle, d, f)
        /\ n \in D[grand] /\ D[n] \subseteq D[grand] /\ grand \notin D[n]
    <3> HIDE DEF T, n
    <3> QED BY <2>1, <2>2, Grandparent
  <2>4. CASE uncle \in T.red
    <3> DEFINE A == Black(T, up)
               B == Black(A, uncle)
               U == Red(B, grand)
               r == [t |-> U, n |-> grand]
    <3>1. InsertRound(s) = r
      BY <2>1, <2>4 DEF InsertRound
    <3>2. up \in S /\ grand \in S /\ grand \in Nodes
      BY <2>2, <2>3, Zenon DEF Family, Shape
    <3> HIDE DEF T, n, d, f, uncle, grand, up
    <3>3. /\ A \in Trees /\ A.root = T.root /\ A.child = T.child /\ A.parent = T.parent /\ A.key = T.key
          /\ A.red = T.red \ {up}
      BY <1>1, BlackOK
    <3> HIDE DEF A
    <3>4. /\ B \in Trees /\ B.root = A.root /\ B.child = A.child /\ B.parent = A.parent /\ B.key = A.key
          /\ B.red = A.red \ {uncle}
      BY <3>3, BlackOK
    <3> HIDE DEF B
    <3>5. /\ U \in Trees /\ U.root = B.root /\ U.child = B.child /\ U.parent = B.parent /\ U.key = B.key
          /\ U.red = B.red \cup {grand}
      BY <3>2, <3>4, RedOK
    <3> HIDE DEF U
    <3>6. Recoloured(T, U, S, (T.red \ {up, uncle}) \cup {grand})
      BY <3>3, <3>4, <3>5 DEF Recoloured
    <3>7. Shape(U, S, at, D) /\ FewRed(U, S, grand) /\ Even(U, S, Raised(S, bh, {up, uncle}), {})
      BY <2>2, <2>3, <2>4, <3>6, RaiseRed
    <3>8. InsertGood(U, S, at, D, Raised(S, bh, {up, uncle}), grand)
      BY <3>2, <3>5, <3>7 DEF InsertGood
    <3>9. i + 1 < Cardinality(D[grand])
      <4>1. IsFiniteSet(D[grand]) /\ Cardinality(D[grand]) \in Nat
        BY <2>2, <3>2, Finite
      <4>2. grand \in D[grand]
        BY <2>2, <3>2 DEF Shape
      <4>3. Cardinality(D[n]) < Cardinality(D[grand]) /\ Cardinality(D[n]) \in Nat
        BY <2>3, <4>1, <4>2, Smaller
      <4>4. i < Cardinality(D[n])
        BY <1>2, <1>4
      <4> QED BY <4>1, <4>3, <4>4
    <3>10. r \in [t : Trees, n : Nodes] /\ r.t = U /\ r.n = grand /\ U.key = key
      BY <1>1, <3>2, <3>3, <3>4, <3>5
    <3> HIDE DEF r
    <3>11. r \in InsertStates(S, at, key, i + 1)
      BY <3>8, <3>9, <3>10 DEF InsertStates
    <3> QED BY <3>1, <3>11, SMTT(30)
  <2>5. CASE uncle \notin T.red /\ f = d
    <3>1. InsertRound(s) = TurnTop(T, n, d)
      BY <2>1, <2>5 DEF InsertRound
    <3> HIDE DEF T, n, d, f, uncle
    <3>2. Family(T, S, n, up, grand, uncle, d, d)
      BY <2>3, <2>5
    <3>3. WayUp(T, n, up, grand)
      BY DEF WayUp, up, grand
    <3> HIDE DEF up, grand
    <3> QED BY <1>1, <2>2, <2>5, <3>1, <3>2, <3>3, TurnTopOK
  <2>6. CASE uncle \notin T.red /\ f # d
    <3> DEFINE U == Rotate(T, up, d)
    <3>1. InsertRound(s) = TurnTop(U, up, d)
      BY <2>1, <2>6 DEF InsertRound
    <3> HIDE DEF T, n, d, f, uncle, up, grand
    <3>2. Family(T, S, n, up, grand, uncle, d, Other(d))
      <4>1. f \in Sides /\ d \in Sides
        BY <2>3 DEF Family
      <4>2. f = Other(d)
        BY <2>6, <4>1, SidesOK
      <4> QED BY <2>3, <4>2
    <3>3. /\ Shape(U, S, at, Turned(S, at, D, up, d, n))
          /\ Even(U, S, Swapped(S, bh, up, n), {}) /\ FewRed(U, S, up)
          /\ Family(U, S, up, n, grand, uncle, d, d)
          /\ U.key = T.key /\ U.red = T.red /\ U.parent[up] = n /\ U.parent[n] = grand
      BY <2>2, <3>2, Straighten
    <3>4. uncle \notin U.red /\ up \in U.red /\ WayUp(U, up, n, grand)
      BY <2>1, <2>6, <3>3 DEF WayUp
    <3> HIDE DEF U
    <3> QED BY <1>1, <3>1, <3>3, <3>4, TurnTopOK
  <2> QED BY <2>4, <2>5, <2>6
<1> QED BY <1>3, <1>4

\* What the loop comes to: nothing red is in the wrong place but perhaps the root.
LEMMA InsertLoop ==
  ASSUME NEW T, NEW S, NEW at, NEW D, NEW bh, NEW n, InsertGood(T, S, at, D, bh, n)
  PROVE  \E s \in InsertStates(S, at, T.key, Limit) : InsertFixup(T, n) = Black(s.t, s.t.root)
<1> DEFINE x == [t |-> T, n |-> n]
           G == [i \in 0..Limit |-> InsertStates(S, at, T.key, i)]
           f == [s \in [t : Trees, n : Nodes] |-> InsertRound(s)]
           Run(g) == g = [i \in 0..Limit |-> IF i = 0 THEN x ELSE InsertRound(g[i - 1])]
<1>1. Shape(T, S, at, D) /\ n \in S /\ T \in Trees /\ n \in Nodes
  BY DEF InsertGood, Shape
<1>2. Limit \in Nat /\ 0 < Cardinality(D[n])
  <2>1. Limit \in Nat /\ Cardinality(D[n]) \in Nat /\ 1 <= Cardinality(D[n])
    BY <1>1, Finite
  <2> QED BY <2>1
<1>3. x \in G[0]
  <2>1. x \in [t : Trees, n : Nodes] /\ x.t = T /\ x.n = n
    BY <1>1
  <2> HIDE DEF x
  <2>2. x \in InsertStates(S, at, T.key, 0)
    BY <1>2, <2>1 DEF InsertStates
  <2> QED BY <1>2, <2>2
<1>4. ASSUME NEW i \in 1..Limit, NEW s \in G[i - 1]
      PROVE  s \in [t : Trees, n : Nodes] /\ InsertRound(s) \in G[i]
  <2>1. i - 1 \in 0..Limit /\ i - 1 \in Nat /\ i \in 0..Limit /\ (i - 1) + 1 = i
    BY <1>2
  <2>2. G[i - 1] = InsertStates(S, at, T.key, i - 1) /\ G[i] = InsertStates(S, at, T.key, i)
    BY <2>1
  <2>3. s \in InsertStates(S, at, T.key, i - 1)
    BY <1>4, <2>2
  <2>4. InsertRound(s) \in InsertStates(S, at, T.key, (i - 1) + 1)
    BY <2>1, <2>3, InsertRoundOK
  <2>5. s \in [t : Trees, n : Nodes]
    BY <2>3 DEF InsertStates
  <2> QED BY <2>1, <2>2, <2>4, <2>5
<1>5. \A i \in 1..Limit : \A s \in G[i - 1] : f[s] \in G[i] /\ f[s] = InsertRound(s)
  BY <1>4
<1>6. G[Limit] = InsertStates(S, at, T.key, Limit)
  BY <1>2
<1> HIDE DEF x, G, f
<1>7. \E g : Run(g)
  <2>1. PICK g : Loop(Limit, f, x, g) /\ \A i \in 0..Limit : g[i] \in G[i]
    <3>1. \A i \in 1..Limit : \A s \in G[i - 1] : f[s] \in G[i]
      BY <1>5
    <3> QED BY <1>2, <1>3, <3>1, LoopRuns
  <2>2. \A i \in 0..Limit : g[i] = IF i = 0 THEN x ELSE InsertRound(g[i - 1])
    <3> TAKE i \in 0..Limit
    <3>1. i # 0 => i \in 1..Limit /\ i - 1 \in 0..Limit
      BY <1>2
    <3>2. g[i] = IF i = 0 THEN x ELSE f[g[i - 1]]
      BY <2>1 DEF Loop
    <3> QED BY <1>5, <2>1, <3>1, <3>2
  <2>3. g = [i \in 0..Limit |-> g[i]]
    BY <2>1 DEF Loop
  <2> QED BY <2>2, <2>3
<1>8. PICK g : Run(g) /\ InsertFixup(T, n) = Black(g[Limit].t, g[Limit].t.root)
  BY <1>7, Zenon DEF InsertFixup, x
<1>9. \A i \in 0..Limit : g[i] \in G[i]
  <2>1. \A i \in 0..Limit : g[i] = IF i = 0 THEN x ELSE InsertRound(g[i - 1])
    BY <1>8
  <2>2. g[0] \in G[0]
    BY <1>2, <1>3, <2>1
  <2>3. ASSUME NEW i \in 1..Limit, g[i - 1] \in G[i - 1] PROVE g[i] \in G[i]
    <3>1. g[i] = InsertRound(g[i - 1])
      BY <2>1
    <3> QED BY <1>5, <2>3, <3>1
  <2> QED BY <1>2, <2>2, <2>3, LoopStays
<1>10. g[Limit] \in InsertStates(S, at, T.key, Limit)
  BY <1>2, <1>6, <1>9
<1> QED BY <1>8, <1>10

\* With the root black the tree is right again.
LEMMA InsertFixupOK ==
  ASSUME NEW T, NEW S, NEW at, NEW D, NEW bh, NEW n, InsertGood(T, S, at, D, bh, n)
  PROVE  LET U == InsertFixup(T, n)
         IN  /\ U.key = T.key
             /\ \E E, h : Shape(U, S, at, E) /\ Even(U, S, h, {}) /\ FewRed(U, S, Null)
<1> DEFINE U == InsertFixup(T, n)
<1>1. PICK s \in InsertStates(S, at, T.key, Limit) : U = Black(s.t, s.t.root)
  BY InsertLoop
<1> DEFINE V == s.t
           m == s.n
           r == V.root
<1>2. PICK E, k : InsertGood(V, S, at, E, k, m) /\ (InsertStops(V, m) \/ Limit < Cardinality(E[m]))
  BY <1>1 DEF InsertStates
<1>3. V.key = T.key /\ V \in Trees
  BY <1>1 DEF InsertStates
<1>4. U = Black(V, r)
  BY <1>1
<1> HIDE DEF V, m, U
<1>5. Shape(V, S, at, E) /\ Even(V, S, k, {}) /\ FewRed(V, S, m) /\ m \in S /\ m \in V.red
  BY <1>2 DEF InsertGood
<1>6. InsertStops(V, m)
  <2>1. Cardinality(E[m]) \in Nat /\ Cardinality(E[m]) <= Limit /\ Limit \in Nat
    BY <1>5, Finite
  <2> QED BY <1>2, <2>1
<1>7. /\ U \in Trees /\ U.root = V.root /\ U.child = V.child /\ U.parent = V.parent /\ U.key = V.key
      /\ U.red = V.red \ {r}
  <2> HIDE DEF r
  <2> QED BY <1>3, <1>4, BlackOK
<1>8. Shape(U, S, at, E)
  BY <1>5, <1>7, SameShape
<1>9. /\ r \in S /\ Sentinel \notin S /\ Null \notin S /\ Null \notin V.red
      /\ \A z \in S, e \in Sides : V.child[e][z] = Sentinel \/ V.child[e][z] \in S
      /\ \A z \in S, e \in Sides : V.child[e][z] # r
  <2>1. r \in S
    BY <1>5 DEF Shape
  <2>2. Sentinel \notin S /\ Null \notin S
    BY <1>5, RedBlackAssumption DEF Shape
  <2>3. Null \notin V.red
    BY <1>3, TreeFields
  <2>4. ASSUME NEW z \in S, NEW e \in Sides
        PROVE  (V.child[e][z] = Sentinel \/ V.child[e][z] \in S) /\ V.child[e][z] # r
    <3>1. V.child[e][z] = Sentinel \/ V.child[e][z] \in S
      BY <1>5, ChildOK
    <3>2. V.child[e][z] # Sentinel => V.child[e][z] # r
      BY <1>5, OneParent
    <3> QED BY <2>1, <2>2, <3>1, <3>2
  <2> QED BY <2>1, <2>2, <2>3, <2>4
<1> HIDE DEF r
<1>10. FewRed(U, S, Null)
  <2>1. U.root \notin U.red
    BY <1>7 DEF r
  <2>2. ASSUME NEW z \in S, NEW e \in Sides, z \in U.red, U.child[e][z] \in U.red PROVE FALSE
    <3>1. V.child[e][z] = m /\ z \in V.red /\ m # r
      BY <1>5, <1>7, <1>9, <2>2 DEF FewRed
    <3>2. m # V.root
      BY <3>1 DEF r
    <3>3. V.parent[m] \notin V.red
      BY <1>6, <3>2 DEF InsertStops
    <3>4. V.parent[m] = z
      BY <1>5, <1>9, <3>1, ChildOK
    <3> QED BY <3>1, <3>3, <3>4
  <2> QED BY <2>1, <2>2 DEF FewRed
<1> DEFINE h == [z \in S \cup {Sentinel} |-> IF z = r /\ r \in V.red THEN k[z] + 1 ELSE k[z]]
<1>11. Even(U, S, h, {})
  <2>1. /\ k[Sentinel] = 0 /\ \A z \in S : k[z] \in Nat
        /\ \A z \in S, e \in Sides : k[z] = k[V.child[e][z]] + (IF z \in V.red THEN 0 ELSE 1)
    <3>1. k[Sentinel] = 0 /\ \A z \in S : k[z] \in Nat
      BY <1>5 DEF Even
    <3>2. ASSUME NEW z \in S, NEW e \in Sides PROVE k[z] = k[V.child[e][z]] + (IF z \in V.red THEN 0 ELSE 1)
      <4>1. k[z] = k[V.child[e][z]] + (IF z \in V.red THEN 0 ELSE 1) + (IF <<z, e>> \in {} THEN 1 ELSE 0)
        BY <1>5 DEF Even
      <4>2. k[V.child[e][z]] \in Nat
        BY <1>9, <3>1
      <4> HIDE DEF h
      <4> QED BY <4>1, <4>2
    <3> QED BY <3>1, <3>2
  <2>2. h[Sentinel] = 0
    BY <1>9, <2>1
  <2>3. \A z \in S : h[z] \in Nat
    BY <2>1
  <2>4. ASSUME NEW z \in S, NEW e \in Sides
        PROVE  h[z] = h[U.child[e][z]] + (IF z \in U.red THEN 0 ELSE 1) + (IF <<z, e>> \in {} THEN 1 ELSE 0)
    <3> DEFINE c == V.child[e][z]
    <3>1. U.child[e][z] = c
      BY <1>7
    <3>2. c \in S \cup {Sentinel} /\ c # r
      BY <1>9
    <3>3. h[c] = k[c] /\ k[c] \in Nat
      BY <2>1, <3>2
    <3>4. k[z] = k[c] + (IF z \in V.red THEN 0 ELSE 1) /\ k[z] \in Nat
      BY <2>1
    <3>5. z \in U.red <=> z \in V.red /\ z # r
      BY <1>7
    <3>6. h[z] = IF z = r /\ r \in V.red THEN k[z] + 1 ELSE k[z]
      OBVIOUS
    <3> HIDE DEF c, h
    <3> QED BY <3>1, <3>3, <3>4, <3>5, <3>6
  <2> HIDE DEF h
  <2> QED BY <2>2, <2>3, <2>4 DEF Even
<1> QED BY <1>3, <1>7, <1>8, <1>10, <1>11 DEF U

-----------------------------------------------------------------------------
(* Walks through the tree. *)

\* Subtrees are nested, or apart.
LEMMA Nested ==
  ASSUME NEW T, NEW S, NEW at, NEW D, Shape(T, S, at, D), NEW x \in S
  PROVE  \A a \in S : x \in D[a] => D[x] \subseteq D[a]
<1> DEFINE Bad == {a \in S : x \in D[a] /\ ~(D[x] \subseteq D[a])}
           size == [a \in S |-> Cardinality(D[a])]
<1>1. SUFFICES ASSUME Bad # {} PROVE FALSE
  OBVIOUS
<1>2. \A a \in Bad : a \in S /\ size[a] \in Nat
  BY Finite
<1> HIDE DEF Bad, size
<1>3. PICK a \in Bad : \A b \in Bad : size[a] <= size[b]
  BY <1>1, <1>2, LeastBy
<1>4. a \in S /\ x \in D[a] /\ ~(D[x] \subseteq D[a]) /\ x # a /\ Ordered(S, at)
  BY DEF Bad, Shape
<1>5. PICK e \in Sides : Toward(at, e, x, a)
  <2>1. Toward(at, "left", x, a) \/ Toward(at, "left", a, x)
    BY <1>4, SidesOK, TowardOK
  <2>2. Toward(at, "left", a, x) => Toward(at, Other("left"), x, a)
    BY <1>4, SidesOK, TowardOK
  <2> QED BY <2>1, <2>2, SidesOK
<1> DEFINE c == T.child[e][a]
<1>6. c # Sentinel
  BY <1>4, <1>5, ChildOK
<1>7. c \in S /\ x \in D[c] /\ D[c] \subseteq D[a]
  BY <1>4, <1>5, <1>6, ChildOK
<1>8. Cardinality(D[c]) < Cardinality(D[a])
  BY <1>4, <1>6, ChildSmaller
<1> HIDE DEF c
<1>9. size[c] < size[a] /\ size[c] \in Int /\ size[a] \in Int
  BY <1>4, <1>7, <1>8, Finite DEF size
<1>10. c \notin Bad
  BY <1>3, <1>9
<1> QED BY <1>4, <1>7, <1>10 DEF Bad

\* A subtree that a child is in, and does not begin, has its parent too.
LEMMA ThroughParent ==
  ASSUME NEW T, NEW S, NEW at, NEW D, Shape(T, S, at, D), NEW p \in S, NEW f \in Sides,
         T.child[f][p] # Sentinel
  PROVE  \A a \in S : T.child[f][p] \in D[a] /\ a # T.child[f][p] => p \in D[a]
<1> DEFINE x == T.child[f][p]
           Bad == {a \in S : x \in D[a] /\ a # x /\ p \notin D[a]}
           size == [a \in S |-> Cardinality(D[a])]
<1>0. x \in S /\ Ordered(S, at) /\ p \in D[p]
  <2>1. p \in D[p] /\ Ordered(S, at)
    BY DEF Shape
  <2> QED BY <2>1, ChildOK
<1>1. SUFFICES ASSUME Bad # {} PROVE FALSE
  OBVIOUS
<1>2. \A a \in Bad : a \in S /\ size[a] \in Nat
  BY Finite
<1> HIDE DEF Bad, size, x
<1>3. PICK a \in Bad : \A b \in Bad : size[a] <= size[b]
  BY <1>1, <1>2, LeastBy
<1>4. a \in S /\ x \in D[a] /\ p \notin D[a] /\ x # a
  BY DEF Bad
<1>5. PICK e \in Sides : Toward(at, e, x, a)
  <2>1. Toward(at, "left", x, a) \/ Toward(at, "left", a, x)
    BY <1>0, <1>4, SidesOK, TowardOK
  <2>2. Toward(at, "left", a, x) => Toward(at, Other("left"), x, a)
    BY <1>0, <1>4, SidesOK, TowardOK
  <2> QED BY <2>1, <2>2, SidesOK
<1> DEFINE c == T.child[e][a]
<1>6. c # Sentinel
  BY <1>4, <1>5, ChildOK
<1>7. c \in S /\ x \in D[c] /\ D[c] \subseteq D[a]
  BY <1>0, <1>4, <1>5, <1>6, ChildOK
<1>8. Cardinality(D[c]) < Cardinality(D[a])
  BY <1>4, <1>6, ChildSmaller
<1>9. c # x
  <2>1. c = T.child[f][p] => a = p
    BY <1>4, OneParent
  <2> QED BY <1>0, <1>4, <2>1 DEF x
<1> HIDE DEF c
<1>10. size[c] < size[a] /\ size[c] \in Int /\ size[a] \in Int
  BY <1>4, <1>7, <1>8, Finite DEF size
<1>11. c \notin Bad
  BY <1>3, <1>10
<1> QED BY <1>4, <1>7, <1>9, <1>11 DEF Bad

\* What lies between two nodes of a subtree in the order belongs to it.
LEMMA Convex ==
  ASSUME NEW T, NEW S, NEW at, NEW D, Shape(T, S, at, D), NEW x \in S, NEW d \in Sides,
         NEW u \in D[x], NEW v \in D[x], NEW z \in S, Toward(at, d, u, z), Toward(at, d, z, v)
  PROVE  z \in D[x]
<1> DEFINE Bad == {a \in S : u \in D[a] /\ v \in D[a] /\ z \notin D[a]}
           room == [a \in S |-> Limit - Cardinality(D[a])]
<1>1. SUFFICES ASSUME z \notin D[x] PROVE FALSE
  OBVIOUS
<1>2. \A a \in Bad : a \in S /\ room[a] \in Nat
  <2> TAKE a \in Bad
  <2>1. Cardinality(D[a]) \in Nat /\ Cardinality(D[a]) <= Limit /\ Limit \in Nat
    BY Finite
  <2> QED BY <2>1
<1>3. x \in Bad
  BY <1>1
<1> HIDE DEF Bad, room
<1>4. PICK a \in Bad : \A b \in Bad : room[a] <= room[b]
  BY <1>2, <1>3, LeastBy
<1>5. a \in S /\ u \in D[a] /\ v \in D[a] /\ z \notin D[a] /\ Ordered(S, at) /\ D[a] \subseteq S
  BY DEF Bad, Shape
<1>6. a # T.root
  BY <1>5 DEF Shape
<1> DEFINE p == T.parent[a]
           e == SideOf(T, a)
<1>7. p \in S /\ e \in Sides /\ T.child[e][p] = a /\ a # Sentinel
  BY <1>5, <1>6, HasParent
<1> HIDE DEF p, e
<1>8. /\ D[a] \subseteq D[p] /\ \A y \in S : y \in D[a] <=> y \in D[p] /\ Toward(at, e, y, p)
      /\ Cardinality(D[a]) < Cardinality(D[p])
  <2>1. T.child[e][p] # Sentinel
    BY <1>7
  <2>2. /\ D[T.child[e][p]] \subseteq D[p]
        /\ \A y \in S : y \in D[T.child[e][p]] <=> y \in D[p] /\ Toward(at, e, y, p)
    BY <1>7, <2>1, ChildOK
  <2>3. Cardinality(D[T.child[e][p]]) < Cardinality(D[p])
    BY <1>7, <2>1, ChildSmaller
  <2> QED BY <1>7, <2>2, <2>3
<1>9. p \notin Bad
  <2>1. /\ Cardinality(D[a]) \in Nat /\ Cardinality(D[p]) \in Nat /\ Limit \in Nat
        /\ Cardinality(D[p]) <= Limit
    BY <1>5, <1>7, Finite
  <2>2. room[p] < room[a] /\ room[p] \in Int /\ room[a] \in Int
    BY <1>5, <1>7, <1>8, <2>1 DEF room
  <2> QED BY <1>4, <2>2
<1>10. z \in D[p]
  BY <1>5, <1>7, <1>8, <1>9 DEF Bad
<1>11. Toward(at, e, z, p)
  <2>1. Toward(at, e, u, p) /\ Toward(at, e, v, p) /\ u \in S /\ v \in S
    BY <1>5, <1>8
  <2>2. e = d \/ e = Other(d)
    BY <1>7, SidesOK
  <2>3. CASE e = d
    BY <1>5, <1>7, <2>1, <2>3, TowardOK
  <2>4. CASE e = Other(d)
    <3>1. Toward(at, e, z, u)
      BY <1>5, <2>1, <2>4, TowardOK
    <3> QED BY <1>5, <1>7, <2>1, <3>1, TowardOK
  <2> QED BY <2>2, <2>3, <2>4
<1> QED BY <1>5, <1>8, <1>10, <1>11

\* What rbtree_min() finds: nothing of the subtree lies to the left of it.
LEMMA MinOK ==
  ASSUME NEW T, NEW S, NEW at, NEW D, Shape(T, S, at, D), NEW x \in S
  PROVE  LET m == RbtreeMin(T, x)
         IN  /\ m \in D[x] /\ m \in S /\ T.child["left"][m] = Sentinel
             /\ \A z \in D[x] : ~Toward(at, "left", z, m)
<1> DEFINE Cond(y, i) ==
             /\ y \in D[x] /\ \A z \in D[x] : Toward(at, "left", z, y) => z \in D[y]
             /\ T.child["left"][y] = Sentinel \/ Cardinality(D[y]) <= Limit - i
           G == [i \in 0..Limit |-> {y \in S : Cond(y, i)}]
           f == [y \in S |-> Below(T, "left", y)]
           Run(g) == g = [i \in 0..Limit |-> IF i = 0 THEN x ELSE Below(T, "left", g[i - 1])]
<1>1. Limit \in Nat /\ Ordered(S, at) /\ "left" \in Sides /\ D[x] \subseteq S
  <2>1. Ordered(S, at) /\ D[x] \subseteq S
    BY DEF Shape
  <2> QED BY <2>1, Finite, SidesOK
<1>2. x \in G[0]
  <2>1. x \in D[x]
    BY DEF Shape
  <2>2. Cardinality(D[x]) <= Limit - 0
    <3>1. Cardinality(D[x]) \in Nat /\ Cardinality(D[x]) <= Limit
      BY Finite
    <3> QED BY <1>1, <3>1
  <2> QED BY <1>1, <2>1, <2>2
<1>3. ASSUME NEW i \in 1..Limit, NEW y \in G[i - 1] PROVE y \in S /\ Below(T, "left", y) \in G[i]
  <2>1. i - 1 \in 0..Limit /\ i \in 0..Limit
    BY <1>1
  <2>2. y \in S /\ Cond(y, i - 1)
    BY <2>1
  <2> DEFINE c == T.child["left"][y]
  <2>3. CASE c = Sentinel
    <3>1. Below(T, "left", y) = y
      BY <2>3 DEF Below
    <3>2. Cond(y, i)
      BY <2>2, <2>3
    <3> QED BY <2>1, <2>2, <3>1, <3>2
  <2>4. CASE c # Sentinel
    <3>1. Below(T, "left", y) = c
      BY <2>4 DEF Below
    <3>2. /\ c \in S /\ c \in D[y] /\ D[c] \subseteq D[y] /\ Toward(at, "left", c, y)
          /\ \A z \in S : z \in D[c] <=> z \in D[y] /\ Toward(at, "left", z, y)
      BY <1>1, <2>2, <2>4, ChildOK
    <3>3. Cardinality(D[c]) < Cardinality(D[y])
      BY <1>1, <2>2, <2>4, ChildSmaller
    <3>4. Cardinality(D[c]) \in Nat /\ Cardinality(D[y]) \in Nat
      BY <2>2, <3>2, Finite
    <3>5. Cardinality(D[y]) <= Limit - (i - 1)
      BY <2>2, <2>4
    <3>6. D[y] \subseteq D[x]
      BY <2>2, Nested
    <3> HIDE DEF c
    <3>7. Cardinality(D[c]) <= Limit - i
      BY <1>1, <3>3, <3>4, <3>5
    <3>8. ASSUME NEW z \in D[x], Toward(at, "left", z, c) PROVE z \in D[c]
      <4>1. Toward(at, "left", z, y) /\ z \in S
        BY <1>1, <2>2, <3>2, <3>8, TowardOK
      <4> QED BY <2>2, <3>2, <4>1
    <3>9. Cond(c, i)
      BY <3>2, <3>6, <3>7, <3>8
    <3> QED BY <2>1, <2>2, <3>1, <3>2, <3>9
  <2> QED BY <2>3, <2>4
<1>4. \A i \in 1..Limit : \A y \in G[i - 1] : f[y] \in G[i] /\ f[y] = Below(T, "left", y)
  BY <1>3
<1>5. \A y \in G[Limit] : y \in S /\ Cond(y, Limit)
  BY <1>1
<1> HIDE DEF G, f
<1>6. \E g : Run(g)
  <2>1. PICK g : Loop(Limit, f, x, g) /\ \A i \in 0..Limit : g[i] \in G[i]
    <3>1. \A i \in 1..Limit : \A s \in G[i - 1] : f[s] \in G[i]
      BY <1>4
    <3> QED BY <1>1, <1>2, <3>1, LoopRuns
  <2>2. \A i \in 0..Limit : g[i] = IF i = 0 THEN x ELSE Below(T, "left", g[i - 1])
    <3> TAKE i \in 0..Limit
    <3>1. i # 0 => i \in 1..Limit /\ i - 1 \in 0..Limit
      BY <1>1
    <3>2. g[i] = IF i = 0 THEN x ELSE f[g[i - 1]]
      BY <2>1 DEF Loop
    <3> QED BY <1>4, <2>1, <3>1, <3>2
  <2>3. g = [i \in 0..Limit |-> g[i]]
    BY <2>1 DEF Loop
  <2> QED BY <2>2, <2>3
<1>7. PICK g : Run(g) /\ RbtreeMin(T, x) = g[Limit]
  BY <1>6, Zenon DEF RbtreeMin
<1>8. \A i \in 0..Limit : g[i] \in G[i]
  <2>1. \A i \in 0..Limit : g[i] = IF i = 0 THEN x ELSE Below(T, "left", g[i - 1])
    BY <1>7
  <2>2. g[0] \in G[0]
    BY <1>1, <1>2, <2>1
  <2>3. ASSUME NEW i \in 1..Limit, g[i - 1] \in G[i - 1] PROVE g[i] \in G[i]
    <3>1. g[i] = Below(T, "left", g[i - 1])
      BY <2>1
    <3> QED BY <1>4, <2>3, <3>1
  <2> QED BY <1>1, <2>2, <2>3, LoopStays
<1> DEFINE m == RbtreeMin(T, x)
<1>9. m \in S /\ Cond(m, Limit)
  BY <1>1, <1>5, <1>7, <1>8
<1> HIDE DEF m
<1>10. T.child["left"][m] = Sentinel
  <2>1. Cardinality(D[m]) \in Nat /\ 1 <= Cardinality(D[m])
    BY <1>9, Finite
  <2> QED BY <1>1, <1>9, <2>1
<1>11. \A z \in D[m] : ~Toward(at, "left", z, m)
  BY <1>1, <1>9, <1>10, ChildOK
<1> QED BY <1>9, <1>10, <1>11 DEF m

\* y comes right behind x in the order.
Follows(S, at, x, y) ==
  /\ y \in S /\ Toward(at, "left", x, y)
  /\ \A z \in S : Toward(at, "left", x, z) => ~Toward(at, "left", z, y)

\* Behind a node with a subtree on the right comes the first of that.
LEMMA MinFollows ==
  ASSUME NEW T, NEW S, NEW at, NEW D, Shape(T, S, at, D), NEW x \in S,
         T.child["right"][x] # Sentinel
  PROVE  LET m == RbtreeMin(T, T.child["right"][x])
         IN  Follows(S, at, x, m) /\ m \in D[x] /\ T.child["left"][m] = Sentinel
<1> DEFINE c == T.child["right"][x]
           m == RbtreeMin(T, c)
<1>1. /\ Ordered(S, at) /\ "left" \in Sides /\ "right" \in Sides /\ Other("left") = "right"
      /\ x \in D[x] /\ D[x] \subseteq S
  BY SidesOK DEF Shape, Other
<1>2. /\ c \in S /\ D[c] \subseteq D[x]
      /\ \A z \in S : z \in D[c] <=> z \in D[x] /\ Toward(at, "right", z, x)
  BY <1>1, ChildOK
<1> HIDE DEF c
<1>3. m \in D[c] /\ m \in S /\ T.child["left"][m] = Sentinel /\ \A z \in D[c] : ~Toward(at, "left", z, m)
  BY <1>2, MinOK
<1> HIDE DEF m
<1>4. \A a, b \in S : Toward(at, "right", a, b) <=> Toward(at, "left", b, a)
  BY <1>1, TowardOK
<1>5. m \in D[x] /\ Toward(at, "left", x, m)
  BY <1>2, <1>3, <1>4
<1>6. ASSUME NEW z \in S, Toward(at, "left", x, z), Toward(at, "left", z, m) PROVE FALSE
  <2>1. z \in D[x]
    BY <1>1, <1>5, <1>6, Convex
  <2>2. z \in D[c]
    BY <1>2, <1>4, <1>6, <2>1
  <2> QED BY <1>3, <1>6, <2>2
<1> QED BY <1>3, <1>5, <1>6 DEF Follows, m, c

\* The climb of rbtree_next() ends at a node that x is the last of, and that is
\* the root or on the left of its parent.
LEMMA ClimbOK ==
  ASSUME NEW T, NEW S, NEW at, NEW D, Shape(T, S, at, D), NEW x \in S,
         T.child["right"][x] = Sentinel
  PROVE  \E y \in S : /\ x \in D[y] /\ \A z \in D[y] : ~Toward(at, "left", x, z)
                      /\ y = T.root \/ T.child["left"][T.parent[y]] = y
                      /\ RbtreeNext(T, x) = IF y = T.root THEN Null ELSE T.parent[y]
<1> DEFINE Top(y) == y = T.root \/ T.child["left"][T.parent[y]] = y
           Cond(y, i) ==
             /\ x \in D[y] /\ \A z \in D[y] : ~Toward(at, "left", x, z)
             /\ Top(y) \/ i < Cardinality(D[y])
           Up(y) == IF Top(y) THEN y ELSE T.parent[y]
           G == [i \in 0..Limit |-> {y \in S : Cond(y, i)}]
           f == [y \in S |-> Up(y)]
           Run(g) == g = [i \in 0..Limit |-> IF i = 0 \/ Top(g[i - 1]) THEN (IF i = 0 THEN x ELSE g[i - 1])
                                             ELSE T.parent[g[i - 1]]]
<1>1. /\ Limit \in Nat /\ Ordered(S, at) /\ "left" \in Sides /\ "right" \in Sides
      /\ \A z \in S : D[z] \subseteq S
      /\ \A a, b \in S : Toward(at, "right", a, b) <=> Toward(at, "left", b, a)
  <2>1. Ordered(S, at) /\ \A z \in S : D[z] \subseteq S
    BY DEF Shape
  <2>2. "left" \in Sides /\ "right" \in Sides /\ Other("left") = "right"
    BY SidesOK DEF Other
  <2>3. \A a, b \in S : Toward(at, Other("left"), a, b) <=> Toward(at, "left", b, a)
    BY <2>1, <2>2, TowardOK
  <2> QED BY <2>1, <2>2, <2>3, Finite
<1>2. x \in G[0]
  <2>1. x \in D[x]
    BY DEF Shape
  <2>2. 0 < Cardinality(D[x])
    <3>1. Cardinality(D[x]) \in Nat /\ 1 <= Cardinality(D[x])
      BY Finite
    <3> QED BY <3>1
  <2>3. ASSUME NEW z \in D[x] PROVE ~Toward(at, "left", x, z)
    <3>1. ~Toward(at, "right", z, x)
      BY <1>1, ChildOK
    <3> QED BY <1>1, <3>1
  <2> QED BY <1>1, <2>1, <2>2, <2>3
<1>3. ASSUME NEW i \in 1..Limit, NEW y \in G[i - 1] PROVE y \in S /\ Up(y) \in G[i]
  <2>1. i - 1 \in 0..Limit /\ i \in 0..Limit
    BY <1>1
  <2>2. y \in S /\ Cond(y, i - 1)
    BY <2>1
  <2>3. CASE Top(y)
    BY <2>1, <2>2, <2>3
  <2>4. CASE ~Top(y)
    <3> DEFINE p == T.parent[y]
    <3>1. /\ p \in S /\ SideOf(T, y) \in Sides /\ T.child[SideOf(T, y)][p] = y /\ y # Sentinel
      BY <2>2, <2>4, HasParent
    <3>2. SideOf(T, y) = "right"
      BY <2>4, <3>1 DEF Sides
    <3> HIDE DEF p
    <3>3. T.child["right"][p] = y /\ T.child["right"][p] # Sentinel
      BY <3>1, <3>2
    <3>4. /\ D[y] \subseteq D[p] /\ \A z \in S : z \in D[y] <=> z \in D[p] /\ Toward(at, "right", z, p)
          /\ Cardinality(D[y]) < Cardinality(D[p])
      <4>1. /\ D[T.child["right"][p]] \subseteq D[p]
            /\ \A z \in S : z \in D[T.child["right"][p]] <=> z \in D[p] /\ Toward(at, "right", z, p)
        BY <1>1, <3>1, <3>3, ChildOK
      <4>2. Cardinality(D[T.child["right"][p]]) < Cardinality(D[p])
        BY <1>1, <3>1, <3>3, ChildSmaller
      <4> QED BY <3>3, <4>1, <4>2
    <3>5. ASSUME NEW z \in D[p], Toward(at, "left", x, z) PROVE FALSE
      <4>1. z \in S /\ Toward(at, "left", p, x)
        BY <1>1, <2>2, <3>1, <3>4
      <4>2. Toward(at, "left", p, z)
        BY <1>1, <3>1, <3>5, <4>1, TowardOK
      <4>3. z \in D[y]
        BY <1>1, <3>1, <3>4, <4>1, <4>2
      <4> QED BY <2>2, <3>5, <4>3
    <3>6. i < Cardinality(D[p])
      <4>1. Cardinality(D[y]) \in Nat /\ Cardinality(D[p]) \in Nat
        BY <2>2, <3>1, Finite
      <4>2. i - 1 < Cardinality(D[y])
        BY <2>2, <2>4
      <4> QED BY <3>4, <4>1, <4>2
    <3>7. Cond(p, i)
      BY <2>2, <3>4, <3>5, <3>6
    <3>8. Up(y) = p
      BY <2>4 DEF p
    <3> QED BY <2>1, <2>2, <3>1, <3>7, <3>8
  <2> QED BY <2>3, <2>4
<1>4. \A i \in 1..Limit : \A y \in G[i - 1] : f[y] \in G[i] /\ f[y] = Up(y)
  BY <1>3
<1>5. \A y \in G[Limit] : y \in S /\ Cond(y, Limit)
  BY <1>1
<1> HIDE DEF G, f
<1>6. \E g : Run(g)
  <2>1. PICK g : Loop(Limit, f, x, g) /\ \A i \in 0..Limit : g[i] \in G[i]
    <3>1. \A i \in 1..Limit : \A s \in G[i - 1] : f[s] \in G[i]
      BY <1>4
    <3> QED BY <1>1, <1>2, <3>1, LoopRuns
  <2>2. \A i \in 0..Limit : g[i] = IF i = 0 \/ Top(g[i - 1]) THEN (IF i = 0 THEN x ELSE g[i - 1])
                                   ELSE T.parent[g[i - 1]]
    <3> TAKE i \in 0..Limit
    <3>1. i # 0 => i \in 1..Limit /\ i - 1 \in 0..Limit
      BY <1>1
    <3>2. g[i] = IF i = 0 THEN x ELSE f[g[i - 1]]
      BY <2>1 DEF Loop
    <3>3. i # 0 => g[i] = Up(g[i - 1])
      BY <1>4, <2>1, <3>1, <3>2
    <3> QED BY <3>2, <3>3
  <2>3. g = [i \in 0..Limit |-> g[i]]
    BY <2>1 DEF Loop
  <2> HIDE DEF Top
  <2>4. [i \in 0..Limit |-> g[i]] =
          [i \in 0..Limit |-> IF i = 0 \/ Top(g[i - 1]) THEN (IF i = 0 THEN x ELSE g[i - 1])
                             ELSE T.parent[g[i - 1]]]
    BY <2>2
  <2> QED BY <2>3, <2>4
<1>7. PICK g : Run(g) /\ RbtreeNext(T, x) = IF g[Limit] = T.root THEN Null ELSE T.parent[g[Limit]]
  BY <1>6, Zenon DEF RbtreeNext
<1>8. \A i \in 0..Limit : g[i] \in G[i]
  <2>1. \A i \in 0..Limit : g[i] = IF i = 0 \/ Top(g[i - 1]) THEN (IF i = 0 THEN x ELSE g[i - 1])
                                   ELSE T.parent[g[i - 1]]
    BY <1>7, Zenon
  <2>2. g[0] \in G[0]
    BY <1>1, <1>2, <2>1
  <2>3. ASSUME NEW i \in 1..Limit, g[i - 1] \in G[i - 1] PROVE g[i] \in G[i]
    <3>1. i \in 0..Limit /\ i # 0
      BY <1>1
    <3>2. g[i] = Up(g[i - 1])
      BY <2>1, <3>1
    <3> QED BY <1>4, <2>3, <3>2
  <2> QED BY <1>1, <2>2, <2>3, LoopStays
<1> DEFINE y == g[Limit]
<1>9. y \in S /\ Cond(y, Limit)
  BY <1>1, <1>5, <1>8
<1> HIDE DEF y
<1>10. Top(y)
  <2>1. Cardinality(D[y]) \in Nat /\ Cardinality(D[y]) <= Limit
    BY <1>9, Finite
  <2> QED BY <1>1, <1>9, <2>1
<1>11. RbtreeNext(T, x) = IF y = T.root THEN Null ELSE T.parent[y]
  BY <1>7, Zenon DEF y
<1> QED BY <1>9, <1>10, <1>11

\* rbtree_next() finds the node right behind, or NULL behind the last one.
LEMMA NextOK ==
  ASSUME NEW T, NEW S, NEW at, NEW D, Shape(T, S, at, D), NEW x \in S
  PROVE  \/ Follows(S, at, x, RbtreeNext(T, x))
         \/ RbtreeNext(T, x) = Null /\ \A z \in S : ~Toward(at, "left", x, z)
<1>1. CASE T.child["right"][x] # Sentinel
  <2> DEFINE m == RbtreeMin(T, T.child["right"][x])
  <2>1. RbtreeNext(T, x) = m
    BY <1>1, Zenon DEF RbtreeNext
  <2>2. Follows(S, at, x, m)
    BY <1>1, MinFollows
  <2> QED BY <2>1, <2>2
<1>2. CASE T.child["right"][x] = Sentinel
  <2>1. PICK y \in S : /\ x \in D[y] /\ \A z \in D[y] : ~Toward(at, "left", x, z)
                       /\ y = T.root \/ T.child["left"][T.parent[y]] = y
                       /\ RbtreeNext(T, x) = IF y = T.root THEN Null ELSE T.parent[y]
    BY <1>2, ClimbOK
  <2>2. CASE y = T.root
    <3>1. D[y] = S
      BY <2>2 DEF Shape
    <3> QED BY <2>1, <2>2, <3>1
  <2>3. CASE y # T.root
    <3> DEFINE p == T.parent[y]
    <3>1. p \in S /\ T.child["left"][p] = y /\ y # Sentinel /\ RbtreeNext(T, x) = p
      BY <2>1, <2>3, HasParent
    <3> HIDE DEF p
    <3>2. "left" \in Sides /\ Ordered(S, at) /\ p \in D[p]
      BY <3>1, SidesOK DEF Shape
    <3>3. D[y] \subseteq D[p] /\ \A z \in S : z \in D[y] <=> z \in D[p] /\ Toward(at, "left", z, p)
      <4>1. /\ D[T.child["left"][p]] \subseteq D[p]
            /\ \A z \in S : z \in D[T.child["left"][p]] <=> z \in D[p] /\ Toward(at, "left", z, p)
        BY <3>1, <3>2, ChildOK
      <4> QED BY <3>1, <4>1
    <3>4. x \in D[p] /\ Toward(at, "left", x, p)
      BY <2>1, <3>3
    <3>5. ASSUME NEW z \in S, Toward(at, "left", x, z), Toward(at, "left", z, p) PROVE FALSE
      <4>1. z \in D[p]
        BY <3>1, <3>2, <3>4, <3>5, Convex
      <4> QED BY <2>1, <3>3, <3>5, <4>1
    <3> QED BY <3>1, <3>4, <3>5 DEF Follows
  <2> QED BY <2>2, <2>3
<1> QED BY <1>1, <1>2

-----------------------------------------------------------------------------
(* The tree as a list. *)

\* at[x] is the place of x, from 1 on.
Listing(S, at) ==
  /\ at \in [S -> 1..Cardinality(S)]
  /\ \A x, y \in S : at[x] = at[y] => x = y
  /\ \A i \in 1..Cardinality(S) : \E x \in S : at[x] = i

\* The nodes of D are those at the places behind lo and up to hi.
Span(S, at, D, lo, hi) == \A z \in S : z \in D <=> lo < at[z] /\ at[z] <= hi

\* q has them, one after the other.
Lists(q, S, at, lo, hi) ==
  q \in Seq(Nodes) /\ Len(q) = hi - lo /\ \A j \in 1..(hi - lo) : q[j] \in S /\ at[q[j]] = lo + j

\* Places put the nodes in order.
LEMMA ListingOK ==
  ASSUME NEW S, NEW at, Listing(S, at), IsFiniteSet(S)
  PROVE  Ordered(S, at) /\ Cardinality(S) \in Nat /\ \A x \in S : at[x] \in 1..Cardinality(S)
<1>1. Cardinality(S) \in Nat
  BY FS_CardinalityType
<1>2. \A x \in S : at[x] \in 1..Cardinality(S)
  BY DEF Listing
<1>3. \A x \in S : at[x] \in Int
  BY <1>1, <1>2
<1> QED BY <1>1, <1>2, <1>3 DEF Ordered, Listing

\* The list of a subtree.
LEMMA JoinLists ==
  ASSUME NEW S, S \subseteq Nodes, NEW at, NEW x \in S, NEW lo \in Nat, NEW hi \in Nat, NEW l, NEW r,
         at[x] \in Nat, lo < at[x], at[x] <= hi,
         Lists(l, S, at, lo, at[x] - 1), Lists(r, S, at, at[x], hi)
  PROVE  Lists(l \o <<x>> \o r, S, at, lo, hi)
<1> DEFINE k == at[x]
           m == <<x>>
           lm == l \o m
           q == lm \o r
<1>1. /\ l \in Seq(Nodes) /\ Len(l) = k - 1 - lo /\ \A j \in 1..(k - 1 - lo) : l[j] \in S /\ at[l[j]] = lo + j
      /\ r \in Seq(Nodes) /\ Len(r) = hi - k /\ \A j \in 1..(hi - k) : r[j] \in S /\ at[r[j]] = k + j
      /\ k \in Nat /\ lo < k /\ k <= hi
  BY DEF Lists
<1>2. m \in Seq(Nodes) /\ Len(m) = 1 /\ m[1] = x
  OBVIOUS
<1> HIDE DEF k, m
<1>3. lm \in Seq(Nodes) /\ Len(lm) = k - lo
      /\ \A j \in 1..(k - lo) : lm[j] = IF j <= k - 1 - lo THEN l[j] ELSE m[j - (k - 1 - lo)]
  <2>1. /\ lm \in Seq(Nodes) /\ Len(lm) = Len(l) + Len(m)
        /\ \A j \in 1..(Len(l) + Len(m)) : lm[j] = IF j <= Len(l) THEN l[j] ELSE m[j - Len(l)]
    BY <1>1, <1>2, ConcatProperties
  <2> HIDE DEF lm
  <2>2. Len(l) + Len(m) = k - lo /\ Len(l) = k - 1 - lo
    BY <1>1, <1>2
  <2> QED BY <2>1, <2>2
<1> HIDE DEF lm
<1>5. q \in Seq(Nodes) /\ Len(q) = hi - lo
      /\ \A j \in 1..(hi - lo) : q[j] = IF j <= k - lo THEN lm[j] ELSE r[j - (k - lo)]
  <2>1. /\ q \in Seq(Nodes) /\ Len(q) = Len(lm) + Len(r)
        /\ \A j \in 1..(Len(lm) + Len(r)) : q[j] = IF j <= Len(lm) THEN lm[j] ELSE r[j - Len(lm)]
    BY <1>1, <1>3, ConcatProperties
  <2> HIDE DEF q
  <2>2. Len(lm) + Len(r) = hi - lo /\ Len(lm) = k - lo
    BY <1>1, <1>3
  <2> QED BY <2>1, <2>2
<1> HIDE DEF q
<1>7. ASSUME NEW j \in 1..(hi - lo) PROVE q[j] \in S /\ at[q[j]] = lo + j
  <2>1. CASE j <= k - 1 - lo
    <3>1. q[j] = l[j] /\ j \in 1..(k - 1 - lo)
      BY <1>1, <1>3, <1>5, <2>1
    <3> QED BY <1>1, <3>1
  <2>2. CASE j = k - lo
    <3>1. j \in 1..(k - lo) /\ ~(j <= k - 1 - lo) /\ j - (k - 1 - lo) = 1
      BY <1>1, <2>2
    <3>2. q[j] = x
      BY <1>1, <1>2, <1>3, <1>5, <2>2, <3>1
    <3> QED BY <1>1, <2>2, <3>2 DEF k
  <2>3. CASE j > k - lo
    <3>1. j - (k - lo) \in 1..(hi - k) /\ k + (j - (k - lo)) = lo + j
      BY <1>1, <2>3
    <3>2. q[j] = r[j - (k - lo)]
      <4>1. ~(j <= k - lo)
        BY <1>1, <2>3
      <4> QED BY <1>5, <4>1
    <3> QED BY <1>1, <3>1, <3>2
  <2> QED BY <1>1, <2>1, <2>2, <2>3
<1> QED BY <1>5, <1>7 DEF Lists, q, lm, m

\* What lies on one side of x in its subtree.
LEMMA ChildSpan ==
  ASSUME NEW T, NEW S, NEW at, NEW D, Shape(T, S, at, D), Listing(S, at), NEW x \in S,
         NEW lo \in Nat, NEW hi \in Nat, hi <= Cardinality(S), Span(S, at, D[x], lo, hi)
  PROVE  /\ at[x] \in Nat /\ lo < at[x] /\ at[x] <= hi
         /\ T.child["left"][x] = Sentinel => lo = at[x] - 1
         /\ T.child["left"][x] # Sentinel => Span(S, at, D[T.child["left"][x]], lo, at[x] - 1)
         /\ T.child["right"][x] = Sentinel => at[x] = hi
         /\ T.child["right"][x] # Sentinel => Span(S, at, D[T.child["right"][x]], at[x], hi)
<1> DEFINE k == at[x]
<1>1. /\ x \in D[x] /\ Cardinality(S) \in Nat /\ \A z \in S : at[z] \in 1..Cardinality(S)
      /\ "left" \in Sides /\ "right" \in Sides
  BY Finite, ListingOK, SidesOK DEF Shape
<1>2. k \in Nat /\ lo < k /\ k <= hi
  BY <1>1 DEF Span
<1>3. \A z \in S : /\ Toward(at, "left", z, x) <=> at[z] < k
                   /\ Toward(at, "right", z, x) <=> k < at[z]
  BY DEF Toward
<1>4. ASSUME T.child["left"][x] = Sentinel PROVE lo = k - 1
  <2>1. \A z \in D[x] : ~Toward(at, "left", z, x)
    BY <1>1, <1>4, ChildOK
  <2>2. SUFFICES ASSUME lo # k - 1 PROVE FALSE
    OBVIOUS
  <2>3. lo + 1 \in 1..Cardinality(S)
    BY <1>1, <1>2
  <2>4. PICK z \in S : at[z] = lo + 1
    BY <2>3 DEF Listing
  <2>5. z \in D[x] /\ at[z] < k
    BY <1>2, <2>2, <2>4 DEF Span
  <2> QED BY <1>3, <2>1, <2>5
<1>5. ASSUME T.child["right"][x] = Sentinel PROVE k = hi
  <2>1. \A z \in D[x] : ~Toward(at, "right", z, x)
    BY <1>1, <1>5, ChildOK
  <2>2. SUFFICES ASSUME k # hi PROVE FALSE
    OBVIOUS
  <2>3. k + 1 \in 1..Cardinality(S)
    BY <1>1, <1>2, <2>2
  <2>4. PICK z \in S : at[z] = k + 1
    BY <2>3 DEF Listing
  <2>5. z \in D[x] /\ k < at[z]
    BY <1>2, <2>2, <2>4 DEF Span
  <2> QED BY <1>3, <2>1, <2>5
<1>6. ASSUME T.child["left"][x] # Sentinel PROVE Span(S, at, D[T.child["left"][x]], lo, k - 1)
  <2>1. \A z \in S : z \in D[T.child["left"][x]] <=> z \in D[x] /\ Toward(at, "left", z, x)
    BY <1>1, <1>6, ChildOK
  <2>2. ASSUME NEW z \in S PROVE (lo < at[z] /\ at[z] <= hi /\ at[z] < k) <=> (lo < at[z] /\ at[z] <= k - 1)
    <3>1. at[z] \in Nat
      BY <1>1
    <3> HIDE DEF k
    <3> QED BY <1>2, <3>1
  <2> HIDE DEF k
  <2> QED BY <1>3, <2>1, <2>2 DEF Span
<1>7. ASSUME T.child["right"][x] # Sentinel PROVE Span(S, at, D[T.child["right"][x]], k, hi)
  <2>1. \A z \in S : z \in D[T.child["right"][x]] <=> z \in D[x] /\ Toward(at, "right", z, x)
    BY <1>1, <1>7, ChildOK
  <2>2. ASSUME NEW z \in S PROVE (lo < at[z] /\ at[z] <= hi /\ k < at[z]) <=> (k < at[z] /\ at[z] <= hi)
    <3>1. at[z] \in Nat
      BY <1>1
    <3> HIDE DEF k
    <3> QED BY <1>2, <3>1
  <2> HIDE DEF k
  <2> QED BY <1>3, <2>1, <2>2 DEF Span
<1> QED BY <1>2, <1>4, <1>5, <1>6, <1>7

\* The lists of the subtrees that have at most i nodes.
ListStates(T, S, at, D, i) ==
  {F \in [Nodes \cup {Sentinel, Null} -> Seq(Nodes)] :
     /\ F[Sentinel] = <<>>
     /\ \A x \in S, lo \in Nat, hi \in Nat :
          hi <= Cardinality(S) /\ hi <= lo + i /\ Span(S, at, D[x], lo, hi) => Lists(F[x], S, at, lo, hi)}

\* One level more.
ListRound(T, F) ==
  [x \in Nodes \cup {Sentinel, Null} |->
     IF x \notin Nodes THEN <<>> ELSE F[T.child["left"][x]] \o <<x>> \o F[T.child["right"][x]]]

\* A round of InOrder() lists the subtrees of one node more.
LEMMA ListRoundOK ==
  ASSUME NEW T, NEW S, NEW at, NEW D, Shape(T, S, at, D), Listing(S, at), NEW i \in Nat,
         NEW F \in ListStates(T, S, at, D, i)
  PROVE  ListRound(T, F) \in ListStates(T, S, at, D, i + 1)
<1> DEFINE X == Nodes \cup {Sentinel, Null}
           H == ListRound(T, F)
           l(x) == F[T.child["left"][x]]
           r(x) == F[T.child["right"][x]]
<1>1. /\ F \in [X -> Seq(Nodes)] /\ F[Sentinel] = <<>>
      /\ \A x \in S, lo \in Nat, hi \in Nat :
           hi <= Cardinality(S) /\ hi <= lo + i /\ Span(S, at, D[x], lo, hi) => Lists(F[x], S, at, lo, hi)
  BY DEF ListStates
<1>2. T \in Trees /\ S \subseteq Nodes /\ "left" \in Sides /\ "right" \in Sides /\ Sentinel \notin Nodes
  BY SidesOK, RedBlackAssumption DEF Shape
<1>3. \A x \in Nodes : l(x) \in Seq(Nodes) /\ r(x) \in Seq(Nodes)
  <2> TAKE x \in Nodes
  <2>1. T.child["left"][x] \in X /\ T.child["right"][x] \in X
    BY <1>2, TreeFields DEF Ends
  <2> QED BY <1>1, <2>1
<1>4. \A x \in X : H[x] = IF x \notin Nodes THEN <<>> ELSE l(x) \o <<x>> \o r(x)
  BY DEF ListRound
<1>5. H = [x \in X |-> H[x]]
  BY DEF ListRound
<1> HIDE DEF H, l, r
<1>6. \A x \in Nodes : H[x] \in Seq(Nodes)
  <2> TAKE x \in Nodes
  <2>1. <<x>> \in Seq(Nodes)
    OBVIOUS
  <2>2. l(x) \o <<x>> \in Seq(Nodes)
    BY <1>3, <2>1, ConcatProperties
  <2>3. (l(x) \o <<x>>) \o r(x) \in Seq(Nodes)
    BY <1>3, <2>2, ConcatProperties
  <2> QED BY <1>4, <2>3
<1>7. \A x \in X : H[x] \in Seq(Nodes)
  <2>1. <<>> \in Seq(Nodes)
    OBVIOUS
  <2> QED BY <1>4, <1>6, <2>1
<1>8. H \in [X -> Seq(Nodes)] /\ H[Sentinel] = <<>>
  BY <1>2, <1>4, <1>5, <1>7
<1>9. ASSUME NEW x \in S, NEW lo \in Nat, NEW hi \in Nat,
             hi <= Cardinality(S), hi <= lo + (i + 1), Span(S, at, D[x], lo, hi)
      PROVE  Lists(H[x], S, at, lo, hi)
  <2>1. /\ at[x] \in Nat /\ lo < at[x] /\ at[x] <= hi
        /\ T.child["left"][x] = Sentinel => lo = at[x] - 1
        /\ T.child["left"][x] # Sentinel => Span(S, at, D[T.child["left"][x]], lo, at[x] - 1)
        /\ T.child["right"][x] = Sentinel => at[x] = hi
        /\ T.child["right"][x] # Sentinel => Span(S, at, D[T.child["right"][x]], at[x], hi)
    BY <1>9, ChildSpan
  <2>2. /\ T.child["left"][x] # Sentinel => T.child["left"][x] \in S
        /\ T.child["right"][x] # Sentinel => T.child["right"][x] \in S
    BY <1>2, ChildOK
  <2> DEFINE k == at[x]
  <2>3. Cardinality(S) \in Nat /\ k - 1 \in Nat /\ k - 1 <= Cardinality(S) /\ k - 1 <= lo + i /\ hi <= k + i
        /\ k \in Nat
    <3>1. Cardinality(S) \in Nat
      BY Finite
    <3> QED BY <1>9, <2>1, <3>1
  <2>4. \A p \in Nat : p <= Cardinality(S) => Lists(<<>>, S, at, p, p)
    <3>1. <<>> \in Seq(Nodes) /\ Len(<<>>) = 0
      OBVIOUS
    <3> QED BY <3>1 DEF Lists
  <2>5. Lists(l(x), S, at, lo, k - 1)
    <3>1. CASE T.child["left"][x] = Sentinel
      BY <1>1, <1>9, <2>1, <2>3, <2>4, <3>1 DEF l
    <3>2. CASE T.child["left"][x] # Sentinel
      BY <1>1, <2>1, <2>2, <2>3, <3>2 DEF l
    <3> QED BY <3>1, <3>2
  <2>6. Lists(r(x), S, at, k, hi)
    <3>1. CASE T.child["right"][x] = Sentinel
      BY <1>1, <1>9, <2>1, <2>3, <2>4, <3>1 DEF r
    <3>2. CASE T.child["right"][x] # Sentinel
      BY <1>1, <1>9, <2>1, <2>2, <2>3, <3>2 DEF r
    <3> QED BY <3>1, <3>2
  <2>7. Lists(l(x) \o <<x>> \o r(x), S, at, lo, hi)
    BY <1>2, <2>1, <2>5, <2>6, JoinLists
  <2> QED BY <1>2, <1>4, <2>7
<1>10. \A x \in S, lo \in Nat, hi \in Nat :
         hi <= Cardinality(S) /\ hi <= lo + (i + 1) /\ Span(S, at, D[x], lo, hi) => Lists(H[x], S, at, lo, hi)
  BY <1>9
<1> QED BY <1>8, <1>10 DEF ListStates, H

\* The nodes under the root are S, from left to right as in the order.
LEMMA InOrderOK ==
  ASSUME NEW T, NEW S, NEW at, NEW D, Shape(T, S, at, D), Listing(S, at)
  PROVE  LET q == InOrder(T)
         IN  q \in Seq(S) /\ Len(q) = Cardinality(S) /\ \A x \in S : q[at[x]] = x
<1> DEFINE X == Nodes \cup {Sentinel, Null}
           F0 == [x \in X |-> <<>>]
           G == [i \in 0..Limit |-> ListStates(T, S, at, D, i)]
           f == [F \in [X -> Seq(Nodes)] |-> ListRound(T, F)]
           Body(g, i) == [x \in X |-> IF i = 0 \/ x \notin Nodes THEN <<>>
                                      ELSE g[i - 1][T.child["left"][x]] \o <<x>> \o g[i - 1][T.child["right"][x]]]
           Run(g) == g = [i \in 0..Limit |-> Body(g, i)]
<1>1. /\ Limit \in Nat /\ Cardinality(S) \in Nat /\ Cardinality(S) <= Limit /\ Ordered(S, at)
      /\ \A x \in S : at[x] \in 1..Cardinality(S) /\ x \in D[x]
  <2>1. \A x \in S : x \in D[x]
    BY DEF Shape
  <2> QED BY <2>1, Finite, ListingOK
<1>2. F0 \in G[0]
  <2>1. F0 \in [X -> Seq(Nodes)] /\ F0[Sentinel] = <<>>
    <3>1. <<>> \in Seq(Nodes)
      OBVIOUS
    <3> QED BY <3>1
  <2>2. ASSUME NEW x \in S, NEW lo \in Nat, NEW hi \in Nat, hi <= lo + 0, Span(S, at, D[x], lo, hi) PROVE FALSE
    <3>1. lo < at[x] /\ at[x] <= hi /\ at[x] \in Nat
      BY <1>1, <2>2 DEF Span
    <3> QED BY <2>2, <3>1
  <2> HIDE DEF F0
  <2>3. F0 \in ListStates(T, S, at, D, 0)
    BY <2>1, <2>2 DEF ListStates
  <2> QED BY <1>1, <2>3
<1>3. ASSUME NEW i \in 1..Limit, NEW F \in G[i - 1] PROVE F \in [X -> Seq(Nodes)] /\ ListRound(T, F) \in G[i]
  <2>1. i - 1 \in 0..Limit /\ i - 1 \in Nat /\ i \in 0..Limit /\ (i - 1) + 1 = i
    BY <1>1
  <2>2. F \in ListStates(T, S, at, D, i - 1) /\ G[i] = ListStates(T, S, at, D, i)
    BY <1>3, <2>1
  <2>3. ListRound(T, F) \in ListStates(T, S, at, D, (i - 1) + 1)
    BY <2>1, <2>2, ListRoundOK
  <2>4. F \in [X -> Seq(Nodes)]
    BY <2>2 DEF ListStates
  <2> QED BY <2>1, <2>2, <2>3, <2>4
<1>4. \A i \in 1..Limit : \A F \in G[i - 1] : f[F] \in G[i] /\ f[F] = ListRound(T, F)
  BY <1>3, Zenon
<1>5. G[Limit] = ListStates(T, S, at, D, Limit)
  BY <1>1
<1>6. \A g : \A i \in 0..Limit : Body(g, i) = IF i = 0 THEN F0 ELSE ListRound(T, g[i - 1])
  BY Zenon DEF ListRound
<1> HIDE DEF G, f, F0, Body
<1>7. \E g : Run(g)
  <2>1. PICK g : Loop(Limit, f, F0, g) /\ \A i \in 0..Limit : g[i] \in G[i]
    <3>1. \A i \in 1..Limit : \A s \in G[i - 1] : f[s] \in G[i]
      BY <1>4
    <3> QED BY <1>1, <1>2, <3>1, LoopRuns
  <2>2. \A i \in 0..Limit : g[i] = Body(g, i)
    <3> TAKE i \in 0..Limit
    <3>1. i # 0 => i \in 1..Limit /\ i - 1 \in 0..Limit
      BY <1>1
    <3>2. g[i] = IF i = 0 THEN F0 ELSE f[g[i - 1]]
      BY <2>1 DEF Loop
    <3>3. i # 0 => g[i] = ListRound(T, g[i - 1])
      BY <1>4, <2>1, <3>1, <3>2
    <3> QED BY <1>6, <3>2, <3>3
  <2>3. g = [i \in 0..Limit |-> g[i]]
    BY <2>1 DEF Loop
  <2> QED BY <2>2, <2>3
<1>8. PICK g : Run(g) /\ InOrder(T) = g[Limit][T.root]
  BY <1>7, Zenon DEF InOrder, Body
<1>9. \A i \in 0..Limit : g[i] \in G[i]
  <2>1. \A i \in 0..Limit : g[i] = Body(g, i)
    BY <1>8
  <2>2. g[0] \in G[0]
    BY <1>1, <1>2, <1>6, <2>1
  <2>3. ASSUME NEW i \in 1..Limit, g[i - 1] \in G[i - 1] PROVE g[i] \in G[i]
    <3>1. i \in 0..Limit /\ i # 0
      BY <1>1
    <3>2. g[i] = ListRound(T, g[i - 1])
      BY <1>6, <2>1, <3>1
    <3> QED BY <1>4, <2>3, <3>2
  <2> QED BY <1>1, <2>2, <2>3, LoopStays
<1> DEFINE F == g[Limit]
           q == InOrder(T)
           n == Cardinality(S)
<1>10. F \in ListStates(T, S, at, D, Limit) /\ q = F[T.root]
  BY <1>1, <1>5, <1>8, <1>9
<1> HIDE DEF F, q
<1>11. Lists(q, S, at, 0, n)
  <2>1. CASE S = {}
    <3>1. T.root = Sentinel /\ n = 0
      BY <2>1, FS_EmptySet DEF Shape
    <3>2. q = <<>>
      BY <1>10, <3>1 DEF ListStates
    <3>3. <<>> \in Seq(Nodes) /\ Len(<<>>) = 0
      OBVIOUS
    <3> QED BY <3>1, <3>2, <3>3 DEF Lists
  <2>2. CASE S # {}
    <3>1. T.root \in S /\ D[T.root] = S
      BY <2>2 DEF Shape
    <3>2. Span(S, at, D[T.root], 0, n)
      BY <1>1, <3>1 DEF Span
    <3>3. n <= 0 + Limit
      BY <1>1
    <3>4. n \in Nat /\ 0 \in Nat /\ n <= Cardinality(S)
      BY <1>1
    <3>5. \A x \in S, lo \in Nat, hi \in Nat :
            hi <= Cardinality(S) /\ hi <= lo + Limit /\ Span(S, at, D[x], lo, hi) => Lists(F[x], S, at, lo, hi)
      BY <1>10 DEF ListStates
    <3> HIDE DEF n
    <3> QED BY <1>10, <3>1, <3>2, <3>3, <3>4, <3>5
  <2> QED BY <2>1, <2>2
<1>12. Len(q) = n /\ q \in Seq(Nodes) /\ \A j \in 1..n : q[j] \in S /\ at[q[j]] = j
  <2>1. n - 0 = n /\ \A j \in 1..n : 0 + j = j
    BY <1>1
  <2> QED BY <1>11, <2>1 DEF Lists
<1>13. q \in Seq(S)
  <2>1. q = [j \in 1..n |-> q[j]]
    BY <1>12
  <2>2. q \in [1..n -> S]
    BY <1>12, <2>1
  <2> QED BY <1>1, <2>2
<1>14. \A x \in S : q[at[x]] = x
  <2> TAKE x \in S
  <2>1. q[at[x]] \in S /\ at[q[at[x]]] = at[x]
    BY <1>1, <1>12
  <2> QED BY <2>1 DEF Listing
<1> QED BY <1>12, <1>13, <1>14 DEF q

\* The heights of the subtrees that have at most i nodes.
HeightStates(S, D, bh, i) ==
  {F \in [Nodes \cup {Sentinel, Null} -> Int] :
     /\ F[Sentinel] = 0
     /\ \A x \in S : Cardinality(D[x]) <= i => F[x] = bh[x]}

\* One level more.
HeightRound(T, F) ==
  [x \in Nodes \cup {Sentinel, Null} |->
     IF x \notin Nodes THEN 0
     ELSE IF F[T.child["left"][x]] = -1 \/ F[T.child["left"][x]] # F[T.child["right"][x]] THEN -1
     ELSE F[T.child["left"][x]] + (IF x \in T.red THEN 0 ELSE 1)]

\* A round of BlackHeight() counts in the subtrees of one node more.
LEMMA HeightRoundOK ==
  ASSUME NEW T, NEW S, NEW at, NEW D, Shape(T, S, at, D), NEW bh, Even(T, S, bh, {}), NEW i \in Nat,
         NEW F \in HeightStates(S, D, bh, i)
  PROVE  HeightRound(T, F) \in HeightStates(S, D, bh, i + 1)
<1> DEFINE X == Nodes \cup {Sentinel, Null}
           H == HeightRound(T, F)
           l(x) == F[T.child["left"][x]]
           r(x) == F[T.child["right"][x]]
           c(x) == IF x \in T.red THEN 0 ELSE 1
<1>1. /\ F \in [X -> Int] /\ F[Sentinel] = 0
      /\ \A x \in S : Cardinality(D[x]) <= i => F[x] = bh[x]
  BY DEF HeightStates
<1>2. T \in Trees /\ S \subseteq Nodes /\ "left" \in Sides /\ "right" \in Sides /\ Sentinel \notin Nodes
  BY SidesOK, RedBlackAssumption DEF Shape
<1>3. \A x \in Nodes : l(x) \in Int /\ r(x) \in Int
  <2> TAKE x \in Nodes
  <2>1. T.child["left"][x] \in X /\ T.child["right"][x] \in X
    BY <1>2, TreeFields DEF Ends
  <2> QED BY <1>1, <2>1
<1>4. \A x \in X : H[x] = IF x \notin Nodes THEN 0 ELSE IF l(x) = -1 \/ l(x) # r(x) THEN -1 ELSE l(x) + c(x)
  BY DEF HeightRound
<1>5. H = [x \in X |-> H[x]]
  BY DEF HeightRound
<1> HIDE DEF H, l, r
<1>6. \A x \in X : H[x] \in Int
  BY <1>3, <1>4
<1>7. H \in [X -> Int] /\ H[Sentinel] = 0
  BY <1>2, <1>4, <1>5, <1>6
<1>8. ASSUME NEW x \in S, Cardinality(D[x]) <= i + 1 PROVE H[x] = bh[x]
  <2>1. ASSUME NEW d \in Sides PROVE F[T.child[d][x]] = bh[T.child[d][x]] /\ bh[T.child[d][x]] \in Nat
    <3> DEFINE y == T.child[d][x]
    <3>1. CASE y = Sentinel
      BY <1>1, <3>1 DEF Even
    <3>2. CASE y # Sentinel
      <4>1. y \in S /\ Cardinality(D[y]) < Cardinality(D[x])
        BY <3>2, ChildOK, ChildSmaller
      <4>2. Cardinality(D[y]) \in Nat /\ Cardinality(D[x]) \in Nat
        BY <4>1, Finite
      <4> HIDE DEF y
      <4>3. Cardinality(D[y]) <= i
        BY <1>8, <4>1, <4>2
      <4> QED BY <1>1, <4>1, <4>3 DEF Even, y
    <3> QED BY <3>1, <3>2
  <2>2. ASSUME NEW d \in Sides PROVE bh[x] = bh[T.child[d][x]] + c(x)
    <3>1. bh[x] = bh[T.child[d][x]] + c(x) + (IF <<x, d>> \in {} THEN 1 ELSE 0)
      BY DEF Even
    <3> QED BY <2>1, <3>1
  <2>3. l(x) \in Nat /\ r(x) \in Nat /\ bh[x] = l(x) + c(x) /\ bh[x] = r(x) + c(x)
    BY <1>2, <2>1, <2>2 DEF l, r
  <2>4. l(x) = r(x) /\ l(x) # -1
    BY <2>3
  <2> QED BY <1>2, <1>4, <2>3, <2>4
<1>9. \A x \in S : Cardinality(D[x]) <= i + 1 => H[x] = bh[x]
  BY <1>8
<1> QED BY <1>7, <1>9 DEF HeightStates, H

\* All ways down have as many black nodes.
LEMMA BlackHeightOK ==
  ASSUME NEW T, NEW S, NEW at, NEW D, Shape(T, S, at, D), NEW bh, Even(T, S, bh, {})
  PROVE  BlackHeight(T) # -1
<1> DEFINE X == Nodes \cup {Sentinel, Null}
           F0 == [x \in X |-> 0]
           G == [i \in 0..Limit |-> HeightStates(S, D, bh, i)]
           f == [F \in [X -> Int] |-> HeightRound(T, F)]
           Body(g, i) == [x \in X |-> IF i = 0 \/ x \notin Nodes THEN 0
                                      ELSE LET l == g[i - 1][T.child["left"][x]]
                                               r == g[i - 1][T.child["right"][x]]
                                           IN  IF l = -1 \/ l # r THEN -1 ELSE l + (IF x \in T.red THEN 0 ELSE 1)]
           Run(g) == g = [i \in 0..Limit |-> Body(g, i)]
<1>1. Limit \in Nat
  BY Finite
<1>2. F0 \in G[0]
  <2>1. F0 \in [X -> Int] /\ F0[Sentinel] = 0
    OBVIOUS
  <2>2. ASSUME NEW x \in S, Cardinality(D[x]) <= 0 PROVE FALSE
    <3>1. Cardinality(D[x]) \in Nat /\ 1 <= Cardinality(D[x])
      BY Finite
    <3> QED BY <2>2, <3>1
  <2> HIDE DEF F0
  <2>3. F0 \in HeightStates(S, D, bh, 0)
    BY <2>1, <2>2 DEF HeightStates
  <2> QED BY <1>1, <2>3
<1>3. ASSUME NEW i \in 1..Limit, NEW F \in G[i - 1] PROVE F \in [X -> Int] /\ HeightRound(T, F) \in G[i]
  <2>1. i - 1 \in 0..Limit /\ i - 1 \in Nat /\ i \in 0..Limit /\ (i - 1) + 1 = i
    BY <1>1
  <2>2. F \in HeightStates(S, D, bh, i - 1) /\ G[i] = HeightStates(S, D, bh, i)
    BY <1>3, <2>1
  <2>3. HeightRound(T, F) \in HeightStates(S, D, bh, (i - 1) + 1)
    BY <2>1, <2>2, HeightRoundOK
  <2>4. F \in [X -> Int]
    BY <2>2 DEF HeightStates
  <2> QED BY <2>1, <2>2, <2>3, <2>4
<1>4. \A i \in 1..Limit : \A F \in G[i - 1] : f[F] \in G[i] /\ f[F] = HeightRound(T, F)
  BY <1>3
<1>5. G[Limit] = HeightStates(S, D, bh, Limit)
  BY <1>1
<1>6. \A g : \A i \in 0..Limit : Body(g, i) = IF i = 0 THEN F0 ELSE HeightRound(T, g[i - 1])
  BY DEF HeightRound
<1> HIDE DEF G, f, F0, Body
<1>7. \E g : Run(g)
  <2>1. PICK g : Loop(Limit, f, F0, g) /\ \A i \in 0..Limit : g[i] \in G[i]
    <3>1. \A i \in 1..Limit : \A s \in G[i - 1] : f[s] \in G[i]
      BY <1>4
    <3> QED BY <1>1, <1>2, <3>1, LoopRuns
  <2>2. \A i \in 0..Limit : g[i] = Body(g, i)
    <3> TAKE i \in 0..Limit
    <3>1. i # 0 => i \in 1..Limit /\ i - 1 \in 0..Limit
      BY <1>1
    <3>2. g[i] = IF i = 0 THEN F0 ELSE f[g[i - 1]]
      BY <2>1 DEF Loop
    <3>3. i # 0 => g[i] = HeightRound(T, g[i - 1])
      BY <1>4, <2>1, <3>1, <3>2
    <3> QED BY <1>6, <3>2, <3>3
  <2>3. g = [i \in 0..Limit |-> g[i]]
    BY <2>1 DEF Loop
  <2> QED BY <2>2, <2>3
<1>8. PICK g : Run(g) /\ BlackHeight(T) = g[Limit][T.root]
  BY <1>7, Zenon DEF BlackHeight, Body
<1>9. \A i \in 0..Limit : g[i] \in G[i]
  <2>1. \A i \in 0..Limit : g[i] = Body(g, i)
    BY <1>8
  <2>2. g[0] \in G[0]
    BY <1>1, <1>2, <1>6, <2>1
  <2>3. ASSUME NEW i \in 1..Limit, g[i - 1] \in G[i - 1] PROVE g[i] \in G[i]
    <3>1. i \in 0..Limit /\ i # 0
      BY <1>1
    <3>2. g[i] = HeightRound(T, g[i - 1])
      BY <1>6, <2>1, <3>1
    <3> QED BY <1>4, <2>3, <3>2
  <2> QED BY <1>1, <2>2, <2>3, LoopStays
<1>10. g[Limit] \in HeightStates(S, D, bh, Limit)
  BY <1>1, <1>5, <1>9
<1>11. CASE T.root = Sentinel
  BY <1>8, <1>10, <1>11 DEF HeightStates
<1>12. CASE T.root # Sentinel
  <2>1. T.root \in S
    BY <1>12 DEF Shape
  <2>2. Cardinality(D[T.root]) <= Limit /\ bh[T.root] \in Nat
    BY <2>1, Finite DEF Even
  <2>3. BlackHeight(T) = bh[T.root]
    BY <1>8, <1>10, <2>1, <2>2 DEF HeightStates
  <2> QED BY <2>2, <2>3
<1> QED BY <1>11, <1>12

-----------------------------------------------------------------------------
(* Keys on a circle. *)

\* The remainder of a number in the circle, or one round before.
LEMMA Wrap ==
  ASSUME NEW C \in Nat \ {0}, NEW x \in Int, -C <= x, x < C
  PROVE  x % C = IF x < 0 THEN x + C ELSE x
<1>1. CASE x < 0
  <2>1. x + C \in 0..(C - 1) /\ x = (x + C) + (-1) * C
    BY <1>1
  <2> QED BY <1>1, <2>1, Z3
<1>2. CASE ~(x < 0)
  <2>1. x \in 0..(C - 1)
    BY <1>2
  <2> QED BY <1>2, <2>1, Z3
<1> QED BY <1>1, <1>2

\* How far a key is from the first one.
Rank(first, k) == IF k < first THEN k - first + Circle ELSE k - first

\* Keys in one half of the circle are compared as in a line.
LEMMA NearOK ==
  ASSUME NEW K, K \subseteq Keys, Near(K)
  PROVE  \E first \in Keys : \A a, b \in K :
           Rank(first, a) \in Int /\ (Signed(a, b) < 0 <=> Rank(first, a) < Rank(first, b))
<1>1. Half \in Nat \ {0} /\ Circle = 2 * Half /\ Circle \in Nat \ {0} /\ Keys = 0..(Circle - 1)
  BY RedBlackAssumption DEF Circle, Keys
<1>2. PICK first \in Keys : \A k \in K : (k - first) % Circle < Half
  BY DEF Near
<1>3. ASSUME NEW k \in K PROVE Rank(first, k) \in 0..(Half - 1)
  <2>1. k \in Int /\ first \in Int /\ k - first \in Int /\ -Circle <= k - first /\ k - first < Circle
    BY <1>1
  <2>2. (k - first) % Circle = IF k - first < 0 THEN (k - first) + Circle ELSE k - first
    BY <1>1, <2>1, Wrap
  <2>3. (k - first) % Circle = Rank(first, k)
    BY <2>1, <2>2 DEF Rank
  <2> QED BY <1>1, <1>2, <2>1, <2>3 DEF Rank
<1>4. ASSUME NEW a \in K, NEW b \in K
      PROVE  Signed(a, b) < 0 <=> Rank(first, a) < Rank(first, b)
  <2>1. a \in Int /\ b \in Int /\ a - b \in Int /\ -Circle <= a - b /\ a - b < Circle /\ first \in Int
        /\ Half \in Int /\ Circle \in Int
    BY <1>1
  <2>2. (a - b) % Circle = IF a - b < 0 THEN (a - b) + Circle ELSE a - b
    BY <1>1, <2>1, Wrap
  <2> DEFINE m == (a - b) % Circle
             p == Rank(first, a)
             q == Rank(first, b)
  <2>3. p \in 0..(Half - 1) /\ q \in 0..(Half - 1)
    BY <1>3
  <2>4. p - q = a - b \/ p - q = a - b + Circle \/ p - q = a - b - Circle
    BY <2>1 DEF Rank
  <2>5. Signed(a, b) = IF m < Half THEN m ELSE m - Circle
    BY DEF Signed
  <2>6. m = IF a - b < 0 THEN (a - b) + Circle ELSE a - b
    BY <2>2
  <2> HIDE DEF m, p, q
  <2>7. Signed(a, b) = p - q
    BY <1>1, <2>1, <2>3, <2>4, <2>5, <2>6
  <2> QED BY <2>3, <2>7 DEF p, q
<1> QED BY <1>3, <1>4

-----------------------------------------------------------------------------
(* rbtree_insert_timer_value() *)

\* x is where the comparisons with k lead to, in the subtrees it is in.
Fits(T, S, at, D, k, x) == \A a \in S : x \in D[a] /\ a # x => Toward(at, Place(T, k, a), x, a)

\* A comparison sends a key to one of two sides.
LEMMA PlaceOK == ASSUME NEW T, NEW k, NEW x PROVE Place(T, k, x) \in Sides
BY DEF Place, Sides

\* The search ends at a node without a child on the side where the key belongs.
LEMMA DescendOK ==
  ASSUME NEW T, NEW S, NEW at, NEW D, Shape(T, S, at, D), S # {}, NEW k
  PROVE  LET x == Descend(T, k)
         IN  x \in S /\ T.child[Place(T, k, x)][x] = Sentinel /\ Fits(T, S, at, D, k, x)
<1> DEFINE x0 == T.root
           Down(y) == Below(T, Place(T, k, y), y)
           Cond(y, i) == /\ Fits(T, S, at, D, k, y)
                         /\ T.child[Place(T, k, y)][y] = Sentinel \/ Cardinality(D[y]) <= Limit - i
           G == [i \in 0..Limit |-> {y \in S : Cond(y, i)}]
           f == [y \in S |-> Down(y)]
           Run(g) == g = [i \in 0..Limit |-> IF i = 0 THEN x0 ELSE Down(g[i - 1])]
<1>1. Limit \in Nat /\ Ordered(S, at) /\ (\A z \in S : D[z] \subseteq S) /\ x0 \in S /\ D[x0] = S
  <2>1. Ordered(S, at) /\ (\A z \in S : D[z] \subseteq S) /\ x0 \in S /\ D[x0] = S
    BY DEF Shape
  <2> QED BY <2>1, Finite
<1>2. x0 \in G[0]
  <2>1. Cardinality(D[x0]) <= Limit - 0
    <3>1. Cardinality(D[x0]) \in Nat /\ Cardinality(D[x0]) <= Limit
      BY <1>1, Finite
    <3> QED BY <1>1, <3>1
  <2>2. ASSUME NEW a \in S, x0 \in D[a] PROVE a = x0
    <3>1. D[x0] \subseteq D[a]
      BY <1>1, <2>2, Nested
    <3>2. a # x0 => FALSE
      <4>1. ASSUME a # x0 PROVE FALSE
        <5>1. /\ T.parent[a] \in S /\ SideOf(T, a) \in Sides /\ T.child[SideOf(T, a)][T.parent[a]] = a
              /\ a # Sentinel
          BY <4>1, HasParent
        <5>2. T.parent[a] \notin D[a]
          BY <5>1, ChildOK
        <5> QED BY <1>1, <3>1, <5>1, <5>2
      <4> QED BY <4>1
    <3> QED BY <3>2
  <2>3. Fits(T, S, at, D, k, x0)
    BY <2>2 DEF Fits
  <2> HIDE DEF x0
  <2> QED BY <1>1, <2>1, <2>3
<1>3. ASSUME NEW i \in 1..Limit, NEW y \in G[i - 1] PROVE y \in S /\ Down(y) \in G[i]
  <2> DEFINE d == Place(T, k, y)
             c == T.child[d][y]
  <2>1. i - 1 \in 0..Limit /\ i \in 0..Limit
    BY <1>1
  <2>2. y \in S /\ Cond(y, i - 1) /\ d \in Sides
    BY <2>1, PlaceOK
  <2>3. CASE c = Sentinel
    <3>1. Down(y) = y
      BY <2>3 DEF Below
    <3>2. Cond(y, i)
      BY <2>2, <2>3
    <3> QED BY <2>1, <2>2, <3>1, <3>2
  <2>4. CASE c # Sentinel
    <3>1. Down(y) = c
      BY <2>4 DEF Below
    <3> HIDE DEF d
    <3>2. c \in S /\ c \in D[y] /\ Toward(at, d, c, y) /\ T.parent[c] = y
      BY <2>2, <2>4, ChildOK
    <3>3. Cardinality(D[c]) < Cardinality(D[y])
      BY <2>2, <2>4, ChildSmaller
    <3>4. Cardinality(D[c]) \in Nat /\ Cardinality(D[y]) \in Nat
      BY <2>2, <3>2, Finite
    <3>5. Cardinality(D[y]) <= Limit - (i - 1)
      BY <2>2, <2>4 DEF d
    <3>6. \A a \in S : c \in D[a] /\ a # c => y \in D[a]
      BY <2>2, <2>4, ThroughParent
    <3> HIDE DEF c
    <3>7. Cardinality(D[c]) <= Limit - i
      BY <1>1, <3>3, <3>4, <3>5
    <3>8. ASSUME NEW a \in S, c \in D[a], a # c PROVE Toward(at, Place(T, k, a), c, a)
      <4>1. CASE a = y
        BY <3>2, <4>1 DEF d
      <4>2. CASE a # y
        <5> DEFINE e == Place(T, k, a)
                   b == T.child[e][a]
        <5>1. y \in D[a] /\ Toward(at, e, y, a) /\ e \in Sides
          BY <2>2, <3>6, <3>8, <4>2, PlaceOK DEF Fits
        <5> HIDE DEF e
        <5>2. b # Sentinel
          BY <5>1, ChildOK
        <5>3. b \in S /\ y \in D[b] /\ \A z \in S : z \in D[b] <=> z \in D[a] /\ Toward(at, e, z, a)
          BY <2>2, <5>1, <5>2, ChildOK
        <5>4. D[y] \subseteq D[b]
          BY <2>2, <5>3, Nested
        <5> HIDE DEF b
        <5>5. Toward(at, e, c, a)
          BY <3>2, <5>3, <5>4
        <5> QED BY <5>5 DEF e
      <4> QED BY <4>1, <4>2
    <3>9. Cond(c, i)
      BY <3>7, <3>8 DEF Fits
    <3> QED BY <2>1, <2>2, <3>1, <3>2, <3>9
  <2> QED BY <2>3, <2>4
<1>4. \A i \in 1..Limit : \A y \in G[i - 1] : f[y] \in G[i] /\ f[y] = Down(y)
  BY <1>3
<1>5. \A y \in G[Limit] : y \in S /\ Cond(y, Limit)
  BY <1>1
<1> HIDE DEF G, f, x0, Down
<1>6. \E g : Run(g)
  <2>1. PICK g : Loop(Limit, f, x0, g) /\ \A i \in 0..Limit : g[i] \in G[i]
    <3>1. \A i \in 1..Limit : \A s \in G[i - 1] : f[s] \in G[i]
      BY <1>4
    <3> QED BY <1>1, <1>2, <3>1, LoopRuns
  <2>2. \A i \in 0..Limit : g[i] = IF i = 0 THEN x0 ELSE Down(g[i - 1])
    <3> TAKE i \in 0..Limit
    <3>1. i # 0 => i \in 1..Limit /\ i - 1 \in 0..Limit
      BY <1>1
    <3>2. g[i] = IF i = 0 THEN x0 ELSE f[g[i - 1]]
      BY <2>1 DEF Loop
    <3> QED BY <1>4, <2>1, <3>1, <3>2
  <2>3. g = [i \in 0..Limit |-> g[i]]
    BY <2>1 DEF Loop
  <2> QED BY <2>2, <2>3
<1>7. PICK g : Run(g) /\ Descend(T, k) = g[Limit]
  BY <1>6, Zenon DEF Descend, x0, Down
<1>8. \A i \in 0..Limit : g[i] \in G[i]
  <2>1. \A i \in 0..Limit : g[i] = IF i = 0 THEN x0 ELSE Down(g[i - 1])
    BY <1>7
  <2>2. g[0] \in G[0]
    BY <1>1, <1>2, <2>1
  <2>3. ASSUME NEW i \in 1..Limit, g[i - 1] \in G[i - 1] PROVE g[i] \in G[i]
    <3>1. g[i] = Down(g[i - 1])
      BY <2>1
    <3> QED BY <1>4, <2>3, <3>1
  <2> QED BY <1>1, <2>2, <2>3, LoopStays
<1> DEFINE x == Descend(T, k)
<1>9. x \in S /\ Cond(x, Limit)
  BY <1>1, <1>5, <1>7, <1>8
<1> HIDE DEF x
<1>10. T.child[Place(T, k, x)][x] = Sentinel
  <2>1. Cardinality(D[x]) \in Nat /\ 1 <= Cardinality(D[x])
    BY <1>9, Finite
  <2> QED BY <1>1, <1>9, <2>1
<1> QED BY <1>9, <1>10 DEF x

\* Where a new node belongs in the order.
Lands(T, S, at, at2, n, k) ==
  /\ Ordered(S \cup {n}, at2)
  /\ \A e \in Sides, y, z \in S : Toward(at2, e, y, z) <=> Toward(at, e, y, z)
  /\ \A e \in Sides, z \in S : Toward(at2, e, n, z) <=> e = Place(T, k, z)

\* The nodes of the subtrees with the new leaf.
Leafed(S, D, n, x) ==
  [z \in S \cup {n} |-> IF z = n THEN {n} ELSE IF x \in D[z] THEN D[z] \cup {n} ELSE D[z]]

\* The fields after the new leaf n has been hung under x, on the side d.
Hung(T, U, n, x, d) ==
  /\ U \in Trees /\ U.root = T.root /\ U.key = T.key /\ U.red = T.red \cup {n}
  /\ \A e \in Sides, z \in Nodes :
       U.child[e][z] = IF z = n THEN Sentinel ELSE IF e = d /\ z = x THEN n ELSE T.child[e][z]
  /\ \A z \in Ends : U.parent[z] = IF z = n THEN x ELSE T.parent[z]

\* rbtree_insert_timer_value() hangs n below the node it comes down to.
LEMMA InsertLeafFields ==
  ASSUME NEW T \in Trees, NEW n \in Nodes, Descend(T, T.key[n]) \in Nodes
  PROVE  LET x == Descend(T, T.key[n])
         IN  Hung(T, InsertLeaf(T, n), n, x, Place(T, T.key[n], x))
<1> DEFINE k == T.key[n]
           x == Descend(T, k)
           d == Place(T, k, x)
           A == SetChild(T, d, x, n)
           B == SetParent(A, n, x)
           C == SetChildren(B, n, Sentinel, Sentinel)
           U == Red(C, n)
<1>1. x \in Nodes /\ d \in Sides /\ n \in Ends /\ x \in Ends /\ Sentinel \in Ends
  BY PlaceOK, EndsOK
<1>2. InsertLeaf(T, n) = U
  BY Zenon DEF InsertLeaf
<1> HIDE DEF k, x, d
<1>3. /\ A \in Trees /\ A.root = T.root /\ A.parent = T.parent /\ A.key = T.key /\ A.red = T.red
      /\ \A e \in Sides, z \in Nodes : A.child[e][z] = IF e = d /\ z = x THEN n ELSE T.child[e][z]
  <2>1. n \in Ends \cup {Null}
    BY <1>1
  <2> QED BY <1>1, <2>1, SetChildOK
<1> HIDE DEF A
<1>4. /\ B \in Trees /\ B.root = A.root /\ B.child = A.child /\ B.key = A.key /\ B.red = A.red
      /\ \A z \in Ends : B.parent[z] = IF z = n THEN x ELSE A.parent[z]
  <2>1. A \in Trees /\ n \in Ends /\ x \in Ends \cup {Null}
    BY <1>1, <1>3
  <2> QED BY <2>1, SetParentOK
<1> HIDE DEF B
<1>5. /\ C \in Trees /\ C.root = B.root /\ C.parent = B.parent /\ C.key = B.key /\ C.red = B.red
      /\ \A e \in Sides, z \in Nodes :
           C.child[e][z] = IF z = n THEN IF e = "left" THEN Sentinel ELSE Sentinel ELSE B.child[e][z]
  <2>1. Sentinel \in Ends \cup {Null}
    BY <1>1
  <2> QED BY <1>4, <2>1, SetChildrenOK
<1> HIDE DEF C
<1>6. /\ U \in Trees /\ U.root = C.root /\ U.child = C.child /\ U.parent = C.parent /\ U.key = C.key
      /\ U.red = C.red \cup {n}
  BY <1>5, RedOK
<1> HIDE DEF U
<1>7. Hung(T, U, n, x, d)
  BY <1>3, <1>4, <1>5, <1>6 DEF Hung
<1> QED BY <1>2, <1>7 DEF x, d, k

\* The place of a new leaf: the end of the search for its key.
NewPlace(T, S, at, D, n, k, x) ==
  /\ n \in Nodes \ S /\ x \in S /\ T.child[Place(T, k, x)][x] = Sentinel /\ Fits(T, S, at, D, k, x)

\* The tree with the new leaf.
LEMMA LeafShape ==
  ASSUME NEW T, NEW S, NEW at, NEW D, Shape(T, S, at, D), NEW n, NEW k, NEW x, NewPlace(T, S, at, D, n, k, x),
         NEW at2, Lands(T, S, at, at2, n, k), NEW U, Hung(T, U, n, x, Place(T, k, x))
  PROVE  Shape(U, S \cup {n}, at2, Leafed(S, D, n, x))
<1> DEFINE d == Place(T, k, x)
           S2 == S \cup {n}
           E == Leafed(S, D, n, x)
<1>1. /\ n \in Nodes /\ n \notin S /\ x \in S /\ x # n /\ d \in Sides /\ T.child[d][x] = Sentinel
      /\ S \subseteq Nodes /\ S \subseteq Ends /\ Sentinel \notin S /\ n # Sentinel /\ S # {}
  BY PlaceOK, EndsOK DEF NewPlace, Shape
<1>2. \A a \in S : x \in D[a] /\ a # x => Toward(at, Place(T, k, a), x, a)
  BY DEF NewPlace, Fits
<1>3. /\ Ordered(S2, at2)
      /\ \A e \in Sides, y, z \in S : Toward(at2, e, y, z) <=> Toward(at, e, y, z)
      /\ \A e \in Sides, z \in S : Toward(at2, e, n, z) <=> e = Place(T, k, z)
  BY DEF Lands
<1>4. /\ U \in Trees /\ U.root = T.root
      /\ \A e \in Sides, z \in Nodes :
           U.child[e][z] = IF z = n THEN Sentinel ELSE IF e = d /\ z = x THEN n ELSE T.child[e][z]
      /\ \A z \in Ends : U.parent[z] = IF z = n THEN x ELSE T.parent[z]
  BY DEF Hung
<1>5. /\ E[n] = {n} /\ \A z \in S : E[z] = IF x \in D[z] THEN D[z] \cup {n} ELSE D[z]
  BY <1>1 DEF Leafed
<1> HIDE DEF d, E
<1>6. (\A z \in S : D[z] \subseteq S /\ z \in D[z]) /\ T.root \in S /\ D[T.root] = S
  BY <1>1 DEF Shape
<1>7. \A z \in S2 : E[z] \subseteq S2 /\ z \in E[z]
  BY <1>5, <1>6
<1>8. E[U.root] = S2 /\ U.root \in S2
  BY <1>1, <1>4, <1>5, <1>6
<1>9. ASSUME NEW a \in S2, NEW e \in Sides PROVE Under(U, S2, at2, E, a, e)
  <2>1. CASE a = n
    <3>1. U.child[e][n] = Sentinel
      BY <1>1, <1>4
    <3>2. ~Toward(at2, e, n, n)
      BY <1>3, TowardOK
    <3> QED BY <1>5, <2>1, <3>1, <3>2 DEF Under
  <2>2. CASE a = x /\ e = d
    <3>1. U.child[e][a] = n /\ U.parent[n] = x
      BY <1>1, <1>4, <2>2, EndsOK
    <3>2. E[x] = D[x] \cup {n}
      BY <1>1, <1>5, <1>6
    <3>3. \A z \in D[x] : ~Toward(at2, d, z, x)
      BY <1>1, <1>3, <1>6, ChildOK
    <3>4. Toward(at2, d, n, x)
      BY <1>1, <1>3 DEF d
    <3>5. \A z \in S2 : z \in E[n] <=> z \in E[x] /\ Toward(at2, d, z, x)
      BY <1>1, <1>5, <3>2, <3>3, <3>4
    <3> QED BY <1>1, <2>2, <3>1, <3>5 DEF Under
  <2>3. CASE a \in S /\ ~(a = x /\ e = d)
    <3> DEFINE c == T.child[e][a]
    <3>1. U.child[e][a] = c
      BY <1>1, <1>4, <2>3
    <3>2. /\ c = Sentinel => \A z \in D[a] : ~Toward(at, e, z, a)
          /\ c # Sentinel => /\ c \in S /\ T.parent[c] = a
                             /\ \A z \in S : z \in D[c] <=> z \in D[a] /\ Toward(at, e, z, a)
      BY <2>3, ChildOK
    <3> HIDE DEF c
    <3>3. x \in D[a] /\ a # x => (e = Place(T, k, a) <=> Toward(at, e, x, a))
      <4>1. Ordered(S, at)
        BY DEF Shape
      <4>2. Place(T, k, a) \in Sides
        BY PlaceOK
      <4>3. x \in D[a] /\ a # x => Toward(at, Place(T, k, a), x, a)
        BY <1>2, <2>3
      <4>4. e # Place(T, k, a) => e = Other(Place(T, k, a))
        BY <4>2, SidesOK
      <4>5. Toward(at, Place(T, k, a), x, a) => ~Toward(at, Other(Place(T, k, a)), x, a)
        BY <1>1, <2>3, <4>1, <4>2, TowardOK
      <4> QED BY <4>3, <4>4, <4>5
    <3>4. Toward(at2, e, n, a) <=> e = Place(T, k, a)
      BY <1>3, <2>3
    <3>5. a = x => e # Place(T, k, a)
      BY <2>3 DEF d
    <3>6. CASE c = Sentinel
      <4>1. ASSUME NEW z \in E[a], Toward(at2, e, z, a) PROVE FALSE
        <5>1. CASE z = n
          <6>1. x \in D[a]
            BY <1>1, <1>5, <1>6, <2>3, <4>1, <5>1
          <6> QED BY <3>2, <3>3, <3>4, <3>5, <3>6, <4>1, <5>1, <6>1
        <5>2. CASE z # n
          <6>1. z \in D[a] /\ z \in S
            BY <1>5, <1>6, <2>3, <4>1, <5>2
          <6> QED BY <1>3, <2>3, <3>2, <3>6, <4>1, <6>1
        <5> QED BY <5>1, <5>2
      <4> QED BY <3>1, <3>6, <4>1 DEF Under
    <3>7. CASE c # Sentinel
      <4>1. c \in S2 /\ U.parent[c] = a
        BY <1>1, <1>4, <3>2, <3>7
      <4>2. ASSUME NEW z \in S2 PROVE z \in E[c] <=> z \in E[a] /\ Toward(at2, e, z, a)
        <5>1. CASE z \in S
          <6>1. z \in E[c] <=> z \in D[c]
            BY <1>1, <1>5, <3>2, <3>7, <5>1
          <6>2. z \in E[a] <=> z \in D[a]
            BY <1>1, <1>5, <2>3, <5>1
          <6> QED BY <1>3, <2>3, <3>2, <3>7, <5>1, <6>1, <6>2
        <5>2. CASE z = n
          <6>1. z \in E[c] <=> x \in D[c]
            <7>1. E[c] = IF x \in D[c] THEN D[c] \cup {n} ELSE D[c]
              BY <1>5, <3>2, <3>7
            <7>2. n \notin D[c]
              BY <1>1, <1>6, <3>2, <3>7
            <7> QED BY <5>2, <7>1, <7>2
          <6>2. z \in E[a] <=> x \in D[a]
            BY <1>1, <1>5, <1>6, <2>3, <5>2
          <6>3. x \in D[c] <=> x \in D[a] /\ Toward(at, e, x, a)
            BY <1>1, <3>2, <3>7
          <6>4. ~Toward(at, e, x, x)
            <7>1. Ordered(S, at)
              BY DEF Shape
            <7> QED BY <1>1, <7>1, TowardOK
          <6> QED BY <3>3, <3>4, <3>5, <5>2, <6>1, <6>2, <6>3, <6>4
        <5> QED BY <5>1, <5>2
      <4> QED BY <3>1, <3>7, <4>1, <4>2 DEF Under
    <3> QED BY <3>6, <3>7
  <2> QED BY <1>1, <2>1, <2>2, <2>3
<1>10. S2 \subseteq Nodes /\ S2 # {}
  BY <1>1
<1> HIDE DEF S2
<1>11. Shape(U, S2, at2, E)
  BY <1>3, <1>4, <1>7, <1>8, <1>9, <1>10 DEF Shape
<1> QED BY <1>11 DEF S2, E

\* The new leaf is red, and nothing else is wrong.
LEMMA LeafGood ==
  ASSUME NEW T, NEW S, NEW at, NEW D, Shape(T, S, at, D), NEW bh, Even(T, S, bh, {}), FewRed(T, S, Null),
         NEW n, NEW k, NEW x, NewPlace(T, S, at, D, n, k, x),
         NEW at2, Lands(T, S, at, at2, n, k), NEW U, Hung(T, U, n, x, Place(T, k, x))
  PROVE  \E h : InsertGood(U, S \cup {n}, at2, Leafed(S, D, n, x), h, n)
<1> DEFINE d == Place(T, k, x)
           S2 == S \cup {n}
           h == [z \in S2 \cup {Sentinel} |-> IF z = n THEN 0 ELSE bh[z]]
<1>1. /\ n \in Nodes /\ n \notin S /\ x \in S /\ x # n /\ d \in Sides /\ T.child[d][x] = Sentinel
      /\ S \subseteq Nodes /\ Sentinel \notin S /\ n # Sentinel /\ S # {} /\ T.root \in S
      /\ Null \notin S /\ Null # n
  BY PlaceOK, EndsOK, RedBlackAssumption DEF NewPlace, Shape
<1>2. /\ U.root = T.root /\ U.red = T.red \cup {n}
      /\ \A e \in Sides, z \in Nodes :
           U.child[e][z] = IF z = n THEN Sentinel ELSE IF e = d /\ z = x THEN n ELSE T.child[e][z]
  BY DEF Hung
<1>3. Shape(U, S2, at2, Leafed(S, D, n, x))
  BY LeafShape
<1>4. Sentinel \notin T.red /\ Null \notin T.red
  BY TreeFields DEF Shape
<1>5. \A z \in S, e \in Sides : T.child[e][z] = Sentinel \/ T.child[e][z] \in S
  BY ChildOK
<1>6. /\ bh[Sentinel] = 0 /\ \A z \in S : bh[z] \in Nat
  BY DEF Even
<1>7. h[n] = 0 /\ h[Sentinel] = 0 /\ \A z \in S : h[z] = bh[z]
  BY <1>1, <1>6
<1> HIDE DEF d, h
<1>8. FewRed(U, S2, n)
  <2>1. ASSUME NEW z \in S2, NEW e \in Sides, z \in U.red, U.child[e][z] \in U.red, U.child[e][z] # n
        PROVE  FALSE
    <3>1. z # n
      BY <1>1, <1>2, <1>4, <2>1
    <3>2. U.child[e][z] = T.child[e][z] /\ z \in T.red /\ T.child[e][z] \in T.red /\ z \in S
      BY <1>1, <1>2, <2>1, <3>1
    <3>3. T.child[e][z] = Null
      BY <3>2 DEF FewRed
    <3> QED BY <1>4, <3>2, <3>3
  <2>2. U.root \notin U.red
    BY <1>1, <1>2 DEF FewRed
  <2> QED BY <2>1, <2>2 DEF FewRed
<1>9. Even(U, S2, h, {})
  <2>1. ASSUME NEW z \in S2 PROVE h[z] \in Nat
    BY <1>6, <1>7
  <2>2. ASSUME NEW z \in S2, NEW e \in Sides
        PROVE  h[z] = h[U.child[e][z]] + (IF z \in U.red THEN 0 ELSE 1) + (IF <<z, e>> \in {} THEN 1 ELSE 0)
    <3>1. CASE z = n
      <4>1. U.child[e][z] = Sentinel /\ z \in U.red
        BY <1>1, <1>2, <3>1
      <4> QED BY <1>7, <3>1, <4>1
    <3>2. CASE z \in S
      <4>1. z \in U.red <=> z \in T.red
        BY <1>1, <1>2, <3>2
      <4>2. bh[z] = bh[T.child[e][z]] + (IF z \in T.red THEN 0 ELSE 1) + (IF <<z, e>> \in {} THEN 1 ELSE 0)
        BY <3>2 DEF Even
      <4>3. h[U.child[e][z]] = bh[T.child[e][z]]
        <5>1. CASE e = d /\ z = x
          BY <1>1, <1>2, <1>6, <1>7, <5>1
        <5>2. CASE ~(e = d /\ z = x)
          <6>1. U.child[e][z] = T.child[e][z]
            BY <1>1, <1>2, <3>2, <5>2
          <6> QED BY <1>5, <1>6, <1>7, <3>2, <6>1
        <5> QED BY <5>1, <5>2
      <4>4. h[z] = bh[z]
        BY <1>7, <3>2
      <4> QED BY <4>1, <4>2, <4>3, <4>4
    <3> QED BY <3>1, <3>2
  <2> HIDE DEF S2
  <2> QED BY <1>7, <2>1, <2>2 DEF Even
<1>10. n \in S2 /\ n \in U.red
  BY <1>2
<1>11. InsertGood(U, S2, at2, Leafed(S, D, n, x), h, n)
  BY <1>3, <1>8, <1>9, <1>10 DEF InsertGood
<1> QED BY <1>11

\* The keys ascend with the places.
InKeyOrder(T, S, at) == \A x, y \in S : at[x] < at[y] => ~(Signed(T.key[y], T.key[x]) < 0)

\* T is a red-black tree of the nodes S, sorted by their keys.
TreeGood(T, S, at) ==
  /\ \E D, bh : Shape(T, S, at, D) /\ Even(T, S, bh, {})
  /\ FewRed(T, S, Null)
  /\ Listing(S, at) /\ InKeyOrder(T, S, at)

\* A set that has all before each of its nodes is an initial part of the order.
LEMMA Cut ==
  ASSUME NEW S, NEW at, Listing(S, at), IsFiniteSet(S), NEW B \in SUBSET S,
         \A y, z \in S : z \in B /\ at[y] < at[z] => y \in B
  PROVE  \E p \in 0..Cardinality(S) : \A z \in S : at[z] <= p <=> z \in B
<1> DEFINE N == Cardinality(S)
           P == {p \in Nat : \A z \in B : at[z] <= p}
<1>1. N \in Nat /\ \A z \in S : at[z] \in 1..N
  BY ListingOK
<1>2. N \in P
  BY <1>1
<1>3. PICK p \in P : \A q \in P : p <= q
  <2>1. P \in SUBSET Nat /\ P # {}
    BY <1>2
  <2> HIDE DEF P
  <2> QED BY <2>1, LeastOf
<1>4. p \in Nat /\ p <= N /\ \A z \in B : at[z] <= p
  BY <1>2, <1>3
<1>5. ASSUME NEW z \in S, at[z] <= p PROVE z \in B
  <2>1. p - 1 \in Nat /\ p - 1 \notin P
    <3>1. 1 <= p
      BY <1>1, <1>4, <1>5
    <3>2. p - 1 \in Nat /\ ~(p <= p - 1)
      BY <1>4, <3>1
    <3> HIDE DEF P
    <3> QED BY <1>3, <3>2
  <2>2. PICK y \in B : ~(at[y] <= p - 1)
    BY <2>1
  <2>3. at[z] <= at[y] /\ y \in S
    <3>1. at[y] \in Int /\ at[z] \in Int
      BY <1>1
    <3> QED BY <1>4, <1>5, <2>1, <2>2, <3>1
  <2>4. at[z] = at[y] => z = y
    BY <2>3 DEF Listing
  <2>5. at[z] < at[y] \/ at[z] = at[y]
    BY <1>1, <2>3
  <2> QED BY <2>2, <2>3, <2>4, <2>5
<1>6. p \in 0..N
  BY <1>1, <1>4
<1> QED BY <1>4, <1>5, <1>6

\* The places after n has come in behind the first p.
InsertAt(S, at, n, p) ==
  [z \in S \cup {n} |-> IF z = n THEN p + 1 ELSE IF at[z] <= p THEN at[z] ELSE at[z] + 1]

\* The nodes behind the first p move back by one.
LEMMA InsertAtOK ==
  ASSUME NEW S, NEW at, Listing(S, at), IsFiniteSet(S), NEW n, n \notin S,
         NEW p \in 0..Cardinality(S)
  PROVE  LET at2 == InsertAt(S, at, n, p)
         IN  /\ Listing(S \cup {n}, at2) /\ Cardinality(S \cup {n}) = Cardinality(S) + 1
             /\ IsFiniteSet(S \cup {n})
             /\ \A y, z \in S : at2[y] < at2[z] <=> at[y] < at[z]
             /\ \A z \in S : /\ at2[n] < at2[z] <=> ~(at[z] <= p)
                             /\ at2[z] < at2[n] <=> at[z] <= p
<1> DEFINE N == Cardinality(S)
           S2 == S \cup {n}
           at2 == InsertAt(S, at, n, p)
<1>1. N \in Nat /\ \A z \in S : at[z] \in 1..N
  BY ListingOK
<1>2. Cardinality(S2) = N + 1 /\ IsFiniteSet(S2)
  BY FS_AddElement
<1>3. at2[n] = p + 1 /\ \A z \in S : at2[z] = IF at[z] <= p THEN at[z] ELSE at[z] + 1
  BY DEF InsertAt
<1>4. at2 = [z \in S2 |-> at2[z]]
  BY DEF InsertAt
<1> HIDE DEF at2
<1>5. \A y, z \in S : at2[y] < at2[z] <=> at[y] < at[z]
  <2> TAKE y, z \in S
  <2>1. at[y] \in Int /\ at[z] \in Int /\ p \in Int
    BY <1>1
  <2> QED BY <1>3, <2>1
<1>6. \A z \in S : (at2[n] < at2[z] <=> ~(at[z] <= p)) /\ (at2[z] < at2[n] <=> at[z] <= p)
  <2> TAKE z \in S
  <2>1. at[z] \in Int /\ p \in Int
    BY <1>1
  <2> QED BY <1>3, <2>1
<1>7. \A z \in S2 : at2[z] \in 1..(N + 1)
  <2>1. at2[n] \in 1..(N + 1)
    BY <1>1, <1>3
  <2>2. ASSUME NEW z \in S PROVE at2[z] \in 1..(N + 1)
    <3>1. at[z] \in 1..N
      BY <1>1
    <3> HIDE DEF N
    <3> QED BY <1>1, <1>3, <3>1
  <2> QED BY <2>1, <2>2
<1>8. at2 \in [S2 -> 1..(N + 1)]
  BY <1>4, <1>7
<1>9. \A x, y \in S2 : at2[x] = at2[y] => x = y
  <2>1. ASSUME NEW x \in S, NEW y \in S, at2[x] = at2[y] PROVE x = y
    <3>1. at[x] = at[y]
      <4>1. at[x] \in Int /\ at[y] \in Int /\ p \in Int
        BY <1>1
      <4> QED BY <1>3, <2>1, <4>1
    <3> QED BY <3>1 DEF Listing
  <2>2. ASSUME NEW x \in S, at2[x] = at2[n] PROVE FALSE
    <3>1. at[x] \in Int /\ p \in Int
      BY <1>1
    <3> QED BY <1>3, <2>2, <3>1
  <2> QED BY <2>1, <2>2
<1>10. ASSUME NEW i \in 1..(N + 1) PROVE \E x \in S2 : at2[x] = i
  <2>1. CASE i = p + 1
    BY <1>3, <2>1
  <2>2. CASE i <= p
    <3>1. i \in 1..N
      BY <1>1, <2>2
    <3>2. PICK x \in S : at[x] = i
      BY <3>1 DEF Listing
    <3> QED BY <1>3, <2>2, <3>2
  <2>3. CASE p + 1 < i
    <3>1. i - 1 \in 1..N /\ ~(i - 1 <= p) /\ (i - 1) + 1 = i
      BY <1>1, <2>3
    <3>2. PICK x \in S : at[x] = i - 1
      BY <3>1 DEF Listing
    <3> QED BY <1>3, <3>1, <3>2
  <2> QED BY <1>1, <2>1, <2>2, <2>3
<1>11. Listing(S2, at2)
  BY <1>2, <1>8, <1>9, <1>10 DEF Listing
<1> QED BY <1>2, <1>5, <1>6, <1>11 DEF at2

\* The keys of the nodes, and a new one.
NearWith(T, S, k) == k \in Keys /\ Near({T.key[x] : x \in S} \cup {k})

\* A key that goes behind a node goes behind all that come before it.
LEMMA BehindAll ==
  ASSUME NEW T \in Trees, NEW S, S \subseteq Nodes, NEW at, InKeyOrder(T, S, at), NEW k, NearWith(T, S, k)
  PROVE  /\ \A y, z \in S : at[y] < at[z] /\ ~(Signed(k, T.key[z]) < 0) => ~(Signed(k, T.key[y]) < 0)
         /\ \A z \in S : Signed(k, T.key[z]) < 0 => ~(Signed(T.key[z], k) < 0)
<1> DEFINE K == {T.key[x] : x \in S} \cup {k}
<1>1. K \subseteq Keys /\ Near(K)
  BY TreeFields DEF NearWith
<1>2. k \in K /\ \A z \in S : T.key[z] \in K
  OBVIOUS
<1> HIDE DEF K
<1>3. PICK first \in Keys : \A a, b \in K :
        Rank(first, a) \in Int /\ (Signed(a, b) < 0 <=> Rank(first, a) < Rank(first, b))
  BY <1>1, NearOK
<1>4. ASSUME NEW y \in S, NEW z \in S, at[y] < at[z], ~(Signed(k, T.key[z]) < 0)
      PROVE  ~(Signed(k, T.key[y]) < 0)
  <2>1. ~(Signed(T.key[z], T.key[y]) < 0)
    BY <1>4 DEF InKeyOrder
  <2> DEFINE a == T.key[y]
             b == T.key[z]
  <2>2. a \in K /\ b \in K /\ ~(Signed(b, a) < 0) /\ ~(Signed(k, b) < 0)
    BY <1>2, <1>4, <2>1
  <2> HIDE DEF a, b
  <2>3. ~(Rank(first, b) < Rank(first, a)) /\ ~(Rank(first, k) < Rank(first, b))
        /\ Rank(first, a) \in Int /\ Rank(first, b) \in Int /\ Rank(first, k) \in Int
    BY <1>2, <1>3, <2>2
  <2>4. ~(Rank(first, k) < Rank(first, a))
    BY <2>3
  <2>5. ~(Signed(k, a) < 0)
    BY <1>2, <1>3, <2>2, <2>4
  <2> QED BY <2>5 DEF a
<1>5. ASSUME NEW z \in S, Signed(k, T.key[z]) < 0 PROVE ~(Signed(T.key[z], k) < 0)
  <2> DEFINE b == T.key[z]
  <2>1. b \in K /\ Signed(k, b) < 0
    BY <1>2, <1>5
  <2> HIDE DEF b
  <2>2. Rank(first, k) < Rank(first, b) /\ Rank(first, b) \in Int /\ Rank(first, k) \in Int
    BY <1>2, <1>3, <2>1
  <2>3. ~(Rank(first, b) < Rank(first, k))
    BY <2>2
  <2>4. ~(Signed(b, k) < 0)
    BY <1>2, <1>3, <2>1, <2>3
  <2> QED BY <2>4 DEF b
<1> QED BY <1>4, <1>5

\* The place of a new key among the others.
LEMMA PlaceOfKey ==
  ASSUME NEW T \in Trees, NEW S, S \subseteq Nodes, IsFiniteSet(S), NEW at, Listing(S, at), InKeyOrder(T, S, at),
         NEW k, NearWith(T, S, k), NEW n \in Nodes, n \notin S,
         NEW V \in Trees, V.key[n] = k, \A z \in S : V.key[z] = T.key[z]
  PROVE  \E p \in 0..Cardinality(S) :
           /\ \A z \in S : at[z] <= p <=> ~(Signed(k, T.key[z]) < 0)
           /\ Listing(S \cup {n}, InsertAt(S, at, n, p)) /\ InKeyOrder(V, S \cup {n}, InsertAt(S, at, n, p))
           /\ Lands(V, S, at, InsertAt(S, at, n, p), n, k)
<1> DEFINE B == {z \in S : ~(Signed(k, T.key[z]) < 0)}
<1>1. B \in SUBSET S /\ \A y, z \in S : z \in B /\ at[y] < at[z] => y \in B
  BY BehindAll
<1>2. PICK p \in 0..Cardinality(S) : \A z \in S : at[z] <= p <=> z \in B
  <2> HIDE DEF B
  <2> QED BY <1>1, Cut
<1>3. \A z \in S : at[z] <= p <=> ~(Signed(k, T.key[z]) < 0)
  BY <1>2
<1> HIDE DEF B
<1> DEFINE at2 == InsertAt(S, at, n, p)
<1>4. /\ Listing(S \cup {n}, at2) /\ IsFiniteSet(S \cup {n})
      /\ \A y, z \in S : at2[y] < at2[z] <=> at[y] < at[z]
      /\ \A z \in S : /\ at2[n] < at2[z] <=> ~(at[z] <= p)
                      /\ at2[z] < at2[n] <=> at[z] <= p
  BY InsertAtOK
<1> HIDE DEF at2
<1>5. Ordered(S \cup {n}, at2)
  BY <1>4, ListingOK
<1>6. InKeyOrder(V, S \cup {n}, at2)
  <2>1. ASSUME NEW x \in S, NEW y \in S, at2[x] < at2[y] PROVE ~(Signed(V.key[y], V.key[x]) < 0)
    BY <1>4, <2>1 DEF InKeyOrder
  <2>2. ASSUME NEW y \in S, at2[n] < at2[y] PROVE ~(Signed(V.key[y], V.key[n]) < 0)
    <3>1. Signed(k, T.key[y]) < 0
      BY <1>3, <1>4, <2>2
    <3> QED BY <3>1, BehindAll
  <2>3. ASSUME NEW x \in S, at2[x] < at2[n] PROVE ~(Signed(V.key[n], V.key[x]) < 0)
    BY <1>3, <1>4, <2>3
  <2>4. ~(at2[n] < at2[n])
    <3>1. at2[n] \in Int
      BY <1>5 DEF Ordered
    <3> QED BY <3>1
  <2> QED BY <2>1, <2>2, <2>3, <2>4 DEF InKeyOrder
<1>7. Lands(V, S, at, at2, n, k)
  <2>1. ASSUME NEW e \in Sides, NEW y \in S, NEW z \in S PROVE Toward(at2, e, y, z) <=> Toward(at, e, y, z)
    BY <1>4 DEF Toward
  <2>2. ASSUME NEW e \in Sides, NEW z \in S PROVE Toward(at2, e, n, z) <=> e = Place(V, k, z)
    <3>1. Place(V, k, z) = IF at[z] <= p THEN "right" ELSE "left"
      BY <1>3 DEF Place
    <3>2. e = "left" \/ e = "right"
      BY DEF Sides
    <3> QED BY <1>4, <3>1, <3>2 DEF Toward
  <2> QED BY <1>5, <2>1, <2>2 DEF Lands
<1> QED BY <1>3, <1>4, <1>6, <1>7 DEF at2

\* The first node.
LEMMA InsertFirst ==
  ASSUME NEW T \in Trees, NEW n \in Nodes, NEW at2, Listing({n}, at2)
  PROVE  LET U == Black(SetChildren(SetParent([T EXCEPT !.root = n], n, Null), n, Sentinel, Sentinel), n)
         IN  /\ U.key = T.key /\ Shape(U, {n}, at2, [z \in {n} |-> {n}])
             /\ Even(U, {n}, [z \in {n, Sentinel} |-> IF z = n THEN 1 ELSE 0], {}) /\ FewRed(U, {n}, Null)
<1> DEFINE A == [T EXCEPT !.root = n]
           B == SetParent(A, n, Null)
           C == SetChildren(B, n, Sentinel, Sentinel)
           U == Black(C, n)
           D == [z \in {n} |-> {n}]
           h == [z \in {n, Sentinel} |-> IF z = n THEN 1 ELSE 0]
<1>1. n \in Ends /\ Sentinel \in Ends /\ n # Sentinel
  BY EndsOK
<1>2. /\ A \in Trees /\ A.root = n /\ A.child = T.child /\ A.parent = T.parent /\ A.key = T.key
      /\ A.red = T.red
  BY <1>1, SetRootOK
<1> HIDE DEF A
<1>3. /\ B \in Trees /\ B.root = A.root /\ B.child = A.child /\ B.key = A.key /\ B.red = A.red
  <2>1. Null \in Ends \cup {Null}
    OBVIOUS
  <2> QED BY <1>1, <1>2, <2>1, SetParentOK
<1> HIDE DEF B
<1>4. /\ C \in Trees /\ C.root = B.root /\ C.parent = B.parent /\ C.key = B.key /\ C.red = B.red
      /\ \A e \in Sides, z \in Nodes :
           C.child[e][z] = IF z = n THEN IF e = "left" THEN Sentinel ELSE Sentinel ELSE B.child[e][z]
  <2>1. Sentinel \in Ends \cup {Null}
    BY <1>1
  <2> QED BY <1>3, <2>1, SetChildrenOK
<1> HIDE DEF C
<1>5. /\ U \in Trees /\ U.root = C.root /\ U.child = C.child /\ U.parent = C.parent /\ U.key = C.key
      /\ U.red = C.red \ {n}
  BY <1>4, BlackOK
<1> HIDE DEF U
<1>6. U \in Trees /\ U.root = n /\ U.key = T.key /\ n \notin U.red /\ \A e \in Sides : U.child[e][n] = Sentinel
  BY <1>2, <1>3, <1>4, <1>5
<1>7. Ordered({n}, at2)
  <2>1. IsFiniteSet({n})
    BY FS_Singleton
  <2> QED BY <2>1, ListingOK
<1>8. \A e \in Sides : ~Toward(at2, e, n, n)
  BY <1>7, TowardOK
<1>9. D[n] = {n} /\ h[n] = 1 /\ h[Sentinel] = 0
  BY <1>1
<1> HIDE DEF D, h
<1>10. ASSUME NEW a \in {n}, NEW e \in Sides PROVE Under(U, {n}, at2, D, a, e)
  BY <1>6, <1>8, <1>9 DEF Under
<1>11. Shape(U, {n}, at2, D)
  BY <1>6, <1>7, <1>9, <1>10 DEF Shape
<1>12. ASSUME NEW x \in {n}, NEW d \in Sides
       PROVE  h[x] = h[U.child[d][x]] + (IF x \in U.red THEN 0 ELSE 1) + (IF <<x, d>> \in {} THEN 1 ELSE 0)
  BY <1>6, <1>9
<1>13. Even(U, {n}, h, {})
  BY <1>9, <1>12 DEF Even
<1>14. FewRed(U, {n}, Null)
  BY <1>6 DEF FewRed
<1> QED BY <1>6, <1>11, <1>13, <1>14 DEF U, C, B, A, D, h

\* rbtree_insert() puts a node behind all that its key is not less than.
LEMMA InsertOK ==
  ASSUME NEW T, NEW S, NEW at, TreeGood(T, S, at), NEW n \in Nodes, n \notin S, NEW k, NearWith(T, S, k)
  PROVE  LET U == RbtreeInsert(T, n, k)
         IN  /\ U.key[n] = k /\ \A z \in S : U.key[z] = T.key[z]
             /\ \E p \in 0..Cardinality(S) :
                  /\ \A z \in S : at[z] <= p <=> ~(Signed(k, T.key[z]) < 0)
                  /\ TreeGood(U, S \cup {n}, InsertAt(S, at, n, p))
<1> DEFINE U == RbtreeInsert(T, n, k)
           V == [T EXCEPT !.key[n] = k]
<1>1. PICK D, bh : Shape(T, S, at, D) /\ Even(T, S, bh, {})
  BY DEF TreeGood
<1>2. /\ FewRed(T, S, Null) /\ Listing(S, at) /\ InKeyOrder(T, S, at) /\ T \in Trees /\ S \subseteq Nodes
      /\ IsFiniteSet(S) /\ k \in Keys
  BY <1>1, Finite DEF TreeGood, Shape, NearWith
<1>3. /\ V \in Trees /\ V.root = T.root /\ V.child = T.child /\ V.parent = T.parent /\ V.red = T.red
      /\ \A z \in Nodes : V.key[z] = IF z = n THEN k ELSE T.key[z]
  BY <1>2, SetKeyOK
<1>4. V.key[n] = k /\ \A z \in S : V.key[z] = T.key[z]
  BY <1>2, <1>3
<1>5. U = IF T.root = Sentinel
          THEN Black(SetChildren(SetParent([V EXCEPT !.root = n], n, Null), n, Sentinel, Sentinel), n)
          ELSE InsertFixup(InsertLeaf(V, n), n)
  BY DEF RbtreeInsert
<1> HIDE DEF V, U
<1>6. PICK p \in 0..Cardinality(S) :
        /\ \A z \in S : at[z] <= p <=> ~(Signed(k, T.key[z]) < 0)
        /\ Listing(S \cup {n}, InsertAt(S, at, n, p)) /\ InKeyOrder(V, S \cup {n}, InsertAt(S, at, n, p))
        /\ Lands(V, S, at, InsertAt(S, at, n, p), n, k)
  BY <1>2, <1>3, <1>4, PlaceOfKey
<1> DEFINE at2 == InsertAt(S, at, n, p)
<1>7. Listing(S \cup {n}, at2) /\ InKeyOrder(V, S \cup {n}, at2) /\ Lands(V, S, at, at2, n, k)
  BY <1>6
<1> HIDE DEF at2
<1>8. U.key = V.key /\ (\E E, h : Shape(U, S \cup {n}, at2, E) /\ Even(U, S \cup {n}, h, {}))
      /\ FewRed(U, S \cup {n}, Null)
  <2>1. CASE T.root = Sentinel
    <3>1. S = {}
      BY <1>1, <2>1, EndsOK DEF Shape
    <3>2. S \cup {n} = {n} /\ Listing({n}, at2)
      BY <1>7, <3>1
    <3>3. U = Black(SetChildren(SetParent([V EXCEPT !.root = n], n, Null), n, Sentinel, Sentinel), n)
      BY <1>5, <2>1
    <3>4. /\ U.key = V.key /\ Shape(U, {n}, at2, [z \in {n} |-> {n}])
          /\ Even(U, {n}, [z \in {n, Sentinel} |-> IF z = n THEN 1 ELSE 0], {}) /\ FewRed(U, {n}, Null)
      BY <1>3, <3>2, <3>3, InsertFirst
    <3> QED BY <3>2, <3>4
  <2>2. CASE T.root # Sentinel
    <3> DEFINE x == Descend(V, V.key[n])
               L == InsertLeaf(V, n)
    <3>1. S # {} /\ U = InsertFixup(L, n)
      BY <1>1, <1>5, <2>2 DEF Shape
    <3>2. Shape(V, S, at, D) /\ Even(V, S, bh, {}) /\ FewRed(V, S, Null)
      <4>1. Shape(V, S, at, D)
        BY <1>1, <1>3, SameShape
      <4>2. Even(V, S, bh, {})
        BY <1>1, <1>3 DEF Even
      <4>3. FewRed(V, S, Null)
        BY <1>2, <1>3 DEF FewRed
      <4> QED BY <4>1, <4>2, <4>3
    <3>3. x \in S /\ V.child[Place(V, k, x)][x] = Sentinel /\ Fits(V, S, at, D, k, x)
      BY <1>4, <3>1, <3>2, DescendOK
    <3>4. Hung(V, L, n, x, Place(V, k, x))
      <4>1. Descend(V, V.key[n]) \in Nodes
        BY <1>2, <3>3
      <4>2. Hung(V, L, n, x, Place(V, V.key[n], x))
        BY <1>3, <4>1, InsertLeafFields
      <4> QED BY <1>4, <4>2
    <3> HIDE DEF x, L
    <3>5. NewPlace(V, S, at, D, n, k, x)
      BY <3>3 DEF NewPlace
    <3>6. PICK h : InsertGood(L, S \cup {n}, at2, Leafed(S, D, n, x), h, n)
      BY <1>7, <3>2, <3>4, <3>5, LeafGood
    <3>7. /\ U.key = L.key
          /\ \E E, g : Shape(U, S \cup {n}, at2, E) /\ Even(U, S \cup {n}, g, {}) /\ FewRed(U, S \cup {n}, Null)
      BY <3>1, <3>6, InsertFixupOK
    <3>8. L.key = V.key
      BY <3>4 DEF Hung
    <3> QED BY <3>7, <3>8
  <2> QED BY <2>1, <2>2
<1>9. InKeyOrder(U, S \cup {n}, at2)
  BY <1>7, <1>8 DEF InKeyOrder
<1>10. TreeGood(U, S \cup {n}, at2)
  BY <1>7, <1>8, <1>9 DEF TreeGood
<1>11. TreeGood(U, S \cup {n}, InsertAt(S, at, n, p))
  BY <1>10 DEF at2
<1> QED BY <1>4, <1>6, <1>8, <1>11 DEF U

-----------------------------------------------------------------------------
(* rbtree_delete(): a node is spliced out. *)

\* s has no child on the side f, and x on the other.
OneChild(T, S, s, f, x) ==
  s \in S /\ f \in Sides /\ T.child[f][s] = Sentinel /\ x = T.child[Other(f)][s]

\* The pointers of U are those of T, but that x has come up for s.
Spliced(T, U, S, s, x) ==
  /\ U \in Trees /\ U.root = IF s = T.root THEN x ELSE T.root
  /\ \A e \in Sides, z \in S : U.child[e][z] = IF T.child[e][z] = s THEN x ELSE T.child[e][z]
  /\ \A z \in Ends : z # x => U.parent[z] = T.parent[z]
  /\ s # T.root => U.parent[x] = T.parent[s]

\* The nodes of the subtrees without s.
Without(S, D, s) == [z \in S \ {s} |-> D[z] \ {s}]

\* What is in the subtree of a node with one child at most.
LEMMA OneChildOK ==
  ASSUME NEW T, NEW S, NEW at, NEW D, Shape(T, S, at, D), NEW s, NEW f, NEW x, OneChild(T, S, s, f, x)
  PROVE  /\ x \in Ends /\ x # s /\ s \in S /\ s # Sentinel /\ s \in D[s]
         /\ x = Sentinel => \A z \in D[s] : z = s
         /\ x # Sentinel => /\ x \in S /\ T.parent[x] = s /\ \A z \in S : z \in D[x] <=> z \in D[s] /\ z # s
<1> DEFINE o == Other(f)
<1>1. /\ s \in S /\ f \in Sides /\ o \in Sides /\ T.child[f][s] = Sentinel /\ x = T.child[o][s]
      /\ Ordered(S, at) /\ s \in D[s] /\ s # Sentinel /\ D[s] \subseteq S
  BY SidesOK, EndsOK DEF OneChild, Shape
<1>2. \A z \in D[s] : ~Toward(at, f, z, s)
  BY <1>1, ChildOK
<1>3. \A a, b \in S : a # b => Toward(at, f, a, b) \/ Toward(at, f, b, a)
  BY <1>1, TowardOK
<1>4. \A a, b \in S : Toward(at, o, a, b) <=> Toward(at, f, b, a)
  BY <1>1, TowardOK
<1>5. ~Toward(at, o, s, s)
  BY <1>1, TowardOK
<1>6. \A z \in D[s] : z # s => Toward(at, o, z, s)
  BY <1>1, <1>2, <1>3, <1>4
<1> HIDE DEF o
<1>7. x \in Ends /\ x # s
  BY <1>1, ChildOK
<1>8. x = Sentinel => \A z \in D[s] : z = s
  <2>1. s \in S /\ o \in Sides
    BY <1>1
  <2>2. T.child[o][s] = Sentinel => \A z \in D[s] : ~Toward(at, o, z, s)
    BY <2>1, ChildOK
  <2> QED BY <1>1, <1>6, <2>2
<1>9. x # Sentinel => /\ x \in S /\ T.parent[x] = s /\ \A z \in S : z \in D[x] <=> z \in D[s] /\ z # s
  <2>1. x # Sentinel => /\ x \in S /\ T.parent[x] = s
                        /\ \A z \in S : z \in D[x] <=> z \in D[s] /\ Toward(at, o, z, s)
    BY <1>1, ChildOK
  <2> QED BY <1>5, <1>6, <2>1
<1> QED BY <1>1, <1>7, <1>8, <1>9

\* The order of the others stays.
LEMMA SpliceShape ==
  ASSUME NEW T, NEW S, NEW at, NEW D, Shape(T, S, at, D), NEW s, NEW f, NEW x, OneChild(T, S, s, f, x),
         NEW U, Spliced(T, U, S, s, x)
  PROVE  Shape(U, S \ {s}, at, Without(S, D, s))
<1> DEFINE S2 == S \ {s}
           E == Without(S, D, s)
<1>1. /\ x \in Ends /\ x # s /\ s \in S /\ s # Sentinel /\ s \in D[s]
      /\ x = Sentinel => \A z \in D[s] : z = s
      /\ x # Sentinel => /\ x \in S /\ T.parent[x] = s /\ \A z \in S : z \in D[x] <=> z \in D[s] /\ z # s
  BY OneChildOK
<1>2. /\ U \in Trees /\ U.root = IF s = T.root THEN x ELSE T.root
      /\ \A e \in Sides, z \in S : U.child[e][z] = IF T.child[e][z] = s THEN x ELSE T.child[e][z]
      /\ \A z \in Ends : z # x => U.parent[z] = T.parent[z]
      /\ s # T.root => U.parent[x] = T.parent[s]
  BY DEF Spliced
<1>3. /\ S \subseteq Nodes /\ S \subseteq Ends /\ Sentinel \notin S /\ Ordered(S2, at)
      /\ \A z \in S : D[z] \subseteq S /\ z \in D[z]
  BY EndsOK DEF Shape, Ordered
<1>4. \A z \in S2 : E[z] = D[z] \ {s}
  BY DEF Without
<1> HIDE DEF E
<1>5. \A z \in S2 : E[z] \subseteq S2 /\ z \in E[z]
  BY <1>3, <1>4
<1>6. IF S2 = {} THEN U.root = Sentinel ELSE U.root \in S2 /\ E[U.root] = S2
  <2>1. T.root \in S /\ D[T.root] = S
    BY <1>1 DEF Shape
  <2>2. CASE T.root # s
    <3>1. U.root = T.root /\ T.root \in S2
      BY <1>2, <2>1, <2>2
    <3> QED BY <1>4, <2>1, <3>1
  <2>3. CASE T.root = s
    <3>1. U.root = x
      BY <1>2, <2>3
    <3>2. x = Sentinel => S2 = {}
      BY <1>1, <2>1, <2>3
    <3>3. x # Sentinel => x \in S2 /\ D[x] = S2
      <4>1. x # Sentinel => x \in S2 /\ D[x] \subseteq S /\ \A z \in S : z \in D[x] <=> z \in S2
        BY <1>1, <1>3, <2>1, <2>3
      <4> QED BY <4>1
    <3> QED BY <1>4, <3>1, <3>2, <3>3
  <2> QED BY <2>2, <2>3
<1>7. ASSUME NEW a \in S2, NEW e \in Sides PROVE Under(U, S2, at, E, a, e)
  <2> DEFINE c == T.child[e][a]
  <2>1. /\ c = Sentinel => \A z \in D[a] : ~Toward(at, e, z, a)
        /\ c # Sentinel => c \in S /\ T.parent[c] = a /\ \A z \in S : z \in D[c] <=> z \in D[a] /\ Toward(at, e, z, a)
    BY ChildOK
  <2>2. c = s => s # T.root /\ T.parent[s] = a
    <3>1. c = s => T.child[e][a] # Sentinel /\ T.parent[s] = a
      BY <1>1, <2>1
    <3>2. c = s => s # T.root
      BY <3>1, OneParent
    <3> QED BY <3>1, <3>2
  <2>3. U.child[e][a] = IF c = s THEN x ELSE c
    BY <1>2
  <2> HIDE DEF c
  <2>4. CASE c = s
    <3>1. U.child[e][a] = x /\ U.parent[x] = a
      BY <1>2, <2>2, <2>3, <2>4
    <3>2. \A z \in S : z \in D[s] <=> z \in D[a] /\ Toward(at, e, z, a)
      BY <1>1, <2>1, <2>4
    <3>3. CASE x = Sentinel
      <4>1. \A z \in E[a] : ~Toward(at, e, z, a)
        BY <1>1, <1>3, <1>4, <3>2, <3>3
      <4> QED BY <3>1, <3>3, <4>1 DEF Under
    <3>4. CASE x # Sentinel
      <4>1. x \in S2 /\ E[x] = D[x] \ {s}
        BY <1>1, <1>4, <3>4
      <4>2. \A z \in S2 : z \in E[x] <=> z \in E[a] /\ Toward(at, e, z, a)
        BY <1>1, <1>4, <3>2, <3>4, <4>1
      <4> QED BY <3>1, <3>4, <4>1, <4>2 DEF Under
    <3> QED BY <3>3, <3>4
  <2>5. CASE c # s
    <3>1. U.child[e][a] = c
      BY <2>3, <2>5
    <3>2. CASE c = Sentinel
      <4>1. \A z \in E[a] : ~Toward(at, e, z, a)
        BY <1>4, <2>1, <3>2
      <4> QED BY <3>1, <3>2, <4>1 DEF Under
    <3>3. CASE c # Sentinel
      <4>1. c \in S2 /\ E[c] = D[c] \ {s}
        BY <1>4, <2>1, <2>5, <3>3
      <4>2. c # x
        BY <1>1, <2>1, <3>3
      <4>3. U.parent[c] = a
        BY <1>2, <1>3, <2>1, <3>3, <4>2
      <4>4. \A z \in S2 : z \in E[c] <=> z \in E[a] /\ Toward(at, e, z, a)
        BY <1>4, <2>1, <3>3, <4>1
      <4> QED BY <3>1, <3>3, <4>1, <4>3, <4>4 DEF Under
    <3> QED BY <3>2, <3>3
  <2> QED BY <2>4, <2>5
<1>8. S2 \subseteq Nodes
  BY <1>3
<1> HIDE DEF S2
<1>9. Shape(U, S2, at, E)
  BY <1>2, <1>3, <1>5, <1>6, <1>7, <1>8 DEF Shape
<1> QED BY <1>9 DEF S2, E

\* Two red nodes, one below the other, are so with x; and x may be a red root.
NearRed(T, S, x) ==
  /\ \A z \in S, e \in Sides : z \in T.red /\ T.child[e][z] \in T.red => z = x \/ T.child[e][z] = x
  /\ T.root \in T.red => T.root = x

\* The ways through a black node that is spliced out have one too few.
LEMMA SpliceBalance ==
  ASSUME NEW T, NEW S, NEW at, NEW D, Shape(T, S, at, D), NEW bh, Even(T, S, bh, {}), FewRed(T, S, Null),
         NEW s, NEW f, NEW x, OneChild(T, S, s, f, x),
         NEW U, Spliced(T, U, S, s, x), U.red = T.red
  PROVE  /\ NearRed(U, S \ {s}, x)
         /\ s \in T.red => x \notin T.red
         /\ Even(U, S \ {s}, bh, IF s = T.root \/ s \in T.red THEN {} ELSE {<<T.parent[s], SideOf(T, s)>>})
<1> DEFINE S2 == S \ {s}
           K == IF s = T.root \/ s \in T.red THEN {} ELSE {<<T.parent[s], SideOf(T, s)>>}
           o == Other(f)
<1>1. /\ x \in Ends /\ x # s /\ s \in S /\ s # Sentinel /\ s \in D[s]
      /\ x # Sentinel => x \in S
  BY OneChildOK
<1>2. /\ U.root = IF s = T.root THEN x ELSE T.root
      /\ \A e \in Sides, z \in S : U.child[e][z] = IF T.child[e][z] = s THEN x ELSE T.child[e][z]
  BY DEF Spliced
<1>3. o \in Sides /\ T.child[o][s] = x
  BY SidesOK DEF OneChild
<1>4. Sentinel \notin S /\ Sentinel \notin T.red /\ Null \notin T.red
  BY EndsOK, TreeFields DEF Shape
<1>5. \A z \in S, e \in Sides : ~(z \in T.red /\ T.child[e][z] \in T.red)
  BY <1>4 DEF FewRed
<1>6. T.root \notin T.red
  BY <1>4 DEF FewRed
<1>7. NearRed(U, S2, x)
  BY <1>2, <1>5, <1>6 DEF NearRed
<1>8. s \in T.red => x \notin T.red
  BY <1>1, <1>3, <1>5
<1>9. \A z \in S, e \in Sides :
        bh[z] = bh[T.child[e][z]] + (IF z \in T.red THEN 0 ELSE 1) + (IF <<z, e>> \in {} THEN 1 ELSE 0)
  BY DEF Even
<1>10. bh[Sentinel] = 0 /\ \A z \in S : bh[z] \in Nat
  BY DEF Even
<1>11. \A z \in S, e \in Sides : T.child[e][z] = Sentinel \/ T.child[e][z] \in S
  BY ChildOK
<1>12. \A z \in S, e \in Sides : bh[T.child[e][z]] \in Nat
  BY <1>10, <1>11
<1>13. \A z \in S, e \in Sides : T.child[e][z] = s => s # T.root /\ z = T.parent[s] /\ e = SideOf(T, s)
  <2> TAKE z \in S, e \in Sides
  <2>1. ASSUME T.child[e][z] = s PROVE s # T.root /\ z = T.parent[s] /\ e = SideOf(T, s)
    <3>1. T.child[e][z] # Sentinel
      BY <1>1, <2>1
    <3>2. s # T.root
      BY <2>1, <3>1, OneParent
    <3> QED BY <1>1, <2>1, <3>2, HasParent
  <2> QED BY <2>1
<1>14. s # T.root => T.parent[s] \in S /\ SideOf(T, s) \in Sides /\ T.child[SideOf(T, s)][T.parent[s]] = s
  BY <1>1, HasParent
<1>15. \A z \in S, e \in Sides : <<z, e>> \in K <=> T.child[e][z] = s /\ s \notin T.red
  <2> TAKE z \in S, e \in Sides
  <2>1. <<z, e>> \in K => T.child[e][z] = s /\ s \notin T.red
    BY <1>14
  <2>2. T.child[e][z] = s /\ s \notin T.red => <<z, e>> \in K
    BY <1>13
  <2> QED BY <2>1, <2>2
<1> HIDE DEF K
<1>16. ASSUME NEW z \in S2, NEW e \in Sides
       PROVE  bh[z] = bh[U.child[e][z]] + (IF z \in U.red THEN 0 ELSE 1) + (IF <<z, e>> \in K THEN 1 ELSE 0)
  <2>1. bh[z] = bh[T.child[e][z]] + (IF z \in T.red THEN 0 ELSE 1) /\ bh[T.child[e][z]] \in Nat
    <3>1. bh[z] = bh[T.child[e][z]] + (IF z \in T.red THEN 0 ELSE 1) + (IF <<z, e>> \in {} THEN 1 ELSE 0)
      BY <1>9
    <3> QED BY <1>12, <3>1
  <2>2. bh[s] = bh[x] + (IF s \in T.red THEN 0 ELSE 1) /\ bh[x] \in Nat
    <3>1. bh[s] = bh[T.child[o][s]] + (IF s \in T.red THEN 0 ELSE 1) + (IF <<s, o>> \in {} THEN 1 ELSE 0)
      BY <1>1, <1>3, <1>9
    <3>2. bh[T.child[o][s]] \in Nat
      BY <1>1, <1>3, <1>12
    <3> QED BY <1>3, <3>1, <3>2
  <2>3. CASE T.child[e][z] = s
    <3>1. U.child[e][z] = x
      BY <1>2, <2>3
    <3>2. <<z, e>> \in K <=> s \notin T.red
      BY <1>15, <2>3
    <3> QED BY <2>1, <2>2, <2>3, <3>1, <3>2
  <2>4. CASE T.child[e][z] # s
    <3>1. U.child[e][z] = T.child[e][z]
      BY <1>2, <2>4
    <3>2. <<z, e>> \notin K
      BY <1>15, <2>4
    <3> QED BY <2>1, <3>1, <3>2
  <2> QED BY <2>3, <2>4
<1> HIDE DEF S2
<1>17. \A z \in S2 : bh[z] \in Nat
  BY <1>10 DEF S2
<1>18. Even(U, S2, bh, K)
  BY <1>10, <1>16, <1>17 DEF Even
<1> QED BY <1>7, <1>8, <1>18 DEF S2, K

\* The one pointer to x: the root, or a child pointer of its parent.
Hangs(T, S, x) ==
  /\ x \in S /\ S \subseteq Nodes
  /\ x # T.root => T.parent[x] \in S /\ SideOf(T, x) \in Sides
  /\ \A e \in Sides, z \in S : T.child[e][z] = x <=> x # T.root /\ z = T.parent[x] /\ e = SideOf(T, x)

\* Every node of a tree hangs in it.
LEMMA HangsOK ==
  ASSUME NEW T, NEW S, NEW at, NEW D, Shape(T, S, at, D), NEW x \in S
  PROVE  Hangs(T, S, x)
<1>1. x # T.root => T.parent[x] \in S /\ SideOf(T, x) \in Sides /\ T.child[SideOf(T, x)][T.parent[x]] = x
  BY HasParent
<1>2. ASSUME NEW e \in Sides, NEW z \in S, T.child[e][z] = x
      PROVE  x # T.root /\ z = T.parent[x] /\ e = SideOf(T, x)
  <2>1. x # Sentinel
    BY EndsOK DEF Shape
  <2>2. x # T.root
    BY <1>2, <2>1, OneParent
  <2> QED BY <1>2, <2>2, HasParent
<1>3. S \subseteq Nodes
  BY DEF Shape
<1> QED BY <1>1, <1>2, <1>3 DEF Hangs

\* y takes the place of x, whatever the other pointers.
LEMMA ReplaceFields ==
  ASSUME NEW T \in Trees, NEW S, NEW x, Hangs(T, S, x), NEW y \in Ends
  PROVE  LET U == Replace(T, x, y)
         IN  /\ U \in Trees /\ U.parent = T.parent /\ U.key = T.key /\ U.red = T.red
             /\ U.root = IF x = T.root THEN y ELSE T.root
             /\ \A e \in Sides, z \in S : U.child[e][z] = IF T.child[e][z] = x THEN y ELSE T.child[e][z]
<1> DEFINE U == Replace(T, x, y)
           p == T.parent[x]
           d == SideOf(T, x)
<1>1. /\ x \in S /\ S \subseteq Nodes
      /\ x # T.root => p \in S /\ d \in Sides
      /\ \A e \in Sides, z \in S : T.child[e][z] = x <=> x # T.root /\ z = p /\ e = d
  BY DEF Hangs
<1>2. CASE x = T.root
  <2>1. U = [T EXCEPT !.root = y]
    BY <1>2 DEF Replace
  <2>2. U \in Trees /\ U.root = y /\ U.child = T.child /\ U.parent = T.parent /\ U.key = T.key /\ U.red = T.red
    BY <2>1, SetRootOK
  <2> HIDE DEF U
  <2> QED BY <1>1, <1>2, <2>2 DEF U
<1>3. CASE x # T.root
  <2>1. U = SetChild(T, d, p, y)
    BY <1>3 DEF Replace
  <2> HIDE DEF d, p
  <2>2. p \in Nodes /\ y \in Ends \cup {Null} /\ d \in Sides
    BY <1>1, <1>3
  <2>3. /\ U \in Trees /\ U.root = T.root /\ U.parent = T.parent /\ U.key = T.key /\ U.red = T.red
        /\ \A e \in Sides, z \in Nodes : U.child[e][z] = IF e = d /\ z = p THEN y ELSE T.child[e][z]
    BY <2>1, <2>2, SetChildOK
  <2> HIDE DEF U
  <2> QED BY <1>1, <1>3, <2>3 DEF U
<1> QED BY <1>2, <1>3

\* s is spliced out, and x gets the parent up.
LEMMA SpliceFields ==
  ASSUME NEW T, NEW S, NEW at, NEW D, Shape(T, S, at, D), NEW s \in S, NEW x \in Ends, NEW up \in Ends \cup {Null}
  PROVE  LET U == Splice(T, s, x, up)
         IN  /\ U \in Trees /\ U.key = T.key /\ U.red = T.red /\ U.root = IF s = T.root THEN x ELSE T.root
             /\ \A e \in Sides, z \in S : U.child[e][z] = IF T.child[e][z] = s THEN x ELSE T.child[e][z]
             /\ \A z \in Ends : U.parent[z] = IF z = x THEN up ELSE T.parent[z]
<1> DEFINE A == Replace(T, s, x)
           U == SetParent(A, x, up)
<1>1. /\ A \in Trees /\ A.parent = T.parent /\ A.key = T.key /\ A.red = T.red
      /\ A.root = IF s = T.root THEN x ELSE T.root
      /\ \A e \in Sides, z \in S : A.child[e][z] = IF T.child[e][z] = s THEN x ELSE T.child[e][z]
  BY ReplaceOK
<1>2. Splice(T, s, x, up) = U
  BY DEF Splice
<1> HIDE DEF A
<1>3. /\ U \in Trees /\ U.root = A.root /\ U.child = A.child /\ U.key = A.key /\ U.red = A.red
      /\ \A z \in Ends : U.parent[z] = IF z = x THEN up ELSE A.parent[z]
  BY <1>1, SetParentOK
<1> HIDE DEF U
<1> QED BY <1>1, <1>2, <1>3

\* The fields of a deleted node are cleared, and no others.
LEMMA ForgetOK ==
  ASSUME NEW T \in Trees, NEW n \in Nodes
  PROVE  LET U == Forget(T, n)
         IN  /\ U \in Trees /\ U.root = T.root /\ U.red = T.red
             /\ \A e \in Sides, z \in Nodes : z # n => U.child[e][z] = T.child[e][z]
             /\ \A z \in Ends : z # n => U.parent[z] = T.parent[z]
             /\ \A z \in Nodes : z # n => U.key[z] = T.key[z]
<1> DEFINE A == SetParent(T, n, Null)
           B == SetChildren(A, n, Null, Null)
           U == [B EXCEPT !.key[n] = 0]
<1>1. n \in Ends /\ Null \in Ends \cup {Null} /\ 0 \in Keys
  BY EndsOK, RedBlackAssumption DEF Keys, Circle
<1>2. Forget(T, n) = U
  BY DEF Forget
<1>3. /\ A \in Trees /\ A.root = T.root /\ A.child = T.child /\ A.key = T.key /\ A.red = T.red
      /\ \A z \in Ends : A.parent[z] = IF z = n THEN Null ELSE T.parent[z]
  BY <1>1, SetParentOK
<1> HIDE DEF A
<1>4. /\ B \in Trees /\ B.root = A.root /\ B.parent = A.parent /\ B.key = A.key /\ B.red = A.red
      /\ \A e \in Sides, z \in Nodes :
           B.child[e][z] = IF z = n THEN IF e = "left" THEN Null ELSE Null ELSE A.child[e][z]
  <2>1. A \in Trees /\ Null \in Ends \cup {Null} /\ B = SetChildren(A, n, Null, Null)
    BY <1>1, <1>3
  <2> HIDE DEF B
  <2> QED BY <2>1, SetChildrenOK
<1> HIDE DEF B
<1>5. /\ U \in Trees /\ U.root = B.root /\ U.child = B.child /\ U.parent = B.parent /\ U.red = B.red
      /\ \A z \in Nodes : U.key[z] = IF z = n THEN 0 ELSE B.key[z]
  BY <1>1, <1>4, SetKeyOK
<1> HIDE DEF U
<1> QED BY <1>2, <1>3, <1>4, <1>5

\* The fields of U are those of T, but that s, which was not in it, has taken the
\* place of n.
Moved(T, U, S, n, s) ==
  /\ U \in Trees /\ U.root = IF n = T.root THEN s ELSE T.root
  /\ \A e \in Sides, z \in S : z # n => U.child[e][z] = IF T.child[e][z] = n THEN s ELSE T.child[e][z]
  /\ \A e \in Sides : U.child[e][s] = T.child[e][n]
  /\ \A z \in S : z # n => U.parent[z] = IF \E e \in Sides : T.child[e][n] = z THEN s ELSE T.parent[z]
  /\ U.parent[s] = T.parent[n] /\ U.parent[Sentinel] = T.parent[Sentinel]
  /\ \A z \in S : z # n => (z \in U.red <=> z \in T.red) /\ U.key[z] = T.key[z]
  /\ s \in U.red <=> n \in T.red
  /\ U.key[s] = T.key[s]

\* n, with no child but nodes of S, and s, which is not one of them.
MayTake(T, S, n, s) ==
  /\ Hangs(T, S, n) /\ s \in Nodes /\ s \notin S
  /\ \A e \in Sides : T.child[e][n] # n /\ T.child[e][n] \in S \cup {Sentinel}

\* The fields after s has taken the place of n.
LEMMA TakePlaceOK ==
  ASSUME NEW T \in Trees, NEW S, NEW n, NEW s, MayTake(T, S, n, s)
  PROVE  Moved(T, Forget(TakePlace(T, n, s), n), S, n, s)
<1> DEFINE A == Replace(T, n, s)
           l == A.child["left"][n]
           r == A.child["right"][n]
           B == SetParent(A, s, T.parent[n])
           C == SetChildren(B, s, l, r)
           E == Adopt(C, s, l)
           F == Adopt(E, s, r)
           H == CopyColor(F, s, n)
           U == Forget(H, n)
<1>1. /\ S \subseteq Nodes /\ Hangs(T, S, n) /\ s \in Nodes /\ s \notin S /\ n \in S /\ n \in Nodes
      /\ \A e \in Sides : T.child[e][n] # n /\ T.child[e][n] \in S \cup {Sentinel}
      /\ s \in Ends /\ n \in Ends /\ s # n /\ s # Sentinel /\ Sentinel \notin S /\ n # Sentinel
      /\ S \subseteq Ends /\ S \cup {Sentinel} \subseteq Ends
  <2>1. Hangs(T, S, n) /\ s \in Nodes /\ s \notin S
        /\ \A e \in Sides : T.child[e][n] # n /\ T.child[e][n] \in S \cup {Sentinel}
    BY DEF MayTake
  <2>2. n \in S /\ S \subseteq Nodes
    BY <2>1 DEF Hangs
  <2> QED BY <2>1, <2>2, EndsOK
<1>2. "left" \in Sides /\ "right" \in Sides /\ \A e \in Sides : e = "left" \/ e = "right"
  BY DEF Sides
<1>3. Forget(TakePlace(T, n, s), n) = U
  BY DEF TakePlace
<1>4. /\ A \in Trees /\ A.parent = T.parent /\ A.key = T.key /\ A.red = T.red
      /\ A.root = IF n = T.root THEN s ELSE T.root
      /\ \A e \in Sides, z \in S : A.child[e][z] = IF T.child[e][z] = n THEN s ELSE T.child[e][z]
  <2>1. Hangs(T, S, n) /\ s \in Ends
    BY <1>1
  <2> QED BY <2>1, ReplaceFields
<1>5. l = T.child["left"][n] /\ r = T.child["right"][n]
  BY <1>1, <1>2, <1>4
<1>6. l \in S \cup {Sentinel} /\ r \in S \cup {Sentinel} /\ l \in Ends /\ r \in Ends
      /\ l \in Ends \cup {Null} /\ r \in Ends \cup {Null} /\ l # s /\ r # s /\ l # n /\ r # n
  BY <1>1, <1>2, <1>5
<1>7. T.parent[n] \in Ends \cup {Null}
  BY <1>1, TreeFields
<1> HIDE DEF A, l, r
<1>8. /\ B \in Trees /\ B.root = A.root /\ B.child = A.child /\ B.key = A.key /\ B.red = A.red
      /\ \A z \in Ends : B.parent[z] = IF z = s THEN T.parent[n] ELSE A.parent[z]
  <2>1. A \in Trees /\ s \in Ends /\ T.parent[n] \in Ends \cup {Null}
    BY <1>1, <1>4, <1>7
  <2> QED BY <2>1, SetParentOK
<1> HIDE DEF B
<1>9. /\ C \in Trees /\ C.root = B.root /\ C.parent = B.parent /\ C.key = B.key /\ C.red = B.red
      /\ \A e \in Sides, z \in Nodes :
           C.child[e][z] = IF z = s THEN IF e = "left" THEN l ELSE r ELSE B.child[e][z]
  <2>1. B \in Trees /\ s \in Nodes /\ l \in Ends \cup {Null} /\ r \in Ends \cup {Null}
    BY <1>1, <1>6, <1>8
  <2> QED BY <2>1, SetChildrenOK
<1> HIDE DEF C
<1>10. s \in Ends \cup {Null}
  BY <1>1
<1>11. /\ E \in Trees /\ E.root = C.root /\ E.child = C.child /\ E.key = C.key /\ E.red = C.red
       /\ \A z \in Ends : E.parent[z] = IF z = l /\ l # Sentinel THEN s ELSE C.parent[z]
  BY <1>6, <1>9, <1>10, AdoptOK
<1> HIDE DEF E
<1>12. /\ F \in Trees /\ F.root = E.root /\ F.child = E.child /\ F.key = E.key /\ F.red = E.red
       /\ \A z \in Ends : F.parent[z] = IF z = r /\ r # Sentinel THEN s ELSE E.parent[z]
  BY <1>6, <1>10, <1>11, AdoptOK
<1> HIDE DEF F
<1>13. /\ H \in Trees /\ H.root = F.root /\ H.child = F.child /\ H.parent = F.parent /\ H.key = F.key
       /\ \A z : z \in H.red <=> IF z = s THEN n \in F.red ELSE z \in F.red
  <2>1. F \in Trees /\ s \in Nodes
    BY <1>1, <1>12
  <2> QED BY <2>1, CopyColorOK
<1> HIDE DEF H
<1>14. /\ U \in Trees /\ U.root = H.root /\ U.red = H.red
       /\ \A e \in Sides, z \in Nodes : z # n => U.child[e][z] = H.child[e][z]
       /\ \A z \in Ends : z # n => U.parent[z] = H.parent[z]
       /\ \A z \in Nodes : z # n => U.key[z] = H.key[z]
  BY <1>1, <1>13, ForgetOK
<1> HIDE DEF U
<1>15. U.root = IF n = T.root THEN s ELSE T.root
  BY <1>4, <1>8, <1>9, <1>11, <1>12, <1>13, <1>14
<1>16. \A e \in Sides, z \in Nodes : z # n => U.child[e][z] = C.child[e][z]
  BY <1>11, <1>12, <1>13, <1>14
<1>17. ASSUME NEW e \in Sides, NEW z \in S, z # n
       PROVE  U.child[e][z] = IF T.child[e][z] = n THEN s ELSE T.child[e][z]
  <2>1. z \in Nodes /\ z # s
    BY <1>1
  <2>2. U.child[e][z] = A.child[e][z]
    BY <1>8, <1>9, <1>16, <1>17, <2>1
  <2> QED BY <1>4, <2>2
<1>18. \A e \in Sides : U.child[e][s] = T.child[e][n]
  <2> TAKE e \in Sides
  <2>1. U.child[e][s] = IF e = "left" THEN l ELSE r
    BY <1>1, <1>9, <1>16
  <2> QED BY <1>2, <1>5, <2>1
<1>19. \A z \in Ends : z # n => U.parent[z] = IF z = r /\ r # Sentinel THEN s
                                              ELSE IF z = l /\ l # Sentinel THEN s
                                              ELSE IF z = s THEN T.parent[n] ELSE T.parent[z]
  <2> TAKE z \in Ends
  <2>1. z # n => U.parent[z] = F.parent[z]
    BY <1>13, <1>14
  <2>2. F.parent[z] = IF z = r /\ r # Sentinel THEN s ELSE E.parent[z]
    BY <1>12
  <2>3. E.parent[z] = IF z = l /\ l # Sentinel THEN s ELSE C.parent[z]
    BY <1>11
  <2>4. C.parent[z] = IF z = s THEN T.parent[n] ELSE T.parent[z]
    BY <1>4, <1>8, <1>9
  <2> QED BY <2>1, <2>2, <2>3, <2>4
<1>20. ASSUME NEW z \in S, z # n
       PROVE  U.parent[z] = IF \E e \in Sides : T.child[e][n] = z THEN s ELSE T.parent[z]
  <2>1. (\E e \in Sides : T.child[e][n] = z) <=> z = l \/ z = r
    BY <1>2, <1>5
  <2>2. z \in Ends /\ z # s /\ z # Sentinel
    BY <1>1
  <2> QED BY <1>19, <1>20, <2>1, <2>2
<1>21. U.parent[s] = T.parent[n] /\ U.parent[Sentinel] = T.parent[Sentinel]
  BY <1>1, <1>6, <1>19, EndsOK
<1>22. /\ \A z \in S : z # n => (z \in U.red <=> z \in T.red) /\ U.key[z] = T.key[z]
       /\ s \in U.red <=> n \in T.red
       /\ U.key[s] = T.key[s]
  <2>1. \A z : z \in U.red <=> IF z = s THEN n \in T.red ELSE z \in T.red
    BY <1>4, <1>8, <1>9, <1>11, <1>12, <1>13, <1>14
  <2>2. \A z \in Nodes : z # n => U.key[z] = T.key[z]
    BY <1>4, <1>8, <1>9, <1>11, <1>12, <1>13, <1>14
  <2> QED BY <1>1, <2>1, <2>2
<1> QED BY <1>3, <1>14, <1>15, <1>17, <1>18, <1>20, <1>21, <1>22 DEF Moved

-----------------------------------------------------------------------------
(* A node takes the place of the one that it follows. *)

\* s stands for n: as a name, and in a set.
Ren(n, s, z) == IF z = n THEN s ELSE z
Instead(S, n, s) == (S \ {n}) \cup {s}

\* The pointers and colours of U are those of T with s for n.
Renamed(T, U, S, n, s, x) ==
  /\ U \in Trees /\ U.root = Ren(n, s, T.root)
  /\ \A e \in Sides, z \in S : U.child[e][Ren(n, s, z)] = Ren(n, s, T.child[e][z])
  /\ \A e \in Sides, z \in S : T.child[e][z] \in S => U.parent[Ren(n, s, T.child[e][z])] = Ren(n, s, z)
  /\ U.parent[x] = Ren(n, s, T.parent[x])
  /\ \A z \in S : Ren(n, s, z) \in U.red <=> z \in T.red

\* Among the nodes of S, s lies where n does.
Alike(S, at, n, s) ==
  /\ n \in S /\ s \in Nodes /\ s \notin S /\ at[s] \in Int
  /\ \A z \in S : z # n => at[z] # at[s]
  /\ \A z \in S, d \in Sides :
       z # n => (Toward(at, d, z, s) <=> Toward(at, d, z, n)) /\ (Toward(at, d, s, z) <=> Toward(at, d, n, z))

\* The subtrees, with s for n.
Moves(S, D, n, s) == [z \in Instead(S, n, s) |-> {Ren(n, s, w) : w \in D[Ren(s, n, z)]}]

\* The names of the nodes before and after are one to one.
LEMMA RenOK ==
  ASSUME NEW S, NEW n \in S, NEW s, s \notin S, Sentinel \notin S, s # Sentinel
  PROVE  /\ \A z \in S : Ren(n, s, z) \in Instead(S, n, s) /\ Ren(s, n, Ren(n, s, z)) = z
         /\ \A y \in Instead(S, n, s) : Ren(s, n, y) \in S /\ Ren(n, s, Ren(s, n, y)) = y
         /\ \A z \in S \cup {Sentinel} : Ren(n, s, z) = Sentinel <=> z = Sentinel
BY DEF Ren, Instead

\* The order does not tell s from n.
LEMMA AlikeOK ==
  ASSUME NEW S, NEW at, Ordered(S, at), NEW n, NEW s, Alike(S, at, n, s)
  PROVE  /\ Ordered(Instead(S, n, s), at)
         /\ \A a, b \in S, d \in Sides : Toward(at, d, Ren(n, s, a), Ren(n, s, b)) <=> Toward(at, d, a, b)
<1>1. /\ n \in S /\ s \notin S /\ at[s] \in Int
      /\ \A z \in S : z # n => at[z] # at[s]
      /\ \A z \in S, d \in Sides :
           z # n => (Toward(at, d, z, s) <=> Toward(at, d, z, n)) /\ (Toward(at, d, s, z) <=> Toward(at, d, n, z))
  BY DEF Alike
<1>2. Ordered(Instead(S, n, s), at)
  BY <1>1 DEF Ordered, Instead
<1>3. ASSUME NEW a \in S, NEW b \in S, NEW d \in Sides
      PROVE  Toward(at, d, Ren(n, s, a), Ren(n, s, b)) <=> Toward(at, d, a, b)
  <2>1. CASE a = n /\ b = n
    <3>1. ~Toward(at, d, n, n)
      BY <1>1, TowardOK
    <3>2. ~Toward(at, d, s, s)
      BY <1>1 DEF Toward
    <3> QED BY <2>1, <3>1, <3>2 DEF Ren
  <2>2. CASE a # n \/ b # n
    BY <1>1, <2>2 DEF Ren
  <2> QED BY <2>1, <2>2
<1> QED BY <1>2, <1>3

\* So the tree keeps its shape.
LEMMA RenamedShape ==
  ASSUME NEW T, NEW S, NEW at, NEW D, Shape(T, S, at, D), NEW n, NEW s, Alike(S, at, n, s),
         NEW U, NEW x, Renamed(T, U, S, n, s, x)
  PROVE  Shape(U, Instead(S, n, s), at, Moves(S, D, n, s))
<1> DEFINE S2 == Instead(S, n, s)
           E == Moves(S, D, n, s)
           r(z) == Ren(n, s, z)
           q(y) == Ren(s, n, y)
<1>1. /\ n \in S /\ s \in Nodes /\ s \notin S /\ s # Sentinel /\ Sentinel \notin S
      /\ S \subseteq Nodes /\ Ordered(S, at) /\ \A z \in S : D[z] \subseteq S /\ z \in D[z]
      /\ T.root \in S /\ D[T.root] = S
  <2>1. n \in S /\ s \in Nodes /\ s \notin S
    BY DEF Alike
  <2>2. S \subseteq Nodes /\ Ordered(S, at) /\ \A z \in S : D[z] \subseteq S /\ z \in D[z]
    BY DEF Shape
  <2>3. T.root \in S /\ D[T.root] = S
    BY <2>1 DEF Shape
  <2> QED BY <2>1, <2>2, <2>3, EndsOK
<1>2. /\ \A z \in S : r(z) \in S2 /\ q(r(z)) = z
      /\ \A y \in S2 : q(y) \in S /\ r(q(y)) = y
      /\ \A z \in S \cup {Sentinel} : r(z) = Sentinel <=> z = Sentinel
  BY <1>1, RenOK
<1>3. /\ Ordered(S2, at)
      /\ \A a, b \in S, d \in Sides : Toward(at, d, r(a), r(b)) <=> Toward(at, d, a, b)
  BY <1>1, AlikeOK
<1>4. /\ U \in Trees /\ U.root = r(T.root)
      /\ \A e \in Sides, z \in S : U.child[e][r(z)] = r(T.child[e][z])
      /\ \A e \in Sides, z \in S : T.child[e][z] \in S => U.parent[r(T.child[e][z])] = r(z)
  BY DEF Renamed
<1>5. S2 \subseteq Nodes
  BY <1>1 DEF Instead
<1>6. \A y \in S2 : E[y] = {r(w) : w \in D[q(y)]}
  BY DEF Moves
<1> HIDE DEF S2, E, r, q
<1>7. \A a \in S, w \in S : r(w) \in E[r(a)] <=> w \in D[a]
  <2> TAKE a \in S, w \in S
  <2>1. E[r(a)] = {r(v) : v \in D[a]}
    BY <1>2, <1>6
  <2>2. \A v \in D[a] : v \in S
    BY <1>1
  <2> QED BY <1>2, <2>1, <2>2
<1>8. \A y \in S2 : E[y] \subseteq S2 /\ y \in E[y]
  <2> TAKE y \in S2
  <2>1. E[y] \subseteq S2
    BY <1>1, <1>2, <1>6
  <2>2. q(y) \in D[q(y)] /\ r(q(y)) = y /\ q(y) \in S
    BY <1>1, <1>2
  <2>3. r(q(y)) \in E[r(q(y))]
    BY <1>7, <2>2
  <2> QED BY <2>1, <2>2, <2>3
<1>9. IF S2 = {} THEN U.root = Sentinel ELSE U.root \in S2 /\ E[U.root] = S2
  <2>1. U.root \in S2
    BY <1>1, <1>2, <1>4
  <2>2. ASSUME NEW y \in S2 PROVE y \in E[U.root]
    <3>1. q(y) \in D[T.root] /\ q(y) \in S /\ r(q(y)) = y
      BY <1>1, <1>2
    <3> QED BY <1>1, <1>4, <1>7, <3>1
  <2> QED BY <1>8, <2>1, <2>2
<1>10. ASSUME NEW y \in S2, NEW e \in Sides PROVE Under(U, S2, at, E, y, e)
  <2> DEFINE a == q(y)
             c == T.child[e][a]
  <2>1. a \in S /\ y = r(a)
    BY <1>2
  <2>2. /\ c = Sentinel => \A z \in D[a] : ~Toward(at, e, z, a)
        /\ c # Sentinel => c \in S /\ \A z \in S : z \in D[c] <=> z \in D[a] /\ Toward(at, e, z, a)
    BY <2>1, ChildOK
  <2>3. U.child[e][y] = r(c)
    BY <1>4, <2>1
  <2>4. c \in S => U.parent[r(c)] = y
    BY <1>4, <2>1
  <2> HIDE DEF a, c
  <2>5. CASE c = Sentinel
    <3>1. U.child[e][y] = Sentinel
      BY <1>2, <2>3, <2>5
    <3>2. ASSUME NEW z \in E[y] PROVE ~Toward(at, e, z, y)
      <4>1. z \in S2 /\ q(z) \in S /\ r(q(z)) = z
        BY <1>2, <1>8
      <4>2. q(z) \in D[a]
        BY <1>7, <2>1, <3>2, <4>1
      <4>3. ~Toward(at, e, q(z), a)
        BY <2>2, <2>5, <4>2
      <4> QED BY <1>3, <2>1, <4>1, <4>3
    <3> QED BY <3>1, <3>2 DEF Under
  <2>6. CASE c # Sentinel
    <3>1. c \in S /\ r(c) \in S2 /\ r(c) # Sentinel
      BY <1>2, <2>2, <2>6
    <3>2. ASSUME NEW z \in S2 PROVE z \in E[r(c)] <=> z \in E[y] /\ Toward(at, e, z, y)
      <4>1. q(z) \in S /\ r(q(z)) = z
        BY <1>2
      <4>2. z \in E[r(c)] <=> q(z) \in D[c]
        BY <1>7, <3>1, <4>1
      <4>3. z \in E[y] <=> q(z) \in D[a]
        BY <1>7, <2>1, <4>1
      <4>4. Toward(at, e, z, y) <=> Toward(at, e, q(z), a)
        BY <1>3, <2>1, <4>1
      <4>5. q(z) \in D[c] <=> q(z) \in D[a] /\ Toward(at, e, q(z), a)
        BY <2>2, <2>6, <4>1
      <4> QED BY <4>2, <4>3, <4>4, <4>5
    <3> QED BY <2>3, <2>4, <3>1, <3>2 DEF Under
  <2> QED BY <2>5, <2>6
<1>11. Shape(U, S2, at, E)
  BY <1>3, <1>4, <1>5, <1>8, <1>9, <1>10 DEF Shape
<1> QED BY <1>11 DEF S2, E

\* The ways through x have one black node too few if K is not empty.
Lacking(T, S, at, D, bh, x, K) ==
  /\ Shape(T, S, at, D) /\ NearRed(T, S, x) /\ Even(T, S, bh, K) /\ x \in Ends
  /\ \/ K = {}
     \/ /\ x # T.root /\ T.parent[x] \in S
        /\ \E f \in Sides : T.child[f][T.parent[x]] = x /\ K = {<<T.parent[x], f>>}

\* The black nodes below, and the edges, with s for n.
RenamedHeights(S, bh, n, s) == [z \in Instead(S, n, s) \cup {Sentinel} |-> bh[Ren(s, n, z)]]
RenamedEdges(K, n, s) == {<<Ren(n, s, k[1]), k[2]>> : k \in K}

\* And its balance.
LEMMA RenamedLacking ==
  ASSUME NEW T, NEW S, NEW at, NEW D, NEW bh, NEW x, NEW K, Lacking(T, S, at, D, bh, x, K),
         NEW n, NEW s, Alike(S, at, n, s), NEW U, Renamed(T, U, S, n, s, x), x # n, x # s
  PROVE  Lacking(U, Instead(S, n, s), at, Moves(S, D, n, s), RenamedHeights(S, bh, n, s), x, RenamedEdges(K, n, s))
<1> DEFINE S2 == Instead(S, n, s)
           h == RenamedHeights(S, bh, n, s)
           K2 == RenamedEdges(K, n, s)
           r(z) == Ren(n, s, z)
           q(y) == Ren(s, n, y)
<1>0. /\ Shape(T, S, at, D) /\ NearRed(T, S, x) /\ Even(T, S, bh, K) /\ x \in Ends
      /\ \/ K = {}
         \/ /\ x # T.root /\ T.parent[x] \in S
            /\ \E f \in Sides : T.child[f][T.parent[x]] = x /\ K = {<<T.parent[x], f>>}
  BY DEF Lacking
<1>1. /\ n \in S /\ s \in Nodes /\ s \notin S /\ s # Sentinel /\ Sentinel \notin S
      /\ T.root \in S /\ T \in Trees
  <2>1. n \in S /\ s \in Nodes /\ s \notin S
    BY DEF Alike
  <2>2. S \subseteq Nodes /\ T \in Trees
    BY <1>0 DEF Shape
  <2>3. T.root \in S
    BY <1>0, <2>1 DEF Shape
  <2> QED BY <2>1, <2>2, <2>3, EndsOK
<1>2. /\ \A z \in S : r(z) \in S2 /\ q(r(z)) = z
      /\ \A y \in S2 : q(y) \in S /\ r(q(y)) = y
      /\ \A z \in S \cup {Sentinel} : r(z) = Sentinel <=> z = Sentinel
  BY <1>1, RenOK
<1>3. /\ U \in Trees /\ U.root = r(T.root) /\ U.parent[x] = r(T.parent[x])
      /\ \A e \in Sides, z \in S : U.child[e][r(z)] = r(T.child[e][z])
      /\ \A z \in S : r(z) \in U.red <=> z \in T.red
  BY DEF Renamed
<1>4. r(x) = x
  BY DEF Ren
<1>5. \A z \in Ends : r(z) = x => z = x
  BY DEF Ren
<1>6. /\ \A y \in S2 : h[y] = bh[q(y)]
      /\ h[Sentinel] = bh[Sentinel]
  BY <1>1 DEF RenamedHeights, Ren
<1>7. \A k \in K : k[1] \in S /\ k = <<k[1], k[2]>>
  BY <1>0
<1>8. K2 = {<<r(k[1]), k[2]>> : k \in K}
  BY DEF RenamedEdges
<1>9. \A z \in S, e \in Sides : T.child[e][z] = Sentinel \/ T.child[e][z] \in S
  BY <1>0, ChildOK
<1>10. Sentinel \notin T.red /\ Sentinel \notin U.red
  BY <1>1, <1>3, TreeFields
<1> HIDE DEF S2, h, K2, r, q
<1>11. \A z \in S : \A e : <<r(z), e>> \in K2 <=> <<z, e>> \in K
  <2> TAKE z \in S
  <2> TAKE e
  <2>1. ASSUME <<r(z), e>> \in K2 PROVE <<z, e>> \in K
    <3>1. PICK k \in K : <<r(k[1]), k[2]>> = <<r(z), e>>
      BY <1>8, <2>1
    <3>2. k[1] \in S /\ k = <<k[1], k[2]>> /\ r(k[1]) = r(z) /\ k[2] = e
      BY <1>7, <3>1
    <3>3. k[1] = z
      BY <1>2, <3>2
    <3> QED BY <3>2, <3>3
  <2>2. ASSUME <<z, e>> \in K PROVE <<r(z), e>> \in K2
    <3>1. <<r(<<z, e>>[1]), <<z, e>>[2]>> \in K2
      BY <1>8, <2>2
    <3> QED BY <3>1
  <2> QED BY <2>1, <2>2
<1>12. Shape(U, S2, at, Moves(S, D, n, s))
  BY <1>0, RenamedShape DEF S2
<1>13. NearRed(U, S2, x)
  <2>1. /\ \A z \in S, e \in Sides : z \in T.red /\ T.child[e][z] \in T.red => z = x \/ T.child[e][z] = x
        /\ T.root \in T.red => T.root = x
    BY <1>0 DEF NearRed
  <2>2. U.root \in U.red => U.root = x
    BY <1>1, <1>3, <1>4, <2>1
  <2>3. ASSUME NEW y \in S2, NEW e \in Sides, y \in U.red, U.child[e][y] \in U.red
        PROVE  y = x \/ U.child[e][y] = x
    <3> DEFINE c == T.child[e][q(y)]
    <3>1. q(y) \in S /\ y = r(q(y)) /\ U.child[e][y] = r(c)
      BY <1>2, <1>3
    <3>2. c = Sentinel \/ c \in S
      BY <1>9, <3>1
    <3>3. q(y) \in T.red
      BY <1>3, <2>3, <3>1
    <3>4. c = x \/ q(y) = x
      <4>1. c # Sentinel
        <5>1. c = Sentinel => r(c) = Sentinel
          BY <1>2
        <5> QED BY <1>10, <2>3, <3>1, <5>1
      <4>2. c \in T.red
        BY <1>3, <2>3, <3>1, <3>2, <4>1
      <4> QED BY <2>1, <3>1, <3>3, <4>2
    <3> HIDE DEF c
    <3> QED BY <1>4, <3>1, <3>4
  <2> QED BY <2>2, <2>3 DEF NearRed
<1>14. Even(U, S2, h, K2)
  <2>1. /\ bh[Sentinel] = 0 /\ \A z \in S : bh[z] \in Nat
        /\ \A z \in S, e \in Sides :
             bh[z] = bh[T.child[e][z]] + (IF z \in T.red THEN 0 ELSE 1) + (IF <<z, e>> \in K THEN 1 ELSE 0)
    BY <1>0 DEF Even
  <2>2. h[Sentinel] = 0 /\ \A y \in S2 : h[y] \in Nat
    BY <1>2, <1>6, <2>1
  <2>3. ASSUME NEW y \in S2, NEW e \in Sides
        PROVE  h[y] = h[U.child[e][y]] + (IF y \in U.red THEN 0 ELSE 1) + (IF <<y, e>> \in K2 THEN 1 ELSE 0)
    <3> DEFINE a == q(y)
               c == T.child[e][a]
    <3>1. a \in S /\ y = r(a)
      BY <1>2
    <3>2. U.child[e][y] = r(c) /\ h[y] = bh[a] /\ (y \in U.red <=> a \in T.red) /\ (<<y, e>> \in K2 <=> <<a, e>> \in K)
      <4>1. U.child[e][r(a)] = r(c) /\ (r(a) \in U.red <=> a \in T.red)
        BY <1>3, <3>1
      <4>2. <<r(a), e>> \in K2 <=> <<a, e>> \in K
        BY <1>11, <3>1
      <4> QED BY <1>6, <3>1, <4>1, <4>2
    <3>3. bh[a] = bh[c] + (IF a \in T.red THEN 0 ELSE 1) + (IF <<a, e>> \in K THEN 1 ELSE 0)
      BY <2>1, <3>1
    <3>4. c = Sentinel \/ c \in S
      BY <1>9, <3>1
    <3> HIDE DEF a, c
    <3>5. h[r(c)] = bh[c]
      <4>1. CASE c = Sentinel
        <5>1. r(c) = Sentinel
          BY <1>2, <4>1
        <5> QED BY <1>6, <4>1, <5>1
      <4>2. CASE c \in S
        BY <1>2, <1>6, <4>2
      <4> QED BY <3>4, <4>1, <4>2
    <3> QED BY <3>2, <3>3, <3>5
  <2> QED BY <2>2, <2>3 DEF Even
<1>15. \/ K2 = {}
       \/ /\ x # U.root /\ U.parent[x] \in S2
          /\ \E f \in Sides : U.child[f][U.parent[x]] = x /\ K2 = {<<U.parent[x], f>>}
  <2>1. CASE K = {}
    BY <1>8, <2>1
  <2>2. CASE K # {}
    <3>1. PICK f \in Sides : T.child[f][T.parent[x]] = x /\ K = {<<T.parent[x], f>>}
      BY <1>0, <2>2
    <3>2. x # T.root /\ T.parent[x] \in S
      BY <1>0, <2>2
    <3>3. x # U.root
      <4>1. T.root \in Ends
        BY <1>1, TreeFields
      <4> QED BY <1>3, <1>5, <3>2, <4>1
    <3>4. U.parent[x] \in S2 /\ U.child[f][U.parent[x]] = x
      BY <1>2, <1>3, <1>4, <3>1, <3>2
    <3>5. K2 = {<<r(T.parent[x]), f>>}
      <4>1. \A k \in K : k[1] = T.parent[x] /\ k[2] = f
        BY <3>1
      <4>2. <<T.parent[x], f>> \in K
        BY <3>1
      <4> QED BY <1>8, <4>1, <4>2
    <3> QED BY <1>3, <3>3, <3>4, <3>5
  <2> QED BY <2>1, <2>2
<1>16. Lacking(U, S2, at, Moves(S, D, n, s), h, x, K2)
  BY <1>0, <1>12, <1>13, <1>14, <1>15 DEF Lacking
<1> QED BY <1>16 DEF S2, h, K2

\* The ways through x have one too few, if the node s that was taken out is black.
LEMMA SpliceLacking ==
  ASSUME NEW T, NEW S, NEW at, NEW D, Shape(T, S, at, D), NEW bh, Even(T, S, bh, {}), FewRed(T, S, Null),
         NEW s, NEW f, NEW x, OneChild(T, S, s, f, x),
         NEW U, Spliced(T, U, S, s, x), U.red = T.red
  PROVE  /\ Lacking(U, S \ {s}, at, Without(S, D, s), bh, x,
                    IF s = T.root \/ s \in T.red THEN {} ELSE {<<T.parent[s], SideOf(T, s)>>})
         /\ s \in T.red => x \notin U.red
         /\ s = T.root => s \notin T.red
<1> DEFINE K == IF s = T.root \/ s \in T.red THEN {} ELSE {<<T.parent[s], SideOf(T, s)>>}
           S2 == S \ {s}
<1>1. x \in Ends /\ x # s /\ s \in S /\ s # Sentinel /\ (x # Sentinel => T.parent[x] = s)
  BY OneChildOK
<1>2. Shape(U, S2, at, Without(S, D, s))
  BY SpliceShape
<1>3. NearRed(U, S2, x) /\ (s \in T.red => x \notin T.red) /\ Even(U, S2, bh, K)
  BY SpliceBalance
<1>4. s = T.root => s \notin T.red
  <2>1. Null \notin Ends /\ T.root \in Ends
    BY EndsOK, TreeFields DEF Shape
  <2> QED BY <2>1 DEF FewRed
<1>5. ASSUME s # T.root
      PROVE  /\ x # U.root /\ U.parent[x] = T.parent[s] /\ T.parent[s] \in S2
             /\ SideOf(T, s) \in Sides /\ U.child[SideOf(T, s)][T.parent[s]] = x
  <2>1. /\ U.root = T.root /\ U.parent[x] = T.parent[s]
        /\ \A e \in Sides, z \in S : U.child[e][z] = IF T.child[e][z] = s THEN x ELSE T.child[e][z]
    BY <1>5 DEF Spliced
  <2>2. T.parent[s] \in S /\ SideOf(T, s) \in Sides /\ T.child[SideOf(T, s)][T.parent[s]] = s /\ T.parent[s] # s
    BY <1>1, <1>5, HasParent
  <2>3. x # T.root
    <3>1. CASE x = Sentinel
      <4>1. T.root \in S
        BY <1>1 DEF Shape
      <4> QED BY <3>1, <4>1, EndsOK DEF Shape
    <3>2. CASE x # Sentinel
      <4>1. Other(f) \in Sides /\ T.child[Other(f)][s] = x
        BY SidesOK DEF OneChild
      <4>2. T.child[Other(f)][s] # T.root
        BY <1>1, <3>2, <4>1, OneParent
      <4> QED BY <4>1, <4>2
    <3> QED BY <3>1, <3>2
  <2> QED BY <2>1, <2>2, <2>3
<1>6. \/ K = {}
      \/ /\ x # U.root /\ U.parent[x] \in S2
         /\ \E g \in Sides : U.child[g][U.parent[x]] = x /\ K = {<<U.parent[x], g>>}
  <2>1. CASE s = T.root \/ s \in T.red
    BY <2>1
  <2>2. CASE s # T.root /\ s \notin T.red
    <3>1. K = {<<U.parent[x], SideOf(T, s)>>}
      BY <1>5, <2>2
    <3> HIDE DEF K
    <3> QED BY <1>5, <2>2, <3>1
  <2> QED BY <2>1, <2>2
<1> HIDE DEF K, S2
<1>7. Lacking(U, S2, at, Without(S, D, s), bh, x, K)
  BY <1>1, <1>2, <1>3, <1>6 DEF Lacking
<1> QED BY <1>3, <1>4, <1>7 DEF K, S2

\* U is T as far as its nodes S, and x, are concerned.
Agree(T, U, S, x) ==
  /\ U \in Trees /\ U.root = T.root /\ U.red = T.red
  /\ \A e \in Sides, z \in S : U.child[e][z] = T.child[e][z]
  /\ \A z \in S \cup {x} : U.parent[z] = T.parent[z]

\* What has become of the other nodes does not matter.
LEMMA AgreeOK ==
  ASSUME NEW T, NEW S, NEW at, NEW D, NEW bh, NEW x, NEW K, Lacking(T, S, at, D, bh, x, K),
         NEW U, Agree(T, U, S, x)
  PROVE  Lacking(U, S, at, D, bh, x, K)
<1>1. /\ Shape(T, S, at, D) /\ NearRed(T, S, x) /\ Even(T, S, bh, K) /\ x \in Ends
      /\ \/ K = {}
         \/ /\ x # T.root /\ T.parent[x] \in S
            /\ \E f \in Sides : T.child[f][T.parent[x]] = x /\ K = {<<T.parent[x], f>>}
  BY DEF Lacking
<1>2. /\ U \in Trees /\ U.root = T.root /\ U.red = T.red
      /\ \A e \in Sides, z \in S : U.child[e][z] = T.child[e][z]
      /\ \A z \in S : U.parent[z] = T.parent[z]
      /\ U.parent[x] = T.parent[x]
  BY DEF Agree
<1>3. ASSUME NEW a \in S, NEW e \in Sides PROVE Under(U, S, at, D, a, e)
  BY <1>1, <1>2 DEF Shape, Under
<1>4. Shape(U, S, at, D)
  BY <1>1, <1>2, <1>3 DEF Shape
<1>5. NearRed(U, S, x)
  BY <1>1, <1>2 DEF NearRed
<1>6. Even(U, S, bh, K)
  BY <1>1, <1>2 DEF Even
<1>7. \/ K = {}
      \/ /\ x # U.root /\ U.parent[x] \in S
         /\ \E f \in Sides : U.child[f][U.parent[x]] = x /\ K = {<<U.parent[x], f>>}
  BY <1>1, <1>2
<1> QED BY <1>1, <1>4, <1>5, <1>6, <1>7 DEF Lacking

\* A is T, but that x has the parent that n has when s stands for n.
Held(T, A, n, s, x) ==
  /\ A \in Trees /\ A.root = T.root /\ A.child = T.child /\ A.red = T.red
  /\ \A z \in Ends : A.parent[z] = IF z = x THEN Ren(n, s, T.parent[x]) ELSE T.parent[z]
  /\ x # n /\ x # s

\* s is no longer in the tree, and n is.
Outside(S, n, s, x) == n \in S /\ s \in Nodes /\ s \notin S /\ x \in S \cup {Sentinel}

\* The place of n is taken by a node that is no longer in the tree.
LEMMA TakenOK ==
  ASSUME NEW T, NEW S, NEW at, NEW D, Shape(T, S, at, D), NEW n, NEW s, NEW x, Outside(S, n, s, x),
         NEW A, Held(T, A, n, s, x)
  PROVE  LET U == Forget(TakePlace(A, n, s), n)
         IN  /\ Renamed(T, U, S, n, s, x) /\ \A z \in S : z # n => U.key[z] = A.key[z]
             /\ U.key[s] = A.key[s]
<1> DEFINE U == Forget(TakePlace(A, n, s), n)
<1>0. n \in S /\ s \in Nodes /\ s \notin S /\ x \in S \cup {Sentinel}
  BY DEF Outside
<1> USE <1>0
<1>1. /\ A \in Trees /\ A.root = T.root /\ A.child = T.child /\ A.red = T.red
      /\ \A z \in Ends : A.parent[z] = IF z = x THEN Ren(n, s, T.parent[x]) ELSE T.parent[z]
      /\ x # n /\ x # s
  BY DEF Held
<1>2. n \in Nodes /\ S \subseteq Ends /\ Sentinel \notin S /\ s # n /\ T.parent[n] = A.parent[n]
      /\ s # Sentinel
  BY <1>1, EndsOK DEF Shape
<1>3. Hangs(T, S, n)
  BY HangsOK
<1>4. Hangs(A, S, n)
  BY <1>1, <1>2, <1>3 DEF Hangs, SideOf
<1>5. \A e \in Sides : A.child[e][n] # n /\ A.child[e][n] \in S \cup {Sentinel}
  BY <1>1, ChildOK
<1>6. MayTake(A, S, n, s)
  BY <1>4, <1>5 DEF MayTake
<1>7. Moved(A, U, S, n, s)
  BY <1>1, <1>6, TakePlaceOK
<1> HIDE DEF U
<1>8. /\ U \in Trees /\ U.root = IF n = A.root THEN s ELSE A.root
      /\ \A e \in Sides, z \in S : z # n => U.child[e][z] = IF A.child[e][z] = n THEN s ELSE A.child[e][z]
      /\ \A e \in Sides : U.child[e][s] = A.child[e][n]
      /\ \A z \in S : z # n => U.parent[z] = IF \E e \in Sides : A.child[e][n] = z THEN s ELSE A.parent[z]
      /\ U.parent[s] = A.parent[n] /\ U.parent[Sentinel] = A.parent[Sentinel]
      /\ \A z \in S : z # n => (z \in U.red <=> z \in A.red) /\ U.key[z] = A.key[z]
      /\ s \in U.red <=> n \in A.red
      /\ U.key[s] = A.key[s]
  BY <1>7 DEF Moved
<1>9. U.root = Ren(n, s, T.root)
  BY <1>1, <1>8 DEF Ren
<1>10. \A e \in Sides, z \in S : U.child[e][Ren(n, s, z)] = Ren(n, s, T.child[e][z])
  BY <1>1, <1>5, <1>8 DEF Ren
<1>11. ASSUME NEW e \in Sides, NEW z \in S, T.child[e][z] \in S
       PROVE  U.parent[Ren(n, s, T.child[e][z])] = Ren(n, s, z)
  <2> DEFINE c == T.child[e][z]
  <2>1. c \in S /\ T.parent[c] = z /\ c # z
    BY <1>2, <1>11, ChildOK
  <2>2. \A g \in Sides : T.child[g][n] = c => n = z
    BY <1>2, <1>11, OneParent
  <2>3. A.child[e][z] = c
    BY <1>1
  <2> HIDE DEF c
  <2>4. CASE c = n
    <3>1. U.parent[s] = z /\ z # n
      BY <1>2, <1>8, <2>1, <2>4
    <3> QED BY <2>4, <3>1 DEF c, Ren
  <2>5. CASE c # n /\ z = n
    <3>1. \E g \in Sides : A.child[g][n] = c
      BY <2>3, <2>5
    <3>2. U.parent[c] = s
      BY <1>8, <2>1, <2>5, <3>1
    <3> QED BY <2>5, <3>2 DEF c, Ren
  <2>6. CASE c # n /\ z # n
    <3>1. ~\E g \in Sides : A.child[g][n] = c
      BY <1>1, <2>2, <2>6
    <3>2. U.parent[c] = A.parent[c]
      BY <1>8, <2>1, <2>6, <3>1
    <3>3. A.parent[c] = Ren(n, s, z)
      BY <1>1, <1>2, <2>1, <2>6 DEF Ren
    <3> QED BY <2>6, <3>2, <3>3 DEF c, Ren
  <2> QED BY <2>4, <2>5, <2>6
<1>12. U.parent[x] = Ren(n, s, T.parent[x])
  <2>1. x \in Ends
    BY <1>2, EndsOK
  <2>2. A.parent[x] = Ren(n, s, T.parent[x])
    BY <1>1, <2>1
  <2>3. CASE x = Sentinel
    BY <1>8, <2>2, <2>3
  <2>4. CASE x \in S
    <3>1. ASSUME NEW e \in Sides, A.child[e][n] = x PROVE Ren(n, s, T.parent[x]) = s
      <4>1. T.child[e][n] = x /\ x # Sentinel
        BY <1>1, <1>2, <2>4, <3>1
      <4>2. T.parent[x] = n
        BY <4>1, ChildOK
      <4> QED BY <4>2 DEF Ren
    <3> QED BY <1>1, <1>8, <2>2, <2>4, <3>1
  <2> QED BY <2>3, <2>4
<1>13. \A z \in S : Ren(n, s, z) \in U.red <=> z \in T.red
  BY <1>1, <1>8 DEF Ren
<1>14. Renamed(T, U, S, n, s, x)
  BY <1>8, <1>9, <1>10, <1>11, <1>12, <1>13 DEF Renamed
<1> QED BY <1>8, <1>14 DEF U

\* What is left to do when n has been unlinked, by way of a red node or a black one.
Unlinked(V, T, S, at, n, x, red) ==
  /\ \E E, h, K : Lacking(V, S \ {n}, at, E, h, x, K) /\ (K = {} <=> red)
  /\ red => x \notin V.red
  /\ \A z \in S \ {n} : V.key[z] = T.key[z]

\* A node with one child is spliced out itself.
LEMMA UnlinkOne ==
  ASSUME NEW T, NEW S, NEW at, NEW D, Shape(T, S, at, D), NEW bh, Even(T, S, bh, {}), FewRed(T, S, Null),
         NEW n, NEW f, NEW x, OneChild(T, S, n, f, x), n # T.root
  PROVE  Unlinked(Unlink(T, n, n, x), T, S, at, n, x, n \in T.red)
<1> DEFINE A == Splice(T, n, x, T.parent[n])
           V == Forget(A, n)
           K == IF n = T.root \/ n \in T.red THEN {} ELSE {<<T.parent[n], SideOf(T, n)>>}
<1>1. x \in Ends /\ x # n /\ n \in S /\ n # Sentinel /\ (x # Sentinel => T.parent[x] = n)
  BY OneChildOK
<1>2. T \in Trees /\ S \subseteq Nodes /\ n \in Nodes /\ S \subseteq Ends
  BY <1>1, EndsOK DEF Shape
<1>3. T.parent[n] \in Ends \cup {Null}
  <2>1. n \in Ends
    BY <1>1, <1>2
  <2> QED BY <1>2, <2>1, TreeFields
<1>4. /\ A \in Trees /\ A.key = T.key /\ A.red = T.red /\ A.root = IF n = T.root THEN x ELSE T.root
      /\ \A e \in Sides, z \in S : A.child[e][z] = IF T.child[e][z] = n THEN x ELSE T.child[e][z]
      /\ \A z \in Ends : A.parent[z] = IF z = x THEN T.parent[n] ELSE T.parent[z]
  BY <1>1, <1>3, SpliceFields
<1>5. Unlink(T, n, n, x) = V
  BY DEF Unlink
<1> HIDE DEF A, K
<1>6. Spliced(T, A, S, n, x)
  BY <1>1, <1>4 DEF Spliced
<1>7. /\ Lacking(A, S \ {n}, at, Without(S, D, n), bh, x, K)
      /\ n \in T.red => x \notin A.red
  BY <1>4, <1>6, SpliceLacking DEF K
<1>8. /\ V \in Trees /\ V.root = A.root /\ V.red = A.red
      /\ \A e \in Sides, z \in Nodes : z # n => V.child[e][z] = A.child[e][z]
      /\ \A z \in Ends : z # n => V.parent[z] = A.parent[z]
      /\ \A z \in Nodes : z # n => V.key[z] = A.key[z]
  BY <1>2, <1>4, ForgetOK
<1> HIDE DEF V
<1>9. Agree(A, V, S \ {n}, x)
  BY <1>1, <1>2, <1>8 DEF Agree
<1>10. Lacking(V, S \ {n}, at, Without(S, D, n), bh, x, K)
  BY <1>7, <1>9, AgreeOK
<1>11. K = {} <=> n \in T.red
  BY DEF K
<1>12. \A z \in S \ {n} : V.key[z] = T.key[z]
  BY <1>2, <1>4, <1>8
<1>13. n \in T.red => x \notin V.red
  BY <1>7, <1>8
<1> QED BY <1>5, <1>10, <1>11, <1>12, <1>13 DEF Unlinked

\* For a node with two children the next one is taken out, and put in its place.
LEMMA UnlinkTwo ==
  ASSUME NEW T, NEW S, NEW at, NEW D, Shape(T, S, at, D), NEW bh, Even(T, S, bh, {}), FewRed(T, S, Null),
         NEW n \in S, T.child["left"][n] # Sentinel, T.child["right"][n] # Sentinel
  PROVE  LET s == RbtreeMin(T, T.child["right"][n])
             x == T.child["right"][s]
         IN  /\ T.child["left"][s] = Sentinel /\ s # n /\ s # T.root
             /\ Unlinked(Unlink(T, n, s, x), T, S, at, n, x, s \in T.red)
<1> DEFINE c == T.child["right"][n]
           s == RbtreeMin(T, c)
           x == T.child["right"][s]
           up == T.parent[s]
           v == Ren(n, s, up)
           R == Replace(T, s, x)
           T1 == Splice(T, s, x, up)
           A == Splice(T, s, x, v)
           U == Forget(TakePlace(A, n, s), n)
           K == IF s = T.root \/ s \in T.red THEN {} ELSE {<<T.parent[s], SideOf(T, s)>>}
           S1 == S \ {s}
<1>1. /\ "left" \in Sides /\ "right" \in Sides /\ Other("left") = "right"
      /\ S \subseteq Nodes /\ S \subseteq Ends /\ Ordered(S, at) /\ T \in Trees /\ Sentinel \notin S /\ n \in D[n]
      /\ \A z \in S : D[z] \subseteq S
  BY SidesOK, EndsOK DEF Shape, Sides, Other
<1>2. c \in S /\ n \notin D[c]
  BY <1>1, ChildOK
<1>3. Follows(S, at, n, s) /\ T.child["left"][s] = Sentinel
  BY MinFollows
<1>4. s \in D[c]
  BY <1>2, MinOK
<1> HIDE DEF c, s
<1>5. s \in S /\ D[s] \subseteq D[c] /\ n \notin D[s]
  <2>1. s \in S
    BY <1>1, <1>2, <1>4
  <2>2. D[s] \subseteq D[c]
    BY <1>2, <1>4, <2>1, Nested
  <2> QED BY <1>2, <2>1, <2>2
<1>6. s # T.root
  <2>1. s = T.root => D[s] = S
    BY <1>5 DEF Shape
  <2> QED BY <1>5, <2>1
<1>7. s # n /\ s \in Nodes
  BY <1>1, <1>5 DEF Shape
<1>8. OneChild(T, S, s, "left", x)
  BY <1>1, <1>3, <1>5 DEF OneChild
<1>9. x \in Ends /\ x # s /\ (x # Sentinel => x \in D[s] /\ x \in S)
  <2>1. s \in S /\ "right" \in Sides
    BY <1>1, <1>5
  <2> QED BY <2>1, ChildOK
<1> HIDE DEF x
<1>10. x # n
  BY <1>1, <1>5, <1>9
<1>11. up \in S
  BY <1>5, <1>6, HasParent
<1> HIDE DEF up
<1>12. v \in Ends
  BY <1>1, <1>5, <1>11 DEF Ren
<1> HIDE DEF v
<1>13. R \in Trees
  BY <1>5, <1>9, ReplaceOK
<1> HIDE DEF R
<1>14. T1 = SetParent(R, x, up) /\ A = SetParent(R, x, v)
  BY DEF Splice, R
<1>15. /\ T1 \in Trees /\ T1.key = T.key /\ T1.red = T.red /\ T1.root = IF s = T.root THEN x ELSE T.root
       /\ \A e \in Sides, z \in S : T1.child[e][z] = IF T.child[e][z] = s THEN x ELSE T.child[e][z]
       /\ \A z \in Ends : T1.parent[z] = IF z = x THEN up ELSE T.parent[z]
  <2>1. s \in S /\ x \in Ends /\ up \in Ends \cup {Null}
    BY <1>1, <1>5, <1>9, <1>11
  <2> QED BY <2>1, SpliceFields
<1>16. /\ A \in Trees /\ A.key = T.key /\ A.red = T.red /\ A.root = IF s = T.root THEN x ELSE T.root
       /\ \A z \in Ends : A.parent[z] = IF z = x THEN v ELSE T.parent[z]
  <2>1. s \in S /\ x \in Ends /\ v \in Ends \cup {Null}
    BY <1>5, <1>9, <1>12
  <2> QED BY <2>1, SpliceFields
<1>17. Unlink(T, n, s, x) = U
  <2>1. CASE up = n
    BY <1>7, <2>1 DEF Unlink, up, v, Ren
  <2>2. CASE up # n
    BY <1>7, <2>2 DEF Unlink, up, v, Ren
  <2> QED BY <2>1, <2>2
<1> HIDE DEF T1, A
<1>18. A.child = T1.child
  <2>1. x \in Ends /\ up \in Ends \cup {Null} /\ v \in Ends \cup {Null}
    BY <1>1, <1>9, <1>11, <1>12
  <2>2. T1.child = R.child
    BY <1>13, <1>14, <2>1, SetParentOK
  <2>3. A.child = R.child
    BY <1>13, <1>14, <2>1, SetParentOK
  <2> QED BY <2>2, <2>3
<1>19. Spliced(T, T1, S, s, x)
  BY <1>6, <1>9, <1>15 DEF Spliced, up
<1> HIDE DEF K
<1>20. Lacking(T1, S1, at, Without(S, D, s), bh, x, K) /\ (s \in T.red => x \notin T1.red)
  BY <1>8, <1>15, <1>19, SpliceLacking DEF K
<1>21. Held(T1, A, n, s, x)
  BY <1>9, <1>10, <1>15, <1>16, <1>18 DEF Held, v
<1>22. /\ Shape(T1, S1, at, Without(S, D, s)) /\ n \in S1 /\ s \in Nodes /\ s \notin S1
       /\ x \in S1 \cup {Sentinel}
  <2>1. Shape(T1, S1, at, Without(S, D, s))
    BY <1>20 DEF Lacking
  <2> QED BY <1>7, <1>9, <2>1
<1> HIDE DEF S1
<1>23. /\ Renamed(T1, U, S1, n, s, x) /\ \A z \in S1 : z # n => U.key[z] = A.key[z]
       /\ U.key[s] = A.key[s]
  <2> DEFINE W == Without(S, D, s)
  <2>1. Shape(T1, S1, at, W) /\ Outside(S1, n, s, x)
    BY <1>22 DEF Outside
  <2> HIDE DEF W
  <2> QED BY <1>21, <2>1, TakenOK
<1> HIDE DEF U
<1>24. Alike(S1, at, n, s)
  <2>1. /\ at[n] < at[s] /\ \A z \in S : at[n] < at[z] => ~(at[z] < at[s])
        /\ \A z \in S : at[z] \in Int /\ (at[z] = at[n] => z = n) /\ (at[z] = at[s] => z = s)
    BY <1>1, <1>3, <1>5 DEF Follows, Toward, Ordered
  <2>2. /\ \A z \in S1 : z \in S /\ z # s
        /\ n \in S
    BY DEF S1
  <2>3. \A z \in S1 : z # n => /\ at[z] # at[s]
                               /\ at[z] < at[s] <=> at[z] < at[n]
                               /\ at[s] < at[z] <=> at[n] < at[z]
    BY <1>5, <2>1, <2>2
  <2>4. \A z \in S1, d \in Sides :
          z # n => (Toward(at, d, z, s) <=> Toward(at, d, z, n)) /\ (Toward(at, d, s, z) <=> Toward(at, d, n, z))
    BY <2>3 DEF Toward
  <2> QED BY <1>5, <1>22, <2>1, <2>3, <2>4 DEF Alike
<1> DEFINE E == Moves(S1, Without(S, D, s), n, s)
           h == RenamedHeights(S1, bh, n, s)
           K2 == RenamedEdges(K, n, s)
<1>25. Lacking(U, Instead(S1, n, s), at, E, h, x, K2)
  <2>1. x # n /\ x # s
    BY <1>9, <1>10
  <2> QED BY <1>20, <1>23, <1>24, <2>1, RenamedLacking
<1>26. K2 = {} <=> s \in T.red
  BY <1>6 DEF K, RenamedEdges
<1> HIDE DEF E, h, K2
<1>27. Instead(S1, n, s) = S \ {n}
  BY <1>5, <1>7 DEF Instead, S1
<1>28. s \in T.red => x \notin U.red
  <2>1. CASE x = Sentinel
    <3>1. U \in Trees
      BY <1>23 DEF Renamed
    <3> QED BY <2>1, <3>1, TreeFields
  <2>2. CASE x \in S1
    <3>1. Ren(n, s, x) \in U.red <=> x \in T1.red
      BY <1>23, <2>2 DEF Renamed
    <3> QED BY <1>10, <1>20, <3>1 DEF Ren
  <2> QED BY <1>22, <2>1, <2>2
<1>29. \A z \in S \ {n} : U.key[z] = T.key[z]
  BY <1>16, <1>23 DEF S1
<1>30. Unlinked(U, T, S, at, n, x, s \in T.red)
  BY <1>25, <1>26, <1>27, <1>28, <1>29 DEF Unlinked
<1> QED BY <1>3, <1>6, <1>7, <1>17, <1>30 DEF c, s, x

-----------------------------------------------------------------------------
(* The loop of rbtree_delete(). *)

\* In the loop of rbtree_delete() the ways through x have one black node too few,
\* if it is not the root, and nothing else is wrong.
DeleteGood(T, S, at, D, bh, x, K) == Lacking(T, S, at, D, bh, x, K) /\ (K = {} => x = T.root)

\* When the loop of rbtree_delete() stops.
DeleteStops(T, x) == x = T.root \/ x \in T.red

\* The ways that leave up on the side d, to a black node, have one too few.
Short(T, S, at, D, bh, up, d) ==
  /\ Shape(T, S, at, D) /\ Even(T, S, bh, {<<up, d>>}) /\ FewRed(T, S, Null)
  /\ up \in S /\ d \in Sides /\ T.child[d][up] \notin T.red

\* The sibling w of the child x of up.
Beside(T, S, bh, up, d, x, w) ==
  /\ up \in S /\ d \in Sides /\ x = T.child[d][up] /\ w = T.child[Other(d)][up] /\ x \notin T.red
  /\ w \in S /\ w # up /\ w # x /\ x # up /\ w # T.root /\ (x = Sentinel \/ x \in S)
  /\ bh[x] \in Nat /\ bh[w] = bh[x] + 1 /\ bh[up] = bh[w] + (IF up \in T.red THEN 0 ELSE 1)
  /\ \A e \in Sides : bh[w] = bh[T.child[e][w]] + (IF w \in T.red THEN 0 ELSE 1)
  /\ \A e \in Sides : T.child[e][w] # w /\ T.child[e][w] # up /\ (T.child[e][w] # x \/ T.child[e][w] = Sentinel)
  /\ \A z \in S, e \in Sides : T.child[e][z] = w => z = up /\ e = Other(d)
  /\ \A z \in S, e \in Sides : T.child[e][z] = up => z # up /\ z # w

\* It is a node, as the ways through it have more black ones.
LEMMA BesideOK ==
  ASSUME NEW T, NEW S, NEW at, NEW D, NEW bh, NEW up, NEW d, Short(T, S, at, D, bh, up, d)
  PROVE  Beside(T, S, bh, up, d, T.child[d][up], T.child[Other(d)][up])
<1> DEFINE o == Other(d)
           x == T.child[d][up]
           w == T.child[o][up]
<1>1. /\ Shape(T, S, at, D) /\ Even(T, S, bh, {<<up, d>>}) /\ up \in S /\ d \in Sides /\ x \notin T.red
      /\ o \in Sides /\ o # d /\ Sentinel \notin S
  BY SidesOK, EndsOK DEF Short, Shape
<1>2. \A z \in S, e \in Sides : T.child[e][z] = Sentinel \/ T.child[e][z] \in S
  BY <1>1, ChildOK
<1>3. /\ bh[Sentinel] = 0 /\ \A z \in S : bh[z] \in Nat
      /\ \A z \in S, e \in Sides :
           bh[z] = bh[T.child[e][z]] + (IF z \in T.red THEN 0 ELSE 1) + (IF <<z, e>> \in {<<up, d>>} THEN 1 ELSE 0)
  BY <1>1 DEF Even
<1>4. \A z \in S, e \in Sides : bh[T.child[e][z]] \in Nat
  BY <1>2, <1>3
<1>5. bh[up] = bh[x] + (IF up \in T.red THEN 0 ELSE 1) + 1
  <2>1. <<up, d>> \in {<<up, d>>}
    OBVIOUS
  <2> HIDE DEF x
  <2> QED BY <1>1, <1>3, <2>1 DEF x
<1>6. bh[up] = bh[w] + (IF up \in T.red THEN 0 ELSE 1)
  <2>1. <<up, o>> \notin {<<up, d>>}
    BY <1>1
  <2>2. bh[up] = bh[w] + (IF up \in T.red THEN 0 ELSE 1) + 0
    BY <1>1, <1>3, <2>1
  <2>3. bh[w] \in Nat
    BY <1>1, <1>4
  <2> HIDE DEF w
  <2> QED BY <2>2, <2>3
<1>7. bh[x] \in Nat /\ bh[w] \in Nat
  BY <1>1, <1>4
<1>8. /\ x # up /\ w # up
      /\ w # Sentinel => w \in S /\ up \notin D[w] /\ w # T.root /\ \A z \in S, e \in Sides : T.child[e][z] = w => z = up /\ e = o
      /\ x # Sentinel => \A z \in S, e \in Sides : T.child[e][z] = x => z = up /\ e = d
  <2>1. x # up /\ w # up /\ (w # Sentinel => w \in S /\ up \notin D[w])
    BY <1>1, ChildOK
  <2>2. w # Sentinel => w # T.root /\ \A z \in S, e \in Sides : T.child[e][z] = w => z = up /\ e = o
    BY <1>1, OneParent
  <2>3. x # Sentinel => \A z \in S, e \in Sides : T.child[e][z] = x => z = up /\ e = d
    BY <1>1, OneParent
  <2> QED BY <2>1, <2>2, <2>3
<1>9. x = Sentinel \/ x \in S
  BY <1>1, <1>2
<1>10. T.child[d][up] = x /\ T.child[o][up] = w
  OBVIOUS
<1> HIDE DEF x, w
<1>11. bh[w] = bh[x] + 1
  BY <1>5, <1>6, <1>7
<1>12. w # Sentinel /\ w \in S
  BY <1>3, <1>7, <1>8, <1>11
<1>13. w # x
  BY <1>7, <1>11
<1>14. ASSUME NEW e \in Sides
       PROVE  /\ bh[w] = bh[T.child[e][w]] + (IF w \in T.red THEN 0 ELSE 1)
              /\ T.child[e][w] # w /\ T.child[e][w] # up /\ (T.child[e][w] # x \/ T.child[e][w] = Sentinel)
  <2>1. <<w, e>> \notin {<<up, d>>}
    BY <1>8
  <2>2. bh[w] = bh[T.child[e][w]] + (IF w \in T.red THEN 0 ELSE 1) + 0 /\ bh[T.child[e][w]] \in Nat
    BY <1>3, <1>4, <1>12, <2>1
  <2>3. T.child[e][w] # w /\ (T.child[e][w] # Sentinel => T.child[e][w] \in D[w])
    BY <1>1, <1>12, ChildOK
  <2>4. T.child[e][w] # up
    <3>1. T.child[e][w] # Sentinel => T.child[e][w] # up
      BY <1>8, <1>12, <2>3
    <3>2. up # Sentinel
      BY <1>1
    <3> QED BY <3>1, <3>2
  <2>5. T.child[e][w] # Sentinel => T.child[e][w] # x
    BY <1>8, <1>12
  <2> QED BY <2>2, <2>3, <2>4, <2>5
<1>15. \A z \in S, e \in Sides : T.child[e][z] = up => z # up /\ z # w
  <2> TAKE z \in S, e \in Sides
  <2>1. T.child[e][z] # z
    BY <1>1, ChildOK
  <2>2. up # Sentinel
    BY <1>1
  <2> QED BY <1>14, <2>1, <2>2
<1>16. \A z \in S, e \in Sides : T.child[e][z] = w => z = up /\ e = o
  BY <1>8, <1>12, SMTT(30)
<1>17. Beside(T, S, bh, up, d, x, w)
  <2>1. w # T.root
    BY <1>8, <1>12
  <2>2. /\ up \in S /\ d \in Sides /\ x = T.child[d][up] /\ w = T.child[Other(d)][up] /\ x \notin T.red
    BY <1>1, <1>10
  <2>3. \A e \in Sides : bh[w] = bh[T.child[e][w]] + (IF w \in T.red THEN 0 ELSE 1)
    BY <1>14
  <2>4. \A e \in Sides : T.child[e][w] # w /\ T.child[e][w] # up /\ (T.child[e][w] # x \/ T.child[e][w] = Sentinel)
    BY <1>14
  <2> QED BY <1>6, <1>7, <1>8, <1>9, <1>11, <1>12, <1>13, <1>15, <1>16, <2>1, <2>2, <2>3, <2>4 DEF Beside
<1> QED BY <1>17 DEF x, w, o

\* The edge from the parent of x to x.
Edge(T, x) == IF x = T.root THEN {} ELSE {<<T.parent[x], SideOf(T, x)>>}

\* Both children of a sibling are black: with the sibling red, the ways through
\* up have one black node too few.
LEMMA RedSibling ==
  ASSUME NEW T, NEW S, NEW at, NEW D, NEW bh, NEW up, NEW d, Short(T, S, at, D, bh, up, d),
         NEW w, w = T.child[Other(d)][up], w \notin T.red, \A e \in Sides : T.child[e][w] \notin T.red
  PROVE  LET U == Red(T, w)
         IN  /\ \E h : DeleteGood(U, S, at, D, h, up, Edge(U, up))
             /\ U.key = T.key /\ U.parent = T.parent /\ U.root = T.root /\ (up \in T.red => up \in U.red)
<1> DEFINE U == Red(T, w)
           o == Other(d)
           x == T.child[d][up]
           h == [z \in S \cup {Sentinel} |-> IF z = w \/ z = up THEN bh[z] - 1 ELSE bh[z]]
           K == Edge(U, up)
<1>1. /\ Shape(T, S, at, D) /\ Even(T, S, bh, {<<up, d>>}) /\ FewRed(T, S, Null) /\ T \in Trees
      /\ S \subseteq Nodes /\ Sentinel \notin S /\ S \subseteq Ends
  BY EndsOK DEF Short, Shape
<1>2. Beside(T, S, bh, up, d, x, w)
  BY BesideOK, SMTT(30)
<1> HIDE DEF x
<1>3. /\ up \in S /\ d \in Sides /\ x = T.child[d][up] /\ w = T.child[o][up] /\ x \notin T.red
      /\ w \in S /\ w # up /\ w # x /\ x # up /\ w # T.root /\ (x = Sentinel \/ x \in S)
      /\ bh[x] \in Nat /\ bh[w] = bh[x] + 1 /\ bh[up] = bh[w] + (IF up \in T.red THEN 0 ELSE 1)
      /\ \A e \in Sides : bh[w] = bh[T.child[e][w]] + 1
      /\ \A e \in Sides : T.child[e][w] # w /\ T.child[e][w] # up /\ (T.child[e][w] # x \/ T.child[e][w] = Sentinel)
      /\ \A z \in S, e \in Sides : T.child[e][z] = w => z = up /\ e = o
      /\ \A z \in S, e \in Sides : T.child[e][z] = up => z # up /\ z # w
  BY <1>2 DEF Beside
<1>4. /\ U \in Trees /\ U.root = T.root /\ U.child = T.child /\ U.parent = T.parent /\ U.key = T.key
      /\ U.red = T.red \cup {w}
  <2>1. w \in Nodes
    BY <1>1, <1>3
  <2> QED BY <1>1, <2>1, RedOK
<1> HIDE DEF U
<1>5. Shape(U, S, at, D)
  BY <1>1, <1>4, SameShape
<1>6. Null \notin T.red /\ Null \notin Ends
  BY <1>1, TreeFields, EndsOK
<1>7. NearRed(U, S, up)
  <2>1. \A z \in S, e \in Sides : ~(z \in T.red /\ T.child[e][z] \in T.red)
    BY <1>1, <1>6 DEF FewRed
  <2>2. T.root \notin T.red
    BY <1>1, <1>6 DEF FewRed
  <2>3. U.root \notin U.red
    BY <1>3, <1>4, <2>2
  <2>4. ASSUME NEW z \in S, NEW e \in Sides, z \in U.red, U.child[e][z] \in U.red PROVE z = up
    <3>1. CASE z = w
      <4>1. T.child[e][w] # w
        BY <1>1, <1>3
      <4> QED BY <1>4, <2>4, <3>1, <4>1, SMTT(30)
    <3>2. CASE z # w
      <4>1. z \in T.red
        BY <1>4, <2>4, <3>2
      <4> QED BY <1>3, <1>4, <2>1, <2>4, <4>1
    <3> QED BY <3>1, <3>2
  <2> QED BY <2>3, <2>4 DEF NearRed
<1>8. /\ bh[Sentinel] = 0 /\ \A z \in S : bh[z] \in Nat
      /\ \A z \in S, e \in Sides :
           bh[z] = bh[T.child[e][z]] + (IF z \in T.red THEN 0 ELSE 1) + (IF <<z, e>> \in {<<up, d>>} THEN 1 ELSE 0)
  BY <1>1 DEF Even
<1>9. \A z \in S, e \in Sides : T.child[e][z] = Sentinel \/ T.child[e][z] \in S
  BY <1>1, ChildOK, SMTT(30)
<1>10. /\ h[w] = bh[w] - 1 /\ h[up] = bh[up] - 1 /\ h[Sentinel] = 0
       /\ \A z \in S \cup {Sentinel} : z # w /\ z # up => h[z] = bh[z]
  BY <1>1, <1>3, <1>8, SMTT(30)
<1> HIDE DEF h
<1>11. h[w] \in Nat /\ h[up] \in Nat
  BY <1>3, <1>10
<1>12. \A z \in S : h[z] \in Nat
  BY <1>8, <1>10, <1>11, SMTT(30)
<1>13. up # T.root => T.parent[up] \in S /\ SideOf(T, up) \in Sides /\ T.child[SideOf(T, up)][T.parent[up]] = up
                      /\ \A z \in S, e \in Sides : T.child[e][z] = up => z = T.parent[up] /\ e = SideOf(T, up)
  BY <1>1, <1>3, HasParent, SMTT(30)
<1>14. \A z \in S, e \in Sides : T.child[e][z] = up => up # T.root
  BY <1>1, <1>3, OneParent
<1>15. SideOf(U, up) = SideOf(T, up)
  BY <1>4 DEF SideOf
<1>16. \A z \in S, e \in Sides : <<z, e>> \in K <=> T.child[e][z] = up
  <2>1. CASE up = T.root
    BY <1>4, <1>14, <2>1 DEF Edge
  <2>2. CASE up # T.root
    <3>1. K = {<<T.parent[up], SideOf(T, up)>>}
      BY <1>4, <1>15, <2>2 DEF Edge
    <3> QED BY <1>13, <2>2, <3>1
  <2> QED BY <2>1, <2>2, Zenon
<1>17. \/ K = {}
       \/ /\ up # U.root /\ U.parent[up] \in S
          /\ \E f \in Sides : U.child[f][U.parent[up]] = up /\ K = {<<U.parent[up], f>>}
  BY <1>4, <1>13, <1>15 DEF Edge
<1>18. K = {} => up = U.root
  BY DEF Edge
<1> HIDE DEF K
<1>19. ASSUME NEW z \in S, NEW e \in Sides
       PROVE  h[z] = h[U.child[e][z]] + (IF z \in U.red THEN 0 ELSE 1) + (IF <<z, e>> \in K THEN 1 ELSE 0)
  <2> DEFINE c == T.child[e][z]
  <2>1. bh[z] = bh[c] + (IF z \in T.red THEN 0 ELSE 1) + (IF <<z, e>> \in {<<up, d>>} THEN 1 ELSE 0)
    BY <1>8
  <2>2. (c = Sentinel \/ c \in S) /\ U.child[e][z] = c /\ (<<z, e>> \in K <=> c = up)
    BY <1>4, <1>9, <1>16
  <2>3. c = w => z = up /\ e = o
    BY <1>3
  <2>4. c = up => z # up /\ z # w
    BY <1>3
  <2>5. bh[c] \in Nat /\ bh[z] \in Nat
    BY <1>8, <2>2
  <2>6. CASE z = w
    <3>1. c # up /\ c # w /\ bh[w] = bh[c] + 1
      BY <1>1, <1>3, <2>6
    <3>2. h[c] = bh[c] /\ w \in U.red
      BY <1>4, <1>10, <2>2, <3>1, SMTT(30)
    <3> HIDE DEF c
    <3> QED BY <1>10, <2>2, <2>5, <2>6, <3>1, <3>2, SMTT(30)
  <2>7. CASE z = up /\ e = d
    <3>1. c = x
      BY <1>3, <2>7
    <3>2. h[c] = bh[x] /\ c # up
      BY <1>3, <1>10, <3>1
    <3>3. up \in U.red <=> up \in T.red
      BY <1>3, <1>4, SMTT(30)
    <3> HIDE DEF c
    <3> QED BY <1>3, <1>10, <2>2, <2>7, <3>2, <3>3
  <2>8. CASE z = up /\ e = o
    <3>1. c = w
      BY <1>3, <2>8
    <3>2. h[c] = bh[w] - 1 /\ c # up
      BY <1>3, <1>10, <3>1
    <3>3. up \in U.red <=> up \in T.red
      BY <1>3, <1>4
    <3> HIDE DEF c
    <3> QED BY <1>3, <1>10, <2>2, <2>8, <3>2, <3>3
  <2>9. CASE z # up /\ z # w
    <3>1. <<z, e>> \notin {<<up, d>>} /\ (z \in U.red <=> z \in T.red) /\ h[z] = bh[z] /\ c # w
      BY <1>4, <1>10, <2>3, <2>9
    <3>2. h[c] = IF c = up THEN bh[c] - 1 ELSE bh[c]
      BY <1>10, <2>2, <3>1
    <3> HIDE DEF c
    <3> QED BY <2>1, <2>2, <2>5, <3>1, <3>2
  <2> QED BY <1>3, <2>6, <2>7, <2>8, <2>9, SidesOK
<1>20. Even(U, S, h, K)
  BY <1>10, <1>12, <1>19 DEF Even
<1>21. up \in Ends
  BY <1>1, <1>3
<1>22. DeleteGood(U, S, at, D, h, up, K)
  BY <1>5, <1>7, <1>17, <1>18, <1>20, <1>21 DEF DeleteGood, Lacking
<1> QED BY <1>4, <1>22 DEF U, K

\* The colours of V are those of T, but that w has that of up, and up and y are black.
Handed(T, V, S, up, w, y) ==
  /\ V \in Trees /\ V.root = T.root /\ V.child = T.child /\ V.parent = T.parent /\ V.key = T.key
  /\ \A z : z \in V.red <=> z # up /\ z # y /\ (IF z = w THEN up \in T.red ELSE z \in T.red)

\* The colours before the rotation.
LEMMA HandOver ==
  ASSUME NEW T \in Trees, NEW S, NEW up, NEW w \in Nodes, NEW y
  PROVE  Handed(T, Black(Black(CopyColor(T, w, up), up), y), S, up, w, y)
<1> DEFINE A == CopyColor(T, w, up)
           B == Black(A, up)
           V == Black(B, y)
<1>1. /\ A \in Trees /\ A.root = T.root /\ A.child = T.child /\ A.parent = T.parent /\ A.key = T.key
      /\ \A z : z \in A.red <=> IF z = w THEN up \in T.red ELSE z \in T.red
  BY CopyColorOK
<1> HIDE DEF A
<1>2. /\ B \in Trees /\ B.root = A.root /\ B.child = A.child /\ B.parent = A.parent /\ B.key = A.key
      /\ B.red = A.red \ {up}
  BY <1>1, BlackOK
<1> HIDE DEF B
<1>3. /\ V \in Trees /\ V.root = B.root /\ V.child = B.child /\ V.parent = B.parent /\ V.key = B.key
      /\ V.red = B.red \ {y}
  BY <1>2, BlackOK
<1> HIDE DEF V
<1>4. Handed(T, V, S, up, w, y)
  BY <1>1, <1>2, <1>3 DEF Handed
<1> QED BY <1>4 DEF V, B, A

\* The sibling has a red child on the outside: with the rotation the ways are even.
LEMMA TurnSiblingOK ==
  ASSUME NEW T, NEW S, NEW at, NEW D, NEW bh, NEW up, NEW d, Short(T, S, at, D, bh, up, d),
         NEW w, w = T.child[Other(d)][up], w \notin T.red,
         NEW y, y = T.child[Other(d)][w], y \in T.red
  PROVE  LET s == TurnSibling(T, up, d)
         IN  /\ \E E, h : DeleteGood(s.t, S, at, E, h, s.n, {})
             /\ s.t.key = T.key /\ s.n = s.t.root /\ s = [t |-> s.t, n |-> s.n]
<1> DEFINE V == Black(Black(CopyColor(T, w, up), up), y)
           U == Rotate(V, up, d)
           o == Other(d)
           x == T.child[d][up]
           inner == T.child[d][w]
           h == [z \in S \cup {Sentinel} |-> IF z = w THEN bh[up] ELSE IF z = up \/ z = y THEN bh[w] ELSE bh[z]]
           E == Turned(S, at, D, up, d, w)
<1>1. /\ Shape(T, S, at, D) /\ Even(T, S, bh, {<<up, d>>}) /\ FewRed(T, S, Null) /\ T \in Trees
      /\ S \subseteq Nodes /\ Sentinel \notin S /\ S \subseteq Ends
  BY EndsOK DEF Short, Shape
<1>2. Beside(T, S, bh, up, d, x, w)
  BY BesideOK
<1>3. TurnSibling(T, up, d) = [t |-> U, n |-> U.root]
  BY SMTT(30) DEF TurnSibling
<1> HIDE DEF x, inner
<1>4. /\ up \in S /\ d \in Sides /\ x = T.child[d][up] /\ w = T.child[o][up] /\ x \notin T.red
      /\ w \in S /\ w # up /\ w # x /\ x # up /\ w # T.root /\ (x = Sentinel \/ x \in S)
      /\ bh[x] \in Nat /\ bh[w] = bh[x] + 1 /\ bh[up] = bh[w] + (IF up \in T.red THEN 0 ELSE 1)
      /\ \A e \in Sides : bh[w] = bh[T.child[e][w]] + 1
      /\ \A e \in Sides : T.child[e][w] # w /\ T.child[e][w] # up /\ (T.child[e][w] # x \/ T.child[e][w] = Sentinel)
      /\ \A z \in S, e \in Sides : T.child[e][z] = w => z = up /\ e = o
      /\ \A z \in S, e \in Sides : T.child[e][z] = up => z # up /\ z # w
  BY <1>2 DEF Beside
<1>5. /\ o \in Sides /\ o # d /\ \A e \in Sides : e = d \/ e = o
  BY <1>4, SidesOK
<1>6. y # Sentinel /\ Null \notin T.red
  BY <1>1, TreeFields
<1>7. /\ \A z \in S, e \in Sides : T.child[e][z] = Sentinel \/ T.child[e][z] \in S
  BY <1>1, ChildOK, SMTT(30)
<1>8. /\ y \in S /\ y # w /\ y # up /\ y # x
      /\ \A z \in S, e \in Sides : T.child[e][z] = y => z = w /\ e = o
  <2>1. y \in S
    BY <1>4, <1>5, <1>6, <1>7, SMTT(30)
  <2>2. \A z \in S, e \in Sides : T.child[e][z] = y => z = w /\ e = o
    BY <1>1, <1>4, <1>5, <1>6, OneParent, SMTT(30)
  <2> QED BY <1>4, <1>5, <1>6, <2>1, <2>2
<1>9. /\ inner \in S \cup {Sentinel} /\ inner # w /\ inner # up /\ inner # y /\ inner = T.child[d][w]
  <2>1. inner = T.child[d][w]
    BY DEF inner
  <2> QED BY <1>1, <1>4, <1>5, <1>7, <1>8, <2>1
<1>10. Handed(T, V, S, up, w, y)
  <2>1. w \in Nodes
    BY <1>1, <1>4
  <2> QED BY <1>1, <2>1, HandOver, SMTT(30)
<1> HIDE DEF V
<1>11. /\ V \in Trees /\ V.root = T.root /\ V.child = T.child /\ V.parent = T.parent /\ V.key = T.key
       /\ \A z : z \in V.red <=> z # up /\ z # y /\ (IF z = w THEN up \in T.red ELSE z \in T.red)
  BY <1>10 DEF Handed
<1>12. Shape(V, S, at, D)
  BY <1>1, <1>11, SameShape, SMTT(30)
<1>13. w # Sentinel /\ V.child[Other(d)][up] = w /\ V.child[d][w] = inner
  BY <1>1, <1>4, <1>9, <1>11
<1>14. Shape(U, S, at, E)
  BY <1>4, <1>12, <1>13, RotateShape
<1>15. /\ U \in Trees /\ U.key = T.key /\ U.red = V.red
       /\ U.root = IF up = T.root THEN w ELSE T.root
       /\ \A e \in Sides, z \in S :
            U.child[e][z] = IF z = up /\ e = o THEN inner
                            ELSE IF z = w /\ e = d THEN up
                            ELSE IF T.child[e][z] = up THEN w ELSE T.child[e][z]
  <2>1. /\ U \in Trees /\ U.key = V.key /\ U.red = V.red
        /\ U.root = IF up = V.root THEN w ELSE V.root
        /\ \A e \in Sides, z \in S :
             U.child[e][z] = IF z = up /\ e = Other(d) THEN inner
                             ELSE IF z = w /\ e = d THEN up
                             ELSE IF V.child[e][z] = up THEN w ELSE V.child[e][z]
    BY <1>4, <1>12, <1>13, RotateFields
  <2> QED BY <1>11, <2>1, SMTT(30)
<1> HIDE DEF U, E, o
<1>16. /\ U.child[d][up] = x /\ U.child[o][up] = inner /\ U.child[d][w] = up /\ U.child[o][w] = y
       /\ \A z \in S, e \in Sides : z # up /\ z # w =>
            U.child[e][z] = (IF T.child[e][z] = up THEN w ELSE T.child[e][z]) /\ T.child[e][z] # w /\ T.child[e][z] # y
  <2>1. y = T.child[o][w]
    BY DEF o
  <2> QED BY <1>4, <1>5, <1>8, <1>9, <1>15, <2>1, Zenon
<1>17. \A z \in S, e \in Sides : ~(z \in T.red /\ T.child[e][z] \in T.red)
  BY <1>1, <1>6 DEF FewRed
<1>18. T.root \notin T.red
  BY <1>1, <1>6 DEF FewRed
<1>19. U.root \notin U.red
  BY <1>4, <1>11, <1>15, <1>18
<1>20. NearRed(U, S, U.root)
  <2>1. ASSUME NEW z \in S, NEW e \in Sides, z \in U.red, U.child[e][z] \in U.red PROVE FALSE
    <3>1. z # up /\ z # y /\ U.child[e][z] # up /\ U.child[e][z] # y
      BY <1>11, <1>15, <2>1
    <3>2. z # w
      BY <1>5, <1>16, <3>1
    <3>3. z \in T.red
      BY <1>11, <1>15, <2>1, <3>1, <3>2
    <3>4. CASE T.child[e][z] = up
      <4>1. w \in U.red
        BY <1>16, <2>1, <3>1, <3>2, <3>4
      <4>2. up \in T.red
        BY <1>11, <1>15, <4>1
      <4> QED BY <1>17, <3>3, <3>4, <4>2
    <3>5. CASE T.child[e][z] # up
      <4>1. T.child[e][z] \in U.red /\ T.child[e][z] # w
        BY <1>16, <2>1, <3>1, <3>2, <3>5
      <4>2. T.child[e][z] \in T.red
        BY <1>11, <1>15, <4>1
      <4> QED BY <1>17, <3>3, <4>2
    <3> QED BY <3>4, <3>5
  <2> QED BY <1>19, <2>1 DEF NearRed
<1>21. /\ bh[Sentinel] = 0 /\ \A z \in S : bh[z] \in Nat
       /\ \A z \in S, e \in Sides :
            bh[z] = bh[T.child[e][z]] + (IF z \in T.red THEN 0 ELSE 1) + (IF <<z, e>> \in {<<up, d>>} THEN 1 ELSE 0)
  BY <1>1 DEF Even
<1>22. /\ h[w] = bh[up] /\ h[up] = bh[w] /\ h[y] = bh[w] /\ h[Sentinel] = 0
       /\ \A z \in S \cup {Sentinel} : z # w /\ z # up /\ z # y => h[z] = bh[z]
  BY <1>1, <1>4, <1>8, <1>21, Zenon
<1> HIDE DEF h
<1>23. \A z \in S : h[z] \in Nat
  BY <1>4, <1>8, <1>21, <1>22, ZenonT(30)
<1>24. bh[inner] = bh[x] /\ bh[y] = bh[x]
  <2>1. bh[w] = bh[inner] + 1
    BY <1>4, <1>9
  <2>2. bh[w] = bh[y] + 1
    BY <1>4, <1>5 DEF o
  <2>3. bh[inner] \in Nat /\ bh[y] \in Nat
    BY <1>8, <1>9, <1>21
  <2>4. bh[x] \in Nat /\ bh[w] = bh[x] + 1
    BY <1>4
  <2> QED BY <2>1, <2>2, <2>3, <2>4
<1>25. ASSUME NEW z \in S, NEW e \in Sides
       PROVE  h[z] = h[U.child[e][z]] + (IF z \in U.red THEN 0 ELSE 1) + (IF <<z, e>> \in {} THEN 1 ELSE 0)
  <2>0. /\ bh[up] \in Nat /\ bh[w] \in Nat /\ bh[x] \in Nat /\ bh[w] = bh[x] + 1
        /\ bh[up] = bh[w] + (IF up \in T.red THEN 0 ELSE 1)
        /\ h[w] = bh[up] /\ h[up] = bh[w] /\ h[y] = bh[w]
    BY <1>4, <1>21, <1>22, Zenon
  <2>1. CASE z = up
    <3>1. U.child[e][z] = x \/ U.child[e][z] = inner
      BY <1>5, <1>16, <2>1
    <3>2. h[x] = bh[x] /\ h[inner] = bh[x]
      BY <1>4, <1>8, <1>9, <1>22, <1>24, Zenon
    <3>3. z \notin U.red
      BY <1>11, <1>15, <2>1
    <3> QED BY <2>0, <2>1, <3>1, <3>2, <3>3
  <2>2. CASE z = w
    <3>1. U.child[e][z] = up \/ U.child[e][z] = y
      BY <1>5, <1>16, <2>2
    <3>2. z \in U.red <=> up \in T.red
      BY <1>4, <1>8, <1>11, <1>15, <2>2, Zenon
    <3> QED BY <2>0, <2>2, <3>1, <3>2
  <2>3. CASE z = y
    <3> DEFINE c == T.child[e][y]
    <3>1. c # w /\ c # y /\ U.child[e][z] = IF c = up THEN w ELSE c
      BY <1>8, <1>16, <2>3
    <3>2. bh[y] = bh[c] + (IF y \in T.red THEN 0 ELSE 1) + (IF <<y, e>> \in {<<up, d>>} THEN 1 ELSE 0)
      BY <1>8, <1>21
    <3>3. c = Sentinel \/ c \in S
      BY <1>7, <1>8
    <3>4. bh[c] \in Nat
      BY <1>21, <3>3
    <3> HIDE DEF c
    <3>5. <<y, e>> \notin {<<up, d>>}
      BY <1>8
    <3>6. bh[c] = bh[x]
      BY <1>24, <3>2, <3>4, <3>5
    <3>7. z \notin U.red
      BY <1>11, <1>15, <2>3
    <3>8. h[U.child[e][z]] = bh[c]
      BY <1>4, <1>22, <3>1, <3>3, Zenon
    <3>9. h[z] = bh[x] + 1 /\ bh[x] \in Nat
      BY <2>0, <2>3
    <3>10. h[U.child[e][z]] = bh[x]
      BY <3>6, <3>8
    <3> QED BY <3>7, <3>9, <3>10
  <2>4. CASE z # up /\ z # w /\ z # y
    <3> DEFINE c == T.child[e][z]
    <3>1. c # w /\ c # y /\ U.child[e][z] = IF c = up THEN w ELSE c
      BY <1>16, <2>4
    <3>2. bh[z] = bh[c] + (IF z \in T.red THEN 0 ELSE 1) + (IF <<z, e>> \in {<<up, d>>} THEN 1 ELSE 0)
      BY <1>21
    <3>3. c = Sentinel \/ c \in S
      BY <1>7
    <3>4. bh[c] \in Nat
      BY <1>21, <3>3
    <3> HIDE DEF c
    <3>5. <<z, e>> \notin {<<up, d>>}
      BY <2>4
    <3>6. h[U.child[e][z]] = bh[c] /\ h[z] = bh[z]
      BY <1>22, <2>4, <3>1, <3>3
    <3>7. z \in U.red <=> z \in T.red
      BY <1>11, <1>15, <2>4
    <3> QED BY <3>2, <3>4, <3>5, <3>6, <3>7
  <2> QED BY <2>1, <2>2, <2>3, <2>4
<1>26. Even(U, S, h, {})
  BY <1>22, <1>23, <1>25 DEF Even
<1>27. U.root \in Ends
  BY <1>15, TreeFields
<1>28. DeleteGood(U, S, at, E, h, U.root, {})
  BY <1>14, <1>20, <1>26, <1>27 DEF DeleteGood, Lacking
<1> QED BY <1>3, <1>15, <1>28

\* A black node and a red one trade colours.
LEMMA TradeOK ==
  ASSUME NEW T \in Trees, NEW S, NEW x \in Nodes, x \notin T.red, NEW y, y # x
  PROVE  TradesColours(T, Red(Black(T, y), x), S, x, y)
<1> DEFINE A == Black(T, y)
           V == Red(A, x)
<1>1. /\ A \in Trees /\ A.root = T.root /\ A.child = T.child /\ A.parent = T.parent /\ A.key = T.key
      /\ A.red = T.red \ {y}
  BY BlackOK
<1> HIDE DEF A
<1>2. /\ V \in Trees /\ V.root = A.root /\ V.child = A.child /\ V.parent = A.parent /\ V.key = A.key
      /\ V.red = A.red \cup {x}
  BY <1>1, RedOK
<1> HIDE DEF V
<1>3. TradesColours(T, V, S, x, y)
  BY <1>1, <1>2 DEF TradesColours
<1> QED BY <1>3 DEF V, A

\* A red sibling comes up, and its child, which is black, is the new sibling.
LEMMA RaiseSibling ==
  ASSUME NEW T, NEW S, NEW at, NEW D, NEW bh, NEW up, NEW d, Short(T, S, at, D, bh, up, d),
         NEW w, w = T.child[Other(d)][up], w \in T.red
  PROVE  LET U == Rotate(Red(Black(T, w), up), up, d)
         IN  /\ \E E, h : Short(U, S, at, E, h, up, d)
             /\ U.child[Other(d)][up] \notin U.red /\ up \in U.red /\ U.key = T.key
<1> DEFINE V == Red(Black(T, w), up)
           U == Rotate(V, up, d)
           o == Other(d)
           x == T.child[d][up]
           K == {<<up, d>>}
           c == T.child[d][w]
<1>1. /\ Shape(T, S, at, D) /\ Even(T, S, bh, K) /\ FewRed(T, S, Null) /\ T \in Trees
      /\ S \subseteq Nodes /\ Sentinel \notin S
  BY EndsOK DEF Short, Shape
<1>2. Beside(T, S, bh, up, d, x, w)
  BY BesideOK, SMTT(30)
<1> HIDE DEF x
<1>3. /\ up \in S /\ d \in Sides /\ x = T.child[d][up] /\ w = T.child[o][up] /\ x \notin T.red
      /\ w \in S /\ w # up /\ w # x /\ x # up /\ (x = Sentinel \/ x \in S)
      /\ \A e \in Sides : T.child[e][w] # up \/ T.child[e][w] = Sentinel
  BY <1>2 DEF Beside
<1>4. /\ o \in Sides /\ o # d /\ \A e \in Sides : e = d \/ e = o
  BY <1>3, SidesOK
<1>5. Null \notin T.red
  BY <1>1, TreeFields
<1>6. /\ \A z \in S, e \in Sides : ~(z \in T.red /\ T.child[e][z] \in T.red)
      /\ T.root \notin T.red
  BY <1>1, <1>5 DEF FewRed
<1>7. up \notin T.red
  BY <1>3, <1>4, <1>6
<1>8. MayClimb(T, S, K, up, d, w)
  BY <1>3, <1>4 DEF MayClimb
<1>9. TradesColours(T, V, S, up, w)
  <2>1. up \in Nodes
    BY <1>1, <1>3
  <2> QED BY <1>1, <1>3, <1>7, <2>1, TradeOK
<1> HIDE DEF V, K
<1>10. /\ Shape(U, S, at, Turned(S, at, D, up, d, w)) /\ Even(U, S, Swapped(S, bh, up, w), K)
       /\ Turns(T, U, S, up, d, w) /\ U.key = T.key /\ U.red = V.red
  BY <1>1, <1>8, <1>9, TurnUp
<1> HIDE DEF U
<1>11. /\ U.root = IF up = T.root THEN w ELSE T.root
       /\ \A e \in Sides, z \in S :
            U.child[e][z] = IF z = up /\ e = o THEN c
                            ELSE IF z = w /\ e = d THEN up
                            ELSE IF T.child[e][z] = up THEN w ELSE T.child[e][z]
  BY <1>10 DEF Turns
<1>12. \A z \in S : z \in U.red <=> z = up \/ (z # w /\ z \in T.red)
  BY <1>3, <1>7, <1>9, <1>10 DEF TradesColours
<1>13. Sentinel \notin U.red /\ Sentinel # up
  <2>1. U \in Trees
    BY <1>10 DEF Shape
  <2> QED BY <1>1, <1>3, <2>1, TreeFields
<1>14. \A z \in S, e \in Sides : T.child[e][z] = Sentinel \/ T.child[e][z] \in S
  BY <1>1, ChildOK
<1>15. c \notin U.red
  <2>1. c \notin T.red /\ (c = Sentinel \/ c \in S) /\ c # up
    BY <1>3, <1>6, <1>13, <1>14
  <2> HIDE DEF c
  <2> QED BY <1>12, <1>13, <2>1
<1>16. x \notin U.red
  BY <1>3, <1>12, <1>13
<1> HIDE DEF c, o
<1>17. U.child[d][up] = x /\ U.child[o][up] = c
  BY <1>3, <1>4, <1>11
<1>18. U.root \notin U.red
  <2>1. T.root \in S
    BY <1>1, <1>3 DEF Shape
  <2> QED BY <1>3, <1>6, <1>11, <1>12, <2>1
<1>19. ASSUME NEW z \in S, NEW e \in Sides, z \in U.red, U.child[e][z] \in U.red PROVE FALSE
  <2>1. z # up
    BY <1>4, <1>15, <1>16, <1>17, <1>19
  <2>2. z # w /\ z \in T.red
    BY <1>3, <1>12, <1>19, <2>1
  <2>3. U.child[e][z] = IF T.child[e][z] = up THEN w ELSE T.child[e][z]
    BY <1>11, <2>1, <2>2
  <2>4. w \notin U.red
    BY <1>3, <1>12
  <2>5. T.child[e][z] # up /\ T.child[e][z] \in U.red
    BY <1>19, <2>3, <2>4
  <2>6. T.child[e][z] \in T.red
    BY <1>12, <1>13, <1>14, <2>5
  <2> QED BY <1>6, <2>2, <2>6
<1>20. FewRed(U, S, Null)
  BY <1>18, <1>19 DEF FewRed
<1>21. Short(U, S, at, Turned(S, at, D, up, d, w), Swapped(S, bh, up, w), up, d)
  BY <1>3, <1>10, <1>16, <1>17, <1>20 DEF Short, K
<1>22. up \in U.red
  BY <1>3, <1>12
<1> QED BY <1>10, <1>15, <1>17, <1>21, <1>22 DEF U, V, o

\* The sibling w is black, and its red child y is on the inside.
Inside(T, up, d, w, y) ==
  /\ w = T.child[Other(d)][up] /\ w \notin T.red
  /\ y = T.child[d][w] /\ y \in T.red /\ T.child[Other(d)][w] \notin T.red

\* The red child of a sibling is on the inside: it becomes the sibling.
LEMMA StraightenSibling ==
  ASSUME NEW T, NEW S, NEW at, NEW D, NEW bh, NEW up, NEW d, Short(T, S, at, D, bh, up, d),
         NEW w, NEW y, Inside(T, up, d, w, y)
  PROVE  LET U == Rotate(Red(Black(T, y), w), w, Other(d))
         IN  /\ \E E, h : Short(U, S, at, E, h, up, d)
             /\ U.child[Other(d)][up] = y /\ y \notin U.red /\ U.child[Other(d)][y] = w /\ w \in U.red
             /\ U.key = T.key
<1> DEFINE V == Red(Black(T, y), w)
           o == Other(d)
           U == Rotate(V, w, o)
           x == T.child[d][up]
           K == {<<up, d>>}
           c == T.child[o][y]
           outer == T.child[o][w]
<1>0. /\ w = T.child[Other(d)][up] /\ w \notin T.red
      /\ y = T.child[d][w] /\ y \in T.red /\ T.child[Other(d)][w] \notin T.red
  BY DEF Inside
<1> USE <1>0
<1>1. /\ Shape(T, S, at, D) /\ Even(T, S, bh, K) /\ FewRed(T, S, Null) /\ T \in Trees
      /\ S \subseteq Nodes /\ Sentinel \notin S
  BY EndsOK DEF Short, Shape
<1>2. Beside(T, S, bh, up, d, x, w)
  BY BesideOK
<1> HIDE DEF x
<1>3. /\ up \in S /\ d \in Sides /\ x = T.child[d][up] /\ w = T.child[o][up] /\ x \notin T.red
      /\ w \in S /\ w # up /\ w # x /\ x # up /\ (x = Sentinel \/ x \in S) /\ w # T.root
      /\ \A e \in Sides : T.child[e][w] # w /\ T.child[e][w] # up /\ (T.child[e][w] # x \/ T.child[e][w] = Sentinel)
      /\ \A z \in S, e \in Sides : T.child[e][z] = w => z = up /\ e = o
  BY <1>2, ZenonT(30) DEF Beside
<1>4. /\ o \in Sides /\ o # d /\ Other(o) = d /\ \A e \in Sides : e = d \/ e = o
  BY <1>3, SidesOK
<1>5. Null \notin T.red /\ y # Sentinel
  BY <1>1, TreeFields
<1>6. /\ \A z \in S, e \in Sides : ~(z \in T.red /\ T.child[e][z] \in T.red)
      /\ T.root \notin T.red
  BY <1>1, <1>5, SMTT(30) DEF FewRed
<1>7. \A z \in S, e \in Sides : T.child[e][z] = Sentinel \/ T.child[e][z] \in S
  BY <1>1, ChildOK, SMTT(30)
<1>8. y \in S /\ y # w /\ y # up
  BY <1>3, <1>5, <1>7, SMTT(30)
<1>9. MayClimb(T, S, K, w, o, y)
  BY <1>3, <1>4, <1>8 DEF MayClimb
<1>10. TradesColours(T, V, S, w, y)
  <2>1. w \in Nodes
    BY <1>1, <1>3, SMTT(30)
  <2> QED BY <1>1, <1>8, <2>1, TradeOK, SMTT(30)
<1> HIDE DEF V, K
<1>11. /\ Shape(U, S, at, Turned(S, at, D, w, o, y)) /\ Even(U, S, Swapped(S, bh, w, y), K)
       /\ Turns(T, U, S, w, o, y) /\ U.key = T.key /\ U.red = V.red
  BY <1>1, <1>9, <1>10, TurnUp
<1> HIDE DEF U
<1>12. /\ U.root = IF w = T.root THEN y ELSE T.root
       /\ \A e \in Sides, z \in S :
            U.child[e][z] = IF z = w /\ e = d THEN c
                            ELSE IF z = y /\ e = o THEN w
                            ELSE IF T.child[e][z] = w THEN y ELSE T.child[e][z]
  <2> DEFINE p == Other(o)
  <2>1. Turns(T, U, S, w, o, y) /\ p = d
    BY <1>4, <1>11
  <2> HIDE DEF o
  <2>2. /\ U.root = IF w = T.root THEN y ELSE T.root
        /\ \A e \in Sides, z \in S :
             U.child[e][z] = IF z = w /\ e = p THEN T.child[o][y]
                             ELSE IF z = y /\ e = o THEN w
                             ELSE IF T.child[e][z] = w THEN y ELSE T.child[e][z]
    BY <2>1, Zenon DEF Turns
  <2> HIDE DEF p
  <2> QED BY <2>1, <2>2, ZenonT(30)
<1>13. \A z \in S : z \in U.red <=> z = w \/ (z # y /\ z \in T.red)
  BY <1>3, <1>8, <1>10, <1>11, Zenon DEF TradesColours
<1>14. Sentinel \notin U.red /\ Sentinel # w
  <2>1. U \in Trees
    BY <1>11, Zenon DEF Shape
  <2> QED BY <1>1, <1>3, <2>1, TreeFields
<1>15. c \notin U.red
  <2>1. c \notin T.red /\ (c = Sentinel \/ c \in S)
    BY <1>4, <1>6, <1>7, <1>8, SMTT(30)
  <2>2. c # w
    BY <1>3, <1>4, <1>8
  <2> HIDE DEF c
  <2> QED BY <1>13, <1>14, <2>1, <2>2
<1>16. outer \notin U.red /\ outer # w
  <2>1. outer \notin T.red /\ (outer = Sentinel \/ outer \in S) /\ outer # w
    BY <1>3, <1>4, <1>7, <1>14, SMTT(30)
  <2> HIDE DEF outer
  <2> QED BY <1>13, <1>14, <2>1, SMTT(30)
<1>17. x \notin U.red
  BY <1>3, <1>13, <1>14
<1> HIDE DEF c, o
<1>18. U.child[d][up] = x /\ U.child[o][up] = y /\ U.child[o][y] = w
  BY <1>3, <1>4, <1>8, <1>12, ZenonT(30)
<1>19. U.child[d][w] = c /\ U.child[o][w] = outer
  BY <1>3, <1>4, <1>8, <1>12, <1>16, Zenon
<1>20. U.root \notin U.red
  <2>1. T.root \in S
    BY <1>1, <1>3 DEF Shape
  <2> QED BY <1>3, <1>6, <1>12, <1>13, <2>1, SMTT(30)
<1>21. ASSUME NEW z \in S, NEW e \in Sides, z \in U.red, U.child[e][z] \in U.red PROVE FALSE
  <2>1. z # w
    BY <1>4, <1>15, <1>16, <1>19, <1>21
  <2>2. z # y /\ z \in T.red
    BY <1>13, <1>21, <2>1
  <2>3. U.child[e][z] = IF T.child[e][z] = w THEN y ELSE T.child[e][z]
    BY <1>12, <2>1, <2>2
  <2>4. y \notin U.red
    BY <1>8, <1>13
  <2>5. T.child[e][z] # w /\ T.child[e][z] \in U.red
    BY <1>21, <2>3, <2>4
  <2>6. T.child[e][z] \in T.red
    BY <1>7, <1>13, <1>14, <2>5
  <2> QED BY <1>6, <2>2, <2>6
<1>22. FewRed(U, S, Null)
  BY <1>20, <1>21 DEF FewRed
<1>23. Short(U, S, at, Turned(S, at, D, w, o, y), Swapped(S, bh, w, y), up, d)
  BY <1>3, <1>11, <1>17, <1>18, <1>22, ZenonT(30) DEF Short, K
<1>24. w \in U.red /\ y \notin U.red
  BY <1>3, <1>8, <1>13
<1> QED BY <1>11, <1>18, <1>23, <1>24, Zenon DEF U, V, o

\* A round ends with even ways, or with up, through which they have one too few.
Relieved(T, S, at, D, up, s) ==
  /\ s = [t |-> s.t, n |-> s.n] /\ s.t.key = T.key
  /\ \/ s.n = s.t.root /\ \E E, h : DeleteGood(s.t, S, at, E, h, s.n, {})
     \/ /\ s.n = up /\ (up \in T.red => up \in s.t.red)
        /\ \E h, K : DeleteGood(s.t, S, at, D, h, s.n, K)

\* What is done about a black sibling.
LEMMA BlackSiblingOK ==
  ASSUME NEW T, NEW S, NEW at, NEW D, NEW bh, NEW up, NEW d, Short(T, S, at, D, bh, up, d),
         T.child[Other(d)][up] \notin T.red
  PROVE  Relieved(T, S, at, D, up, BlackSibling(T, up, d))
<1> DEFINE o == Other(d)
           w == T.child[o][up]
           inner == T.child[d][w]
           outer == T.child[o][w]
           s == BlackSibling(T, up, d)
<1>1. d \in Sides /\ \A e \in Sides : e = d \/ e = o
  BY SidesOK DEF Short
<1>2. CASE inner \notin T.red /\ outer \notin T.red
  <2> DEFINE U == Red(T, w)
  <2>1. s = [t |-> U, n |-> up]
    BY <1>2 DEF BlackSibling
  <2>2. \A e \in Sides : T.child[e][w] \notin T.red
    BY <1>1, <1>2
  <2> HIDE DEF s, inner, outer
  <2>3. /\ \E h : DeleteGood(U, S, at, D, h, up, Edge(U, up))
        /\ U.key = T.key /\ (up \in T.red => up \in U.red)
    <3>1. w = T.child[Other(d)][up] /\ w \notin T.red
      OBVIOUS
    <3> HIDE DEF w
    <3> QED BY <2>2, <3>1, RedSibling
  <2> HIDE DEF U
  <2>4. s.t = U /\ s.n = up /\ s = [t |-> s.t, n |-> s.n]
    BY <2>1
  <2> QED BY <2>3, <2>4 DEF Relieved, s
<1>3. CASE outer \in T.red
  <2>1. s = TurnSibling(T, up, d)
    BY <1>3 DEF BlackSibling
  <2>2. w = T.child[Other(d)][up] /\ w \notin T.red /\ outer = T.child[Other(d)][w]
    OBVIOUS
  <2> HIDE DEF s, w, inner, outer
  <2>3. /\ \E E, h : DeleteGood(s.t, S, at, E, h, s.n, {})
        /\ s.t.key = T.key /\ s.n = s.t.root /\ s = [t |-> s.t, n |-> s.n]
    BY <1>3, <2>1, <2>2, TurnSiblingOK
  <2> QED BY <2>3 DEF Relieved, s
<1>4. CASE inner \in T.red /\ outer \notin T.red
  <2> DEFINE U == Rotate(Red(Black(T, inner), w), w, o)
  <2>1. s = TurnSibling(U, up, d)
    BY <1>4 DEF BlackSibling
  <2>2. w = T.child[Other(d)][up] /\ w \notin T.red /\ outer = T.child[Other(d)][w] /\ inner = T.child[d][w]
    OBVIOUS
  <2> HIDE DEF s, w, inner, outer
  <2>3. /\ \E E, h : Short(U, S, at, E, h, up, d)
        /\ U.child[Other(d)][up] = inner /\ inner \notin U.red /\ U.child[Other(d)][inner] = w /\ w \in U.red
        /\ U.key = T.key
    <3>1. Inside(T, up, d, w, inner)
      BY <1>4, <2>2 DEF Inside, outer
    <3> QED BY <3>1, StraightenSibling
  <2> HIDE DEF U
  <2>4. PICK E, h : Short(U, S, at, E, h, up, d)
    BY <2>3
  <2>5. /\ \E G, k : DeleteGood(s.t, S, at, G, k, s.n, {})
        /\ s.t.key = U.key /\ s.n = s.t.root /\ s = [t |-> s.t, n |-> s.n]
    <3>1. inner = U.child[Other(d)][up] /\ w = U.child[Other(d)][inner]
      BY <2>3
    <3> QED BY <2>1, <2>3, <2>4, <3>1, TurnSiblingOK
  <2> QED BY <2>3, <2>5 DEF Relieved, s
<1> QED BY <1>2, <1>3, <1>4

\* The states of the loop, after i rounds.
DeleteStates(S, at, key, i) ==
  {s \in [t : Trees, n : Ends] :
     /\ s.t.key = key
     /\ \E D, bh, K : /\ DeleteGood(s.t, S, at, D, bh, s.n, K)
                      /\ DeleteStops(s.t, s.n) \/ i < Cardinality(D[s.t.parent[s.n]])}

\* The round has come to its end, or higher up.
LEMMA RelievedStates ==
  ASSUME NEW T, NEW S, NEW at, NEW D, NEW up \in S, NEW s, Relieved(T, S, at, D, up, s),
         NEW i \in Nat, up \in T.red \/ i < Cardinality(D[up])
  PROVE  s \in DeleteStates(S, at, T.key, i + 1)
<1>1. /\ s = [t |-> s.t, n |-> s.n] /\ s.t.key = T.key
      /\ \/ s.n = s.t.root /\ \E E, h : DeleteGood(s.t, S, at, E, h, s.n, {})
         \/ /\ s.n = up /\ (up \in T.red => up \in s.t.red)
            /\ \E h, K : DeleteGood(s.t, S, at, D, h, s.n, K)
  BY DEF Relieved
<1> DEFINE U == s.t
           x == s.n
<1>2. \E E, h, K : /\ DeleteGood(U, S, at, E, h, x, K)
                   /\ DeleteStops(U, x) \/ i + 1 < Cardinality(E[U.parent[x]])
  <2>1. CASE x = U.root /\ \E E, h : DeleteGood(U, S, at, E, h, x, {})
    BY <2>1 DEF DeleteStops
  <2>2. CASE /\ x = up /\ (up \in T.red => up \in U.red)
             /\ \E h, K : DeleteGood(U, S, at, D, h, x, K)
    <3>1. PICK h, K : DeleteGood(U, S, at, D, h, x, K)
      BY <2>2
    <3>2. Shape(U, S, at, D)
      BY <3>1 DEF DeleteGood, Lacking
    <3> HIDE DEF U, x
    <3>3. CASE up = U.root \/ up \in T.red
      <4>1. DeleteStops(U, x)
        BY <2>2, <3>3 DEF DeleteStops
      <4> QED BY <3>1, <4>1
    <3>4. CASE up # U.root /\ i < Cardinality(D[up])
      <4> DEFINE p == U.parent[up]
                 f == SideOf(U, up)
      <4>1. p \in S /\ f \in Sides /\ U.child[f][p] = up /\ up # Sentinel
        BY <3>2, <3>4, HasParent
      <4> HIDE DEF p, f
      <4>2. Cardinality(D[U.child[f][p]]) < Cardinality(D[p])
        BY <3>2, <4>1, ChildSmaller
      <4>3. Cardinality(D[p]) \in Nat /\ Cardinality(D[up]) \in Nat
        BY <3>2, <4>1, Finite
      <4>4. i + 1 < Cardinality(D[p])
        BY <3>4, <4>1, <4>2, <4>3, SMTT(30)
      <4> QED BY <2>2, <3>1, <4>4 DEF p
    <3> QED BY <3>3, <3>4
  <2> QED BY <1>1, <2>1, <2>2
<1>3. U \in Trees /\ x \in Ends
  BY <1>2 DEF DeleteGood, Lacking, Shape
<1>4. s \in [t : Trees, n : Ends]
  BY <1>1, <1>3
<1> QED BY <1>1, <1>2, <1>4 DEF DeleteStates

\* A node that is black, and not the root, lacks one black node below its parent,
\* on the side that SideOf() finds.
LEMMA LackOK ==
  ASSUME NEW T, NEW S, NEW at, NEW D, NEW bh, NEW x, NEW K, DeleteGood(T, S, at, D, bh, x, K),
         ~DeleteStops(T, x)
  PROVE  T.parent[x] \in S /\ Short(T, S, at, D, bh, T.parent[x], SideOf(T, x))
<1> DEFINE up == T.parent[x]
           d == SideOf(T, x)
<1>1. x # T.root /\ x \notin T.red
  BY DEF DeleteStops
<1>2. /\ Shape(T, S, at, D) /\ NearRed(T, S, x) /\ Even(T, S, bh, K) /\ x \in Ends
      /\ up \in S /\ \E f \in Sides : T.child[f][up] = x /\ K = {<<up, f>>}
  BY <1>1 DEF DeleteGood, Lacking
<1>3. PICK f \in Sides : T.child[f][up] = x /\ K = {<<up, f>>}
  BY <1>2
<1>4. d = IF T.child["left"][up] = x THEN "left" ELSE "right"
  BY DEF SideOf
<1>5. "left" \in Sides /\ "right" \in Sides /\ \A e \in Sides : e = "left" \/ e = "right"
  BY DEF Sides
<1> HIDE DEF up, d
<1>6. f = d
  <2>1. ASSUME f = "right", T.child["left"][up] = x PROVE FALSE
    <3>1. /\ bh[up] = bh[T.child["left"][up]] + (IF up \in T.red THEN 0 ELSE 1) + (IF <<up, "left">> \in K THEN 1 ELSE 0)
          /\ bh[up] = bh[T.child["right"][up]] + (IF up \in T.red THEN 0 ELSE 1) + (IF <<up, "right">> \in K THEN 1 ELSE 0)
      BY <1>2, <1>5 DEF Even
    <3>2. bh[x] \in Nat
      <4>1. x = Sentinel \/ x \in S
        BY <1>2, <1>3, ChildOK
      <4> QED BY <1>2, <4>1 DEF Even
    <3>3. <<up, "left">> \notin K /\ <<up, "right">> \in K
      BY <1>3, <2>1
    <3>4. T.child["left"][up] = x /\ T.child["right"][up] = x
      BY <1>3, <2>1
    <3> QED BY <3>1, <3>2, <3>3, <3>4
  <2> QED BY <1>3, <1>4, <1>5, <2>1
<1>7. FewRed(T, S, Null)
  <2>1. /\ \A z \in S, e \in Sides : z \in T.red /\ T.child[e][z] \in T.red => z = x \/ T.child[e][z] = x
        /\ T.root \in T.red => T.root = x
    BY <1>2 DEF NearRed
  <2> QED BY <1>1, <2>1 DEF FewRed
<1>8. Short(T, S, at, D, bh, up, d)
  BY <1>1, <1>2, <1>3, <1>6, <1>7 DEF Short
<1> QED BY <1>2, <1>8 DEF up, d

\* A round keeps the tree as right as it was and comes higher, or to the end.
LEMMA DeleteRoundOK ==
  ASSUME NEW S, NEW at, NEW key, NEW i \in Nat, NEW s \in DeleteStates(S, at, key, i)
  PROVE  DeleteRound(s) \in DeleteStates(S, at, key, i + 1)
<1> DEFINE T == s.t
           x == s.n
           r == DeleteRound(s)
<1>1. s \in [t : Trees, n : Ends] /\ T.key = key
  BY DEF DeleteStates
<1>2. PICK D, bh, K : /\ DeleteGood(T, S, at, D, bh, x, K)
                      /\ DeleteStops(T, x) \/ i < Cardinality(D[T.parent[x]])
  BY DEF DeleteStates
<1>3. CASE DeleteStops(T, x)
  <2>1. r = s
    BY <1>3 DEF DeleteRound, DeleteStops
  <2>2. s \in DeleteStates(S, at, key, i + 1)
    BY <1>1, <1>2, <1>3 DEF DeleteStates
  <2> QED BY <2>1, <2>2
<1>4. CASE ~DeleteStops(T, x)
  <2> DEFINE up == T.parent[x]
             d == SideOf(T, x)
             w == T.child[Other(d)][up]
  <2>1. up \in S /\ Short(T, S, at, D, bh, up, d)
    <3> HIDE DEF T, x
    <3> QED BY <1>2, <1>4, LackOK
  <2>2. i < Cardinality(D[up])
    BY <1>2, <1>4
  <2>3. CASE w \notin T.red
    <3>1. r = BlackSibling(T, up, d)
      BY <1>4, <2>3 DEF DeleteRound, DeleteStops
    <3> HIDE DEF T, x, r, up, d
    <3>2. Relieved(T, S, at, D, up, r)
      BY <2>1, <2>3, <3>1, BlackSiblingOK
    <3>3. r \in DeleteStates(S, at, T.key, i + 1)
      BY <2>1, <2>2, <3>2, RelievedStates
    <3> QED BY <1>1, <3>3 DEF r
  <2>4. CASE w \in T.red
    <3> DEFINE U == Rotate(Red(Black(T, w), up), up, d)
    <3>1. r = BlackSibling(U, up, d)
      BY <1>4, <2>4 DEF DeleteRound, DeleteStops
    <3>2. w = T.child[Other(d)][up]
      OBVIOUS
    <3> HIDE DEF T, x, r, up, d, w
    <3>3. /\ \E E, h : Short(U, S, at, E, h, up, d)
          /\ U.child[Other(d)][up] \notin U.red /\ up \in U.red /\ U.key = T.key
      BY <2>1, <2>4, <3>2, RaiseSibling
    <3> HIDE DEF U
    <3>4. PICK E, h : Short(U, S, at, E, h, up, d)
      BY <3>3
    <3>5. Relieved(U, S, at, E, up, r)
      BY <3>1, <3>3, <3>4, BlackSiblingOK
    <3>6. r \in DeleteStates(S, at, U.key, i + 1)
      BY <2>1, <3>3, <3>5, RelievedStates
    <3> QED BY <1>1, <3>3, <3>6 DEF r
  <2> QED BY <2>3, <2>4
<1> QED BY <1>3, <1>4

\* With x black all ways are even and nothing red is in the wrong place.
LEMMA BlackenOK ==
  ASSUME NEW T, NEW S, NEW at, NEW D, NEW bh, NEW x, NEW K, DeleteGood(T, S, at, D, bh, x, K),
         DeleteStops(T, x)
  PROVE  LET U == Black(T, x)
         IN  /\ U.key = T.key
             /\ \E h : Shape(U, S, at, D) /\ Even(U, S, h, {}) /\ FewRed(U, S, Null)
<1> DEFINE U == Black(T, x)
           h == [z \in S \cup {Sentinel} |-> IF z = x /\ x \in T.red THEN bh[z] + 1 ELSE bh[z]]
<1>1. /\ Shape(T, S, at, D) /\ NearRed(T, S, x) /\ Even(T, S, bh, K) /\ x \in Ends
      /\ K = {} => x = T.root
      /\ K # {} => /\ x # T.root /\ T.parent[x] \in S
                   /\ \E f \in Sides : T.child[f][T.parent[x]] = x /\ K = {<<T.parent[x], f>>}
  BY DEF DeleteGood, Lacking
<1>2. T \in Trees /\ S \subseteq Nodes /\ Sentinel \notin S
  BY <1>1, EndsOK DEF Shape
<1>3. /\ U \in Trees /\ U.root = T.root /\ U.child = T.child /\ U.parent = T.parent /\ U.key = T.key
      /\ U.red = T.red \ {x}
  BY <1>2, BlackOK
<1> HIDE DEF U
<1>4. Shape(U, S, at, D)
  BY <1>1, <1>3, SameShape
<1>5. FewRed(U, S, Null)
  BY <1>1, <1>3 DEF NearRed, FewRed
<1>6. Sentinel \notin T.red
  BY <1>2, TreeFields
<1>7. \A z \in S, e \in Sides : T.child[e][z] = Sentinel \/ T.child[e][z] \in S
  BY <1>1, ChildOK
<1>8. /\ bh[Sentinel] = 0 /\ \A z \in S : bh[z] \in Nat
      /\ \A z \in S, e \in Sides :
           bh[z] = bh[T.child[e][z]] + (IF z \in T.red THEN 0 ELSE 1) + (IF <<z, e>> \in K THEN 1 ELSE 0)
  BY <1>1 DEF Even
<1>9. x \in T.red \/ K = {}
  BY <1>1 DEF DeleteStops
<1>10. ASSUME x \in T.red, NEW z \in S, NEW e \in Sides
       PROVE  (<<z, e>> \in K <=> T.child[e][z] = x) /\ T.child[e][z] # z
  <2>1. T.child[e][z] = x => x # T.root
    BY <1>1, <1>6, <1>10, OneParent
  <2>2. T.child[e][z] # z
    BY <1>1, ChildOK
  <2>3. CASE K = {}
    BY <1>1, <2>1, <2>2, <2>3
  <2>4. CASE K # {}
    <3>1. PICK f \in Sides : T.child[f][T.parent[x]] = x /\ K = {<<T.parent[x], f>>}
      BY <1>1, <2>4
    <3> DEFINE p == T.parent[x]
    <3>2. p \in S /\ T.child[f][p] = x /\ K = {<<p, f>>} /\ T.child[f][p] # Sentinel
      BY <1>1, <1>6, <1>10, <2>4, <3>1
    <3> HIDE DEF p
    <3>3. T.child[e][z] = T.child[f][p] => z = p /\ e = f
      BY <1>1, <3>2, OneParent
    <3> QED BY <2>2, <3>2, <3>3
  <2> QED BY <2>3, <2>4
<1>11. /\ h[Sentinel] = 0
       /\ \A z \in S \cup {Sentinel} : h[z] = IF z = x /\ x \in T.red THEN bh[z] + 1 ELSE bh[z]
  BY <1>6, <1>8
<1> HIDE DEF h
<1>12. ASSUME NEW z \in S PROVE h[z] \in Nat
  <2>1. bh[z] \in Nat /\ (h[z] = bh[z] \/ h[z] = bh[z] + 1)
    BY <1>8, <1>11
  <2> QED BY <2>1
<1>13. ASSUME NEW z \in S, NEW e \in Sides
       PROVE  h[z] = h[U.child[e][z]] + (IF z \in U.red THEN 0 ELSE 1) + (IF <<z, e>> \in {} THEN 1 ELSE 0)
  <2> DEFINE c == T.child[e][z]
  <2>1. bh[z] = bh[c] + (IF z \in T.red THEN 0 ELSE 1) + (IF <<z, e>> \in K THEN 1 ELSE 0)
    BY <1>8
  <2>2. c \in S \cup {Sentinel} /\ U.child[e][z] = c
    BY <1>3, <1>7
  <2>3. bh[c] \in Nat
    BY <1>8, <2>2
  <2>4. h[z] = (IF z = x /\ x \in T.red THEN bh[z] + 1 ELSE bh[z])
        /\ h[c] = (IF c = x /\ x \in T.red THEN bh[c] + 1 ELSE bh[c])
    BY <1>11, <2>2
  <2>5. z \in U.red <=> z \in T.red /\ z # x
    BY <1>3
  <2>6. x \in T.red => (<<z, e>> \in K <=> c = x) /\ c # z
    BY <1>10
  <2> HIDE DEF c
  <2>7. CASE x \notin T.red
    <3>1. <<z, e>> \notin K
      BY <1>9, <2>7
    <3> QED BY <2>1, <2>2, <2>3, <2>4, <2>5, <2>7, <3>1
  <2>8. CASE x \in T.red
    <3>1. CASE z = x
      <4>1. h[z] = bh[z] + 1 /\ h[c] = bh[c] /\ z \in T.red /\ z \notin U.red /\ <<z, e>> \notin K
        BY <2>4, <2>5, <2>6, <2>8, <3>1
      <4> QED BY <2>1, <2>2, <2>3, <4>1
    <3>2. CASE z # x
      <4>1. h[z] = bh[z] /\ (z \in U.red <=> z \in T.red)
        BY <2>4, <2>5, <3>2
      <4>2. h[c] = bh[c] + (IF <<z, e>> \in K THEN 1 ELSE 0)
        BY <2>3, <2>4, <2>6, <2>8
      <4> QED BY <2>1, <2>2, <2>3, <4>1, <4>2
    <3> QED BY <3>1, <3>2
  <2> QED BY <2>7, <2>8
<1>14. Even(U, S, h, {})
  BY <1>11, <1>12, <1>13 DEF Even
<1> QED BY <1>3, <1>4, <1>5, <1>14 DEF U

\* What the loop of rbtree_delete() comes to.
LEMMA DeleteLoop ==
  ASSUME NEW T, NEW S, NEW at, NEW D, NEW bh, NEW x, NEW K, DeleteGood(T, S, at, D, bh, x, K)
  PROVE  \E s \in DeleteStates(S, at, T.key, Limit) : DeleteFixup(T, x) = Black(s.t, s.n)
<1> DEFINE y == [t |-> T, n |-> x]
           G == [i \in 0..Limit |-> DeleteStates(S, at, T.key, i)]
           f == [s \in [t : Trees, n : Ends] |-> DeleteRound(s)]
           Run(g) == g = [i \in 0..Limit |-> IF i = 0 THEN y ELSE DeleteRound(g[i - 1])]
<1>1. Shape(T, S, at, D) /\ T \in Trees /\ x \in Ends
  BY DEF DeleteGood, Lacking, Shape
<1>2. Limit \in Nat /\ (DeleteStops(T, x) \/ 0 < Cardinality(D[T.parent[x]]))
  <2>1. Limit \in Nat /\ \A z \in S : Cardinality(D[z]) \in Nat /\ 1 <= Cardinality(D[z])
    BY <1>1, Finite
  <2>2. ~DeleteStops(T, x) => T.parent[x] \in S
    BY LackOK
  <2> QED BY <2>1, <2>2
<1>3. y \in G[0]
  <2>1. y \in [t : Trees, n : Ends] /\ y.t = T /\ y.n = x
    BY <1>1
  <2> HIDE DEF y
  <2>2. y \in DeleteStates(S, at, T.key, 0)
    BY <1>2, <2>1 DEF DeleteStates
  <2> QED BY <1>2, <2>2
<1>4. ASSUME NEW i \in 1..Limit, NEW s \in G[i - 1]
      PROVE  s \in [t : Trees, n : Ends] /\ DeleteRound(s) \in G[i]
  <2>1. i - 1 \in 0..Limit /\ i - 1 \in Nat /\ i \in 0..Limit /\ (i - 1) + 1 = i
    BY <1>2
  <2>2. G[i - 1] = DeleteStates(S, at, T.key, i - 1) /\ G[i] = DeleteStates(S, at, T.key, i)
    BY <2>1
  <2>3. s \in DeleteStates(S, at, T.key, i - 1)
    BY <1>4, <2>2
  <2>4. DeleteRound(s) \in DeleteStates(S, at, T.key, (i - 1) + 1)
    BY <2>1, <2>3, DeleteRoundOK
  <2>5. s \in [t : Trees, n : Ends]
    BY <2>3 DEF DeleteStates
  <2> QED BY <2>1, <2>2, <2>4, <2>5
<1>5. \A i \in 1..Limit : \A s \in G[i - 1] : f[s] \in G[i] /\ f[s] = DeleteRound(s)
  BY <1>4
<1>6. G[Limit] = DeleteStates(S, at, T.key, Limit)
  BY <1>2
<1> HIDE DEF y, G, f
<1>7. \E g : Run(g)
  <2>1. PICK g : Loop(Limit, f, y, g) /\ \A i \in 0..Limit : g[i] \in G[i]
    <3>1. \A i \in 1..Limit : \A s \in G[i - 1] : f[s] \in G[i]
      BY <1>5
    <3> QED BY <1>2, <1>3, <3>1, LoopRuns
  <2>2. \A i \in 0..Limit : g[i] = IF i = 0 THEN y ELSE DeleteRound(g[i - 1])
    <3> TAKE i \in 0..Limit
    <3>1. i # 0 => i \in 1..Limit /\ i - 1 \in 0..Limit
      BY <1>2
    <3>2. g[i] = IF i = 0 THEN y ELSE f[g[i - 1]]
      BY <2>1 DEF Loop
    <3> QED BY <1>5, <2>1, <3>1, <3>2
  <2>3. g = [i \in 0..Limit |-> g[i]]
    BY <2>1 DEF Loop
  <2> QED BY <2>2, <2>3
<1>8. PICK g : Run(g) /\ DeleteFixup(T, x) = Black(g[Limit].t, g[Limit].n)
  BY <1>7, Zenon DEF DeleteFixup, y
<1>9. \A i \in 0..Limit : g[i] \in G[i]
  <2>1. \A i \in 0..Limit : g[i] = IF i = 0 THEN y ELSE DeleteRound(g[i - 1])
    BY <1>8
  <2>2. g[0] \in G[0]
    BY <1>2, <1>3, <2>1
  <2>3. ASSUME NEW i \in 1..Limit, g[i - 1] \in G[i - 1] PROVE g[i] \in G[i]
    <3>1. g[i] = DeleteRound(g[i - 1])
      BY <2>1
    <3> QED BY <1>5, <2>3, <3>1
  <2> QED BY <1>2, <2>2, <2>3, LoopStays
<1>10. g[Limit] \in DeleteStates(S, at, T.key, Limit)
  BY <1>2, <1>6, <1>9
<1> QED BY <1>8, <1>10

\* The loop ends with a right tree.
LEMMA DeleteFixupOK ==
  ASSUME NEW T, NEW S, NEW at, NEW D, NEW bh, NEW x, NEW K, DeleteGood(T, S, at, D, bh, x, K)
  PROVE  LET U == DeleteFixup(T, x)
         IN  /\ U.key = T.key
             /\ \E E, h : Shape(U, S, at, E) /\ Even(U, S, h, {}) /\ FewRed(U, S, Null)
<1> DEFINE U == DeleteFixup(T, x)
<1>1. PICK s \in DeleteStates(S, at, T.key, Limit) : U = Black(s.t, s.n)
  BY DeleteLoop
<1> DEFINE V == s.t
           m == s.n
<1>2. PICK E, k, L : DeleteGood(V, S, at, E, k, m, L) /\ (DeleteStops(V, m) \/ Limit < Cardinality(E[V.parent[m]]))
  BY <1>1 DEF DeleteStates
<1>3. V.key = T.key /\ U = Black(V, m)
  BY <1>1 DEF DeleteStates
<1> HIDE DEF V, m, U
<1>4. DeleteStops(V, m)
  <2>1. Shape(V, S, at, E)
    BY <1>2 DEF DeleteGood, Lacking
  <2>2. ~DeleteStops(V, m) => V.parent[m] \in S
    BY <1>2, LackOK
  <2>3. \A z \in S : Cardinality(E[z]) \in Nat /\ Cardinality(E[z]) <= Limit /\ Limit \in Nat
    BY <2>1, Finite
  <2> QED BY <1>2, <2>2, <2>3
<1>5. /\ U.key = V.key
      /\ \E h : Shape(U, S, at, E) /\ Even(U, S, h, {}) /\ FewRed(U, S, Null)
  BY <1>2, <1>3, <1>4, BlackenOK
<1> QED BY <1>3, <1>5 DEF U

-----------------------------------------------------------------------------
(* rbtree_delete(). *)

\* The places after n has left.
DeleteAt(S, at, n) == [z \in S \ {n} |-> IF at[z] < at[n] THEN at[z] ELSE at[z] - 1]

\* The nodes behind n move up by one.
LEMMA DeleteAtOK ==
  ASSUME NEW S, NEW at, Listing(S, at), IsFiniteSet(S), NEW n \in S
  PROVE  LET at2 == DeleteAt(S, at, n)
         IN  /\ Listing(S \ {n}, at2) /\ Cardinality(S \ {n}) = Cardinality(S) - 1
             /\ IsFiniteSet(S \ {n})
             /\ \A y, z \in S \ {n} : at2[y] < at2[z] <=> at[y] < at[z]
<1> DEFINE N == Cardinality(S)
           S2 == S \ {n}
           at2 == DeleteAt(S, at, n)
           k == at[n]
<1>1. N \in Nat /\ \A z \in S : at[z] \in 1..N
  BY ListingOK
<1>2. Cardinality(S2) = N - 1 /\ IsFiniteSet(S2)
  BY FS_RemoveElement
<1>3. \A z \in S2 : at2[z] = IF at[z] < k THEN at[z] ELSE at[z] - 1
  BY DEF DeleteAt
<1>4. at2 = [z \in S2 |-> at2[z]]
  BY DEF DeleteAt
<1>5. k \in 1..N /\ \A z \in S2 : z \in S /\ at[z] # k /\ at[z] \in 1..N
  BY <1>1 DEF Listing
<1> HIDE DEF at2, k
<1>6. \A y, z \in S2 : at2[y] < at2[z] <=> at[y] < at[z]
  <2> TAKE y, z \in S2
  <2>1. at[y] \in Int /\ at[z] \in Int /\ k \in Int /\ at[y] # k /\ at[z] # k
    BY <1>1, <1>5
  <2> QED BY <1>3, <2>1
<1>7. \A z \in S2 : at2[z] \in 1..(N - 1)
  <2> TAKE z \in S2
  <2>1. at[z] \in 1..N /\ k \in 1..N /\ at[z] # k
    BY <1>5
  <2> HIDE DEF N
  <2> QED BY <1>1, <1>3, <2>1
<1>8. at2 \in [S2 -> 1..(N - 1)]
  BY <1>4, <1>7
<1>9. ASSUME NEW x \in S2, NEW y \in S2, at2[x] = at2[y] PROVE x = y
  <2>1. at[x] = at[y]
    <3>1. at[x] \in Int /\ at[y] \in Int /\ k \in Int /\ at[x] # k /\ at[y] # k
      BY <1>1, <1>5
    <3> QED BY <1>3, <1>9, <3>1
  <2> QED BY <1>5, <2>1 DEF Listing
<1>10. ASSUME NEW i \in 1..(N - 1) PROVE \E x \in S2 : at2[x] = i
  <2>1. CASE i < k
    <3>1. i \in 1..N
      BY <1>1, <1>5, <2>1
    <3>2. PICK x \in S : at[x] = i
      BY <3>1 DEF Listing
    <3>3. x \in S2
      BY <1>5, <2>1, <3>2 DEF k
    <3> QED BY <1>3, <2>1, <3>2, <3>3
  <2>2. CASE k <= i
    <3>1. i + 1 \in 1..N /\ ~(i + 1 <= k) /\ (i + 1) - 1 = i /\ ~(i + 1 < k)
      BY <1>1, <1>5, <2>2
    <3>2. PICK x \in S : at[x] = i + 1
      BY <3>1 DEF Listing
    <3>3. x \in S2
      BY <1>5, <3>1, <3>2 DEF k
    <3> QED BY <1>3, <3>1, <3>2, <3>3
  <2> QED BY <1>1, <1>5, <2>1, <2>2
<1>11. Listing(S2, at2)
  BY <1>2, <1>8, <1>9, <1>10 DEF Listing
<1> QED BY <1>2, <1>6, <1>11 DEF at2

\* The shape is the same under other places in the same order.
LEMMA Reordered ==
  ASSUME NEW T, NEW S, NEW at, NEW D, Shape(T, S, at, D), NEW at2, Ordered(S, at2),
         \A y, z \in S : at2[y] < at2[z] <=> at[y] < at[z]
  PROVE  Shape(T, S, at2, D)
<1>1. \A d \in Sides, y, z \in S : Toward(at2, d, y, z) <=> Toward(at, d, y, z)
  BY DEF Toward
<1>2. ASSUME NEW x \in S, NEW d \in Sides PROVE Under(T, S, at2, D, x, d)
  <2>1. D[x] \subseteq S /\ Under(T, S, at, D, x, d)
    BY DEF Shape
  <2> QED BY <1>1, <2>1 DEF Under
<1> QED BY <1>2 DEF Shape

\* U is a balanced tree of the nodes but n, which keep their keys.
Deleted(U, T, S, at, n) ==
  /\ \A z \in S \ {n} : U.key[z] = T.key[z]
  /\ \E D, bh : Shape(U, S \ {n}, at, D) /\ Even(U, S \ {n}, bh, {})
  /\ FewRed(U, S \ {n}, Null)

\* A node that was unlinked by way of a red one: the tree is right.
LEMMA UnlinkedRed ==
  ASSUME NEW V, NEW T, NEW S, NEW at, NEW n, NEW x, Unlinked(V, T, S, at, n, x, TRUE)
  PROVE  Deleted(V, T, S, at, n)
<1>1. PICK E, h, K : Lacking(V, S \ {n}, at, E, h, x, K) /\ (K = {} <=> TRUE)
  BY DEF Unlinked
<1>2. K = {} /\ x \notin V.red /\ \A z \in S \ {n} : V.key[z] = T.key[z]
  BY <1>1 DEF Unlinked
<1>3. Shape(V, S \ {n}, at, E) /\ NearRed(V, S \ {n}, x) /\ Even(V, S \ {n}, h, {})
  BY <1>1, <1>2 DEF Lacking
<1>4. FewRed(V, S \ {n}, Null)
  BY <1>2, <1>3 DEF NearRed, FewRed
<1> QED BY <1>2, <1>3, <1>4 DEF Deleted

\* By way of a black one: the fixup makes it right.
LEMMA UnlinkedBlack ==
  ASSUME NEW V, NEW T, NEW S, NEW at, NEW n, NEW x, Unlinked(V, T, S, at, n, x, FALSE)
  PROVE  Deleted(DeleteFixup(V, x), T, S, at, n)
<1> DEFINE U == DeleteFixup(V, x)
<1>1. PICK E, h, K : Lacking(V, S \ {n}, at, E, h, x, K) /\ (K = {} <=> FALSE)
  BY DEF Unlinked
<1>2. DeleteGood(V, S \ {n}, at, E, h, x, K)
  BY <1>1 DEF DeleteGood
<1>3. /\ U.key = V.key
      /\ \E F, g : Shape(U, S \ {n}, at, F) /\ Even(U, S \ {n}, g, {}) /\ FewRed(U, S \ {n}, Null)
  BY <1>2, DeleteFixupOK
<1>4. \A z \in S \ {n} : V.key[z] = T.key[z]
  BY DEF Unlinked
<1> HIDE DEF U
<1> QED BY <1>3, <1>4 DEF Deleted, U

\* What the nodes of the tree do not see.
LEMMA AgreeGood ==
  ASSUME NEW T, NEW S, NEW at, NEW D, NEW bh, Shape(T, S, at, D), Even(T, S, bh, {}), FewRed(T, S, Null),
         NEW U, NEW x, Agree(T, U, S, x)
  PROVE  Shape(U, S, at, D) /\ Even(U, S, bh, {}) /\ FewRed(U, S, Null)
<1>1. /\ U \in Trees /\ U.root = T.root /\ U.red = T.red
      /\ \A e \in Sides, z \in S : U.child[e][z] = T.child[e][z]
      /\ \A z \in S : U.parent[z] = T.parent[z]
  BY DEF Agree
<1>2. ASSUME NEW a \in S, NEW e \in Sides PROVE Under(U, S, at, D, a, e)
  BY <1>1 DEF Shape, Under
<1>3. Shape(U, S, at, D)
  BY <1>1, <1>2 DEF Shape
<1>4. Even(U, S, bh, {})
  BY <1>1 DEF Even
<1>5. FewRed(U, S, Null)
  BY <1>1 DEF FewRed
<1> QED BY <1>3, <1>4, <1>5

\* The root leaves, and its only child, if it has one, takes its place.
LEMMA DeleteRoot ==
  ASSUME NEW T, NEW S, NEW at, NEW D, Shape(T, S, at, D), NEW bh, Even(T, S, bh, {}), FewRed(T, S, Null),
         NEW n, NEW f, NEW x, OneChild(T, S, n, f, x), n = T.root
  PROVE  Deleted(Forget(Black([T EXCEPT !.root = x], x), n), T, S, at, n)
<1> DEFINE A == [T EXCEPT !.root = x]
           B == Black(A, x)
           U == Forget(B, n)
           S2 == S \ {n}
           D2 == Without(S, D, n)
<1>1. x \in Ends /\ x # n /\ n \in S /\ n # Sentinel /\ T \in Trees /\ S \subseteq Nodes /\ n \in Nodes
      /\ S \subseteq Ends
  <2>1. x \in Ends /\ x # n /\ n \in S /\ n # Sentinel
    BY OneChildOK
  <2>2. T \in Trees /\ S \subseteq Nodes
    BY DEF Shape
  <2> QED BY <2>1, <2>2, EndsOK
<1>2. /\ A \in Trees /\ A.root = x /\ A.child = T.child /\ A.parent = T.parent /\ A.key = T.key
      /\ A.red = T.red
  BY <1>1, SetRootOK
<1> HIDE DEF A
<1>3. \A e \in Sides, z \in S : T.child[e][z] # n
  <2> TAKE e \in Sides, z \in S
  <2>1. T.child[e][z] # Sentinel => T.child[e][z] # T.root
    BY OneParent
  <2> QED BY <1>1, <2>1
<1>4. Spliced(T, A, S, n, x)
  BY <1>2, <1>3 DEF Spliced
<1>5. Lacking(A, S2, at, D2, bh, x, {})
  <2>1. Lacking(A, S \ {n}, at, Without(S, D, n), bh, x,
                IF n = T.root \/ n \in T.red THEN {} ELSE {<<T.parent[n], SideOf(T, n)>>})
    BY <1>2, <1>4, SpliceLacking, Zenon
  <2> QED BY <2>1
<1> HIDE DEF D2
<1>6. DeleteGood(A, S2, at, D2, bh, x, {}) /\ DeleteStops(A, x)
  BY <1>2, <1>5 DEF DeleteGood, DeleteStops
<1>7. PICK h : B.key = A.key /\ Shape(B, S2, at, D2) /\ Even(B, S2, h, {}) /\ FewRed(B, S2, Null)
  BY <1>6, BlackenOK
<1>8. B \in Trees
  BY <1>7 DEF Shape
<1> HIDE DEF B
<1>9. /\ U \in Trees /\ U.root = B.root /\ U.red = B.red
      /\ \A e \in Sides, z \in Nodes : z # n => U.child[e][z] = B.child[e][z]
      /\ \A z \in Ends : z # n => U.parent[z] = B.parent[z]
      /\ \A z \in Nodes : z # n => U.key[z] = B.key[z]
  BY <1>1, <1>8, ForgetOK
<1> HIDE DEF U
<1>10. Agree(B, U, S2, x)
  BY <1>1, <1>9 DEF Agree
<1>11. Shape(U, S2, at, D2) /\ Even(U, S2, h, {}) /\ FewRed(U, S2, Null)
  BY <1>7, <1>10, AgreeGood
<1>12. \A z \in S2 : U.key[z] = T.key[z]
  BY <1>1, <1>2, <1>7, <1>9
<1> QED BY <1>11, <1>12 DEF Deleted, U, B, A

\* Both fixups apart, rbtree_delete() takes the node out.
LEMMA Deletes ==
  ASSUME NEW T, NEW S, NEW at, NEW D, Shape(T, S, at, D), NEW bh, Even(T, S, bh, {}), FewRed(T, S, Null),
         NEW n \in S
  PROVE  Deleted(RbtreeDelete(T, n), T, S, at, n)
<1> DEFINE l == T.child["left"][n]
           r == T.child["right"][n]
           U == RbtreeDelete(T, n)
<1>1. "left" \in Sides /\ "right" \in Sides /\ Other("left") = "right" /\ Other("right") = "left"
  BY DEF Sides, Other
<1>2. CASE l = Sentinel \/ r = Sentinel
  <2> DEFINE x == IF l # Sentinel THEN l ELSE r
             f == IF l # Sentinel THEN "right" ELSE "left"
  <2>1. OneChild(T, S, n, f, x)
    BY <1>1, <1>2 DEF OneChild
  <2>2. U = IF n = T.root THEN Forget(Black([T EXCEPT !.root = x], x), n)
            ELSE IF n \in T.red THEN Unlink(T, n, n, x) ELSE DeleteFixup(Unlink(T, n, n, x), x)
    BY <1>2 DEF RbtreeDelete
  <2> HIDE DEF x, f, U
  <2>3. CASE n = T.root
    BY <2>1, <2>2, <2>3, DeleteRoot DEF U
  <2>4. CASE n # T.root
    <3>1. Unlinked(Unlink(T, n, n, x), T, S, at, n, x, n \in T.red)
      BY <2>1, <2>4, UnlinkOne
    <3>2. CASE n \in T.red
      <4>1. (n \in T.red) = TRUE
        BY <3>2
      <4>2. Unlinked(Unlink(T, n, n, x), T, S, at, n, x, TRUE)
        BY <3>1, <4>1
      <4> QED BY <2>2, <2>4, <3>2, <4>2, UnlinkedRed DEF U
    <3>3. CASE n \notin T.red
      <4>1. (n \in T.red) = FALSE
        BY <3>3
      <4>2. Unlinked(Unlink(T, n, n, x), T, S, at, n, x, FALSE)
        BY <3>1, <4>1
      <4> QED BY <2>2, <2>4, <3>3, <4>2, UnlinkedBlack DEF U
    <3> QED BY <3>2, <3>3
  <2> QED BY <2>3, <2>4
<1>3. CASE l # Sentinel /\ r # Sentinel
  <2> DEFINE s == RbtreeMin(T, r)
             x == T.child["right"][s]
  <2>1. /\ T.child["left"][s] = Sentinel /\ s # n /\ s # T.root
        /\ Unlinked(Unlink(T, n, s, x), T, S, at, n, x, s \in T.red)
    BY <1>3, UnlinkTwo
  <2>2. U = IF s \in T.red THEN Unlink(T, n, s, x) ELSE DeleteFixup(Unlink(T, n, s, x), x)
    <3>1. ~(Sentinel \in {l, r})
      BY <1>3
    <3> QED BY <2>1, <3>1 DEF RbtreeDelete
  <2> HIDE DEF x, s, U
  <2>3. CASE s \in T.red
    <3>1. (s \in T.red) = TRUE
      BY <2>3
    <3>2. Unlinked(Unlink(T, n, s, x), T, S, at, n, x, TRUE)
      BY <2>1, <3>1
    <3> QED BY <2>2, <2>3, <3>2, UnlinkedRed DEF U
  <2>4. CASE s \notin T.red
    <3>1. (s \in T.red) = FALSE
      BY <2>4
    <3>2. Unlinked(Unlink(T, n, s, x), T, S, at, n, x, FALSE)
      BY <2>1, <3>1
    <3> QED BY <2>2, <2>4, <3>2, UnlinkedBlack DEF U
  <2> QED BY <2>3, <2>4
<1> QED BY <1>2, <1>3

\* rbtree_delete() leaves a red-black tree of the other nodes, in the same order.
LEMMA DeleteOK ==
  ASSUME NEW T, NEW S, NEW at, TreeGood(T, S, at), NEW n \in S
  PROVE  LET U == RbtreeDelete(T, n)
         IN  /\ \A z \in S \ {n} : U.key[z] = T.key[z]
             /\ TreeGood(U, S \ {n}, DeleteAt(S, at, n))
<1> DEFINE U == RbtreeDelete(T, n)
           S2 == S \ {n}
           at2 == DeleteAt(S, at, n)
<1>1. PICK D, bh : Shape(T, S, at, D) /\ Even(T, S, bh, {})
  BY DEF TreeGood
<1>2. FewRed(T, S, Null) /\ Listing(S, at) /\ InKeyOrder(T, S, at) /\ IsFiniteSet(S)
  BY <1>1, Finite DEF TreeGood
<1>3. Deleted(U, T, S, at, n)
  BY <1>1, <1>2, Deletes
<1>4. Listing(S2, at2) /\ IsFiniteSet(S2) /\ \A y, z \in S2 : at2[y] < at2[z] <=> at[y] < at[z]
  BY <1>2, DeleteAtOK
<1> HIDE DEF U, at2
<1>5. PICK E, h : Shape(U, S2, at, E) /\ Even(U, S2, h, {})
  BY <1>3 DEF Deleted
<1>6. FewRed(U, S2, Null) /\ \A z \in S2 : U.key[z] = T.key[z]
  BY <1>3 DEF Deleted
<1>7. Ordered(S2, at2)
  BY <1>4, ListingOK
<1>8. Shape(U, S2, at2, E)
  BY <1>4, <1>5, <1>7, Reordered
<1>9. InKeyOrder(U, S2, at2)
  BY <1>2, <1>4, <1>6 DEF InKeyOrder
<1>10. TreeGood(U, S2, at2)
  BY <1>4, <1>5, <1>6, <1>8, <1>9 DEF TreeGood
<1> QED BY <1>6, <1>10 DEF U, at2

-----------------------------------------------------------------------------
(* The list of a tree. *)

\* The entries of the list.
Entries == [node : Nodes, key : Keys]

\* L has the nodes of S with their keys, each at its place.
Records(L, T, S, at) ==
  L \in Seq(Entries) /\ Len(L) = Cardinality(S) /\ \A x \in S : L[at[x]] = [node |-> x, key |-> T.key[x]]

\* M has one entry more than L, behind the first p.
OneMore(E, L, M, e, p) ==
  /\ L \in Seq(E) /\ M \in Seq(E) /\ e \in E /\ p \in 0..Len(L) /\ Len(M) = Len(L) + 1 /\ M[p + 1] = e
  /\ \A j \in 1..Len(L) : IF j <= p THEN M[j] = L[j] ELSE M[j + 1] = L[j]

\* It is what SortedList says of an insertion.
LEMMA InsertSeq ==
  ASSUME NEW E, NEW L, NEW M, NEW e, NEW p, OneMore(E, L, M, e, p)
  PROVE  M = SubSeq(L, 1, p) \o <<e>> \o SubSeq(L, p + 1, Len(L))
<1> DEFINE N == Len(L)
           A == SubSeq(L, 1, p)
           B == <<e>>
           C == SubSeq(L, p + 1, N)
           AB == A \o B
           R == AB \o C
<1>0. /\ L \in Seq(E) /\ M \in Seq(E) /\ e \in E /\ p \in 0..Len(L) /\ Len(M) = Len(L) + 1 /\ M[p + 1] = e
      /\ \A j \in 1..Len(L) : IF j <= p THEN M[j] = L[j] ELSE M[j + 1] = L[j]
  BY DEF OneMore
<1> USE <1>0
<1>1. N \in Nat /\ p \in Int /\ p + 1 \in Int /\ 0 <= p /\ p <= N
  BY LenProperties
<1>2. \A i \in 1..N : L[i] \in E
  BY ElementOfSeq
<1>3. A \in Seq(E) /\ Len(A) = p /\ \A i \in 1..p : A[i] = L[i]
  <2>1. \A i \in 1..p : L[i] \in E
    BY <1>1, <1>2
  <2>2. /\ A \in Seq(E) /\ Len(A) = IF 1 <= p THEN p - 1 + 1 ELSE 0
        /\ \A i \in 1..(p - 1 + 1) : A[i] = L[1 + i - 1]
    BY <1>1, <2>1, SubSeqProperties
  <2> HIDE DEF A
  <2> QED BY <1>1, <2>2
<1>4. B \in Seq(E) /\ Len(B) = 1 /\ B[1] = e
  OBVIOUS
<1>5. C \in Seq(E) /\ Len(C) = N - p /\ \A i \in 1..(N - p) : C[i] = L[p + i]
  <2>1. \A i \in (p + 1)..N : L[i] \in E
    BY <1>1, <1>2
  <2>2. /\ C \in Seq(E) /\ Len(C) = IF p + 1 <= N THEN N - (p + 1) + 1 ELSE 0
        /\ \A i \in 1..(N - (p + 1) + 1) : C[i] = L[(p + 1) + i - 1]
    BY <1>1, <2>1, SubSeqProperties
  <2> HIDE DEF C
  <2>3. N - (p + 1) + 1 = N - p /\ \A i \in 1..(N - p) : (p + 1) + i - 1 = p + i
    BY <1>1
  <2>4. Len(C) = N - p
    <3>1. CASE p + 1 <= N
      BY <2>2, <2>3, <3>1
    <3>2. CASE ~(p + 1 <= N)
      <4>1. N - p = 0
        BY <1>1, <3>2
      <4> QED BY <2>2, <3>2, <4>1
    <3> QED BY <3>1, <3>2
  <2>5. \A i \in 1..(N - p) : C[i] = L[(p + 1) + i - 1]
    BY <2>2, <2>3, Zenon
  <2> QED BY <2>2, <2>3, <2>4, <2>5, Zenon
<1> HIDE DEF A, B, C, N
<1>6. AB \in Seq(E) /\ Len(AB) = p + 1 /\ \A i \in 1..(p + 1) : AB[i] = IF i <= p THEN A[i] ELSE B[i - p]
  <2>1. /\ AB \in Seq(E) /\ Len(AB) = Len(A) + Len(B)
        /\ \A i \in 1..(Len(A) + Len(B)) : AB[i] = IF i <= Len(A) THEN A[i] ELSE B[i - Len(A)]
    BY <1>3, <1>4, ConcatProperties
  <2> HIDE DEF AB
  <2> QED BY <1>3, <1>4, <2>1
<1> HIDE DEF AB
<1>7. /\ R \in Seq(E) /\ Len(R) = N + 1
      /\ \A i \in 1..(N + 1) : R[i] = IF i <= p + 1 THEN AB[i] ELSE C[i - (p + 1)]
  <2>1. /\ R \in Seq(E) /\ Len(R) = Len(AB) + Len(C)
        /\ \A i \in 1..(Len(AB) + Len(C)) : R[i] = IF i <= Len(AB) THEN AB[i] ELSE C[i - Len(AB)]
    BY <1>5, <1>6, ConcatProperties
  <2> HIDE DEF R
  <2>2. Len(AB) = p + 1 /\ Len(AB) + Len(C) = N + 1
    BY <1>1, <1>5, <1>6
  <2> QED BY <2>1, <2>2
<1> HIDE DEF R
<1>8. Len(M) = N + 1 /\ \A j \in 1..N : IF j <= p THEN M[j] = L[j] ELSE M[j + 1] = L[j]
  BY DEF N
<1>9. ASSUME NEW i \in 1..(N + 1) PROVE M[i] = R[i]
  <2>1. CASE i <= p
    <3>1. R[i] = L[i] /\ i \in 1..N
      BY <1>1, <1>3, <1>6, <1>7, <2>1
    <3> QED BY <1>8, <2>1, <3>1
  <2>2. CASE i = p + 1
    <3>1. R[i] = AB[i] /\ AB[i] = B[1]
      <4>1. i \in 1..(p + 1) /\ ~(i <= p) /\ i - p = 1 /\ i <= p + 1
        BY <1>1, <2>2
      <4> QED BY <1>6, <1>7, <4>1
    <3> QED BY <1>4, <2>2, <3>1
  <2>3. CASE p + 1 < i
    <3>0. i \in Int /\ 1 <= i /\ i <= N + 1
      BY <1>1
    <3>1. i - 1 \in 1..N /\ ~(i - 1 <= p) /\ (i - 1) + 1 = i /\ i - (p + 1) \in 1..(N - p) /\ ~(i <= p + 1)
          /\ p + (i - (p + 1)) = i - 1
      <4> HIDE <1>0
      <4> QED BY <1>1, <2>3, <3>0
    <3>2. M[i] = L[i - 1]
      BY <1>8, <3>1
    <3>3. R[i] = C[i - (p + 1)]
      BY <1>7, <3>1
    <3>4. C[i - (p + 1)] = L[p + (i - (p + 1))]
      BY <1>5, <3>1
    <3> QED BY <3>1, <3>2, <3>3, <3>4
  <2> QED BY <1>1, <2>1, <2>2, <2>3
<1>10. M = R
  <2>1. Len(M) = Len(R) /\ \A i \in 1..Len(M) : M[i] = R[i]
    BY <1>7, <1>8, <1>9
  <2> QED BY <1>7, <2>1, SeqEqual
<1> QED BY <1>10 DEF R, AB, A, B, C, N

\* M lacks the entry p of L.
OneLess(E, L, M, p) ==
  /\ L \in Seq(E) /\ M \in Seq(E) /\ p \in 1..Len(L) /\ Len(M) = Len(L) - 1
  /\ \A j \in 1..Len(L) : (j < p => M[j] = L[j]) /\ (p < j => M[j - 1] = L[j])

\* It is what SortedList says of a deletion.
LEMMA DeleteSeq ==
  ASSUME NEW E, NEW L, NEW M, NEW p, OneLess(E, L, M, p)
  PROVE  M = SubSeq(L, 1, p - 1) \o SubSeq(L, p + 1, Len(L))
<1> DEFINE N == Len(L)
           A == SubSeq(L, 1, p - 1)
           C == SubSeq(L, p + 1, N)
           R == A \o C
<1>0. /\ L \in Seq(E) /\ M \in Seq(E) /\ p \in 1..Len(L) /\ Len(M) = Len(L) - 1
      /\ \A j \in 1..Len(L) : (j < p => M[j] = L[j]) /\ (p < j => M[j - 1] = L[j])
  BY DEF OneLess
<1> USE <1>0
<1>1. N \in Nat /\ p \in Int /\ p + 1 \in Int /\ p - 1 \in Int /\ 1 <= p /\ p <= N
  BY LenProperties
<1>2. \A i \in 1..N : L[i] \in E
  BY ElementOfSeq
<1>3. A \in Seq(E) /\ Len(A) = p - 1 /\ \A i \in 1..(p - 1) : A[i] = L[i]
  <2>1. \A i \in 1..(p - 1) : L[i] \in E
    BY <1>1, <1>2
  <2>2. /\ A \in Seq(E) /\ Len(A) = IF 1 <= p - 1 THEN (p - 1) - 1 + 1 ELSE 0
        /\ \A i \in 1..((p - 1) - 1 + 1) : A[i] = L[1 + i - 1]
    BY <1>1, <2>1, SubSeqProperties
  <2> HIDE DEF A
  <2>3. (p - 1) - 1 + 1 = p - 1 /\ \A i \in 1..(p - 1) : 1 + i - 1 = i
    BY <1>1
  <2> QED BY <1>1, <2>2, <2>3
<1>5. C \in Seq(E) /\ Len(C) = N - p /\ \A i \in 1..(N - p) : C[i] = L[p + i]
  <2>1. \A i \in (p + 1)..N : L[i] \in E
    BY <1>1, <1>2
  <2>2. /\ C \in Seq(E) /\ Len(C) = IF p + 1 <= N THEN N - (p + 1) + 1 ELSE 0
        /\ \A i \in 1..(N - (p + 1) + 1) : C[i] = L[(p + 1) + i - 1]
    BY <1>1, <2>1, SubSeqProperties
  <2> HIDE DEF C
  <2>3. N - (p + 1) + 1 = N - p /\ \A i \in 1..(N - p) : (p + 1) + i - 1 = p + i
    BY <1>1
  <2>4. Len(C) = N - p
    <3>1. CASE p + 1 <= N
      BY <2>2, <2>3, <3>1
    <3>2. CASE ~(p + 1 <= N)
      <4>1. N - p = 0
        BY <1>1, <3>2
      <4> QED BY <2>2, <3>2, <4>1
    <3> QED BY <3>1, <3>2
  <2>5. \A i \in 1..(N - p) : C[i] = L[(p + 1) + i - 1]
    BY <2>2, <2>3
  <2> QED BY <2>2, <2>3, <2>4, <2>5
<1> HIDE DEF A, C, N
<1>7. /\ R \in Seq(E) /\ Len(R) = N - 1
      /\ \A i \in 1..(N - 1) : R[i] = IF i <= p - 1 THEN A[i] ELSE C[i - (p - 1)]
  <2>1. /\ R \in Seq(E) /\ Len(R) = Len(A) + Len(C)
        /\ \A i \in 1..(Len(A) + Len(C)) : R[i] = IF i <= Len(A) THEN A[i] ELSE C[i - Len(A)]
    BY <1>3, <1>5, ConcatProperties
  <2> HIDE DEF R
  <2>2. Len(A) = p - 1 /\ Len(A) + Len(C) = N - 1
    BY <1>1, <1>3, <1>5
  <2> QED BY <2>1, <2>2
<1> HIDE DEF R
<1>8. Len(M) = N - 1 /\ \A j \in 1..N : (j < p => M[j] = L[j]) /\ (p < j => M[j - 1] = L[j])
  BY DEF N
<1>9. ASSUME NEW i \in 1..(N - 1) PROVE M[i] = R[i]
  <2>1. CASE i <= p - 1
    <3>1. i \in 1..N /\ i < p /\ i \in 1..(p - 1)
      BY <1>1, <2>1
    <3>2. R[i] = L[i]
      BY <1>3, <1>7, <2>1, <3>1
    <3> QED BY <1>8, <3>1, <3>2
  <2>2. CASE ~(i <= p - 1)
    <3>1. i + 1 \in 1..N /\ p < i + 1 /\ (i + 1) - 1 = i /\ i - (p - 1) \in 1..(N - p)
          /\ p + (i - (p - 1)) = i + 1
      BY <1>1, <2>2
    <3>2. M[i] = L[i + 1]
      BY <1>8, <3>1
    <3>3. R[i] = C[i - (p - 1)]
      BY <1>7, <2>2
    <3>4. C[i - (p - 1)] = L[p + (i - (p - 1))]
      BY <1>5, <3>1
    <3> QED BY <3>1, <3>2, <3>3, <3>4
  <2> QED BY <2>1, <2>2
<1>10. M = R
  <2>1. Len(M) = Len(R) /\ \A i \in 1..Len(M) : M[i] = R[i]
    BY <1>7, <1>8, <1>9
  <2> QED BY <1>7, <2>1, SeqEqual
<1> QED BY <1>10 DEF R, A, C, N

\* The list of a tree that has got a node more.
LEMMA InsertList ==
  ASSUME NEW S, S \subseteq Nodes, IsFiniteSet(S), NEW at, Listing(S, at), NEW T, NEW L, Records(L, T, S, at),
         NEW n \in Nodes, n \notin S, NEW k \in Keys, NEW p \in 0..Cardinality(S),
         NEW U, U.key[n] = k, \A z \in S : U.key[z] = T.key[z],
         NEW M, Records(M, U, S \cup {n}, InsertAt(S, at, n, p))
  PROVE  M = SubSeq(L, 1, p) \o <<[node |-> n, key |-> k]>> \o SubSeq(L, p + 1, Len(L))
<1> DEFINE at2 == InsertAt(S, at, n, p)
           e == [node |-> n, key |-> k]
<1>1. L \in Seq(Entries) /\ Len(L) = Cardinality(S) /\ \A x \in S : L[at[x]] = [node |-> x, key |-> T.key[x]]
  BY DEF Records
<1>2. /\ M \in Seq(Entries) /\ Len(M) = Cardinality(S \cup {n})
      /\ \A x \in S \cup {n} : M[at2[x]] = [node |-> x, key |-> U.key[x]]
  BY DEF Records
<1>3. Cardinality(S \cup {n}) = Cardinality(S) + 1
  BY InsertAtOK
<1>4. at2[n] = p + 1 /\ \A z \in S : at2[z] = IF at[z] <= p THEN at[z] ELSE at[z] + 1
  BY DEF InsertAt
<1> HIDE DEF at2
<1>5. e \in Entries
  BY DEF Entries
<1>6. M[p + 1] = e
  <2>1. M[at2[n]] = [node |-> n, key |-> U.key[n]]
    BY <1>2
  <2> QED BY <1>4, <2>1
<1>7. ASSUME NEW j \in 1..Len(L) PROVE IF j <= p THEN M[j] = L[j] ELSE M[j + 1] = L[j]
  <2>1. PICK x \in S : at[x] = j
    BY <1>1 DEF Listing
  <2>2. M[at2[x]] = [node |-> x, key |-> T.key[x]] /\ L[j] = [node |-> x, key |-> T.key[x]]
    <3>1. M[at2[x]] = [node |-> x, key |-> U.key[x]] /\ U.key[x] = T.key[x]
      BY <1>2, <2>1
    <3>2. L[at[x]] = [node |-> x, key |-> T.key[x]]
      BY <1>1, <2>1
    <3> QED BY <2>1, <3>1, <3>2
  <2>3. at2[x] = IF j <= p THEN j ELSE j + 1
    BY <1>4, <2>1
  <2>4. M[at2[x]] = L[j]
    BY <2>2
  <2> QED BY <2>3, <2>4
<1> HIDE DEF e
<1>8. M = SubSeq(L, 1, p) \o <<e>> \o SubSeq(L, p + 1, Len(L))
  <2>1. p \in 0..Len(L) /\ Len(M) = Len(L) + 1
    BY <1>1, <1>2, <1>3
  <2>2. L \in Seq(Entries) /\ M \in Seq(Entries)
    BY <1>1, <1>2
  <2>3. OneMore(Entries, L, M, e, p)
    BY <1>5, <1>6, <1>7, <2>1, <2>2 DEF OneMore
  <2> QED BY <2>3, InsertSeq
<1> QED BY <1>8 DEF e

\* The list of a tree that has lost a node.
LEMMA DeleteList ==
  ASSUME NEW S, S \subseteq Nodes, IsFiniteSet(S), NEW at, Listing(S, at), NEW T, NEW L, Records(L, T, S, at),
         NEW n \in S, NEW U, \A z \in S \ {n} : U.key[z] = T.key[z],
         NEW M, Records(M, U, S \ {n}, DeleteAt(S, at, n))
  PROVE  M = SubSeq(L, 1, at[n] - 1) \o SubSeq(L, at[n] + 1, Len(L))
<1> DEFINE at2 == DeleteAt(S, at, n)
           p == at[n]
<1>1. L \in Seq(Entries) /\ Len(L) = Cardinality(S) /\ \A x \in S : L[at[x]] = [node |-> x, key |-> T.key[x]]
  BY DEF Records
<1>2. /\ M \in Seq(Entries) /\ Len(M) = Cardinality(S \ {n})
      /\ \A x \in S \ {n} : M[at2[x]] = [node |-> x, key |-> U.key[x]]
  BY DEF Records
<1>3. Cardinality(S \ {n}) = Cardinality(S) - 1
  BY DeleteAtOK
<1>4. \A z \in S \ {n} : at2[z] = IF at[z] < p THEN at[z] ELSE at[z] - 1
  BY DEF DeleteAt
<1>5. p \in 1..Len(L) /\ p \in Int
  <2>1. at[n] \in 1..Cardinality(S)
    BY DEF Listing
  <2> QED BY <1>1, <2>1
<1> HIDE DEF at2
<1>6. ASSUME NEW j \in 1..Len(L), j # p PROVE (j < p => M[j] = L[j]) /\ (p < j => M[j - 1] = L[j])
  <2>1. PICK x \in S : at[x] = j
    BY <1>1 DEF Listing
  <2>2. x \in S \ {n}
    BY <1>6, <2>1
  <2>3. M[at2[x]] = [node |-> x, key |-> T.key[x]] /\ L[j] = [node |-> x, key |-> T.key[x]]
    <3>1. M[at2[x]] = [node |-> x, key |-> U.key[x]] /\ U.key[x] = T.key[x]
      BY <1>2, <2>2
    <3>2. L[at[x]] = [node |-> x, key |-> T.key[x]]
      BY <1>1, <2>1
    <3> QED BY <2>1, <3>1, <3>2
  <2>4. at2[x] = IF j < p THEN j ELSE j - 1
    BY <1>4, <2>1, <2>2
  <2>5. M[at2[x]] = L[j]
    BY <2>3
  <2>6. p < j => ~(j < p)
    BY <1>5
  <2> QED BY <2>4, <2>5, <2>6
<1> HIDE DEF p
<1>7. M = SubSeq(L, 1, p - 1) \o SubSeq(L, p + 1, Len(L))
  <2>1. Len(M) = Len(L) - 1
    BY <1>1, <1>2, <1>3
  <2>2. \A j \in 1..Len(L) : (j < p => M[j] = L[j]) /\ (p < j => M[j - 1] = L[j])
    BY <1>5, <1>6
  <2>3. L \in Seq(Entries) /\ M \in Seq(Entries) /\ p \in 1..Len(L)
    BY <1>1, <1>2, <1>5
  <2>4. OneLess(Entries, L, M, p)
    BY <2>1, <2>2, <2>3 DEF OneLess
  <2> QED BY <2>4, DeleteSeq
<1> QED BY <1>7 DEF p

\* RBTree.List, for any tree.
ListOf(T) == LET order == InOrder(T) IN [i \in 1..Len(order) |-> [node |-> order[i], key |-> T.key[order[i]]]]

\* The entries of the list are the nodes in order.
LEMMA ListOfOK ==
  ASSUME NEW T, NEW S, NEW at, TreeGood(T, S, at)
  PROVE  Records(ListOf(T), T, S, at)
<1> DEFINE q == InOrder(T)
           L == ListOf(T)
<1>1. PICK D, bh : Shape(T, S, at, D) /\ Even(T, S, bh, {})
  BY DEF TreeGood
<1>2. Listing(S, at) /\ S \subseteq Nodes /\ T \in Trees /\ IsFiniteSet(S)
  BY <1>1, Finite DEF TreeGood, Shape
<1>3. q \in Seq(S) /\ Len(q) = Cardinality(S) /\ \A x \in S : q[at[x]] = x
  BY <1>1, <1>2, InOrderOK
<1>4. L = [i \in 1..Len(q) |-> [node |-> q[i], key |-> T.key[q[i]]]]
  BY DEF ListOf
<1> HIDE DEF q, L
<1>5. \A i \in 1..Len(q) : L[i] = [node |-> q[i], key |-> T.key[q[i]]] /\ L[i] \in Entries
  <2> TAKE i \in 1..Len(q)
  <2>1. q[i] \in S
    BY <1>3, ElementOfSeq
  <2>2. q[i] \in Nodes /\ T.key[q[i]] \in Keys
    BY <1>2, <2>1, TreeFields
  <2> QED BY <1>4, <2>2 DEF Entries
<1>6. Cardinality(S) \in Nat /\ \A x \in S : at[x] \in 1..Cardinality(S)
  BY <1>2, ListingOK
<1>7. L \in Seq(Entries) /\ Len(L) = Cardinality(S)
  <2>1. L = [i \in 1..Len(q) |-> L[i]]
    BY <1>4, <1>5
  <2>2. L \in [1..Len(q) -> Entries]
    BY <1>5, <2>1
  <2> QED BY <1>3, <1>6, <2>2
<1>8. \A x \in S : L[at[x]] = [node |-> x, key |-> T.key[x]]
  BY <1>3, <1>5, <1>6
<1> QED BY <1>7, <1>8 DEF Records, L

-----------------------------------------------------------------------------
(* The theorems. *)

\* Between any two calls the tree is a red-black tree of the linked nodes,
\* sorted by their keys.
TreeInv == linked \subseteq Nodes /\ \E at : TreeGood(t, linked, at)

\* An empty tree is one.
LEMMA InitTreeInv == TreeInit => TreeInv
<1> SUFFICES ASSUME TreeInit PROVE TreeInv
  OBVIOUS
<1> DEFINE at == [x \in {} |-> 0]
           D == [x \in {} |-> {}]
           bh == [x \in {Sentinel} |-> 0]
<1>1. t = EmptyTree /\ linked = {}
  BY DEF TreeInit
<1>2. /\ t \in Trees /\ t.root = Sentinel /\ t.red = {}
  <2>1. 0 \in Keys
    BY RedBlackAssumption DEF Keys, Circle
  <2>2. Nodes \cup {Sentinel} = Ends
    BY DEF Ends
  <2>3. [d \in Sides |-> [x \in Nodes |-> Null]] \in [Sides -> [Nodes -> Ends \cup {Null}]]
    OBVIOUS
  <2>4. [x \in Nodes \cup {Sentinel} |-> Null] \in [Ends -> Ends \cup {Null}]
    BY <2>2
  <2>5. [x \in Nodes |-> 0] \in [Nodes -> Keys]
    BY <2>1
  <2>6. Sentinel \in Ends
    BY DEF Ends
  <2> QED BY <1>1, <2>3, <2>4, <2>5, <2>6 DEF EmptyTree, Trees
<1>3. Shape(t, {}, at, D)
  BY <1>2 DEF Shape, Ordered
<1>4. Even(t, {}, bh, {})
  BY DEF Even
<1>5. FewRed(t, {}, Null)
  BY <1>2 DEF FewRed
<1>6. Listing({}, at)
  <2>1. Cardinality({}) = 0
    BY FS_EmptySet
  <2> QED BY <2>1 DEF Listing
<1>7. InKeyOrder(t, {}, at)
  BY DEF InKeyOrder
<1> HIDE DEF at, D, bh
<1>8. TreeGood(t, {}, at)
  BY <1>3, <1>4, <1>5, <1>6, <1>7 DEF TreeGood
<1> QED BY <1>1, <1>8 DEF TreeInv

\* What an insertion does to the tree and to its list.
LEMMA InsertStep ==
  ASSUME TreeInv, NEW n \in Nodes, NEW k \in Keys, Insert(n, k)
  PROVE  TreeInv' /\ Sorted!Insert(k)
<1>1. PICK at : TreeGood(t, linked, at)
  BY DEF TreeInv
<1>2. n \notin linked /\ t' = RbtreeInsert(t, n, k) /\ linked' = linked \cup {n} /\ linked \subseteq Nodes
  BY DEF Insert, TreeInv
<1>3. NearWith(t, linked, k)
  BY DEF Insert, NearWith, KeysOf
<1> DEFINE U == RbtreeInsert(t, n, k)
<1>4. U.key[n] = k /\ \A z \in linked : U.key[z] = t.key[z]
  BY <1>1, <1>2, <1>3, InsertOK
<1>5. PICK p \in 0..Cardinality(linked) :
        /\ \A z \in linked : at[z] <= p <=> ~(Signed(k, t.key[z]) < 0)
        /\ TreeGood(U, linked \cup {n}, InsertAt(linked, at, n, p))
  BY <1>1, <1>2, <1>3, InsertOK
<1> HIDE DEF U
<1>6. TreeInv'
  <2>1. t' = U /\ linked' \subseteq Nodes
    BY <1>2 DEF U
  <2> QED BY <1>2, <1>5, <2>1 DEF TreeInv
<1> DEFINE L == ListOf(t)
           M == ListOf(U)
           e == [node |-> n, key |-> k]
<1>7. Records(L, t, linked, at) /\ Records(M, U, linked \cup {n}, InsertAt(linked, at, n, p))
  BY <1>1, <1>5, ListOfOK
<1>8. Listing(linked, at) /\ IsFiniteSet(linked)
  BY <1>1, <1>2, RedBlackAssumption, FS_Subset DEF TreeGood
<1> HIDE DEF L, M
<1>9. M = SubSeq(L, 1, p) \o <<e>> \o SubSeq(L, p + 1, Len(L))
  BY <1>2, <1>4, <1>7, <1>8, InsertList
<1>10. List = L /\ List' = M
  BY <1>2 DEF List, Order, ListOf, L, M, U
<1>11. L \in Seq(Entries) /\ Len(L) = Cardinality(linked) /\ \A x \in linked : L[at[x]] = [node |-> x, key |-> t.key[x]]
  BY <1>7 DEF Records
<1>12. DOMAIN L = 1..Cardinality(linked) /\ p \in 0..Len(L)
  BY <1>11
<1>13. ASSUME NEW i \in DOMAIN L
       PROVE  L[i].node \in linked /\ (i <= p <=> <<k, L[i].key>> \notin Less)
  <2>1. PICK x \in linked : at[x] = i
    BY <1>8, <1>12, <1>13 DEF Listing
  <2>2. L[i].node = x /\ L[i].key = t.key[x]
    <3>1. L[i] = [node |-> x, key |-> t.key[x]]
      BY <1>11, <2>1
    <3> QED BY <3>1
  <2>3. t.key[x] \in Keys
    <3>1. t \in Trees
      BY <1>1 DEF TreeGood, Shape
    <3> QED BY <1>2, <3>1, TreeFields
  <2>4. <<k, t.key[x]>> \in Less <=> Signed(k, t.key[x]) < 0
    BY <2>3 DEF Less
  <2> QED BY <1>5, <2>1, <2>2, <2>4
<1>14. n \in Nodes \ Sorted!Members
  BY <1>2, <1>10, <1>13 DEF Sorted!Members
<1>15. Sorted!Insert(k)
  BY <1>9, <1>10, <1>12, <1>13, <1>14 DEF Sorted!Insert
<1> QED BY <1>6, <1>15

\* What a deletion does to the tree and to its list.
LEMMA DeleteStep ==
  ASSUME TreeInv, NEW n, Delete(n)
  PROVE  TreeInv' /\ Sorted!Delete
<1>1. PICK at : TreeGood(t, linked, at)
  BY DEF TreeInv
<1>2. n \in linked /\ t' = RbtreeDelete(t, n) /\ linked' = linked \ {n} /\ linked \subseteq Nodes
  BY DEF Delete, TreeInv
<1> DEFINE U == RbtreeDelete(t, n)
<1>3. /\ \A z \in linked \ {n} : U.key[z] = t.key[z]
      /\ TreeGood(U, linked \ {n}, DeleteAt(linked, at, n))
  BY <1>1, <1>2, DeleteOK
<1> HIDE DEF U
<1>4. TreeInv'
  <2>1. t' = U /\ linked' \subseteq Nodes
    BY <1>2 DEF U
  <2> QED BY <1>2, <1>3, <2>1 DEF TreeInv
<1> DEFINE L == ListOf(t)
           M == ListOf(U)
           i == at[n]
<1>5. Records(L, t, linked, at) /\ Records(M, U, linked \ {n}, DeleteAt(linked, at, n))
  BY <1>1, <1>3, ListOfOK
<1>6. Listing(linked, at) /\ IsFiniteSet(linked)
  BY <1>1, <1>2, RedBlackAssumption, FS_Subset DEF TreeGood
<1> HIDE DEF L, M
<1>7. M = SubSeq(L, 1, i - 1) \o SubSeq(L, i + 1, Len(L))
  BY <1>2, <1>3, <1>5, <1>6, DeleteList
<1>8. List = L /\ List' = M
  BY <1>2 DEF List, Order, ListOf, L, M, U
<1>9. i \in DOMAIN L
  <2>1. L \in Seq(Entries) /\ Len(L) = Cardinality(linked)
    BY <1>5 DEF Records
  <2>2. i \in 1..Cardinality(linked)
    BY <1>2, <1>6, ListingOK
  <2> QED BY <2>1, <2>2
<1> HIDE DEF i
<1>10. Sorted!Delete
  BY <1>7, <1>8, <1>9 DEF Sorted!Delete
<1> QED BY <1>4, <1>10

\* Every step keeps the invariant and is one of the sorted list.
LEMMA NextTreeInv == TreeInv /\ [TreeNext]_treeVars => TreeInv' /\ [Sorted!Next]_List
<1> SUFFICES ASSUME TreeInv, [TreeNext]_treeVars PROVE TreeInv' /\ [Sorted!Next]_List
  OBVIOUS
<1>1. ASSUME NEW n \in Nodes, Delete(n) PROVE TreeInv' /\ Sorted!Next
  BY <1>1, DeleteStep DEF Sorted!Next
<1>2. ASSUME NEW n \in Nodes, NEW k \in Keys, Insert(n, k) PROVE TreeInv' /\ Sorted!Next
  BY <1>2, InsertStep DEF Sorted!Next
<1>3. CASE UNCHANGED treeVars
  BY <1>3 DEF treeVars, TreeInv, List, Order
<1> QED BY <1>1, <1>2, <1>3 DEF TreeNext

\* rbtree_insert() and rbtree_delete() keep the whole invariant (rbtree.c:12-310).
THEOREM SpecTreeInv == TreeSpec => []TreeInv
BY InitTreeInv, NextTreeInv, PTL DEF TreeSpec

\* The links between the nodes are right (rbtree.c, all of it).
THEOREM SpecLinksOK == TreeSpec => []LinksOK
<1>1. TreeInv => LinksOK
  <2> SUFFICES ASSUME TreeInv PROVE LinksOK
    OBVIOUS
  <2>1. PICK at : TreeGood(t, linked, at)
    BY DEF TreeInv
  <2>2. PICK D, bh : Shape(t, linked, at, D) /\ Even(t, linked, bh, {})
    BY <2>1 DEF TreeGood
  <2>3. Listing(linked, at) /\ IsFiniteSet(linked)
    BY <2>1, <2>2, Finite DEF TreeGood
  <2> DEFINE q == Order
  <2>4. q \in Seq(linked) /\ Len(q) = Cardinality(linked) /\ \A x \in linked : q[at[x]] = x
    BY <2>2, <2>3, InOrderOK DEF Order
  <2> HIDE DEF q
  <2>5. \A x \in linked : at[x] \in DOMAIN q
    <3>1. \A x \in linked : at[x] \in 1..Cardinality(linked)
      BY <2>3, ListingOK
    <3> QED BY <2>4, <3>1
  <2>6. {q[i] : i \in DOMAIN q} = linked
    <3>1. \A i \in DOMAIN q : q[i] \in linked
      BY <2>4
    <3> QED BY <2>4, <2>5, <3>1
  <2>7. ASSUME NEW x \in linked, NEW y \in Kids(x) PROVE t.parent[y] = x
    <3>1. PICK d \in Sides : y = t.child[d][x] /\ y # Sentinel
      BY <2>7 DEF Kids
    <3> QED BY <2>2, <3>1, ChildOK
  <2> QED BY <2>4, <2>6, <2>7 DEF LinksOK, q
<1> QED BY <1>1, SpecTreeInv, PTL

\* The tree is balanced (rbtree.c:34-78, 240-303).
THEOREM SpecRedBlackOK == TreeSpec => []RedBlackOK
<1>1. TreeInv => RedBlackOK
  <2> SUFFICES ASSUME TreeInv PROVE RedBlackOK
    OBVIOUS
  <2>1. PICK at : TreeGood(t, linked, at)
    BY DEF TreeInv
  <2>2. PICK D, bh : Shape(t, linked, at, D) /\ Even(t, linked, bh, {})
    BY <2>1 DEF TreeGood
  <2>3. FewRed(t, linked, Null)
    BY <2>1 DEF TreeGood
  <2>4. t.root \in Ends /\ Sentinel \notin t.red
    <3>1. t \in Trees
      BY <2>2 DEF Shape
    <3> QED BY <3>1, TreeFields
  <2>5. t.root \notin t.red
    BY <2>3, <2>4, EndsOK DEF FewRed
  <2>6. ASSUME NEW x \in t.red \cap linked, NEW y \in Kids(x) \cap t.red PROVE FALSE
    <3>1. PICK d \in Sides : y = t.child[d][x]
      BY <2>6 DEF Kids
    <3>2. y \in Ends
      BY <2>2, <3>1, ChildOK
    <3>3. y = Null
      BY <2>3, <2>6, <3>1 DEF FewRed
    <3> QED BY <3>2, <3>3, EndsOK
  <2>7. BlackHeight(t) # -1
    BY <2>2, BlackHeightOK
  <2> QED BY <2>4, <2>5, <2>6, <2>7 DEF RedBlackOK
<1> QED BY <1>1, SpecTreeInv, PTL

\* rbtree_min() and rbtree_next() walk the list (event_timer.c uses them so).
THEOREM SpecNextWalks == TreeSpec => []NextWalks
<1>1. TreeInv => NextWalks
  <2> SUFFICES ASSUME TreeInv, t.root # Sentinel
               PROVE  /\ RbtreeMin(t, t.root) = Order[1]
                      /\ \A i \in DOMAIN Order :
                           RbtreeNext(t, Order[i]) = IF i = Len(Order) THEN Null ELSE Order[i + 1]
    BY DEF NextWalks
  <2>1. PICK at : TreeGood(t, linked, at)
    BY DEF TreeInv
  <2>2. PICK D, bh : Shape(t, linked, at, D) /\ Even(t, linked, bh, {})
    BY <2>1 DEF TreeGood
  <2>3. Listing(linked, at) /\ IsFiniteSet(linked)
    BY <2>1, <2>2, Finite DEF TreeGood
  <2> DEFINE q == Order
             N == Cardinality(linked)
  <2>4. q \in Seq(linked) /\ Len(q) = N /\ \A x \in linked : q[at[x]] = x
    BY <2>2, <2>3, InOrderOK DEF Order
  <2> HIDE DEF q
  <2>5. N \in Nat /\ \A x \in linked : at[x] \in 1..N
    BY <2>3, ListingOK
  <2>6. DOMAIN q = 1..N /\ \A i \in 1..N : \E x \in linked : at[x] = i
    BY <2>3, <2>4 DEF Listing
  <2>7. t.root \in linked /\ D[t.root] = linked
    BY <2>2 DEF Shape
  <2> HIDE DEF N
  <2>8. RbtreeMin(t, t.root) = q[1]
    <3> DEFINE m == RbtreeMin(t, t.root)
    <3>1. m \in linked /\ \A z \in linked : ~(at[z] < at[m])
      BY <2>2, <2>7, MinOK DEF Toward
    <3> HIDE DEF m
    <3>2. 1 \in 1..N
      BY <2>5, <2>7
    <3>3. PICK x \in linked : at[x] = 1
      BY <2>6, <3>2
    <3>4. at[m] = 1
      BY <2>5, <3>1, <3>3
    <3> QED BY <2>4, <3>1, <3>4 DEF m
  <2>9. ASSUME NEW i \in DOMAIN q PROVE RbtreeNext(t, q[i]) = IF i = Len(q) THEN Null ELSE q[i + 1]
    <3>1. PICK x \in linked : at[x] = i
      BY <2>6
    <3>2. q[i] = x
      BY <2>4, <3>1
    <3> DEFINE y == RbtreeNext(t, x)
    <3>3. \/ y \in linked /\ i < at[y] /\ \A z \in linked : i < at[z] => ~(at[z] < at[y])
          \/ y = Null /\ \A z \in linked : ~(i < at[z])
      BY <2>2, <3>1, NextOK DEF Follows, Toward
    <3> HIDE DEF y
    <3>4. i \in Int /\ 1 <= i /\ i <= N
      BY <2>5, <2>6
    <3>5. CASE i = N
      <4>1. \A z \in linked : ~(i < at[z])
        BY <2>5, <3>5
      <4>2. y = Null
        BY <3>3, <4>1
      <4> QED BY <2>4, <3>2, <3>5, <4>2 DEF y
    <3>6. CASE i # N
      <4>1. i + 1 \in 1..N
        BY <2>5, <3>4, <3>6
      <4>2. PICK z \in linked : at[z] = i + 1
        BY <2>6, <4>1
      <4>3. y \in linked /\ i < at[y] /\ ~(i + 1 < at[y])
        BY <3>3, <3>4, <4>2
      <4>4. at[y] = i + 1
        BY <2>5, <3>4, <4>3
      <4>5. q[i + 1] = y
        BY <2>4, <4>3, <4>4
      <4> QED BY <2>4, <3>2, <3>6, <4>5 DEF y
    <3> QED BY <3>5, <3>6
  <2> QED BY <2>8, <2>9 DEF q
<1> QED BY <1>1, SpecTreeInv, PTL

\* The tree implements the sorted list.
THEOREM SpecImplementsSortedList == TreeSpec => ImplementsSortedList
<1>1. TreeInit => Sorted!Init
  <2> SUFFICES ASSUME TreeInit PROVE List = <<>>
    BY DEF Sorted!Init
  <2>1. TreeInv /\ linked = {}
    BY InitTreeInv DEF TreeInit
  <2>2. PICK at : TreeGood(t, {}, at)
    BY <2>1 DEF TreeInv
  <2>3. Records(ListOf(t), t, {}, at)
    BY <2>2, ListOfOK
  <2>4. Cardinality({}) = 0
    BY FS_EmptySet
  <2>5. ListOf(t) \in Seq(Entries) /\ Len(ListOf(t)) = 0
    BY <2>3, <2>4 DEF Records
  <2>6. ListOf(t) = <<>>
    BY <2>5, EmptySeq
  <2> QED BY <2>6 DEF List, Order, ListOf
<1> QED BY <1>1, SpecTreeInv, NextTreeInv, PTL DEF TreeSpec, ImplementsSortedList, Sorted!Spec
=============================================================================
