----------------------------- MODULE QueueProofs -----------------------------
(***************************************************************************)
(* The pointers of queue.h and queue.c hold sequences: the invariant Holds *)
(* names the sequence L[h] that the ring of each head h stands for, and    *)
(* for a sort at work how far its two loops have come.  One lemma for each *)
(* macro says what it does to any ring, one for each step what it does to  *)
(* the invariant; the type, the agreement of the two directions, the       *)
(* middle and the implementation of QueueOfSequence follow.                *)
(***************************************************************************)
EXTENDS Queue, FiniteSetTheorems, SequenceTheorems, WellFoundedInduction, TLAPS

-----------------------------------------------------------------------------
(* Induction, and what it says of a pointer that is followed.              *)

\* A set of numbers has a least one.
LEMMA LeastOf ==
  ASSUME NEW S \in SUBSET Nat, S # {}
  PROVE  \E m \in S : \A k \in S : m <= k
<1>0. PICK n \in S : TRUE
  OBVIOUS
<1> DEFINE T == {0..k : k \in {j \in S : j <= n}}
<1>1. T \subseteq SUBSET (0..n)
  OBVIOUS
<1>2. 0..n \in T
  BY <1>0
<1>3. IsFiniteSet(0..n)
  BY <1>0, FS_Interval
<1>4. IsWellFoundedOn(StrictSubsetOrdering(0..n), SUBSET (0..n))
  BY <1>3, FS_StrictSubsetOrderingWellFounded, FS_FiniteSubsetsOfFinite
<1>5. PICK x \in T : \A y \in T : ~(<<y, x>> \in StrictSubsetOrdering(0..n))
  <2> HIDE DEF T
  <2> QED BY <1>1, <1>2, <1>4, WFMin
<1>6. PICK m \in S : m <= n /\ x = 0..m
  OBVIOUS
<1>7. ASSUME NEW k \in S, k < m PROVE FALSE
  <2>1. 0..k \in T
    BY <1>6, <1>7
  <2>2. <<0..k, x>> \in StrictSubsetOrdering(0..n)
    <3>1. 0..k \subseteq 0..m /\ m \in 0..m /\ m \notin 0..k
      BY <1>7
    <3>2. 0..k \in SUBSET (0..n) /\ 0..m \in SUBSET (0..n)
      BY <1>6, <1>7
    <3> QED BY <1>6, <3>1, <3>2 DEF StrictSubsetOrdering
  <2> QED BY <1>5, <2>1, <2>2
<1> QED BY <1>7

\* A pointer can be followed any number of times.
LEMMA Iterates ==
  ASSUME NEW S, NEW f \in [S -> S], NEW x \in S, NEW n \in Nat
  PROVE  \E g : g = [k \in 0..n |-> IF k = 0 THEN x ELSE f[g[k - 1]]]
<1> DEFINE Follows(m, g) == g \in [0..m -> S] /\ g[0] = x /\ \A k \in 1..m : g[k] = f[g[k - 1]]
           Bad == {m \in Nat : ~\E g : Follows(m, g)}
<1>1. \A m \in Nat : \E g : Follows(m, g)
  <2>1. SUFFICES ASSUME Bad # {} PROVE FALSE
    OBVIOUS
  <2>2. PICK m \in Bad : \A k \in Bad : m <= k
    <3> HIDE DEF Bad
    <3>1. Bad \in SUBSET Nat
      BY DEF Bad
    <3> QED BY <2>1, <3>1, LeastOf
  <2>3. m # 0
    <3>1. Follows(0, [k \in 0..0 |-> x])
      OBVIOUS
    <3> QED BY <3>1, <2>2
  <2>4. PICK g : Follows(m - 1, g)
    <3>1. m \in Nat /\ \A k \in Bad : m <= k
      BY <2>2
    <3>2. m - 1 \in Nat /\ m - 1 \notin Bad
      <4> HIDE DEF Bad
      <4> QED BY <2>3, <3>1
    <3> QED BY <3>2
  <2> DEFINE h == [k \in 0..m |-> IF k = m THEN f[g[m - 1]] ELSE g[k]]
  <2>5. Follows(m, h)
    <3>1. m \in Nat /\ m - 1 \in 0..(m - 1)
      BY <2>2, <2>3
    <3>2. \A k \in 0..(m - 1) : h[k] = g[k] /\ h[k] \in S
      BY <2>4, <3>1
    <3>3. h[m] = f[h[m - 1]] /\ h[m] \in S
      <4>1. h[m] = f[g[m - 1]] /\ h[m - 1] = g[m - 1] /\ g[m - 1] \in S
        BY <2>4, <3>1
      <4> QED BY <4>1
    <3>4. h \in [0..m -> S]
      <4>1. \A k \in 0..m : h[k] \in S
        BY <3>1, <3>2, <3>3
      <4> QED BY <4>1
    <3> HIDE DEF h
    <3>5. ASSUME NEW k \in 1..m PROVE h[k] = f[h[k - 1]]
      <4>1. CASE k = m
        BY <3>1, <3>2, <3>3, <4>1
      <4>2. CASE k # m
        <5>1. k \in 1..(m - 1) /\ k - 1 \in 0..(m - 1) /\ k \in 0..(m - 1)
          BY <3>1, <4>2
        <5> QED BY <2>4, <3>2, <5>1
      <4> QED BY <4>1, <4>2
    <3> QED BY <2>4, <3>1, <3>2, <3>4, <3>5
  <2> QED BY <2>2, <2>5
<1>2. PICK g : Follows(n, g)
  BY <1>1
<1>3. g = [k \in 0..n |-> IF k = 0 THEN x ELSE f[g[k - 1]]]
  <2>1. g = [k \in 0..n |-> g[k]]
    BY <1>2
  <2>2. \A k \in 0..n : g[k] = IF k = 0 THEN x ELSE f[g[k - 1]]
    BY <1>2
  <2> QED BY <2>1, <2>2
<1> QED BY <1>3

-----------------------------------------------------------------------------
(* Sequences. *)

\* x behind the first i elements.
InsertAt(s, i, x) == SubSeq(s, 1, i) \o <<x>> \o SubSeq(s, i + 1, Len(s))

\* Without the i-th element.
DropAt(s, i) == SubSeq(s, 1, i - 1) \o SubSeq(s, i + 1, Len(s))

\* A sequence with one element more.
LEMMA InsertAtElements ==
  ASSUME NEW s \in Seq(Elts), NEW i \in 0..Len(s), NEW x \in Elts
  PROVE  /\ InsertAt(s, i, x) \in Seq(Elts) /\ Len(InsertAt(s, i, x)) = Len(s) + 1
         /\ \A k \in 1..(Len(s) + 1) :
              InsertAt(s, i, x)[k] = IF k <= i THEN s[k] ELSE IF k = i + 1 THEN x ELSE s[k - 1]
<1> DEFINE a == SubSeq(s, 1, i)
           b == SubSeq(s, i + 1, Len(s))
<1>1. Len(s) \in Nat /\ i \in Nat /\ i <= Len(s) /\ \A k \in 1..Len(s) : s[k] \in Elts
  BY ElementOfSeq, LenProperties
<1>2. a \in Seq(Elts) /\ Len(a) = i /\ \A k \in 1..i : a[k] = s[k]
  <2>1. \A k \in 1..i : s[k] \in Elts
    BY <1>1
  <2> HIDE DEF a
  <2> QED BY <1>1, <2>1, SubSeqProperties DEF a
<1>3. b \in Seq(Elts) /\ Len(b) = Len(s) - i /\ \A k \in 1..(Len(s) - i) : b[k] = s[i + k]
  <2>1. \A k \in (i + 1)..Len(s) : s[k] \in Elts
    BY <1>1
  <2> HIDE DEF b
  <2>2. b \in Seq(Elts) /\ Len(b) = (IF i + 1 <= Len(s) THEN Len(s) - (i + 1) + 1 ELSE 0)
        /\ \A k \in 1..(Len(s) - (i + 1) + 1) : b[k] = s[i + 1 + k - 1]
    BY <1>1, <2>1, SubSeqProperties DEF b
  <2> QED BY <1>1, <2>2
<1> HIDE DEF a, b
<1>4. /\ a \o <<x>> \in Seq(Elts) /\ Len(a \o <<x>>) = i + 1
      /\ \A k \in 1..(i + 1) : (a \o <<x>>)[k] = IF k <= i THEN s[k] ELSE x
  <2>1. <<x>> \in Seq(Elts) /\ Len(<<x>>) = 1 /\ <<x>>[1] = x
    OBVIOUS
  <2> QED BY <1>1, <1>2, <2>1, ConcatProperties
<1> DEFINE c == a \o <<x>>
<1> HIDE DEF c
<1>5. c \in Seq(Elts) /\ Len(c) = i + 1 /\ \A k \in 1..(i + 1) : c[k] = IF k <= i THEN s[k] ELSE x
  BY <1>4 DEF c
<1> DEFINE d == c \o b
<1>0. /\ d \in Seq(Elts) /\ Len(d) = Len(s) + 1
      /\ \A k \in 1..(Len(s) + 1) : d[k] = IF k <= i + 1 THEN c[k] ELSE b[k - (i + 1)]
  <2>1. d \in Seq(Elts) /\ Len(d) = Len(c) + Len(b)
        /\ \A k \in 1..(Len(c) + Len(b)) : d[k] = IF k <= Len(c) THEN c[k] ELSE b[k - Len(c)]
    BY <1>3, <1>5, ConcatProperties
  <2> HIDE DEF d
  <2> QED BY <1>1, <1>3, <1>5, <2>1
<1> HIDE DEF d
<1>6. InsertAt(s, i, x) = d
  BY DEF InsertAt, a, b, c, d
<1>7. ASSUME NEW k \in 1..(Len(s) + 1)
      PROVE  d[k] = IF k <= i THEN s[k] ELSE IF k = i + 1 THEN x ELSE s[k - 1]
  <2>1. CASE k <= i + 1
    BY <1>1, <1>5, <1>0, <2>1
  <2>2. CASE k > i + 1
    <3>1. k - (i + 1) \in 1..(Len(s) - i) /\ i + (k - (i + 1)) = k - 1
      BY <1>1, <2>2
    <3> QED BY <1>1, <1>3, <1>0, <2>2, <3>1
  <2> QED BY <1>1, <2>1, <2>2
<1> QED BY <1>1, <1>0, <1>6, <1>7

\* A sequence with one element less.
LEMMA DropAtElements ==
  ASSUME NEW S, NEW s \in Seq(S), NEW i \in 1..Len(s)
  PROVE  /\ DropAt(s, i) \in Seq(S) /\ Len(DropAt(s, i)) = Len(s) - 1
         /\ \A k \in 1..(Len(s) - 1) : DropAt(s, i)[k] = IF k < i THEN s[k] ELSE s[k + 1]
<1> DEFINE a == SubSeq(s, 1, i - 1)
           b == SubSeq(s, i + 1, Len(s))
<1>1. Len(s) \in Nat /\ i \in Nat /\ 1 <= i /\ i <= Len(s) /\ \A k \in 1..Len(s) : s[k] \in S
  BY ElementOfSeq, LenProperties
<1>2. a \in Seq(S) /\ Len(a) = i - 1 /\ \A k \in 1..(i - 1) : a[k] = s[k]
  <2>1. \A k \in 1..(i - 1) : s[k] \in S
    BY <1>1
  <2> HIDE DEF a
  <2>2. a \in Seq(S) /\ Len(a) = (IF 1 <= i - 1 THEN i - 1 - 1 + 1 ELSE 0)
        /\ \A k \in 1..(i - 1 - 1 + 1) : a[k] = s[1 + k - 1]
    BY <1>1, <2>1, SubSeqProperties DEF a
  <2> QED BY <1>1, <2>2
<1>3. b \in Seq(S) /\ Len(b) = Len(s) - i /\ \A k \in 1..(Len(s) - i) : b[k] = s[i + k]
  <2>1. \A k \in (i + 1)..Len(s) : s[k] \in S
    BY <1>1
  <2> HIDE DEF b
  <2>2. b \in Seq(S) /\ Len(b) = (IF i + 1 <= Len(s) THEN Len(s) - (i + 1) + 1 ELSE 0)
        /\ \A k \in 1..(Len(s) - (i + 1) + 1) : b[k] = s[i + 1 + k - 1]
    BY <1>1, <2>1, SubSeqProperties DEF b
  <2> QED BY <1>1, <2>2
<1> HIDE DEF a, b
<1> DEFINE d == a \o b
<1>4. /\ d \in Seq(S) /\ Len(d) = Len(s) - 1
      /\ \A k \in 1..(Len(s) - 1) : d[k] = IF k <= i - 1 THEN a[k] ELSE b[k - (i - 1)]
  <2>1. d \in Seq(S) /\ Len(d) = Len(a) + Len(b)
        /\ \A k \in 1..(Len(a) + Len(b)) : d[k] = IF k <= Len(a) THEN a[k] ELSE b[k - Len(a)]
    BY <1>2, <1>3, ConcatProperties
  <2> HIDE DEF d
  <2> QED BY <1>1, <1>2, <1>3, <2>1
<1> HIDE DEF d
<1>5. DropAt(s, i) = d
  BY DEF DropAt, a, b, d
<1>6. ASSUME NEW k \in 1..(Len(s) - 1) PROVE d[k] = IF k < i THEN s[k] ELSE s[k + 1]
  <2>1. CASE k <= i - 1
    BY <1>1, <1>2, <1>4, <2>1
  <2>2. CASE k > i - 1
    <3>1. k - (i - 1) \in 1..(Len(s) - i) /\ i + (k - (i - 1)) = k + 1
      BY <1>1, <2>2
    <3> QED BY <1>1, <1>3, <1>4, <2>2, <3>1
  <2> QED BY <1>1, <2>1, <2>2
<1> QED BY <1>1, <1>4, <1>5, <1>6

-----------------------------------------------------------------------------
(* Rings. *)

\* The i-th link behind h: its elements and then h again.
Place(L, h, i) == IF i \in 1..Len(L[h]) THEN L[h][i] ELSE h

\* The elements in a queue.
Queued(L) == {x \in Elts : \E h \in Heads : \E i \in 1..Len(L[h]) : L[h][i] = x}

\* The pointers pv and nx hold the queues L, those of the heads rd.
Rings(pv, nx, rd, L) ==
  /\ pv \in [Links -> Links] /\ nx \in [Links -> Links] /\ rd \subseteq Heads
  /\ L \in [Heads -> Seq(Elts)]
  /\ \A h \in Heads \ rd : L[h] = <<>>
  /\ \A h \in rd : \A i \in 0..Len(L[h]) :
       nx[Place(L, h, i)] = Place(L, h, i + 1) /\ pv[Place(L, h, i + 1)] = Place(L, h, i)
  /\ \A h, g \in Heads : \A i \in 1..Len(L[h]), j \in 1..Len(L[g]) :
       L[h][i] = L[g][j] => h = g /\ i = j

\* The queues after a change: x behind the i-th link of h, the i-th element of h
\* taken out, the elements from the i-th on given to the head m, those of m
\* behind those of h.
PutIn(L, h, i, x) == [L EXCEPT ![h] = InsertAt(L[h], i, x)]
TakenFrom(L, h, i) == [L EXCEPT ![h] = DropAt(L[h], i)]
SplitAt(L, h, i, m) == [L EXCEPT ![h] = SubSeq(L[h], 1, i - 1), ![m] = SubSeq(L[h], i, Len(L[h]))]
Joined(L, h, m) == [L EXCEPT ![h] = L[h] \o L[m], ![m] = <<>>]

\* Where the links of a ring are.
LEMMA PlaceOK ==
  ASSUME NEW L \in [Heads -> Seq(Elts)], NEW h \in Heads
  PROVE  /\ Len(L[h]) \in Nat /\ L[h] \in Seq(Elts)
         /\ \A i \in 1..Len(L[h]) : L[h][i] \in Elts /\ Place(L, h, i) = L[h][i] /\ L[h][i] \in Queued(L)
         /\ Place(L, h, 0) = h /\ Place(L, h, Len(L[h]) + 1) = h
         /\ \A i \in 0..(Len(L[h]) + 1) : Place(L, h, i) \in Links
<1>1. Len(L[h]) \in Nat /\ L[h] \in Seq(Elts)
  BY LenProperties
<1>2. \A i \in 1..Len(L[h]) : L[h][i] \in Elts
  BY <1>1, ElementOfSeq
<1> QED BY <1>1, <1>2 DEF Place, Queued, Links

\* No link is in two places.
LEMMA PlacesDiffer ==
  ASSUME NEW pv, NEW nx, NEW rd, NEW L, Rings(pv, nx, rd, L), NEW h \in Heads, NEW g \in Heads
  PROVE  /\ \A i \in 0..Len(L[h]), j \in 0..Len(L[g]) :
              Place(L, h, i) = Place(L, g, j) => h = g /\ i = j
         /\ \A i \in 1..(Len(L[h]) + 1), j \in 1..(Len(L[g]) + 1) :
              Place(L, h, i) = Place(L, g, j) => h = g /\ i = j
<1>1. /\ L \in [Heads -> Seq(Elts)] /\ Heads \cap Elts = {}
      /\ \A i \in 1..Len(L[h]), j \in 1..Len(L[g]) : L[h][i] = L[g][j] => h = g /\ i = j
  BY QueueAssumption DEF Rings
<1>2. /\ Len(L[h]) \in Nat /\ \A i \in 1..Len(L[h]) : L[h][i] \in Elts /\ Place(L, h, i) = L[h][i]
      /\ Place(L, h, 0) = h /\ Place(L, h, Len(L[h]) + 1) = h
  BY <1>1, PlaceOK
<1>3. /\ Len(L[g]) \in Nat /\ \A i \in 1..Len(L[g]) : L[g][i] \in Elts /\ Place(L, g, i) = L[g][i]
      /\ Place(L, g, 0) = g /\ Place(L, g, Len(L[g]) + 1) = g
  BY <1>1, PlaceOK
<1>4. ASSUME NEW i \in 0..Len(L[h]), NEW j \in 0..Len(L[g]), Place(L, h, i) = Place(L, g, j)
      PROVE  h = g /\ i = j
  <2>1. i \in 1..Len(L[h]) \/ i = 0
    BY <1>2
  <2>2. j \in 1..Len(L[g]) \/ j = 0
    BY <1>3
  <2> QED BY <1>1, <1>2, <1>3, <1>4, <2>1, <2>2
<1>5. ASSUME NEW i \in 1..(Len(L[h]) + 1), NEW j \in 1..(Len(L[g]) + 1), Place(L, h, i) = Place(L, g, j)
      PROVE  h = g /\ i = j
  <2>1. i \in 1..Len(L[h]) \/ i = Len(L[h]) + 1
    BY <1>2
  <2>2. j \in 1..Len(L[g]) \/ j = Len(L[g]) + 1
    BY <1>3
  <2> QED BY <1>1, <1>2, <1>3, <1>5, <2>1, <2>2
<1> QED BY <1>4, <1>5

\* The elements of a queue are no more than there are.
LEMMA LengthBound ==
  ASSUME NEW pv, NEW nx, NEW rd, NEW L, Rings(pv, nx, rd, L), NEW h \in Heads
  PROVE  Len(L[h]) <= Cardinality(Elts) /\ Cardinality(Elts) \in Nat
<1>1. Len(L[h]) \in Nat /\ L[h] \in Seq(Elts) /\ L[h] \in [1..Len(L[h]) -> Elts]
  BY LenProperties DEF Rings
<1>2. L[h] \in Injection(1..Len(L[h]), Elts)
  <2>1. \A i, j \in 1..Len(L[h]) : L[h][i] = L[h][j] => i = j
    BY DEF Rings
  <2> QED BY <1>1, <2>1 DEF Injection, IsInjective
<1>3. Cardinality(1..Len(L[h])) <= Cardinality(Elts)
  BY <1>2, FS_Injection, QueueAssumption
<1>4. Cardinality(1..Len(L[h])) = Len(L[h])
  BY <1>1, FS_Interval
<1> QED BY <1>3, <1>4, FS_CardinalityType, QueueAssumption

\* The pointers np and nn after queue_insert_after().
Puts(pv, nx, at, x, np, nn) ==
  /\ nn = [nx EXCEPT ![x] = nx[at], ![at] = x]
  /\ np = [pv EXCEPT ![nx[at]] = x, ![x] = at]

\* An element that was in no queue is put behind the i-th link of a ring.
LEMMA RingsPut ==
  ASSUME NEW pv, NEW nx, NEW rd, NEW L, Rings(pv, nx, rd, L),
         NEW h \in rd, NEW i \in 0..Len(L[h]), NEW x \in Elts, x \notin Queued(L),
         NEW np, NEW nn, Puts(pv, nx, Place(L, h, i), x, np, nn)
  PROVE  /\ Rings(np, nn, rd, PutIn(L, h, i, x))
         /\ Queued(PutIn(L, h, i, x)) = Queued(L) \cup {x}
<1> DEFINE M == PutIn(L, h, i, x)
           at == Place(L, h, i)
           aft == nx[at]
           n == Len(L[h])
<1>1. /\ pv \in [Links -> Links] /\ nx \in [Links -> Links] /\ rd \subseteq Heads /\ h \in Heads
      /\ L \in [Heads -> Seq(Elts)] /\ Heads \cap Elts = {} /\ x \in Links
  BY QueueAssumption DEF Rings, Links
<1>2. n \in Nat /\ L[h] \in Seq(Elts) /\ i \in Nat /\ i <= n /\ i + 1 \in 0..(n + 1) /\ i \in 0..(n + 1)
  BY <1>1, PlaceOK
<1>3. aft = Place(L, h, i + 1) /\ at \in Links /\ aft \in Links
  BY <1>1, <1>2, PlaceOK DEF Rings
<1>4. /\ M[h] \in Seq(Elts) /\ Len(M[h]) = n + 1
      /\ \A k \in 1..(n + 1) : M[h][k] = IF k <= i THEN L[h][k] ELSE IF k = i + 1 THEN x ELSE L[h][k - 1]
  <2>1. M[h] = InsertAt(L[h], i, x)
    BY <1>1 DEF PutIn
  <2>2. /\ InsertAt(L[h], i, x) \in Seq(Elts) /\ Len(InsertAt(L[h], i, x)) = Len(L[h]) + 1
        /\ \A k \in 1..(Len(L[h]) + 1) :
             InsertAt(L[h], i, x)[k] = IF k <= i THEN L[h][k] ELSE IF k = i + 1 THEN x ELSE L[h][k - 1]
    <3> DEFINE s == L[h]
    <3>1. s \in Seq(Elts) /\ i \in 0..Len(s)
      BY <1>2
    <3> HIDE DEF s
    <3>2. /\ InsertAt(s, i, x) \in Seq(Elts) /\ Len(InsertAt(s, i, x)) = Len(s) + 1
          /\ \A k \in 1..(Len(s) + 1) :
               InsertAt(s, i, x)[k] = IF k <= i THEN s[k] ELSE IF k = i + 1 THEN x ELSE s[k - 1]
      BY <3>1, InsertAtElements
    <3> QED BY <3>2 DEF s
  <2> QED BY <2>1, <2>2
<1>5. M \in [Heads -> Seq(Elts)] /\ \A g \in Heads \ {h} : M[g] = L[g]
  BY <1>1, <1>4 DEF PutIn
<1> HIDE DEF M
<1>6. \A g \in Heads \ {h} : \A k \in 0..(Len(L[g]) + 1) : Place(M, g, k) = Place(L, g, k)
  BY <1>5 DEF Place
<1>7. \A k \in 0..(n + 2) : Place(M, h, k) = IF k <= i THEN Place(L, h, k) ELSE IF k = i + 1 THEN x ELSE Place(L, h, k - 1)
  <2> TAKE k \in 0..(n + 2)
  <2>1. CASE k \in 1..(n + 1)
    BY <1>2, <1>4, <2>1 DEF Place
  <2>2. CASE k = 0 \/ k = n + 2
    BY <1>2, <1>4, <2>2 DEF Place
  <2>3. k \in 1..(n + 1) \/ k = 0 \/ k = n + 2
    BY <1>2
  <2> QED BY <2>1, <2>2, <2>3
<1>8. \A g \in rd : \A k \in 0..(Len(L[g]) + 1) : Place(L, g, k) # x /\ Place(L, g, k) \in Links /\ Len(L[g]) \in Nat
  <2> TAKE g \in rd
  <2>1. g \in Heads /\ g # x
    BY <1>1
  <2> QED BY <1>1, <2>1, PlaceOK DEF Place
<1>9. ASSUME NEW g \in rd
      PROVE  /\ \A k \in 0..Len(L[g]) : Place(L, g, k) = at => g = h /\ k = i
             /\ \A k \in 1..(Len(L[g]) + 1) : Place(L, g, k) = aft => g = h /\ k = i + 1
  <2>1. g \in Heads
    BY <1>1
  <2>2. i + 1 \in 1..(Len(L[h]) + 1)
    BY <1>2
  <2> QED BY <1>1, <1>2, <1>3, <2>1, <2>2, PlacesDiffer
<1>10. /\ nn \in [Links -> Links] /\ np \in [Links -> Links]
       /\ nn[x] = aft /\ nn[at] = x /\ np[aft] = x /\ np[x] = at
       /\ \A y \in Links \ {x, at} : nn[y] = nx[y]
       /\ \A y \in Links \ {x, aft} : np[y] = pv[y]
  <2>1. at # x /\ aft # x
    BY <1>2, <1>3, <1>8
  <2> QED BY <1>1, <1>3, <2>1 DEF Puts
<1>11. ASSUME NEW g \in rd, NEW k \in 0..Len(M[g])
       PROVE  nn[Place(M, g, k)] = Place(M, g, k + 1) /\ np[Place(M, g, k + 1)] = Place(M, g, k)
  <2>1. CASE g # h
    <3>1. g \in Heads \ {h} /\ M[g] = L[g] /\ Len(L[g]) \in Nat
      BY <1>1, <1>5, <1>8, <2>1, PlaceOK
    <3>2. k \in 0..Len(L[g]) /\ k \in 0..(Len(L[g]) + 1) /\ k + 1 \in 1..(Len(L[g]) + 1) /\ k + 1 \in 0..(Len(L[g]) + 1)
      BY <3>1
    <3>3. Place(M, g, k) = Place(L, g, k) /\ Place(M, g, k + 1) = Place(L, g, k + 1)
      BY <1>6, <3>1, <3>2
    <3>4. Place(L, g, k) \in Links \ {x, at} /\ Place(L, g, k + 1) \in Links \ {x, aft}
      BY <1>8, <1>9, <2>1, <3>2
    <3>5. nx[Place(L, g, k)] = Place(L, g, k + 1) /\ pv[Place(L, g, k + 1)] = Place(L, g, k)
      BY <3>2 DEF Rings
    <3> QED BY <1>10, <3>3, <3>4, <3>5
  <2>2. CASE g = h
    <3>1. k \in 0..(n + 1)
      BY <1>2, <1>4, <2>2
    <3>2. CASE k < i \/ k > i + 1
      <4> DEFINE j == IF k < i THEN k ELSE k - 1
      <4>1. j \in 0..n /\ j # i /\ j \in 0..(n + 1) /\ j + 1 \in 1..(n + 1) /\ j + 1 \in 0..(n + 1) /\ j + 1 # i + 1
        BY <1>2, <3>1, <3>2
      <4>2. Place(M, h, k) = Place(L, h, j) /\ Place(M, h, k + 1) = Place(L, h, j + 1)
        BY <1>2, <1>7, <3>1, <3>2
      <4> HIDE DEF j
      <4>3. Place(L, h, j) \in Links \ {x, at} /\ Place(L, h, j + 1) \in Links \ {x, aft}
        BY <1>8, <1>9, <4>1
      <4>4. nx[Place(L, h, j)] = Place(L, h, j + 1) /\ pv[Place(L, h, j + 1)] = Place(L, h, j)
        BY <4>1 DEF Rings
      <4> QED BY <1>10, <2>2, <4>2, <4>3, <4>4
    <3>3. CASE k = i
      <4>1. Place(M, h, k) = at /\ Place(M, h, k + 1) = x
        BY <1>2, <1>7, <3>3
      <4> QED BY <1>10, <2>2, <4>1
    <3>4. CASE k = i + 1
      <4>1. Place(M, h, k) = x /\ Place(M, h, k + 1) = aft
        BY <1>2, <1>3, <1>7, <3>4
      <4> QED BY <1>10, <2>2, <4>1
    <3> QED BY <1>2, <3>1, <3>2, <3>3, <3>4
  <2> QED BY <2>1, <2>2
<1>12. ASSUME NEW g \in Heads, NEW f \in Heads, NEW k \in 1..Len(M[g]), NEW j \in 1..Len(M[f]), M[g][k] = M[f][j]
       PROVE  g = f /\ k = j
  <2> DEFINE New(e, m) == e = h /\ m = i + 1 /\ M[e][m] = x
             Low(e, m) == M[e][m] = L[e][m] /\ m \in 1..Len(L[e]) /\ (e = h => m <= i)
             High(e, m) == e = h /\ m > i + 1 /\ m - 1 \in 1..Len(L[e]) /\ M[e][m] = L[e][m - 1]
  <2>1. ASSUME NEW e \in Heads, NEW m \in 1..Len(M[e]) PROVE New(e, m) \/ Low(e, m) \/ High(e, m)
    <3>1. CASE e # h
      BY <1>5, <3>1
    <3>2. CASE e = h
      BY <1>2, <1>4, <3>2
    <3> QED BY <3>1, <3>2
  <2>2. ASSUME NEW e \in Heads, NEW m \in 1..Len(L[e]) PROVE L[e][m] # x
    <3>1. L[e][m] \in Queued(L)
      BY <1>1, PlaceOK
    <3> QED BY <1>1, <3>1
  <2>3. ASSUME NEW a \in Heads, NEW b \in Heads, NEW c \in 1..Len(L[a]), NEW d \in 1..Len(L[b]), L[a][c] = L[b][d]
        PROVE  a = b /\ c = d
    BY <2>3 DEF Rings
  <2>4. k \in Int /\ j \in Int /\ i \in Int
    BY <1>2
  <2>5. New(g, k) \/ Low(g, k) \/ High(g, k)
    BY <2>1
  <2>6. New(f, j) \/ Low(f, j) \/ High(f, j)
    BY <2>1
  <2>7. CASE New(g, k) \/ New(f, j)
    <3>1. New(g, k) /\ New(f, j)
      BY <1>12, <2>2, <2>5, <2>6, <2>7
    <3> QED BY <3>1
  <2>8. CASE Low(g, k) /\ Low(f, j)
    <3>1. L[g][k] = L[f][j] /\ k \in 1..Len(L[g]) /\ j \in 1..Len(L[f])
      BY <1>12, <2>8
    <3> QED BY <2>3, <3>1
  <2>9. CASE Low(g, k) /\ High(f, j)
    <3>1. L[g][k] = L[f][j - 1] /\ k \in 1..Len(L[g]) /\ j - 1 \in 1..Len(L[f])
      BY <1>12, <2>9
    <3>2. g = f /\ k = j - 1
      BY <2>3, <3>1
    <3> QED BY <2>4, <2>9, <3>2
  <2>10. CASE High(g, k) /\ Low(f, j)
    <3>1. L[g][k - 1] = L[f][j] /\ k - 1 \in 1..Len(L[g]) /\ j \in 1..Len(L[f])
      BY <1>12, <2>10
    <3>2. g = f /\ k - 1 = j
      BY <2>3, <3>1
    <3> QED BY <2>4, <2>10, <3>2
  <2>11. CASE High(g, k) /\ High(f, j)
    <3>1. L[g][k - 1] = L[f][j - 1] /\ k - 1 \in 1..Len(L[g]) /\ j - 1 \in 1..Len(L[f])
      BY <1>12, <2>11
    <3>2. g = f /\ k - 1 = j - 1
      BY <2>3, <3>1
    <3> QED BY <2>4, <3>2
  <2> HIDE DEF New, Low, High
  <2> QED BY <2>5, <2>6, <2>7, <2>8, <2>9, <2>10, <2>11
<1>13. \A g \in Heads \ rd : M[g] = <<>>
  BY <1>5 DEF Rings
<1>14. Rings(np, nn, rd, M)
  BY <1>1, <1>5, <1>10, <1>11, <1>12, <1>13 DEF Rings
<1>15. Queued(M) = Queued(L) \cup {x}
  <2>1. ASSUME NEW y \in Queued(M)
        PROVE  y \in Queued(L) \cup {x}
    <3>0. PICK g \in Heads : \E k \in 1..Len(M[g]) : M[g][k] = y /\ y \in Elts
      BY DEF Queued
    <3>1. PICK k \in 1..Len(M[g]) : M[g][k] = y /\ y \in Elts
      BY <3>0
    <3>2. CASE g # h
      BY <1>5, <3>1, <3>2 DEF Queued
    <3>3. CASE g = h
      <4>1. y = x \/ (k \in 1..n /\ y = L[h][k]) \/ (k - 1 \in 1..n /\ y = L[h][k - 1])
        BY <1>2, <1>4, <3>1, <3>3
      <4> QED BY <1>1, <3>1, <4>1 DEF Queued
    <3> QED BY <3>2, <3>3
  <2>2. x \in Queued(M)
    <3>1. i + 1 \in 1..Len(M[h]) /\ M[h][i + 1] = x
      BY <1>2, <1>4
    <3> QED BY <1>1, <3>1 DEF Queued
  <2>3. ASSUME NEW y \in Queued(L) PROVE y \in Queued(M)
    <3>0. PICK g \in Heads : \E k \in 1..Len(L[g]) : L[g][k] = y /\ y \in Elts
      BY DEF Queued
    <3>1. PICK k \in 1..Len(L[g]) : L[g][k] = y /\ y \in Elts
      BY <3>0
    <3>2. CASE g # h
      BY <1>5, <3>1, <3>2 DEF Queued
    <3>3. CASE g = h
      <4> DEFINE m == IF k <= i THEN k ELSE k + 1
      <4>1. m \in 1..Len(M[h]) /\ M[h][m] = y
        BY <1>2, <1>4, <3>1, <3>3
      <4> QED BY <1>1, <3>1, <4>1 DEF Queued
    <3> QED BY <3>2, <3>3
  <2> QED BY <2>1, <2>2, <2>3
<1> QED BY <1>14, <1>15 DEF M

\* The pointers np and nn after queue_remove().
Takes(pv, nx, x, np, nn) ==
  /\ nn = [nx EXCEPT ![pv[x]] = nx[x]]
  /\ np = [pv EXCEPT ![nx[x]] = pv[x]]

\* The i-th element of a ring is taken out.
LEMMA RingsTake ==
  ASSUME NEW pv, NEW nx, NEW rd, NEW L, Rings(pv, nx, rd, L),
         NEW h \in rd, NEW i \in 1..Len(L[h]), NEW np, NEW nn,
         Takes(pv, nx, L[h][i], np, nn)
  PROVE  /\ Rings(np, nn, rd, TakenFrom(L, h, i))
         /\ \A y : y \in Queued(TakenFrom(L, h, i)) <=> y \in Queued(L) /\ y # L[h][i]
<1> DEFINE x == L[h][i]
           M == TakenFrom(L, h, i)
           bef == pv[x]
           aft == nx[x]
           n == Len(L[h])
<1>1. /\ pv \in [Links -> Links] /\ nx \in [Links -> Links] /\ rd \subseteq Heads /\ h \in Heads
      /\ L \in [Heads -> Seq(Elts)] /\ Heads \cap Elts = {}
  BY QueueAssumption DEF Rings
<1>0. n \in Int /\ 0 <= n /\ i \in Int /\ 1 <= i /\ i <= n
  BY <1>1, PlaceOK
<1>2. /\ n \in Nat /\ L[h] \in Seq(Elts) /\ i \in Nat /\ i <= n /\ 1 <= i
      /\ i + 1 \in 1..(n + 1) /\ i - 1 \in 0..n /\ i \in 0..n /\ i - 1 \in 0..(n + 1) /\ i + 1 \in 0..(n + 1)
      /\ i - 1 + 1 = i
  BY <1>1, PlaceOK
<1>3. x = Place(L, h, i) /\ x \in Elts /\ x \in Links
  BY <1>1, PlaceOK DEF Links
<1>4. aft = Place(L, h, i + 1) /\ bef = Place(L, h, i - 1) /\ bef \in Links /\ aft \in Links
  <2>1. aft = Place(L, h, i + 1)
    BY <1>2, <1>3 DEF Rings
  <2>2. pv[Place(L, h, i - 1 + 1)] = Place(L, h, i - 1)
    BY <1>2 DEF Rings
  <2> QED BY <1>1, <1>2, <1>3, <2>1, <2>2, PlaceOK
<1>5. /\ M[h] \in Seq(Elts) /\ Len(M[h]) = n - 1
      /\ \A k \in 1..(n - 1) : M[h][k] = IF k < i THEN L[h][k] ELSE L[h][k + 1]
  <2> DEFINE s == L[h]
  <2>1. M[h] = DropAt(s, i) /\ s \in Seq(Elts) /\ i \in 1..Len(s)
    BY <1>1, <1>2 DEF TakenFrom
  <2> HIDE DEF s, M
  <2>2. /\ DropAt(s, i) \in Seq(Elts) /\ Len(DropAt(s, i)) = Len(s) - 1
        /\ \A k \in 1..(Len(s) - 1) : DropAt(s, i)[k] = IF k < i THEN s[k] ELSE s[k + 1]
    BY <2>1, DropAtElements
  <2> QED BY <2>1, <2>2 DEF s
<1>6. M \in [Heads -> Seq(Elts)] /\ \A g \in Heads \ {h} : M[g] = L[g]
  BY <1>1, <1>5 DEF TakenFrom
<1> HIDE DEF M
<1>7. \A g \in Heads \ {h} : \A k \in 0..(Len(L[g]) + 1) : Place(M, g, k) = Place(L, g, k)
  BY <1>6 DEF Place
<1>8. \A k \in 0..n : Place(M, h, k) = IF k < i THEN Place(L, h, k) ELSE Place(L, h, k + 1)
  <2> TAKE k \in 0..n
  <2>1. CASE k \in 1..(n - 1)
    BY <1>2, <1>5, <2>1 DEF Place
  <2>2. CASE k = 0 \/ k = n
    BY <1>2, <1>5, <2>2 DEF Place
  <2>3. k \in 1..(n - 1) \/ k = 0 \/ k = n
    BY <1>2
  <2> QED BY <2>1, <2>2, <2>3
<1>9. ASSUME NEW g \in rd
      PROVE  /\ \A k \in 0..Len(L[g]) : Place(L, g, k) = bef => g = h /\ k = i - 1
             /\ \A k \in 1..(Len(L[g]) + 1) : Place(L, g, k) = aft => g = h /\ k = i + 1
             /\ Len(L[g]) \in Nat /\ \A k \in 0..(Len(L[g]) + 1) : Place(L, g, k) \in Links
  <2>1. g \in Heads
    BY <1>1
  <2> QED BY <1>1, <1>2, <1>4, <2>1, PlacesDiffer, PlaceOK
<1>10. /\ nn \in [Links -> Links] /\ np \in [Links -> Links] /\ nn[bef] = aft /\ np[aft] = bef
       /\ \A y \in Links \ {bef} : nn[y] = nx[y]
       /\ \A y \in Links \ {aft} : np[y] = pv[y]
  BY <1>1, <1>4 DEF Takes
<1>11. ASSUME NEW g \in rd, NEW k \in 0..Len(M[g])
       PROVE  nn[Place(M, g, k)] = Place(M, g, k + 1) /\ np[Place(M, g, k + 1)] = Place(M, g, k)
  <2>1. CASE g # h
    <3>1. g \in Heads \ {h} /\ M[g] = L[g] /\ Len(L[g]) \in Nat
      BY <1>1, <1>6, <1>9, <2>1
    <3>2. k \in 0..Len(L[g]) /\ k \in 0..(Len(L[g]) + 1) /\ k + 1 \in 1..(Len(L[g]) + 1) /\ k + 1 \in 0..(Len(L[g]) + 1)
      BY <3>1
    <3>3. Place(M, g, k) = Place(L, g, k) /\ Place(M, g, k + 1) = Place(L, g, k + 1)
      BY <1>7, <3>1, <3>2
    <3>4. Place(L, g, k) \in Links \ {bef} /\ Place(L, g, k + 1) \in Links \ {aft}
      BY <1>9, <2>1, <3>2
    <3>5. nx[Place(L, g, k)] = Place(L, g, k + 1) /\ pv[Place(L, g, k + 1)] = Place(L, g, k)
      BY <3>2 DEF Rings
    <3> QED BY <1>10, <3>3, <3>4, <3>5
  <2>2. CASE g = h
    <3>1. k \in 0..(n - 1)
      BY <1>2, <1>5, <2>2
    <3> k \in Int /\ 0 <= k /\ k <= n - 1
      BY <1>0, <3>1
    <3>2. CASE k # i - 1
      <4> DEFINE j == IF k < i THEN k ELSE k + 1
      <4>1. j \in 0..n /\ j # i - 1 /\ j \in 0..(n + 1) /\ j + 1 \in 1..(n + 1) /\ j + 1 \in 0..(n + 1) /\ j + 1 # i + 1
        <5>1. j \in Int /\ 0 <= j /\ j <= n /\ j # i - 1 /\ j # i
          BY <1>0, <3>2
        <5> HIDE DEF j
        <5>2. j \in 0..n /\ j \in 0..(n + 1) /\ j + 1 # i + 1
          BY <1>0, <5>1
        <5>3. j + 1 \in 1..(n + 1) /\ j + 1 \in 0..(n + 1)
          BY <1>0, <5>1
        <5> QED BY <5>1, <5>2, <5>3
      <4>2. Place(M, h, k) = Place(L, h, j) /\ Place(M, h, k + 1) = Place(L, h, j + 1)
        <5>1. k \in 0..n /\ k + 1 \in 0..n /\ (k < i <=> k + 1 < i)
          BY <1>0, <3>2
        <5>2. Place(M, h, k) = Place(L, h, j)
          BY <1>8, <5>1
        <5>3. Place(M, h, k + 1) = IF k < i THEN Place(L, h, k + 1) ELSE Place(L, h, k + 1 + 1)
          BY <1>8, <5>1
        <5> QED BY <5>2, <5>3
      <4> HIDE DEF j
      <4>3. Place(L, h, j) \in Links \ {bef} /\ Place(L, h, j + 1) \in Links \ {aft}
        BY <1>9, <4>1
      <4>4. nx[Place(L, h, j)] = Place(L, h, j + 1) /\ pv[Place(L, h, j + 1)] = Place(L, h, j)
        BY <4>1 DEF Rings
      <4> QED BY <1>10, <2>2, <4>2, <4>3, <4>4
    <3>3. CASE k = i - 1
      <4>1. Place(M, h, k) = bef /\ Place(M, h, k + 1) = aft
        BY <1>2, <1>4, <1>8, <3>3
      <4> QED BY <1>10, <2>2, <4>1
    <3> QED BY <3>2, <3>3
  <2> QED BY <2>1, <2>2
<1> DEFINE Old(g, k) == IF g = h /\ k >= i THEN k + 1 ELSE k
<1>12. ASSUME NEW g \in Heads, NEW k \in 1..Len(M[g])
       PROVE  /\ Old(g, k) \in 1..Len(L[g]) /\ M[g][k] = L[g][Old(g, k)] /\ L[g][Old(g, k)] \in Elts
              /\ g = h => Old(g, k) # i
  <2>1. CASE g # h
    BY <1>1, <1>6, <2>1, PlaceOK
  <2>2. CASE g = h
    <3>1. k \in 1..(n - 1)
      BY <1>5, <2>2
    <3> k \in Int /\ 1 <= k /\ k <= n - 1
      BY <1>0, <3>1
    <3>2. Old(h, k) \in 1..n /\ M[h][k] = L[h][Old(h, k)] /\ Old(h, k) # i
      BY <1>0, <1>5, <3>1
    <3> HIDE DEF Old
    <3> QED BY <1>1, <2>2, <3>2, PlaceOK
  <2> QED BY <2>1, <2>2
<1>13. ASSUME NEW a \in Heads, NEW b \in Heads, NEW c \in 1..Len(L[a]), NEW d \in 1..Len(L[b]), L[a][c] = L[b][d]
       PROVE  a = b /\ c = d
  BY <1>13 DEF Rings
<1>14. ASSUME NEW g \in Heads, NEW f \in Heads, NEW k \in 1..Len(M[g]), NEW j \in 1..Len(M[f]), M[g][k] = M[f][j]
       PROVE  g = f /\ k = j
  <2> HIDE DEF Old
  <2>1. g = f /\ Old(g, k) = Old(f, j)
    <3>1. /\ Old(g, k) \in 1..Len(L[g]) /\ Old(f, j) \in 1..Len(L[f])
          /\ L[g][Old(g, k)] = L[f][Old(f, j)]
      BY <1>12, <1>14
    <3> QED BY <1>13, <3>1
  <2>2. k \in Int /\ j \in Int /\ i \in Int
    BY <1>0
  <2> QED BY <2>1, <2>2 DEF Old
<1>15. \A g \in Heads \ rd : M[g] = <<>>
  BY <1>6 DEF Rings
<1>16. Rings(np, nn, rd, M)
  BY <1>1, <1>6, <1>10, <1>11, <1>14, <1>15 DEF Rings
<1>17. Queued(M) = Queued(L) \ {x}
  <2>1. ASSUME NEW y \in Queued(M)
        PROVE  y \in Queued(L) \ {x}
    <3>0. PICK g \in Heads : \E k \in 1..Len(M[g]) : M[g][k] = y /\ y \in Elts
      BY DEF Queued
    <3>1. PICK k \in 1..Len(M[g]) : M[g][k] = y /\ y \in Elts
      BY <3>0
    <3> HIDE DEF Old
    <3>2. Old(g, k) \in 1..Len(L[g]) /\ L[g][Old(g, k)] = y /\ (g = h => Old(g, k) # i)
      BY <1>12, <3>1
    <3>3. y # x
      BY <1>1, <1>13, <3>2
    <3> QED BY <3>1, <3>2, <3>3 DEF Queued
  <2>2. ASSUME NEW y \in Queued(L) \ {x}
        PROVE  y \in Queued(M)
    <3>0. PICK g \in Heads : \E k \in 1..Len(L[g]) : L[g][k] = y /\ y \in Elts
      BY DEF Queued
    <3>1. PICK k \in 1..Len(L[g]) : L[g][k] = y /\ y \in Elts
      BY <3>0
    <3>2. CASE g # h
      BY <1>6, <3>1, <3>2 DEF Queued
    <3>3. CASE g = h
      <4> DEFINE m == IF k < i THEN k ELSE k - 1
      <4>1. k # i
        BY <3>1, <3>3
      <4>2. k \in Int /\ 1 <= k /\ k <= n
        BY <1>0, <3>1, <3>3
      <4>3. m \in 1..(n - 1) /\ L[h][k] = IF m < i THEN L[h][m] ELSE L[h][m + 1]
        BY <1>0, <4>1, <4>2
      <4>4. m \in 1..Len(M[h]) /\ M[h][m] = y
        BY <1>5, <3>1, <3>3, <4>3
      <4> QED BY <1>1, <3>1, <4>4 DEF Queued
    <3> QED BY <3>2, <3>3
  <2> QED BY <2>1, <2>2
<1> QED BY <1>16, <1>17 DEF M

\* A sequence cut before its i-th element.
LEMMA CutElements ==
  ASSUME NEW S, NEW s \in Seq(S), NEW i \in 1..(Len(s) + 1)
  PROVE  /\ SubSeq(s, 1, i - 1) \in Seq(S) /\ Len(SubSeq(s, 1, i - 1)) = i - 1
         /\ \A k \in 1..(i - 1) : SubSeq(s, 1, i - 1)[k] = s[k]
         /\ SubSeq(s, i, Len(s)) \in Seq(S) /\ Len(SubSeq(s, i, Len(s))) = Len(s) - i + 1
         /\ \A k \in 1..(Len(s) - i + 1) : SubSeq(s, i, Len(s))[k] = s[k + i - 1]
<1> DEFINE a == SubSeq(s, 1, i - 1)
           b == SubSeq(s, i, Len(s))
<1>1. Len(s) \in Nat /\ i \in Nat /\ 1 <= i /\ i <= Len(s) + 1 /\ \A k \in 1..Len(s) : s[k] \in S
  BY ElementOfSeq, LenProperties
<1>2. a \in Seq(S) /\ Len(a) = i - 1 /\ \A k \in 1..(i - 1) : a[k] = s[k]
  <2>1. \A k \in 1..(i - 1) : s[k] \in S
    BY <1>1
  <2> HIDE DEF a
  <2>2. a \in Seq(S) /\ Len(a) = (IF 1 <= i - 1 THEN i - 1 - 1 + 1 ELSE 0)
        /\ \A k \in 1..(i - 1 - 1 + 1) : a[k] = s[1 + k - 1]
    BY <1>1, <2>1, SubSeqProperties DEF a
  <2> QED BY <1>1, <2>2
<1>3. b \in Seq(S) /\ Len(b) = Len(s) - i + 1 /\ \A k \in 1..(Len(s) - i + 1) : b[k] = s[k + i - 1]
  <2>1. \A k \in i..Len(s) : s[k] \in S
    BY <1>1
  <2> HIDE DEF b
  <2>2. b \in Seq(S) /\ Len(b) = (IF i <= Len(s) THEN Len(s) - i + 1 ELSE 0)
        /\ \A k \in 1..(Len(s) - i + 1) : b[k] = s[i + k - 1]
    BY <1>1, <2>1, SubSeqProperties DEF b
  <2>3. \A k \in 1..(Len(s) - i + 1) : i + k - 1 = k + i - 1
    BY <1>1
  <2> QED BY <1>1, <2>2, <2>3
<1> QED BY <1>2, <1>3

\* The pointers np and nn after queue_split().
Splits(pv, nx, h, q, m, np, nn) ==
  /\ nn = [[nx EXCEPT ![pv[h]] = m, ![m] = q] EXCEPT ![pv[q]] = h]
  /\ np = [pv EXCEPT ![m] = pv[h], ![h] = pv[q], ![q] = m]

\* A ring is cut before its i-th element, and the head m gets the second part.
LEMMA RingsSplit ==
  ASSUME NEW pv, NEW nx, NEW rd, NEW L, Rings(pv, nx, rd, L),
         NEW h \in rd, NEW i \in 1..Len(L[h]),
         NEW m \in Heads, m # h, m \in rd => nx[m] = m, NEW np, NEW nn,
         Splits(pv, nx, h, L[h][i], m, np, nn)
  PROVE  /\ L[m] = <<>> /\ Rings(np, nn, rd \cup {m}, SplitAt(L, h, i, m))
         /\ Queued(SplitAt(L, h, i, m)) = Queued(L)
<1> DEFINE M == SplitAt(L, h, i, m)
           q == L[h][i]
           last == pv[h]
           bef == pv[q]
           n == Len(L[h])
<1>1. /\ pv \in [Links -> Links] /\ nx \in [Links -> Links] /\ rd \subseteq Heads /\ h \in Heads
      /\ L \in [Heads -> Seq(Elts)] /\ Heads \cap Elts = {} /\ h \in Links /\ m \in Links /\ m # h
  BY QueueAssumption DEF Rings, Links
<1>0. n \in Int /\ i \in Int /\ 1 <= i /\ i <= n
  BY <1>1, PlaceOK
<1>2. L[m] = <<>>
  <2>1. CASE m \in rd
    <3>1. Len(L[m]) \in Nat /\ L[m] \in Seq(Elts) /\ Place(L, m, 0) = m
      BY <1>1, PlaceOK
    <3>2. nx[Place(L, m, 0)] = Place(L, m, 0 + 1)
      BY <2>1, <3>1 DEF Rings
    <3>3. ASSUME Len(L[m]) # 0 PROVE FALSE
      <4>1. 1 \in 1..Len(L[m])
        BY <3>1, <3>3
      <4>2. Place(L, m, 1) \in Elts
        <5>1. \A j \in 1..Len(L[m]) : L[m][j] \in Elts /\ Place(L, m, j) = L[m][j]
          BY <1>1, PlaceOK
        <5> QED BY <4>1, <5>1
      <4> QED BY <1>1, <2>1, <3>1, <3>2, <4>2
    <3> QED BY <3>1, <3>3, EmptySeq
  <2>2. CASE m \notin rd
    BY <2>2 DEF Rings
  <2> QED BY <2>1, <2>2
<1>3. q = Place(L, h, i) /\ q \in Elts /\ q \in Links
  BY <1>1, PlaceOK DEF Links
<1>4. /\ bef = Place(L, h, i - 1) /\ bef \in Links
      /\ last = Place(L, h, n) /\ last = L[h][n] /\ last \in Elts /\ last \in Links
  <2>1. i - 1 \in 0..n /\ i - 1 \in 0..(n + 1) /\ i - 1 + 1 = i /\ n \in 0..n /\ n \in 1..n
    BY <1>0
  <2>2. pv[Place(L, h, i - 1 + 1)] = Place(L, h, i - 1)
    BY <2>1 DEF Rings
  <2>3. pv[Place(L, h, n + 1)] = Place(L, h, n)
    BY <2>1 DEF Rings
  <2>4. /\ \A k \in 1..n : L[h][k] \in Elts /\ Place(L, h, k) = L[h][k]
        /\ \A k \in 0..(n + 1) : Place(L, h, k) \in Links
        /\ Place(L, h, n + 1) = h
    BY <1>1, PlaceOK
  <2> QED BY <1>3, <2>1, <2>2, <2>3, <2>4 DEF Links
<1>5. /\ M[h] \in Seq(Elts) /\ Len(M[h]) = i - 1 /\ \A k \in 1..(i - 1) : M[h][k] = L[h][k]
      /\ M[m] \in Seq(Elts) /\ Len(M[m]) = n - i + 1 /\ \A k \in 1..(n - i + 1) : M[m][k] = L[h][k + i - 1]
  <2> DEFINE s == L[h]
  <2>1. /\ M[h] = SubSeq(s, 1, i - 1) /\ M[m] = SubSeq(s, i, Len(s)) /\ s \in Seq(Elts)
        /\ i \in 1..(Len(s) + 1)
    BY <1>0, <1>1 DEF SplitAt
  <2> HIDE DEF s, M
  <2>2. /\ SubSeq(s, 1, i - 1) \in Seq(Elts) /\ Len(SubSeq(s, 1, i - 1)) = i - 1
        /\ \A k \in 1..(i - 1) : SubSeq(s, 1, i - 1)[k] = s[k]
        /\ SubSeq(s, i, Len(s)) \in Seq(Elts) /\ Len(SubSeq(s, i, Len(s))) = Len(s) - i + 1
        /\ \A k \in 1..(Len(s) - i + 1) : SubSeq(s, i, Len(s))[k] = s[k + i - 1]
    BY <2>1, CutElements
  <2> QED BY <2>1, <2>2 DEF s
<1>6. M \in [Heads -> Seq(Elts)] /\ \A g \in Heads \ {h, m} : M[g] = L[g]
  BY <1>1, <1>5 DEF SplitAt
<1> HIDE DEF M
<1>7. \A g \in Heads \ {h, m} : \A k \in 0..(Len(L[g]) + 1) : Place(M, g, k) = Place(L, g, k)
  BY <1>6 DEF Place
<1>8. /\ \A k \in 0..i : Place(M, h, k) = IF k < i THEN Place(L, h, k) ELSE h
      /\ \A k \in 0..(n - i + 2) :
           Place(M, m, k) = IF k \in 1..(n - i + 1) THEN Place(L, h, k + i - 1) ELSE m
  <2>1. ASSUME NEW k \in 0..i PROVE Place(M, h, k) = IF k < i THEN Place(L, h, k) ELSE h
    BY <1>0, <1>5 DEF Place
  <2>2. ASSUME NEW k \in 0..(n - i + 2)
        PROVE  Place(M, m, k) = IF k \in 1..(n - i + 1) THEN Place(L, h, k + i - 1) ELSE m
    <3>1. CASE k \in 1..(n - i + 1)
      <4>1. k + i - 1 \in 1..n
        BY <1>0, <3>1
      <4> QED BY <1>5, <3>1, <4>1 DEF Place
    <3>2. CASE k \notin 1..(n - i + 1)
      BY <1>5, <3>2 DEF Place
    <3> QED BY <3>1, <3>2
  <2> QED BY <2>1, <2>2
<1>9. ASSUME NEW g \in rd, g # m
      PROVE  /\ \A k \in 0..Len(L[g]) :
                  /\ Place(L, g, k) = bef => g = h /\ k = i - 1
                  /\ Place(L, g, k) = last => g = h /\ k = n
             /\ \A k \in 1..(Len(L[g]) + 1) :
                  /\ Place(L, g, k) = q => g = h /\ k = i
                  /\ Place(L, g, k) = h => g = h /\ k = n + 1
             /\ Len(L[g]) \in Nat
             /\ \A k \in 0..(Len(L[g]) + 1) : Place(L, g, k) \in Links /\ Place(L, g, k) # m
  <2>1. g \in Heads
    BY <1>1
  <2>2. i - 1 \in 0..n /\ n \in 0..n /\ i \in 1..(n + 1) /\ n + 1 \in 1..(n + 1)
    BY <1>0
  <2>3. h = Place(L, h, n + 1)
    BY <1>1, PlaceOK
  <2>4. /\ \A k \in 0..Len(L[g]) :
             /\ Place(L, g, k) = bef => g = h /\ k = i - 1
             /\ Place(L, g, k) = last => g = h /\ k = n
        /\ \A k \in 1..(Len(L[g]) + 1) :
             /\ Place(L, g, k) = q => g = h /\ k = i
             /\ Place(L, g, k) = h => g = h /\ k = n + 1
    <3>1. /\ \A k \in 0..Len(L[g]), j \in 0..n : Place(L, g, k) = Place(L, h, j) => g = h /\ k = j
          /\ \A k \in 1..(Len(L[g]) + 1), j \in 1..(n + 1) : Place(L, g, k) = Place(L, h, j) => g = h /\ k = j
      BY <1>1, <2>1, PlacesDiffer
    <3> QED BY <1>3, <1>4, <2>2, <2>3, <3>1
  <2>5. /\ Len(L[g]) \in Nat
        /\ \A k \in 0..(Len(L[g]) + 1) : Place(L, g, k) \in Links
        /\ \A k \in 1..Len(L[g]) : L[g][k] \in Elts
    BY <1>1, <2>1, PlaceOK
  <2>6. \A k \in 0..(Len(L[g]) + 1) : Place(L, g, k) # m
    BY <1>1, <1>9, <2>5 DEF Place
  <2> QED BY <2>4, <2>5, <2>6
<1>10. /\ nn \in [Links -> Links] /\ np \in [Links -> Links]
       /\ nn[last] = m /\ nn[m] = q /\ nn[bef] = h /\ np[m] = last /\ np[h] = bef /\ np[q] = m
       /\ \A y \in Links \ {last, m, bef} : nn[y] = nx[y]
       /\ \A y \in Links \ {m, h, q} : np[y] = pv[y]
  <2>1. last # bef /\ bef # m /\ last # m /\ q # m /\ q # h /\ last # h
    <3>1. i - 1 \in 0..Len(L[h]) /\ i - 1 # n /\ i - 1 \in 0..(Len(L[h]) + 1)
      BY <1>0
    <3>2. last # bef /\ bef # m
      BY <1>1, <1>4, <1>9, <3>1
    <3> QED BY <1>1, <1>3, <1>4, <3>2
  <2> QED BY <1>1, <1>3, <1>4, <2>1 DEF Splits
<1>11. ASSUME NEW g \in rd \cup {m}, NEW k \in 0..Len(M[g])
       PROVE  nn[Place(M, g, k)] = Place(M, g, k + 1) /\ np[Place(M, g, k + 1)] = Place(M, g, k)
  <2>1. CASE g \notin {h, m}
    <3>1. g \in Heads \ {h, m} /\ g \in rd /\ M[g] = L[g] /\ Len(L[g]) \in Nat
      BY <1>1, <1>6, <1>9, <2>1
    <3>2. k \in 0..Len(L[g]) /\ k \in 0..(Len(L[g]) + 1) /\ k + 1 \in 1..(Len(L[g]) + 1) /\ k + 1 \in 0..(Len(L[g]) + 1)
      BY <3>1
    <3>3. Place(M, g, k) = Place(L, g, k) /\ Place(M, g, k + 1) = Place(L, g, k + 1)
      BY <1>7, <3>1, <3>2
    <3>4. Place(L, g, k) \in Links \ {last, m, bef} /\ Place(L, g, k + 1) \in Links \ {m, h, q}
      BY <1>9, <2>1, <3>1, <3>2
    <3>5. nx[Place(L, g, k)] = Place(L, g, k + 1) /\ pv[Place(L, g, k + 1)] = Place(L, g, k)
      BY <3>1, <3>2 DEF Rings
    <3> QED BY <1>10, <3>3, <3>4, <3>5
  <2>2. CASE g = h
    <3>1. k \in Int /\ 0 <= k /\ k <= i - 1
      BY <1>0, <1>5, <2>2
    <3>2. CASE k < i - 1
      <4>1. /\ k \in 0..i /\ k + 1 \in 0..i /\ k + 1 < i /\ k < i /\ k \in 0..n /\ k # i - 1 /\ k # n
            /\ k + 1 \in 1..(n + 1) /\ k + 1 # i /\ k + 1 # n + 1 /\ k \in 0..(n + 1) /\ k + 1 \in 0..(n + 1)
        BY <1>0, <3>1, <3>2
      <4>2. Place(M, h, k) = Place(L, h, k) /\ Place(M, h, k + 1) = Place(L, h, k + 1)
        BY <1>8, <4>1
      <4>3. Place(L, h, k) \in Links \ {last, m, bef} /\ Place(L, h, k + 1) \in Links \ {m, h, q}
        BY <1>1, <1>9, <4>1
      <4>4. nx[Place(L, h, k)] = Place(L, h, k + 1) /\ pv[Place(L, h, k + 1)] = Place(L, h, k)
        BY <4>1 DEF Rings
      <4> QED BY <1>10, <2>2, <4>2, <4>3, <4>4
    <3>3. CASE k = i - 1
      <4>1. k \in 0..i /\ k + 1 \in 0..i /\ ~(k + 1 < i) /\ k < i
        BY <1>0, <3>1, <3>3
      <4>2. Place(M, h, k) = bef /\ Place(M, h, k + 1) = h
        BY <1>4, <1>8, <3>3, <4>1
      <4> QED BY <1>10, <2>2, <4>2
    <3> QED BY <1>0, <3>1, <3>2, <3>3
  <2>3. CASE g = m
    <3>1. k \in Int /\ 0 <= k /\ k <= n - i + 1
      BY <1>0, <1>5, <2>3
    <3>2. CASE k = 0
      <4>1. /\ k \in 0..(n - i + 2) /\ k + 1 \in 0..(n - i + 2) /\ k + 1 \in 1..(n - i + 1)
            /\ k \notin 1..(n - i + 1) /\ k + 1 + i - 1 = i
        BY <1>0, <3>1, <3>2
      <4>2. Place(M, m, k) = m /\ Place(M, m, k + 1) = q
        BY <1>3, <1>8, <4>1
      <4> QED BY <1>10, <2>3, <4>2
    <3>3. CASE k = n - i + 1
      <4>1. /\ k \in 0..(n - i + 2) /\ k + 1 \in 0..(n - i + 2) /\ k + 1 \notin 1..(n - i + 1)
            /\ k \in 1..(n - i + 1) /\ k + i - 1 = n
        BY <1>0, <3>1, <3>3
      <4>2. Place(M, m, k) = last /\ Place(M, m, k + 1) = m
        BY <1>4, <1>8, <4>1
      <4> QED BY <1>10, <2>3, <4>2
    <3>4. CASE k # 0 /\ k # n - i + 1
      <4> DEFINE j == k + i - 1
      <4>1. /\ k \in 0..(n - i + 2) /\ k + 1 \in 0..(n - i + 2) /\ k + 1 \in 1..(n - i + 1)
            /\ k \in 1..(n - i + 1) /\ k + 1 + i - 1 = j + 1
            /\ j \in 0..n /\ j # i - 1 /\ j # n /\ j + 1 \in 1..(n + 1) /\ j + 1 # i /\ j + 1 # n + 1
            /\ j \in 0..(n + 1) /\ j + 1 \in 0..(n + 1)
        <5>1. 1 <= k /\ k <= n - i
          BY <1>0, <3>1, <3>4
        <5>2. j \in Int /\ i <= j /\ j <= n - 1 /\ k + 1 + i - 1 = j + 1
          BY <1>0, <3>1, <5>1
        <5> HIDE DEF j, n
        <5>3. /\ k \in 0..(n - i + 2) /\ k + 1 \in 0..(n - i + 2) /\ k + 1 \in 1..(n - i + 1)
              /\ k \in 1..(n - i + 1)
          BY <1>0, <3>1, <5>1
        <5>4. /\ j \in 0..n /\ j # i - 1 /\ j # n /\ j + 1 \in 1..(n + 1) /\ j + 1 # i /\ j + 1 # n + 1
              /\ j \in 0..(n + 1) /\ j + 1 \in 0..(n + 1)
          BY <1>0, <5>2
        <5> QED BY <5>2, <5>3, <5>4
      <4>2. Place(M, m, k) = Place(L, h, j) /\ Place(M, m, k + 1) = Place(L, h, j + 1)
        BY <1>8, <4>1
      <4> HIDE DEF j
      <4>3. Place(L, h, j) \in Links \ {last, m, bef} /\ Place(L, h, j + 1) \in Links \ {m, h, q}
        BY <1>1, <1>9, <4>1
      <4>4. nx[Place(L, h, j)] = Place(L, h, j + 1) /\ pv[Place(L, h, j + 1)] = Place(L, h, j)
        BY <4>1 DEF Rings
      <4> QED BY <1>10, <2>3, <4>2, <4>3, <4>4
    <3> QED BY <3>2, <3>3, <3>4
  <2> QED BY <2>1, <2>2, <2>3
<1> DEFINE From(g) == IF g = m THEN h ELSE g
           Old(g, k) == IF g = m THEN k + i - 1 ELSE k
<1>12. ASSUME NEW g \in Heads, NEW k \in 1..Len(M[g])
       PROVE  /\ From(g) \in Heads /\ Old(g, k) \in 1..Len(L[From(g)]) /\ M[g][k] = L[From(g)][Old(g, k)]
              /\ g = h => Old(g, k) < i
              /\ g = m => Old(g, k) >= i
              /\ k \in Int
  <2>1. CASE g \notin {h, m}
    BY <1>1, <1>6, <2>1, PlaceOK
  <2>2. CASE g = h
    <3>1. k \in Int /\ 1 <= k /\ k <= i - 1
      BY <1>0, <1>5, <2>2
    <3> QED BY <1>0, <1>1, <1>5, <2>2, <3>1
  <2>3. CASE g = m
    <3>1. k \in Int /\ 1 <= k /\ k <= n - i + 1
      BY <1>0, <1>5, <2>3
    <3>2. k + i - 1 \in 1..n /\ k + i - 1 >= i
      BY <1>0, <3>1
    <3> QED BY <1>1, <1>5, <2>3, <3>1, <3>2
  <2> QED BY <2>1, <2>2, <2>3
<1>13. ASSUME NEW a \in Heads, NEW b \in Heads, NEW c \in 1..Len(L[a]), NEW d \in 1..Len(L[b]), L[a][c] = L[b][d]
       PROVE  a = b /\ c = d
  BY <1>13 DEF Rings
<1>14. ASSUME NEW g \in Heads, NEW f \in Heads, NEW k \in 1..Len(M[g]), NEW j \in 1..Len(M[f]), M[g][k] = M[f][j]
       PROVE  g = f /\ k = j
  <2> HIDE DEF Old, From
  <2>1. From(g) = From(f) /\ Old(g, k) = Old(f, j)
    <3>1. /\ From(g) \in Heads /\ From(f) \in Heads
          /\ Old(g, k) \in 1..Len(L[From(g)]) /\ Old(f, j) \in 1..Len(L[From(f)])
          /\ L[From(g)][Old(g, k)] = L[From(f)][Old(f, j)]
      BY <1>12, <1>14
    <3> QED BY <1>13, <3>1
  <2>2. k \in Int /\ j \in Int /\ i \in Int
    BY <1>0, <1>12
  <2>3. g = f
    <3>1. ~(g = h /\ f = m) /\ ~(g = m /\ f = h)
      BY <1>12, <2>1, <2>2 DEF Old
    <3> QED BY <2>1, <3>1 DEF From
  <2> QED BY <2>1, <2>2, <2>3 DEF Old
<1>15. \A g \in Heads \ (rd \cup {m}) : M[g] = <<>>
  BY <1>6 DEF Rings
<1>16. Rings(np, nn, rd \cup {m}, M)
  <2>1. rd \cup {m} \subseteq Heads
    BY <1>1
  <2> QED BY <1>6, <1>10, <1>11, <1>14, <1>15, <2>1 DEF Rings
<1>17. Queued(M) = Queued(L)
  <2>1. ASSUME NEW y \in Queued(M)
        PROVE  y \in Queued(L)
    <3>0. PICK g \in Heads : \E k \in 1..Len(M[g]) : M[g][k] = y /\ y \in Elts
      BY DEF Queued
    <3>1. PICK k \in 1..Len(M[g]) : M[g][k] = y /\ y \in Elts
      BY <3>0
    <3> HIDE DEF Old, From
    <3>2. From(g) \in Heads /\ Old(g, k) \in 1..Len(L[From(g)]) /\ L[From(g)][Old(g, k)] = y
      BY <1>12, <3>1
    <3> QED BY <3>1, <3>2 DEF Queued
  <2>2. ASSUME NEW y \in Queued(L)
        PROVE  y \in Queued(M)
    <3>0. PICK g \in Heads : \E k \in 1..Len(L[g]) : L[g][k] = y /\ y \in Elts
      BY DEF Queued
    <3>1. PICK k \in 1..Len(L[g]) : L[g][k] = y /\ y \in Elts
      BY <3>0
    <3>2. CASE g \notin {h, m}
      BY <1>6, <3>1, <3>2 DEF Queued
    <3>3. CASE g = h
      <4>1. k \in Int /\ 1 <= k /\ k <= n
        BY <1>0, <3>1, <3>3
      <4>2. CASE k < i
        <5>1. k \in 1..(i - 1)
          BY <1>0, <4>1, <4>2
        <5>2. k \in 1..Len(M[h]) /\ M[h][k] = y
          BY <1>5, <3>1, <3>3, <5>1
        <5> QED BY <1>1, <3>1, <5>2 DEF Queued
      <4>3. CASE k >= i
        <5> DEFINE j == k - i + 1
        <5>1. j \in 1..(n - i + 1) /\ j + i - 1 = k
          BY <1>0, <4>1, <4>3
        <5>2. j \in 1..Len(M[m]) /\ M[m][j] = y
          BY <1>5, <3>1, <3>3, <5>1
        <5> QED BY <1>1, <3>1, <5>2 DEF Queued
      <4> QED BY <1>0, <4>1, <4>2, <4>3
    <3>4. g # m
      BY <1>2, <3>1
    <3> QED BY <3>2, <3>3, <3>4
  <2> QED BY <2>1, <2>2
<1> QED BY <1>2, <1>16, <1>17 DEF M

\* Two sequences, one behind the other.
LEMMA ConcatElements ==
  ASSUME NEW S, NEW s \in Seq(S), NEW t \in Seq(S)
  PROVE  /\ s \o t \in Seq(S) /\ Len(s \o t) = Len(s) + Len(t)
         /\ \A k \in 1..Len(s) : (s \o t)[k] = s[k]
         /\ \A k \in 1..Len(t) : (s \o t)[Len(s) + k] = t[k]
<1> DEFINE c == s \o t
<1>1. c \in Seq(S) /\ Len(c) = Len(s) + Len(t)
      /\ \A k \in 1..(Len(s) + Len(t)) : c[k] = IF k <= Len(s) THEN s[k] ELSE t[k - Len(s)]
  BY ConcatProperties
<1>2. Len(s) \in Nat /\ Len(t) \in Nat
  BY LenProperties
<1> HIDE DEF c
<1>3. ASSUME NEW k \in 1..Len(t) PROVE c[Len(s) + k] = t[k]
  <2>1. /\ Len(s) + k \in 1..(Len(s) + Len(t)) /\ ~(Len(s) + k <= Len(s))
        /\ Len(s) + k - Len(s) = k
    BY <1>2
  <2>2. c[Len(s) + k] = t[Len(s) + k - Len(s)]
    BY <1>1, <2>1
  <2> QED BY <2>1, <2>2
<1>4. ASSUME NEW k \in 1..Len(s) PROVE c[k] = s[k]
  <2>1. k \in 1..(Len(s) + Len(t)) /\ k <= Len(s)
    BY <1>2
  <2> QED BY <1>1, <2>1
<1> QED BY <1>1, <1>3, <1>4 DEF c

\* The pointers np and nn after queue_add().
Joins(pv, nx, h, m, np, nn) ==
  LET prev2 == [pv EXCEPT ![nx[m]] = pv[h]]
      last  == prev2[m]
  IN  /\ np = [prev2 EXCEPT ![h] = last]
      /\ nn = [[nx EXCEPT ![pv[h]] = nx[m]] EXCEPT ![last] = h]

\* The elements of the head m come behind those of h.
LEMMA RingsJoin ==
  ASSUME NEW pv, NEW nx, NEW rd, NEW L, Rings(pv, nx, rd, L),
         NEW h \in rd, NEW m \in rd, m # h, NEW np, NEW nn,
         Joins(pv, nx, h, m, np, nn)
  PROVE  Rings(np, nn, rd \ {m}, Joined(L, h, m)) /\ Queued(Joined(L, h, m)) = Queued(L)
<1> DEFINE M == Joined(L, h, m)
           end == pv[h]
           first == nx[m]
           tail == pv[m]
           n == Len(L[h])
           r == Len(L[m])
<1>1. /\ pv \in [Links -> Links] /\ nx \in [Links -> Links] /\ rd \subseteq Heads /\ h \in Heads /\ m \in Heads
      /\ L \in [Heads -> Seq(Elts)] /\ Heads \cap Elts = {} /\ h \in Links /\ m \in Links /\ m # h
  BY QueueAssumption DEF Rings, Links
<1>2. n \in Int /\ 0 <= n /\ r \in Int /\ 0 <= r
  BY <1>1, PlaceOK
<1> HIDE DEF n, r
<1>3. /\ M[h] \in Seq(Elts) /\ Len(M[h]) = n + r
      /\ \A k \in 1..n : M[h][k] = L[h][k]
      /\ \A k \in 1..r : M[h][n + k] = L[m][k]
      /\ M[m] = <<>> /\ Len(M[m]) = 0
  <2> DEFINE s == L[h]
             t == L[m]
  <2>1. M[h] = s \o t /\ M[m] = <<>> /\ s \in Seq(Elts) /\ t \in Seq(Elts)
    BY <1>1 DEF Joined
  <2> HIDE DEF s, t, M
  <2>2. /\ s \o t \in Seq(Elts) /\ Len(s \o t) = Len(s) + Len(t)
        /\ \A k \in 1..Len(s) : (s \o t)[k] = s[k]
        /\ \A k \in 1..Len(t) : (s \o t)[Len(s) + k] = t[k]
    BY <2>1, ConcatElements
  <2> QED BY <2>1, <2>2 DEF s, t, n, r
<1>4. M \in [Heads -> Seq(Elts)] /\ \A g \in Heads \ {h, m} : M[g] = L[g]
  <2>1. <<>> \in Seq(Elts)
    OBVIOUS
  <2> QED BY <1>1, <1>3, <2>1 DEF Joined
<1> HIDE DEF M
<1>5. \A g \in Heads \ {h, m} : \A k \in 0..(Len(L[g]) + 1) : Place(M, g, k) = Place(L, g, k)
  BY <1>4 DEF Place
<1>6. /\ \A k \in 0..n : Place(M, h, k) = Place(L, h, k)
      /\ \A k \in 1..r : Place(M, h, n + k) = Place(L, m, k)
      /\ Place(M, h, n + r + 1) = h
  <2>1. ASSUME NEW k \in 0..n PROVE Place(M, h, k) = Place(L, h, k)
    <3>1. k \in 1..n => k \in 1..(n + r)
      BY <1>2
    <3>2. k \notin 1..n => k \notin 1..(n + r)
      BY <1>2
    <3> QED BY <1>3, <3>1, <3>2 DEF Place, n, r
  <2>2. ASSUME NEW k \in 1..r PROVE Place(M, h, n + k) = Place(L, m, k)
    <3>1. n + k \in 1..(n + r)
      BY <1>2
    <3> QED BY <1>3, <3>1 DEF Place, n, r
  <2>3. n + r + 1 \notin 1..(n + r)
    BY <1>2
  <2> QED BY <1>3, <2>1, <2>2, <2>3 DEF Place
<1>7. /\ end = Place(L, h, n) /\ first = Place(L, m, 1) /\ tail = Place(L, m, r)
      /\ end \in Links /\ first \in Links /\ tail \in Links
      /\ Place(L, h, n + 1) = h /\ Place(L, h, 0) = h /\ Place(L, m, 0) = m /\ Place(L, m, r + 1) = m
      /\ nx[end] = h
  <2>1. pv[Place(L, h, n + 1)] = Place(L, h, n) /\ nx[Place(L, h, n)] = Place(L, h, n + 1)
    BY <1>2 DEF Rings, n, r
  <2>2. pv[Place(L, m, r + 1)] = Place(L, m, r)
    BY <1>2 DEF Rings, n, r
  <2>3. nx[Place(L, m, 0)] = Place(L, m, 0 + 1)
    BY <1>2 DEF Rings
  <2>4. Place(L, h, n + 1) = h /\ Place(L, h, 0) = h /\ Place(L, m, 0) = m /\ Place(L, m, r + 1) = m
    BY <1>1, PlaceOK DEF n, r
  <2> QED BY <1>1, <2>1, <2>2, <2>3, <2>4
<1>8. ASSUME NEW g \in rd
      PROVE  /\ \A k \in 0..Len(L[g]) :
                  /\ Place(L, g, k) = end => g = h /\ k = n
                  /\ Place(L, g, k) = tail => g = m /\ k = r
                  /\ Place(L, g, k) = m => g = m /\ k = 0
             /\ \A k \in 1..(Len(L[g]) + 1) :
                  /\ Place(L, g, k) = first => g = m /\ k = 1
                  /\ Place(L, g, k) = h => g = h /\ k = n + 1
                  /\ Place(L, g, k) = m => g = m /\ k = r + 1
             /\ Len(L[g]) \in Nat
             /\ \A k \in 0..(Len(L[g]) + 1) : Place(L, g, k) \in Links
  <2>1. g \in Heads
    BY <1>1
  <2>2. n \in 0..n /\ r \in 0..r /\ 0 \in 0..r /\ 1 \in 1..(r + 1) /\ n + 1 \in 1..(n + 1) /\ r + 1 \in 1..(r + 1)
    BY <1>2
  <2>3. /\ \A k \in 0..Len(L[g]), j \in 0..n : Place(L, g, k) = Place(L, h, j) => g = h /\ k = j
        /\ \A k \in 1..(Len(L[g]) + 1), j \in 1..(n + 1) : Place(L, g, k) = Place(L, h, j) => g = h /\ k = j
    BY <1>1, <2>1, PlacesDiffer DEF n, r
  <2>4. /\ \A k \in 0..Len(L[g]), j \in 0..r : Place(L, g, k) = Place(L, m, j) => g = m /\ k = j
        /\ \A k \in 1..(Len(L[g]) + 1), j \in 1..(r + 1) : Place(L, g, k) = Place(L, m, j) => g = m /\ k = j
    BY <1>1, <2>1, PlacesDiffer DEF n, r
  <2>5. Len(L[g]) \in Nat /\ \A k \in 0..(Len(L[g]) + 1) : Place(L, g, k) \in Links
    BY <1>1, <2>1, PlaceOK
  <2> QED BY <1>7, <2>2, <2>3, <2>4, <2>5
<1>9. end # m /\ end # tail /\ tail # end
  <2>1. n \in 0..Len(L[h])
    BY <1>2 DEF n, r
  <2> QED BY <1>1, <1>7, <1>8, <2>1
<1>10. /\ nn \in [Links -> Links] /\ np \in [Links -> Links]
       /\ r = 0 => \A y \in Links \ {m} : nn[y] = nx[y] /\ np[y] = pv[y]
       /\ r > 0 => /\ nn[end] = first /\ nn[tail] = h /\ np[first] = end /\ np[h] = tail
                   /\ \A y \in Links \ {end, tail} : nn[y] = nx[y]
                   /\ \A y \in Links \ {first, h} : np[y] = pv[y]
  <2>1. CASE r = 0
    <3>1. first = m
      BY <1>7, <2>1
    <3>2. [pv EXCEPT ![first] = end][m] = end
      BY <1>1, <3>1
    <3>3. np = [[pv EXCEPT ![first] = end] EXCEPT ![h] = end] /\ nn = [[nx EXCEPT ![end] = first] EXCEPT ![end] = h]
      BY <3>2 DEF Joins
    <3> QED BY <1>1, <1>7, <2>1, <3>1, <3>3
  <2>2. CASE r > 0
    <3>1. 1 \in 1..Len(L[m])
      BY <1>2, <2>2 DEF n, r
    <3>2. first \in Elts
      <4>1. \A k \in 1..Len(L[m]) : L[m][k] \in Elts /\ Place(L, m, k) = L[m][k]
        BY <1>1, PlaceOK
      <4> QED BY <1>7, <3>1, <4>1
    <3>3. first # m /\ first # h
      BY <1>1, <3>2
    <3>4. [pv EXCEPT ![first] = end][m] = tail
      BY <1>1, <3>3
    <3>5. np = [[pv EXCEPT ![first] = end] EXCEPT ![h] = tail] /\ nn = [[nx EXCEPT ![end] = first] EXCEPT ![tail] = h]
      BY <3>4 DEF Joins
    <3>6. r # 0
      BY <1>2, <2>2
    <3> QED BY <1>1, <1>7, <1>9, <3>3, <3>5, <3>6
  <2> QED BY <1>2, <2>1, <2>2
<1>11. ASSUME NEW g \in rd \ {m}, NEW k \in 0..Len(M[g])
       PROVE  nn[Place(M, g, k)] = Place(M, g, k + 1) /\ np[Place(M, g, k + 1)] = Place(M, g, k)
  <2>1. ASSUME NEW f \in rd, NEW j \in 0..Len(L[f])
        PROVE  nx[Place(L, f, j)] = Place(L, f, j + 1) /\ pv[Place(L, f, j + 1)] = Place(L, f, j)
    BY DEF Rings
  <2>2. ASSUME NEW f \in rd, NEW j \in 0..Len(L[f]),
               f = h => j # n,
               f = m => j # 0 /\ j # r
        PROVE  nn[Place(L, f, j)] = Place(L, f, j + 1) /\ np[Place(L, f, j + 1)] = Place(L, f, j)
    <3>1. j \in 0..(Len(L[f]) + 1) /\ j + 1 \in 1..(Len(L[f]) + 1) /\ j + 1 \in 0..(Len(L[f]) + 1) /\ j \in Int
      BY <1>8
    <3>2. Place(L, f, j) \in Links \ {end, tail, m}
      BY <1>8, <2>2, <3>1
    <3>3. Place(L, f, j + 1) \in Links \ {first, h, m}
      <4>1. (f = h => j + 1 # n + 1) /\ (f = m => j + 1 # 1 /\ j + 1 # r + 1)
        BY <1>2, <2>2, <3>1
      <4> QED BY <1>8, <3>1, <4>1
    <3>4. nn[Place(L, f, j)] = nx[Place(L, f, j)] /\ np[Place(L, f, j + 1)] = pv[Place(L, f, j + 1)]
      BY <1>2, <1>10, <3>2, <3>3
    <3> QED BY <2>1, <3>4
  <2>3. CASE g # h
    <3>1. g \in Heads \ {h, m} /\ g \in rd /\ M[g] = L[g] /\ Len(L[g]) \in Nat
      BY <1>1, <1>4, <1>8, <2>3
    <3>2. k \in 0..Len(L[g]) /\ k \in 0..(Len(L[g]) + 1) /\ k + 1 \in 0..(Len(L[g]) + 1)
      BY <3>1
    <3>3. Place(M, g, k) = Place(L, g, k) /\ Place(M, g, k + 1) = Place(L, g, k + 1)
      BY <1>5, <3>1, <3>2
    <3> QED BY <2>2, <2>3, <3>1, <3>2, <3>3
  <2>4. CASE g = h
    <3>1. k \in Int /\ 0 <= k /\ k <= n + r
      BY <1>2, <1>3, <2>4
    <3>2. CASE k < n
      <4>1. k \in 0..n /\ k + 1 \in 0..n /\ k # n /\ h # m
        BY <1>1, <1>2, <3>1, <3>2
      <4>2. Place(M, h, k) = Place(L, h, k) /\ Place(M, h, k + 1) = Place(L, h, k + 1)
        BY <1>6, <4>1
      <4>3. nn[Place(L, h, k)] = Place(L, h, k + 1) /\ np[Place(L, h, k + 1)] = Place(L, h, k)
        BY <2>2, <4>1 DEF n, r
      <4> QED BY <2>4, <4>2, <4>3
    <3>3. CASE k = n /\ r = 0
      <4>1. k \in 0..n /\ n + r + 1 = k + 1
        BY <1>2, <3>3
      <4>2. Place(M, h, k) = end /\ Place(M, h, k + 1) = h
        BY <1>6, <1>7, <3>3, <4>1
      <4> QED BY <1>1, <1>7, <1>9, <1>10, <2>4, <3>3, <4>2
    <3>4. CASE k = n /\ r > 0
      <4>1. k \in 0..n /\ 1 \in 1..r /\ k + 1 = n + 1
        BY <1>2, <3>4
      <4>2. Place(M, h, k) = end /\ Place(M, h, k + 1) = first
        BY <1>6, <1>7, <3>4, <4>1
      <4> QED BY <1>10, <2>4, <3>4, <4>2
    <3>5. CASE k > n /\ k < n + r
      <4> DEFINE j == k - n
      <4>1. j \in 1..r /\ j + 1 \in 1..r /\ j \in 0..r /\ k = n + j /\ k + 1 = n + (j + 1) /\ j # 0 /\ j # r
        BY <1>2, <3>1, <3>5
      <4> HIDE DEF j
      <4>2. Place(M, h, k) = Place(L, m, j) /\ Place(M, h, k + 1) = Place(L, m, j + 1)
        BY <1>6, <4>1
      <4>3. nn[Place(L, m, j)] = Place(L, m, j + 1) /\ np[Place(L, m, j + 1)] = Place(L, m, j)
        BY <2>2, <1>1, <4>1 DEF n, r
      <4> QED BY <2>4, <4>2, <4>3
    <3>6. CASE k > n /\ k = n + r
      <4>1. r \in 1..r /\ r > 0 /\ k + 1 = n + r + 1
        BY <1>2, <3>6
      <4>2. Place(M, h, k) = tail /\ Place(M, h, k + 1) = h
        BY <1>6, <1>7, <3>6, <4>1
      <4> QED BY <1>10, <2>4, <4>1, <4>2
    <3> QED BY <1>2, <3>1, <3>2, <3>3, <3>4, <3>5, <3>6
  <2> QED BY <2>3, <2>4
<1> DEFINE From(g, k) == IF g = h /\ k > n THEN m ELSE g
           Old(g, k) == IF g = h /\ k > n THEN k - n ELSE k
<1>12. ASSUME NEW g \in Heads, NEW k \in 1..Len(M[g])
       PROVE  /\ From(g, k) \in Heads /\ Old(g, k) \in 1..Len(L[From(g, k)])
              /\ M[g][k] = L[From(g, k)][Old(g, k)]
              /\ k \in Int /\ g # m
  <2>1. CASE g \notin {h, m}
    BY <1>1, <1>4, <2>1, PlaceOK
  <2>2. CASE g = h
    <3>1. k \in Int /\ 1 <= k /\ k <= n + r
      BY <1>2, <1>3, <2>2
    <3>2. CASE k > n
      <4>1. k - n \in 1..r /\ n + (k - n) = k
        BY <1>2, <3>1, <3>2
      <4>2. From(g, k) = m /\ Old(g, k) = k - n
        BY <2>2, <3>2
      <4>3. M[h][n + (k - n)] = L[m][k - n]
        BY <1>3, <4>1
      <4> HIDE DEF From, Old
      <4> QED BY <1>1, <2>2, <3>1, <4>1, <4>2, <4>3 DEF n, r
    <3>3. CASE ~(k > n)
      <4>1. k \in 1..n
        BY <1>2, <3>1, <3>3
      <4>2. From(g, k) = g /\ Old(g, k) = k
        BY <3>3
      <4> HIDE DEF From, Old
      <4> QED BY <1>1, <1>3, <2>2, <3>1, <4>1, <4>2 DEF n, r
    <3> QED BY <3>2, <3>3
  <2>3. CASE g = m
    BY <1>3, <2>3
  <2> QED BY <2>1, <2>2, <2>3
<1>13. ASSUME NEW a \in Heads, NEW b \in Heads, NEW c \in 1..Len(L[a]), NEW d \in 1..Len(L[b]), L[a][c] = L[b][d]
       PROVE  a = b /\ c = d
  BY <1>13 DEF Rings
<1>14. ASSUME NEW g \in Heads, NEW f \in Heads, NEW k \in 1..Len(M[g]), NEW j \in 1..Len(M[f]), M[g][k] = M[f][j]
       PROVE  g = f /\ k = j
  <2> HIDE DEF Old, From
  <2>1. From(g, k) = From(f, j) /\ Old(g, k) = Old(f, j)
    <3>1. /\ From(g, k) \in Heads /\ From(f, j) \in Heads
          /\ Old(g, k) \in 1..Len(L[From(g, k)]) /\ Old(f, j) \in 1..Len(L[From(f, j)])
          /\ L[From(g, k)][Old(g, k)] = L[From(f, j)][Old(f, j)]
      BY <1>12, <1>14
    <3> QED BY <1>13, <3>1
  <2>2. k \in Int /\ j \in Int /\ g # m /\ f # m
    BY <1>12
  <2>3. g = f /\ ((g = h /\ k > n) <=> (f = h /\ j > n))
    BY <1>1, <2>1, <2>2 DEF From
  <2> QED BY <1>2, <2>1, <2>2, <2>3 DEF Old
<1>15. \A g \in Heads \ (rd \ {m}) : M[g] = <<>>
  <2>1. \A g \in Heads \ rd : g # h /\ g # m /\ L[g] = <<>>
    BY DEF Rings
  <2> QED BY <1>3, <1>4, <2>1
<1>16. Rings(np, nn, rd \ {m}, M)
  <2>1. rd \ {m} \subseteq Heads
    BY <1>1
  <2> QED BY <1>4, <1>10, <1>11, <1>14, <1>15, <2>1 DEF Rings
<1>17. Queued(M) = Queued(L)
  <2>1. ASSUME NEW y \in Queued(M)
        PROVE  y \in Queued(L)
    <3>0. PICK g \in Heads : \E k \in 1..Len(M[g]) : M[g][k] = y /\ y \in Elts
      BY DEF Queued
    <3>1. PICK k \in 1..Len(M[g]) : M[g][k] = y /\ y \in Elts
      BY <3>0
    <3> HIDE DEF Old, From
    <3>2. From(g, k) \in Heads /\ Old(g, k) \in 1..Len(L[From(g, k)]) /\ L[From(g, k)][Old(g, k)] = y
      BY <1>12, <3>1
    <3> QED BY <3>1, <3>2 DEF Queued
  <2>2. ASSUME NEW y \in Queued(L)
        PROVE  y \in Queued(M)
    <3>0. PICK g \in Heads : \E k \in 1..Len(L[g]) : L[g][k] = y /\ y \in Elts
      BY DEF Queued
    <3>1. PICK k \in 1..Len(L[g]) : L[g][k] = y /\ y \in Elts
      BY <3>0
    <3>2. CASE g \notin {h, m}
      BY <1>4, <3>1, <3>2 DEF Queued
    <3>3. CASE g = h
      <4>0. k \in 1..n
        BY <3>1, <3>3 DEF n
      <4>1. k \in 1..Len(M[h]) /\ k \in 1..n
        BY <1>2, <1>3, <4>0
      <4>2. M[h][k] = y
        BY <1>3, <3>1, <3>3, <4>1
      <4> QED BY <1>1, <3>1, <4>1, <4>2 DEF Queued
    <3>4. CASE g = m
      <4>0. k \in 1..r
        BY <3>1, <3>4 DEF r
      <4>1. n + k \in 1..Len(M[h]) /\ k \in 1..r
        BY <1>2, <1>3, <4>0
      <4>2. M[h][n + k] = y
        BY <1>3, <3>1, <3>4, <4>1
      <4> QED BY <1>1, <3>1, <4>1, <4>2 DEF Queued
    <3> QED BY <3>2, <3>3, <3>4
  <2> QED BY <2>1, <2>2
<1> QED BY <1>16, <1>17 DEF M

\* A head whose pointers lead to itself is an empty queue.
LEMMA RingsInit ==
  ASSUME NEW pv, NEW nx, NEW rd, NEW L, Rings(pv, nx, rd, L), NEW h \in Heads, h \notin rd
  PROVE  Rings([pv EXCEPT ![h] = h], [nx EXCEPT ![h] = h], rd \cup {h}, L)
<1> DEFINE np == [pv EXCEPT ![h] = h]
           nn == [nx EXCEPT ![h] = h]
<1>1. /\ pv \in [Links -> Links] /\ nx \in [Links -> Links] /\ rd \cup {h} \subseteq Heads
      /\ L \in [Heads -> Seq(Elts)] /\ Heads \cap Elts = {} /\ h \in Links /\ L[h] = <<>>
  BY QueueAssumption DEF Rings, Links
<1>2. /\ np \in [Links -> Links] /\ nn \in [Links -> Links] /\ nn[h] = h /\ np[h] = h
      /\ \A y \in Links \ {h} : nn[y] = nx[y] /\ np[y] = pv[y]
  BY <1>1
<1> HIDE DEF np, nn
<1>3. ASSUME NEW g \in rd \cup {h}, NEW k \in 0..Len(L[g])
      PROVE  nn[Place(L, g, k)] = Place(L, g, k + 1) /\ np[Place(L, g, k + 1)] = Place(L, g, k)
  <2>1. CASE g = h
    <3>1. k = 0 /\ Len(L[h]) = 0
      BY <1>1, <2>1
    <3>2. Place(L, h, 0) = h /\ Place(L, h, Len(L[h]) + 1) = h
      BY <1>1, PlaceOK
    <3> QED BY <1>2, <2>1, <3>1, <3>2
  <2>2. CASE g # h
    <3>1. g \in rd /\ g \in Heads
      BY <1>1, <2>2
    <3>2. nx[Place(L, g, k)] = Place(L, g, k + 1) /\ pv[Place(L, g, k + 1)] = Place(L, g, k)
      BY <3>1 DEF Rings
    <3>3. /\ Len(L[g]) \in Nat
          /\ \A j \in 0..(Len(L[g]) + 1) : Place(L, g, j) \in Links
          /\ \A j \in 1..Len(L[g]) : L[g][j] \in Elts
      BY <1>1, <3>1, PlaceOK
    <3>4. k \in 0..(Len(L[g]) + 1) /\ k + 1 \in 0..(Len(L[g]) + 1)
      BY <3>3
    <3>5. Place(L, g, k) \in Links \ {h} /\ Place(L, g, k + 1) \in Links \ {h}
      BY <1>1, <2>2, <3>3, <3>4 DEF Place
    <3> QED BY <1>2, <3>2, <3>5
  <2> QED BY <2>1, <2>2
<1>4. \A g \in Heads \ (rd \cup {h}) : L[g] = <<>>
  BY DEF Rings
<1>5. \A g, f \in Heads : \A i \in 1..Len(L[g]), j \in 1..Len(L[f]) : L[g][i] = L[f][j] => g = f /\ i = j
  BY DEF Rings
<1>6. Rings(np, nn, rd \cup {h}, L)
  BY <1>1, <1>2, <1>3, <1>4, <1>5 DEF Rings
<1> QED BY <1>6 DEF np, nn

-----------------------------------------------------------------------------
(* Following a ring. *)

\* Hop(x) and Walk(h) when the links point forward by nx.
HopBy(nx, x) ==
  LET hop[k \in 0..(2 * Cardinality(Links))] == IF k = 0 THEN x ELSE nx[hop[k - 1]] IN hop

WalkBy(nx, h) ==
  LET hop == HopBy(nx, h)
      len == CHOOSE k \in 0..Cardinality(Elts) :
               /\ hop[k + 1] = h \/ k = Cardinality(Elts)
               /\ \A j \in 1..k : hop[j] # h
  IN  [k \in 1..len |-> hop[k]]

\* There are more links than elements.
LEMMA LinksCount ==
  ASSUME Heads # {}
  PROVE  /\ Cardinality(Elts) \in Nat /\ Cardinality(Links) \in Nat
         /\ Cardinality(Elts) + 1 <= Cardinality(Links)
<1>1. PICK h \in Heads : h \notin Elts
  BY QueueAssumption
<1>2. IsFiniteSet(Elts) /\ IsFiniteSet(Links)
  BY QueueAssumption, FS_Union DEF Links
<1>3. IsFiniteSet(Elts \cup {h}) /\ Cardinality(Elts \cup {h}) = Cardinality(Elts) + 1
  BY <1>1, <1>2, FS_AddElement
<1>4. Cardinality(Elts \cup {h}) <= Cardinality(Links)
  BY <1>1, <1>2, FS_Subset DEF Links
<1> QED BY <1>2, <1>3, <1>4, FS_CardinalityType

\* Following the pointers is doing one step after the other.
LEMMA HopBySteps ==
  ASSUME NEW nx \in [Links -> Links], NEW x \in Links, Heads # {}
  PROVE  /\ HopBy(nx, x)[0] = x
         /\ \A k \in 1..(2 * Cardinality(Links)) : HopBy(nx, x)[k] = nx[HopBy(nx, x)[k - 1]]
<1> DEFINE n == 2 * Cardinality(Links)
<1>1. n \in Nat
  BY LinksCount
<1> HIDE DEF n
<1>2. \E g : g = [k \in 0..n |-> IF k = 0 THEN x ELSE nx[g[k - 1]]]
  BY <1>1, Iterates
<1> DEFINE hop == HopBy(nx, x)
<1>3. hop = [k \in 0..n |-> IF k = 0 THEN x ELSE nx[hop[k - 1]]]
  BY <1>2, Zenon DEF HopBy, n
<1> HIDE DEF hop
<1>4. 0 \in 0..n /\ \A k \in 1..n : k \in 0..n /\ k # 0
  BY <1>1
<1>5. hop[0] = x /\ \A k \in 1..n : hop[k] = nx[hop[k - 1]]
  BY <1>3, <1>4
<1> QED BY <1>5 DEF hop, n

\* From the j-th place of a ring, k links ahead is the place j + k.
LEMMA HopPlaces ==
  ASSUME NEW pv, NEW nx, NEW rd, NEW L, Rings(pv, nx, rd, L), NEW h \in rd, NEW j \in 0..Len(L[h]),
         NEW k \in Nat, j + k <= Len(L[h]) + 1
  PROVE  HopBy(nx, Place(L, h, j))[k] = Place(L, h, j + k) /\ k <= 2 * Cardinality(Links)
<1> DEFINE x == Place(L, h, j)
           n == Len(L[h])
           hop == HopBy(nx, x)
           Bad == {m \in Nat : j + m <= n + 1 /\ hop[m] # Place(L, h, j + m)}
<1>1. nx \in [Links -> Links] /\ h \in Heads /\ L \in [Heads -> Seq(Elts)]
  BY DEF Rings
<1>2. n \in Nat /\ n + 1 <= Cardinality(Links) /\ Cardinality(Links) \in Nat
  <2>1. n \in Nat
    BY <1>1, PlaceOK
  <2>2. n <= Cardinality(Elts) /\ Cardinality(Elts) \in Nat
    BY <1>1, LengthBound
  <2>3. Cardinality(Elts) + 1 <= Cardinality(Links) /\ Cardinality(Links) \in Nat
    BY <1>1, LinksCount
  <2> HIDE DEF n
  <2> QED BY <2>1, <2>2, <2>3
<1>3. x \in Links /\ j \in Nat /\ j <= n
  <2>1. j \in 0..(n + 1)
    BY <1>2
  <2> QED BY <1>1, <2>1, PlaceOK
<1>4. hop[0] = x /\ \A m \in 1..(2 * Cardinality(Links)) : hop[m] = nx[hop[m - 1]]
  BY <1>1, <1>3, HopBySteps
<1> HIDE DEF hop
<1>5. ASSUME NEW m \in Nat, j + m <= n + 1 PROVE hop[m] = Place(L, h, j + m)
  <2>1. SUFFICES ASSUME Bad # {} PROVE FALSE
    BY <1>5
  <2>2. PICK b \in Bad : \A c \in Bad : b <= c
    <3> HIDE DEF Bad
    <3>1. Bad \in SUBSET Nat
      BY DEF Bad
    <3> QED BY <2>1, <3>1, LeastOf
  <2>3. b \in Nat /\ j + b <= n + 1 /\ hop[b] # Place(L, h, j + b) /\ \A c \in Bad : b <= c
    BY <2>2
  <2>4. b # 0
    BY <1>3, <1>4, <2>3
  <2>5. b - 1 \in Nat /\ b - 1 \notin Bad /\ j + (b - 1) <= n + 1
    <3> HIDE DEF Bad, n
    <3> QED BY <1>2, <1>3, <2>3, <2>4
  <2>6. hop[b - 1] = Place(L, h, j + (b - 1))
    BY <2>5
  <2>7. b \in 1..(2 * Cardinality(Links)) /\ j + (b - 1) \in 0..n /\ j + (b - 1) + 1 = j + b
    <3> HIDE DEF Bad, n
    <3> QED BY <1>2, <1>3, <2>3, <2>4
  <2>8. nx[Place(L, h, j + (b - 1))] = Place(L, h, j + (b - 1) + 1)
    BY <2>7 DEF Rings
  <2> QED BY <1>4, <2>3, <2>6, <2>7, <2>8
<1>6. k <= 2 * Cardinality(Links)
  <2> HIDE DEF n
  <2> QED BY <1>2, <1>3 DEF n
<1> QED BY <1>5, <1>6 DEF hop

\* The walk behind a head finds the elements of its queue.
LEMMA WalkIsList ==
  ASSUME NEW pv, NEW nx, NEW rd, NEW L, Rings(pv, nx, rd, L), NEW h \in rd
  PROVE  WalkBy(nx, h) = L[h]
<1> DEFINE n == Len(L[h])
           hop == HopBy(nx, h)
           P(k) == /\ hop[k + 1] = h \/ k = Cardinality(Elts)
                   /\ \A j \in 1..k : hop[j] # h
<1>1. h \in Heads /\ L \in [Heads -> Seq(Elts)] /\ Heads \cap Elts = {}
  BY QueueAssumption DEF Rings
<1>2. n \in Int /\ 0 <= n /\ n <= Cardinality(Elts) /\ Cardinality(Elts) \in Int
  BY <1>1, PlaceOK, LengthBound
<1>3. \A k \in Nat : k <= n + 1 => hop[k] = Place(L, h, k)
  <2> TAKE k \in Nat
  <2>1. Place(L, h, 0) = h /\ 0 \in 0..n /\ 0 + k = k
    BY <1>1, <1>2, PlaceOK
  <2>2. ASSUME k <= n + 1 PROVE HopBy(nx, Place(L, h, 0))[k] = Place(L, h, 0 + k)
    BY <2>1, <2>2, HopPlaces
  <2> QED BY <2>1, <2>2
<1> HIDE DEF hop
<1>4. \A k \in 1..n : hop[k] = L[h][k] /\ hop[k] # h
  <2> TAKE k \in 1..n
  <2>1. k \in Nat /\ k <= n + 1
    BY <1>2
  <2>2. L[h][k] \in Elts /\ Place(L, h, k) = L[h][k]
    BY <1>1, PlaceOK
  <2> QED BY <1>1, <1>3, <2>1, <2>2
<1>5. hop[n + 1] = h
  <2>1. n + 1 \in Nat /\ n + 1 <= n + 1
    BY <1>2
  <2>2. Place(L, h, n + 1) = h
    BY <1>1, PlaceOK
  <2> QED BY <1>3, <2>1, <2>2
<1>6. P(n)
  BY <1>4, <1>5
<1>7. ASSUME NEW k \in 0..Cardinality(Elts), P(k) PROVE k = n
  <2>1. ~(k < n)
    <3>1. ASSUME k < n PROVE FALSE
      <4> HIDE DEF n
      <4>1. k + 1 \in 1..n /\ k # Cardinality(Elts)
        BY <1>2, <3>1
      <4> QED BY <1>4, <1>7, <4>1
    <3> QED BY <3>1
  <2>2. ~(k > n)
    <3>1. ASSUME k > n PROVE FALSE
      <4> HIDE DEF n
      <4>1. n + 1 \in 1..k
        BY <1>2, <3>1
      <4> QED BY <1>5, <1>7, <4>1
    <3> QED BY <3>1
  <2> HIDE DEF n
  <2> QED BY <1>2, <2>1, <2>2
<1>8. (CHOOSE k \in 0..Cardinality(Elts) : P(k)) = n
  <2>1. n \in 0..Cardinality(Elts)
    BY <1>2
  <2> HIDE DEF P, n
  <2> QED BY <1>6, <1>7, <2>1
<1>9. WalkBy(nx, h) = [k \in 1..n |-> hop[k]]
  <2>1. WalkBy(nx, h) = [k \in 1..(CHOOSE k \in 0..Cardinality(Elts) : P(k)) |-> hop[k]]
    BY DEF WalkBy, hop
  <2> HIDE DEF P, n
  <2> QED BY <1>8, <2>1
<1>10. L[h] = [k \in 1..n |-> L[h][k]]
  BY <1>1, LenProperties
<1> HIDE DEF n
<1>11. [k \in 1..n |-> hop[k]] = [k \in 1..n |-> L[h][k]]
  BY <1>4
<1> QED BY <1>9, <1>10, <1>11

\* QueueMiddle(h) of the pointers pv and nx.
MiddleBy(pv, nx, h) ==
  LET hop == HopBy(nx, nx[h])
      k   == CHOOSE k \in 1..Cardinality(Links) :
               /\ pv[h] \in {hop[2 * k - 1], hop[2 * k]} \/ k = Cardinality(Links)
               /\ \A j \in 1..(k - 1) : pv[h] \notin {hop[2 * j - 1], hop[2 * j]}
  IN  IF nx[h] = pv[h] THEN nx[h] ELSE hop[k]

\* The slow pointer is half way when the fast one has come to the end.
LEMMA MiddleOfList ==
  ASSUME NEW pv, NEW nx, NEW rd, NEW L, Rings(pv, nx, rd, L), NEW h \in rd, Len(L[h]) # 0
  PROVE  MiddleBy(pv, nx, h) = L[h][(Len(L[h]) \div 2) + 1]
<1> DEFINE n == Len(L[h])
           hop == HopBy(nx, nx[h])
           c == Cardinality(Links)
           mid == n \div 2
           P(k) == /\ pv[h] \in {hop[2 * k - 1], hop[2 * k]} \/ k = Cardinality(Links)
                   /\ \A j \in 1..(k - 1) : pv[h] \notin {hop[2 * j - 1], hop[2 * j]}
<1>1. h \in Heads /\ L \in [Heads -> Seq(Elts)] /\ Heads \cap Elts = {}
  BY QueueAssumption DEF Rings
<1>2. n \in Int /\ 1 <= n /\ n + 1 <= c /\ c \in Int
  <2>1. n \in Nat
    BY <1>1, PlaceOK
  <2>2. n <= Cardinality(Elts) /\ Cardinality(Elts) \in Nat
    BY <1>1, LengthBound
  <2>3. Cardinality(Elts) + 1 <= c /\ c \in Nat
    BY <1>1, LinksCount
  <2> HIDE DEF n, c
  <2>4. n # 0
    BY DEF n
  <2> QED BY <2>1, <2>2, <2>3, <2>4
<1>3. nx[h] = Place(L, h, 1) /\ pv[h] = Place(L, h, n)
  <2>1. Place(L, h, 0) = h /\ Place(L, h, n + 1) = h /\ 0 \in 0..n /\ n \in 0..n
    BY <1>1, <1>2, PlaceOK
  <2>2. nx[Place(L, h, 0)] = Place(L, h, 0 + 1)
    BY <2>1 DEF Rings
  <2>3. pv[Place(L, h, n + 1)] = Place(L, h, n)
    BY <2>1 DEF Rings
  <2> QED BY <2>1, <2>2, <2>3
<1>4. ASSUME NEW m \in Nat, m <= n PROVE hop[m] = Place(L, h, m + 1)
  <2>1. 1 \in 0..n /\ 1 + m <= n + 1 /\ 1 + m = m + 1
    <3> HIDE DEF n
    <3> QED BY <1>2, <1>4
  <2>2. HopBy(nx, Place(L, h, 1))[m] = Place(L, h, 1 + m)
    BY <2>1, HopPlaces
  <2> QED BY <1>3, <2>1, <2>2
<1>5. \A i \in 1..n : Place(L, h, i) = L[h][i]
  BY <1>1, PlaceOK
<1>6. \A i, j \in 1..n : Place(L, h, i) = Place(L, h, j) => i = j
  <2>1. \A i, j \in 1..n : L[h][i] = L[h][j] => i = j
    BY <1>1 DEF Rings
  <2> HIDE DEF n
  <2> QED BY <1>5, <2>1
<1> HIDE DEF hop, n, c
<1>7. mid \in Int /\ (n = 2 * mid \/ n = 2 * mid + 1)
  BY <1>2
<1> HIDE DEF mid
<1>8. CASE n = 1
  <2>1. mid = 0 /\ 1 \in 1..n
    BY <1>2, <1>7, <1>8
  <2>2. MiddleBy(pv, nx, h) = L[h][1]
    BY <1>3, <1>5, <1>8, <2>1 DEF MiddleBy
  <2>3. MiddleBy(pv, nx, h) = L[h][mid + 1]
    BY <2>1, <2>2
  <2> QED BY <2>3 DEF mid, n
<1>9. CASE n # 1
  <2>1. 1 <= mid /\ mid \in 1..c /\ mid < c /\ mid + 1 \in 1..n /\ mid \in Nat /\ mid <= n
    BY <1>2, <1>7, <1>9
  <2>2. nx[h] # pv[h]
    <3>1. 1 \in 1..n /\ n \in 1..n /\ n # 1
      BY <1>2, <1>9
    <3> QED BY <1>3, <1>6, <3>1
  <2>3. ASSUME NEW j \in 1..(mid - 1) PROVE pv[h] \notin {hop[2 * j - 1], hop[2 * j]}
    <3>1. /\ 2 * j - 1 \in Nat /\ 2 * j - 1 <= n /\ 2 * j \in Nat /\ 2 * j <= n
          /\ 2 * j - 1 + 1 \in 1..n /\ 2 * j + 1 \in 1..n /\ n \in 1..n /\ 2 * j - 1 + 1 # n /\ 2 * j + 1 # n
      BY <1>2, <1>7, <2>1
    <3>2. hop[2 * j - 1] = Place(L, h, 2 * j - 1 + 1) /\ hop[2 * j] = Place(L, h, 2 * j + 1)
      BY <1>4, <3>1
    <3>3. Place(L, h, 2 * j - 1 + 1) # Place(L, h, n) /\ Place(L, h, 2 * j + 1) # Place(L, h, n)
      BY <1>6, <3>1
    <3> QED BY <1>3, <3>2, <3>3
  <2>4. pv[h] \in {hop[2 * mid - 1], hop[2 * mid]}
    <3>1. CASE n = 2 * mid
      <4>1. 2 * mid - 1 \in Nat /\ 2 * mid - 1 <= n /\ 2 * mid - 1 + 1 = n
        BY <1>2, <1>7, <2>1, <3>1
      <4>2. hop[2 * mid - 1] = Place(L, h, 2 * mid - 1 + 1)
        BY <1>4, <4>1
      <4>3. hop[2 * mid - 1] = Place(L, h, n)
        BY <4>1, <4>2
      <4> QED BY <1>3, <4>3
    <3>2. CASE n = 2 * mid + 1
      <4>1. 2 * mid \in Nat /\ 2 * mid <= n /\ 2 * mid + 1 = n
        BY <1>2, <1>7, <2>1, <3>2
      <4>2. hop[2 * mid] = Place(L, h, 2 * mid + 1)
        BY <1>4, <4>1
      <4>3. hop[2 * mid] = Place(L, h, n)
        BY <4>1, <4>2
      <4> QED BY <1>3, <4>3
    <3> QED BY <1>7, <3>1, <3>2
  <2>5. P(mid)
    BY <2>3, <2>4
  <2>6. ASSUME NEW k \in 1..c, P(k) PROVE k = mid
    <3>1. ASSUME k < mid PROVE FALSE
      <4>1. k \in 1..(mid - 1) /\ k # c
        BY <1>2, <2>1, <3>1
      <4> QED BY <2>3, <2>6, <4>1 DEF c
    <3>2. ASSUME k > mid PROVE FALSE
      <4>1. mid \in 1..(k - 1)
        BY <1>2, <2>1, <3>2
      <4> QED BY <2>4, <2>6, <4>1
    <3> QED BY <1>2, <2>1, <3>1, <3>2
  <2>7. (CHOOSE k \in 1..c : P(k)) = mid
    <3> HIDE DEF P
    <3> QED BY <2>1, <2>5, <2>6
  <2>8. MiddleBy(pv, nx, h) = hop[CHOOSE k \in 1..c : P(k)]
    BY <2>2, Zenon DEF MiddleBy, hop, c
  <2>9. MiddleBy(pv, nx, h) = hop[mid]
    <3> HIDE DEF P
    <3> QED BY <2>7, <2>8
  <2>10. hop[mid] = Place(L, h, mid + 1)
    BY <1>4, <2>1
  <2>11. hop[mid] = L[h][mid + 1]
    BY <1>5, <2>1, <2>10
  <2> QED BY <2>9, <2>11 DEF mid, n
<1> QED BY <1>8, <1>9

-----------------------------------------------------------------------------
(* The inductive invariant. *)

\* i comes before j in a stable order of the sequence b.
Precedes(b, i, j) == Key[b[i]] < Key[b[j]] \/ (Key[b[i]] = Key[b[j]] /\ i < j)

\* By p, the first m elements of s are those of b in order.
StableBy(p, s, b, m) ==
  /\ p \in [1..m -> 1..m]
  /\ \A i \in 1..m : s[i] = b[p[i]]
  /\ \A i \in 1..m : \E j \in 1..m : p[j] = i
  /\ \A i, j \in 1..m : i < j => Precedes(b, p[i], p[j])

Stable(s, b, m) == \E p \in [1..m -> 1..m] : StableBy(p, s, b, m)

\* The outer loop: the elements from the k-th on are not sorted yet.
Taking(s, st, k) ==
  /\ st.at = "take" /\ Len(s) = Len(st.before)
  /\ st.q = IF k \in 1..Len(s) THEN s[k] ELSE st.h
  /\ \A i \in k..Len(s) : s[i] = st.before[i]
  /\ Stable(s, st.before, k - 1)

\* The inner loop: the k-th element is out, and goes somewhere before the
\* (j + 1)-th of those that are sorted.
Comparing(s, st, k, j) ==
  /\ st.at = "compare" /\ Len(s) + 1 = Len(st.before) /\ k <= Len(st.before)
  /\ st.q = st.before[k] /\ st.prev = s[j]
  /\ st.next = IF k \in 1..Len(s) THEN s[k] ELSE st.h
  /\ \A i \in k..Len(s) : s[i] = st.before[i + 1]
  /\ Stable(s, st.before, k - 1)
  /\ \A i \in (j + 1)..(k - 1) : Greater(s[i], st.q)

Sorts(s, st) ==
  \E k \in 2..(Len(st.before) + 1) : Taking(s, st, k) \/ \E j \in 1..(k - 1) : Comparing(s, st, k, j)

\* The elements in a ring.
InQueues == IF sort # Null /\ sort.at = "compare" THEN linked \ {sort.q} ELSE linked

Holds(L) ==
  /\ Rings(prev, next, ready, L) /\ Queued(L) = InQueues
  /\ linked \subseteq Elts /\ sort \in Sorting \cup {Null}
  /\ sort # Null => sort.h \in ready /\ sort.q \in linked \cup {sort.h} /\ Sorts(L[sort.h], sort)
  /\ sort # Null /\ sort.at = "compare" => sort.q \in linked

\* What the invariant says of the types.
LEMMA HoldsType ==
  ASSUME NEW L, Holds(L)
  PROVE  /\ L \in [Heads -> Seq(Elts)] /\ \A h \in Heads : L[h] \in Seq(Elts) /\ Len(L[h]) \in Nat
         /\ ready \subseteq Heads /\ Heads \cap Elts = {} /\ Links = Heads \cup Elts
         /\ Rings(prev, next, ready, L)
BY QueueAssumption, LenProperties DEF Holds, Rings, Links

\* Every link in a ring has a place.
LEMMA HasPlace ==
  ASSUME NEW L, Holds(L), NEW x \in ready \cup InQueues
  PROVE  \E h \in ready : \E i \in 0..Len(L[h]) : x = Place(L, h, i)
<1>1. CASE x \in ready
  <2>1. x \in Heads /\ Place(L, x, 0) = x /\ 0 \in 0..Len(L[x])
    BY <1>1, HoldsType, PlaceOK
  <2> QED BY <1>1, <2>1
<1>2. CASE x \in InQueues
  <2>1. x \in Queued(L)
    BY <1>2 DEF Holds
  <2>2. PICK h \in Heads : \E i \in 1..Len(L[h]) : L[h][i] = x
    BY <2>1 DEF Queued
  <2>3. PICK i \in 1..Len(L[h]) : L[h][i] = x
    BY <2>2
  <2>4. h \in ready
    BY <2>3 DEF Holds, Rings
  <2>5. x = Place(L, h, i) /\ i \in 0..Len(L[h])
    BY <2>3, HoldsType, PlaceOK
  <2> QED BY <2>4, <2>5
<1> QED BY <1>1, <1>2

\* queue_init() sets up one more empty queue.
LEMMA StepQueueInit ==
  ASSUME NEW L, Holds(L), NEW h \in Heads, QueueInit(h)
  PROVE  Holds(L)'
<1>1. Rings(prev', next', ready', L)
  BY RingsInit DEF QueueInit, Holds
<1> QED BY <1>1 DEF QueueInit, Holds, Idle, InQueues, Queued

\* Insertion by either of the macros, behind the i-th link of h.
LEMMA StepPut ==
  ASSUME NEW L, Holds(L), Idle, NEW h \in ready, NEW i \in 0..Len(L[h]), NEW x \in Elts, x \notin linked,
         PutAfter(Place(L, h, i), x), linked' = linked \cup {x}, ready' = ready, sort' = sort
  PROVE  x \notin Queued(L) /\ Holds(PutIn(L, h, i, x))'
<1> DEFINE M == PutIn(L, h, i, x)
<1>1. Rings(prev, next, ready, L) /\ x \notin Queued(L)
  BY DEF Holds, Idle, InQueues
<1>2. /\ next' = [next EXCEPT ![x] = next[Place(L, h, i)], ![Place(L, h, i)] = x]
      /\ prev' = [prev EXCEPT ![next[Place(L, h, i)]] = x, ![x] = Place(L, h, i)]
  BY DEF PutAfter
<1>3. Rings(prev', next', ready, M) /\ Queued(M) = Queued(L) \cup {x}
  <2> HIDE DEF M
  <2>1. Puts(prev, next, Place(L, h, i), x, prev', next')
    BY <1>2 DEF Puts
  <2> QED BY <1>1, <2>1, RingsPut DEF M
<1> HIDE DEF M
<1>4. Holds(M)'
  BY <1>3 DEF Holds, Idle, InQueues, Queued
<1> QED BY <1>1, <1>4 DEF M

\* queue_insert_head() and queue_insert_after().
LEMMA StepInsertAfter ==
  ASSUME NEW L, Holds(L), NEW at \in Links, NEW x \in Elts, QueueInsertAfter(at, x)
  PROVE  \E h \in ready : \E i \in 0..Len(L[h]) :
           x \notin Queued(L) /\ Holds(PutIn(L, h, i, x))'
<1>1. Idle /\ at \in ready \cup InQueues /\ x \notin linked /\ PutAfter(at, x)
      /\ linked' = linked \cup {x} /\ ready' = ready /\ sort' = sort
  BY DEF QueueInsertAfter, Idle, InQueues
<1>2. PICK h \in ready : \E i \in 0..Len(L[h]) : at = Place(L, h, i)
  BY <1>1, HasPlace
<1>3. PICK i \in 0..Len(L[h]) : at = Place(L, h, i)
  BY <1>2
<1> QED BY <1>1, <1>3, StepPut

\* queue_insert_tail().
LEMMA StepInsertTail ==
  ASSUME NEW L, Holds(L), NEW h \in Heads, NEW x \in Elts, QueueInsertTail(h, x)
  PROVE  \E i \in 0..Len(L[h]) : x \notin Queued(L) /\ Holds(PutIn(L, h, i, x))'
<1> DEFINE n == Len(L[h])
<1>1. /\ Idle /\ h \in ready /\ x \notin linked
      /\ prev' = [prev EXCEPT ![x] = prev[h], ![h] = x]
      /\ next' = [next EXCEPT ![prev[h]] = x, ![x] = h]
      /\ linked' = linked \cup {x} /\ ready' = ready /\ sort' = sort
  BY DEF QueueInsertTail
<1>2. n \in Nat /\ n \in 0..n /\ Place(L, h, n + 1) = h /\ Heads \cap Elts = {} /\ L \in [Heads -> Seq(Elts)]
  BY HoldsType, PlaceOK
<1>3. prev[h] = Place(L, h, n) /\ next[Place(L, h, n)] = h
  BY <1>1, <1>2 DEF Holds, Rings
<1>4. Place(L, h, n) # x
  <2>1. x \notin Queued(L)
    BY <1>1 DEF Holds, Idle, InQueues
  <2>2. \A i \in 1..n : L[h][i] \in Queued(L)
    BY <1>2, PlaceOK
  <2> QED BY <1>2, <2>1, <2>2 DEF Place
<1>5. PutAfter(Place(L, h, n), x)
  <2>1. prev \in [Links -> Links] /\ next \in [Links -> Links] /\ x # h
    BY <1>2 DEF Holds, Rings
  <2>2. [prev EXCEPT ![x] = prev[h], ![h] = x] = [prev EXCEPT ![h] = x, ![x] = prev[h]]
    BY <2>1
  <2>3. [next EXCEPT ![Place(L, h, n)] = x, ![x] = h] = [next EXCEPT ![x] = h, ![Place(L, h, n)] = x]
    BY <1>4, <2>1
  <2> QED BY <1>1, <1>3, <2>2, <2>3 DEF PutAfter
<1> HIDE DEF n
<1>6. x \notin Queued(L) /\ Holds(PutIn(L, h, n, x))'
  BY <1>1, <1>2, <1>5, StepPut DEF n
<1> QED BY <1>2, <1>6 DEF n

\* queue_remove() of an element of any queue.
LEMMA StepRemove ==
  ASSUME NEW L, Holds(L), NEW x \in Elts, QueueRemove(x)
  PROVE  \E h \in ready : \E i \in 1..Len(L[h]) : Holds(TakenFrom(L, h, i))'
<1>1. Idle /\ x \in Queued(L) /\ TakeOut(x) /\ linked' = linked \ {x} /\ ready' = ready /\ sort' = sort
  BY DEF QueueRemove, Holds, Idle, InQueues
<1>2. PICK h \in Heads : \E i \in 1..Len(L[h]) : L[h][i] = x
  BY <1>1 DEF Queued
<1>3. PICK i \in 1..Len(L[h]) : L[h][i] = x
  BY <1>2
<1>4. h \in ready
  BY <1>3 DEF Holds, Rings
<1> DEFINE M == TakenFrom(L, h, i)
<1>5. /\ next' = [next EXCEPT ![prev[x]] = next[x]]
      /\ prev' = [prev EXCEPT ![next[x]] = prev[x]]
  BY <1>1 DEF TakeOut
<1>6. Rings(prev', next', ready, M) /\ Queued(M) = Queued(L) \ {x}
  <2> HIDE DEF M
  <2>1. Rings(prev, next, ready, L) /\ Takes(prev, next, L[h][i], prev', next')
    BY <1>3, <1>5 DEF Holds, Takes
  <2>2. Rings(prev', next', ready, M) /\ \A y : y \in Queued(M) <=> y \in Queued(L) /\ y # L[h][i]
    BY <1>3, <1>4, <2>1, RingsTake DEF M
  <2> QED BY <1>3, <2>2
<1> HIDE DEF M
<1>7. Holds(M)'
  BY <1>1, <1>6 DEF Holds, Idle, InQueues, Queued
<1> QED BY <1>4, <1>7 DEF M

\* Going round a ring is reading its queue, before a step and after it.
LEMMA WalkHolds ==
  ASSUME NEW L, Holds(L), NEW h \in ready
  PROVE  Walk(h) = L[h]
<1>1. Walk(h) = WalkBy(next, h)
  BY Zenon DEF Walk, Hop, WalkBy, HopBy
<1> QED BY <1>1, WalkIsList DEF Holds

\* The same for the next state.
LEMMA WalkHoldsNext ==
  ASSUME NEW L, Holds(L)', NEW h \in ready'
  PROVE  Walk(h)' = L[h]
<1>1. Walk(h)' = WalkBy(next', h)
  BY Zenon DEF Walk, Hop, WalkBy, HopBy
<1>2. Rings(prev', next', ready', L)
  BY DEF Holds
<1> QED BY <1>1, <1>2, WalkIsList

\* queue_split() gives the elements from q on to the head m.
LEMMA StepSplit ==
  ASSUME NEW L, Holds(L), NEW h \in Heads, NEW q \in Elts, NEW m \in Heads, QueueSplit(h, q, m)
  PROVE  \E i \in 1..Len(L[h]) : L[m] = <<>> /\ Holds(SplitAt(L, h, i, m))'
<1>1. /\ Idle /\ h \in ready /\ m # h /\ (m \in ready => next[m] = m)
      /\ prev' = [prev EXCEPT ![m] = prev[h], ![h] = prev[q], ![q] = m]
      /\ next' = [[next EXCEPT ![prev[h]] = m, ![m] = q] EXCEPT ![prev[q]] = h]
      /\ ready' = ready \cup {m} /\ linked' = linked /\ sort' = sort
  BY DEF QueueSplit
<1>2. PICK i \in 1..Len(L[h]) : L[h][i] = q
  <2>1. q \in Members(h) /\ Walk(h) = L[h]
    BY <1>1, WalkHolds DEF QueueSplit
  <2>2. DOMAIN L[h] = 1..Len(L[h])
    BY HoldsType
  <2> QED BY <2>1, <2>2 DEF Members
<1> DEFINE M == SplitAt(L, h, i, m)
<1>3. Rings(prev, next, ready, L) /\ Splits(prev, next, h, L[h][i], m, prev', next')
  BY <1>1, <1>2 DEF Holds, Splits
<1>4. L[m] = <<>> /\ Rings(prev', next', ready \cup {m}, M) /\ Queued(M) = Queued(L)
  <2> HIDE DEF M
  <2> QED BY <1>1, <1>2, <1>3, RingsSplit DEF M
<1> HIDE DEF M
<1>5. Holds(M)'
  BY <1>1, <1>4 DEF Holds, Idle, InQueues, Queued
<1> QED BY <1>4, <1>5 DEF M

\* queue_add(): the elements of m go behind those of h, and m is no queue any more.
LEMMA StepAdd ==
  ASSUME NEW L, Holds(L), NEW h \in Heads, NEW m \in Heads, QueueAdd(h, m)
  PROVE  Holds(Joined(L, h, m))'
<1>1. /\ Idle /\ h \in ready /\ m \in ready /\ m # h
      /\ ready' = ready \ {m} /\ linked' = linked /\ sort' = sort
  BY DEF QueueAdd
<1> DEFINE M == Joined(L, h, m)
<1>2. Rings(prev, next, ready, L) /\ Joins(prev, next, h, m, prev', next')
  BY DEF Holds, QueueAdd, Joins
<1>3. Rings(prev', next', ready \ {m}, M) /\ Queued(M) = Queued(L)
  <2> HIDE DEF M
  <2> QED BY <1>1, <1>2, RingsJoin DEF M
<1> HIDE DEF M
<1>4. Holds(M)'
  BY <1>1, <1>3 DEF Holds, Idle, InQueues, Queued
<1> QED BY <1>4 DEF M

\* One element is in order.
LEMMA StableOne ==
  ASSUME NEW s
  PROVE  Stable(s, s, 1)
<1> DEFINE p == [i \in 1..1 |-> 1]
<1>1. \A i \in 1..1 : i = 1
  OBVIOUS
<1>2. p[1] = 1 /\ 1 \in 1..1 /\ p \in [1..1 -> 1..1]
  OBVIOUS
<1> HIDE DEF p
<1>3. \A i, j \in 1..1 : ~(i < j)
  OBVIOUS
<1>4. StableBy(p, s, s, 1)
  BY <1>1, <1>2, <1>3 DEF StableBy
<1> QED BY <1>2, <1>4 DEF Stable

\* An element that was behind those of the sorted ones that are not greater
\* comes after them and before the others.
LEMMA StableInsert ==
  ASSUME NEW b \in Seq(Elts), NEW k \in 2..Len(b), NEW s, Stable(s, b, k - 1),
         NEW j \in 0..(k - 1),
         \A i \in 1..j : Key[s[i]] <= Key[b[k]],
         \A i \in (j + 1)..(k - 1) : Key[s[i]] > Key[b[k]],
         NEW t,
         \A i \in 1..k : t[i] = IF i <= j THEN s[i] ELSE IF i = j + 1 THEN b[k] ELSE s[i - 1]
  PROVE  Stable(t, b, k)
<1>1. PICK p : StableBy(p, s, b, k - 1)
  BY DEF Stable
<1> DEFINE r == [i \in 1..k |-> IF i <= j THEN p[i] ELSE IF i = j + 1 THEN k ELSE p[i - 1]]
<1>2. k \in Int /\ 2 <= k /\ k <= Len(b) /\ j \in Int /\ 0 <= j /\ j <= k - 1 /\ Len(b) \in Nat
  BY LenProperties
<1>3. /\ p \in [1..(k - 1) -> 1..(k - 1)]
      /\ \A i \in 1..(k - 1) : s[i] = b[p[i]] /\ p[i] \in Int /\ 1 <= p[i] /\ p[i] <= k - 1
      /\ \A i \in 1..(k - 1) : \E m \in 1..(k - 1) : p[m] = i
      /\ \A i, m \in 1..(k - 1) : i < m => Precedes(b, p[i], p[m])
  <2>1. p \in [1..(k - 1) -> 1..(k - 1)]
    BY <1>1 DEF StableBy
  <2>2. \A i \in 1..(k - 1) : p[i] \in Int /\ 1 <= p[i] /\ p[i] <= k - 1
    <3> TAKE i \in 1..(k - 1)
    <3>1. p[i] \in 1..(k - 1)
      BY <2>1
    <3> QED BY <1>2, <3>1
  <2> QED BY <1>1, <2>1, <2>2 DEF StableBy
<1>4. \A i \in 1..k : Key[b[i]] \in Int
  <2>1. \A i \in 1..k : i \in 1..Len(b)
    BY <1>2
  <2> QED BY <2>1, QueueAssumption, ElementOfSeq
<1>5. \A i \in 1..k : r[i] = IF i <= j THEN p[i] ELSE IF i = j + 1 THEN k ELSE p[i - 1]
  OBVIOUS
<1>6. \A i \in 1..k : \/ i <= j /\ i \in 1..(k - 1)
                      \/ i = j + 1
                      \/ i > j + 1 /\ i - 1 \in 1..(k - 1) /\ i - 1 \in (j + 1)..(k - 1)
  BY <1>2
<1>7. r \in [1..k -> 1..k]
  <2>1. \A i \in 1..k : r[i] \in 1..k
    <3> TAKE i \in 1..k
    <3>1. CASE i <= j /\ i \in 1..(k - 1)
      <4>1. r[i] = p[i] /\ p[i] \in Int /\ 1 <= p[i] /\ p[i] <= k - 1
        BY <1>3, <1>5, <3>1
      <4> QED BY <1>2, <4>1
    <3>2. CASE i = j + 1
      BY <1>2, <1>5, <3>2
    <3>3. CASE i > j + 1 /\ i - 1 \in 1..(k - 1)
      <4>1. ~(i <= j) /\ i # j + 1
        BY <1>2, <3>3
      <4>2. r[i] = p[i - 1] /\ p[i - 1] \in Int /\ 1 <= p[i - 1] /\ p[i - 1] <= k - 1
        BY <1>3, <1>5, <3>3, <4>1
      <4> QED BY <1>2, <4>2
    <3> QED BY <1>6, <3>1, <3>2, <3>3
  <2> QED BY <2>1
<1> HIDE DEF r
<1>8. \A i \in 1..k : t[i] = b[r[i]]
  <2> TAKE i \in 1..k
  <2>1. CASE i <= j /\ i \in 1..(k - 1)
    BY <1>3, <1>5, <2>1
  <2>2. CASE i = j + 1
    <3>1. ~(i <= j)
      BY <1>2, <2>2
    <3>2. r[i] = k /\ t[i] = b[k]
      BY <1>5, <2>2, <3>1
    <3> QED BY <3>2
  <2>3. CASE i > j + 1 /\ i - 1 \in 1..(k - 1)
    <3>1. ~(i <= j) /\ i # j + 1
      BY <1>2, <2>3
    <3>2. r[i] = p[i - 1] /\ t[i] = s[i - 1]
      BY <1>5, <3>1
    <3>3. s[i - 1] = b[p[i - 1]]
      BY <1>3, <2>3
    <3> QED BY <3>2, <3>3
  <2> QED BY <1>6, <2>1, <2>2, <2>3
<1>9. \A i \in 1..k : \E m \in 1..k : r[m] = i
  <2> TAKE i \in 1..k
  <2>1. CASE i = k
    <3>1. j + 1 \in 1..k /\ ~(j + 1 <= j)
      BY <1>2
    <3> QED BY <1>5, <2>1, <3>1
  <2>2. CASE i # k
    <3>1. i \in 1..(k - 1)
      BY <1>2, <2>2
    <3>2. PICK m \in 1..(k - 1) : p[m] = i
      BY <1>3, <3>1
    <3>3. CASE m <= j
      <4>1. m \in 1..k
        BY <1>2
      <4> QED BY <1>5, <3>2, <3>3, <4>1
    <3>4. CASE m > j
      <4>1. m + 1 \in 1..k /\ ~(m + 1 <= j) /\ m + 1 # j + 1 /\ m + 1 - 1 = m
        BY <1>2, <3>4
      <4>2. r[m + 1] = p[m + 1 - 1]
        BY <1>5, <4>1
      <4> QED BY <3>2, <4>1, <4>2
    <3> QED BY <1>2, <3>3, <3>4
  <2> QED BY <2>1, <2>2
<1>10. ASSUME NEW i \in 1..k, NEW m \in 1..k, i < m PROVE Precedes(b, r[i], r[m])
  <2>0. j \in Int /\ k \in Int /\ i \in Int /\ m \in Int
    BY <1>2
  <2>1. ASSUME NEW a \in 1..(k - 1), NEW c \in 1..(k - 1), a < c PROVE Precedes(b, p[a], p[c])
    BY <1>3, <2>1
  <2>2. CASE m <= j /\ m \in 1..(k - 1)
    <3>1. i <= j /\ i \in 1..(k - 1)
      BY <1>2, <1>10, <2>2
    <3> QED BY <1>5, <1>10, <2>1, <2>2, <3>1
  <2>3. CASE m = j + 1
    <3>1. i <= j /\ i \in 1..j /\ i \in 1..(k - 1) /\ ~(m <= j)
      BY <1>2, <1>10, <2>3
    <3>2. r[i] = p[i] /\ r[m] = k
      BY <1>5, <2>3, <3>1
    <3>3. Key[b[p[i]]] <= Key[b[k]]
      BY <1>3, <3>1
    <3>4. p[i] \in Int /\ p[i] < k /\ p[i] \in 1..k /\ k \in 1..k
      <4>1. p[i] \in Int /\ 1 <= p[i] /\ p[i] <= k - 1
        BY <1>3, <3>1
      <4> QED BY <1>2, <4>1
    <3>5. Key[b[p[i]]] \in Int /\ Key[b[k]] \in Int
      BY <1>4, <3>4
    <3> QED BY <3>2, <3>3, <3>4, <3>5 DEF Precedes
  <2>4. CASE m > j + 1 /\ m - 1 \in 1..(k - 1) /\ m - 1 \in (j + 1)..(k - 1)
    <3>1. r[m] = p[m - 1]
      <4>1. ~(m <= j) /\ m # j + 1
        BY <2>0, <2>4
      <4> QED BY <1>5, <4>1
    <3>2. CASE i <= j /\ i \in 1..(k - 1)
      <4>1. i < m - 1 /\ r[i] = p[i]
        BY <1>5, <2>0, <2>4, <3>2
      <4> QED BY <2>1, <2>4, <3>1, <3>2, <4>1
    <3>3. CASE i = j + 1
      <4>1. r[i] = k
        BY <1>5, <2>0, <3>3
      <4>2. Key[b[p[m - 1]]] > Key[b[k]]
        BY <1>3, <2>4
      <4>3. p[m - 1] \in 1..k /\ k \in 1..k
        <5>1. p[m - 1] \in Int /\ 1 <= p[m - 1] /\ p[m - 1] <= k - 1
          BY <1>3, <2>4
        <5> QED BY <1>2, <5>1
      <4>4. Key[b[p[m - 1]]] \in Int /\ Key[b[k]] \in Int
        BY <1>4, <4>3
      <4> QED BY <3>1, <4>1, <4>2, <4>4 DEF Precedes
    <3>4. CASE i > j + 1 /\ i - 1 \in 1..(k - 1)
      <4>1. i - 1 < m - 1 /\ ~(i <= j) /\ i # j + 1
        BY <1>10, <2>0, <3>4
      <4>2. r[i] = p[i - 1]
        BY <1>5, <4>1
      <4> QED BY <2>1, <2>4, <3>1, <3>4, <4>1, <4>2
    <3> QED BY <1>6, <3>2, <3>3, <3>4
  <2> QED BY <1>6, <2>2, <2>3, <2>4
<1>11. StableBy(r, t, b, k)
  BY <1>7, <1>8, <1>9, <1>10 DEF StableBy
<1> QED BY <1>7, <1>11 DEF Stable

\* The places of a queue of at least two elements, seen from its head.
LEMMA FirstAndLast ==
  ASSUME NEW L, Holds(L), NEW h \in ready
  PROVE  /\ next[h] = Place(L, h, 1) /\ prev[h] = Place(L, h, Len(L[h]))
         /\ \A i \in 1..Len(L[h]) : /\ L[h][i] = Place(L, h, i) /\ L[h][i] # h
                                    /\ next[L[h][i]] = Place(L, h, i + 1)
                                    /\ prev[L[h][i]] = Place(L, h, i - 1)
         /\ Place(L, h, 0) = h /\ Place(L, h, Len(L[h]) + 1) = h
<1> DEFINE n == Len(L[h])
<1>1. /\ h \in Heads /\ L \in [Heads -> Seq(Elts)] /\ n \in Nat /\ Heads \cap Elts = {}
      /\ Rings(prev, next, ready, L)
  BY HoldsType
<1>2. /\ Place(L, h, 0) = h /\ Place(L, h, n + 1) = h
      /\ \A i \in 1..n : L[h][i] = Place(L, h, i) /\ L[h][i] \in Elts
  BY <1>1, PlaceOK
<1>3. \A i \in 0..n : next[Place(L, h, i)] = Place(L, h, i + 1) /\ prev[Place(L, h, i + 1)] = Place(L, h, i)
  BY <1>1 DEF Rings
<1> HIDE DEF n
<1>4. next[h] = Place(L, h, 1) /\ prev[h] = Place(L, h, n)
  <2>1. 0 \in 0..n /\ n \in 0..n /\ 0 + 1 = 1
    BY <1>1
  <2>2. next[Place(L, h, 0)] = Place(L, h, 0 + 1) /\ prev[Place(L, h, n + 1)] = Place(L, h, n)
    BY <1>3, <2>1
  <2> QED BY <1>2, <2>1, <2>2
<1>5. ASSUME NEW i \in 1..n
      PROVE  /\ L[h][i] = Place(L, h, i) /\ L[h][i] # h /\ next[L[h][i]] = Place(L, h, i + 1)
             /\ prev[L[h][i]] = Place(L, h, i - 1)
  <2>1. i \in 0..n /\ i - 1 \in 0..n /\ i - 1 + 1 = i
    BY <1>1
  <2>2. next[Place(L, h, i)] = Place(L, h, i + 1)
    BY <1>3, <2>1
  <2>3. prev[Place(L, h, i - 1 + 1)] = Place(L, h, i - 1)
    BY <1>3, <2>1
  <2> QED BY <1>1, <1>2, <2>1, <2>2, <2>3
<1> QED BY <1>2, <1>4, <1>5 DEF n

\* queue_sort() starts with its second element: the first one alone is sorted.
LEMMA StepSortBegin ==
  ASSUME NEW L, Holds(L), NEW h \in Heads, SortBegin(h)
  PROVE  Holds(L)' /\ sort'.h = h /\ sort'.before = L[h] /\ sort' # Null
<1> DEFINE n == Len(L[h])
           s == L[h]
<1>1. /\ Idle /\ h \in ready /\ next[h] # prev[h] /\ Walk(h) = s
      /\ prev' = prev /\ next' = next /\ ready' = ready /\ linked' = linked
      /\ sort' = [h |-> h, at |-> "take", q |-> next[next[h]], prev |-> Null, next |-> Null, before |-> s]
  BY WalkHolds DEF SortBegin
<1>2. n \in Nat /\ s \in Seq(Elts) /\ prev \in [Links -> Links] /\ next \in [Links -> Links] /\ h \in Links
  BY HoldsType DEF Rings
<1>3. /\ next[h] = Place(L, h, 1) /\ prev[h] = Place(L, h, n)
      /\ \A i \in 1..n : L[h][i] = Place(L, h, i) /\ next[L[h][i]] = Place(L, h, i + 1)
      /\ Place(L, h, 0) = h /\ Place(L, h, n + 1) = h
  BY <1>1, FirstAndLast
<1> HIDE DEF n
<1>4. n >= 2
  <2>1. n # 0 /\ n # 1
    <3>1. ASSUME n = 0 PROVE FALSE
      BY <1>1, <1>3, <3>1
    <3>2. ASSUME n = 1 PROVE FALSE
      BY <1>1, <1>3, <3>2
    <3> QED BY <3>1, <3>2
  <2> QED BY <1>2, <2>1
<1>5. next[next[h]] = s[2] /\ s[2] \in Queued(L)
  <2>1. 1 \in 1..n /\ 2 \in 1..n /\ 1 + 1 = 2
    BY <1>2, <1>4
  <2>2. next[L[h][1]] = Place(L, h, 1 + 1) /\ L[h][1] = Place(L, h, 1) /\ L[h][2] = Place(L, h, 2)
    BY <1>3, <2>1
  <2>3. s[2] \in Queued(L)
    BY <1>1, <2>1, HoldsType, PlaceOK DEF n
  <2> QED BY <1>3, <2>1, <2>2, <2>3
<1>6. sort' \in Sorting /\ sort' # Null
  <2>1. sort' \in Sorting
    BY <1>1, <1>2 DEF Sorting
  <2> QED BY <2>1, NullAssumption
<1>7. sort'.h = h /\ sort'.at = "take" /\ sort'.q = s[2] /\ sort'.before = s
  BY <1>1, <1>5
<1>8. Stable(s, s, 2 - 1)
  BY StableOne
<1>9. Taking(s, sort', 2)
  <2>1. 2 \in 1..Len(s) /\ \A i \in 2..Len(s) : s[i] = s[i]
    BY <1>2, <1>4 DEF n
  <2> HIDE DEF s
  <2> QED BY <1>7, <1>8, <2>1 DEF Taking
<1>10. Sorts(s, sort')
  <2>1. 2 \in 2..(Len(s) + 1)
    BY <1>2, <1>4 DEF n
  <2> HIDE DEF s
  <2> QED BY <1>7, <1>9, <2>1 DEF Sorts
<1>11. s[2] \in linked
  BY <1>1, <1>5 DEF Holds, Idle, InQueues
<1>12. Holds(L)'
  <2>1. Rings(prev, next, ready, L)' /\ Queued(L)' = InQueues'
    BY <1>1, <1>6, <1>7 DEF Holds, Idle, InQueues, Queued
  <2>2. (linked \subseteq Elts)' /\ (sort \in Sorting \cup {Null})'
    BY <1>1, <1>6 DEF Holds, Sorting
  <2>3. sort'.h \in ready' /\ sort'.q \in linked' \cup {sort'.h} /\ Sorts(L[sort'.h], sort')
    BY <1>1, <1>7, <1>10, <1>11
  <2>4. sort'.at # "compare"
    BY <1>7
  <2> QED BY <2>1, <2>2, <2>3, <2>4 DEF Holds, Sorts, Taking, Comparing, Stable, StableBy, Precedes, Greater
<1> QED BY <1>6, <1>7, <1>12

\* What the invariant says of a sort at work.
LEMMA SortingType ==
  ASSUME NEW L, Holds(L), ~Idle
  PROVE  /\ sort \in Sorting /\ sort # Null /\ sort.h \in ready /\ sort.h \in Heads
         /\ sort.q \in Links /\ sort.before \in Seq(Elts) /\ Len(sort.before) \in Nat
         /\ sort = [h |-> sort.h, at |-> sort.at, q |-> sort.q, prev |-> sort.prev, next |-> sort.next,
                    before |-> sort.before]
         /\ Sorts(L[sort.h], sort)
         /\ L[sort.h] \in Seq(Elts) /\ Len(L[sort.h]) \in Nat
<1>1. sort \in Sorting /\ sort # Null /\ sort.h \in ready /\ Sorts(L[sort.h], sort)
  BY DEF Holds, Idle
<1> QED BY <1>1, HoldsType, LenProperties DEF Sorting

\* The outer loop takes out the first element that is not sorted yet.
LEMMA StepSortTake ==
  ASSUME NEW L, Holds(L), SortTake
  PROVE  /\ sort'.h = sort.h /\ sort'.before = sort.before /\ sort' # Null
         /\ \E h \in ready : h = sort.h /\ \E i \in 1..Len(L[h]) : Holds(TakenFrom(L, h, i))'
<1>0. PICK h : h = sort.h
  OBVIOUS
<1> DEFINE q == sort.q
           b == sort.before
           s == L[h]
           n == Len(s)
<1>1. /\ ~Idle /\ sort.at = "take" /\ q # h /\ TakeOut(q) /\ ready' = ready /\ linked' = linked
      /\ sort' = [sort EXCEPT !.at = "compare", !.prev = prev[q], !.next = next[q]]
  BY <1>0 DEF SortTake
<1>2. /\ sort \in Sorting /\ sort # Null /\ h \in ready /\ h \in Heads /\ Sorts(s, sort)
      /\ b \in Seq(Elts) /\ Len(b) \in Nat /\ s \in Seq(Elts) /\ n \in Nat
      /\ sort = [h |-> h, at |-> sort.at, q |-> q, prev |-> sort.prev, next |-> sort.next, before |-> b]
  BY <1>0, <1>1, SortingType
<1>3. PICK k \in 2..(Len(b) + 1) : Taking(s, sort, k)
  BY <1>1, <1>2 DEF Sorts, Comparing
<1>4. /\ n = Len(b) /\ q = (IF k \in 1..n THEN s[k] ELSE h) /\ \A i \in k..n : s[i] = b[i]
      /\ Stable(s, b, k - 1)
  BY <1>0, <1>3 DEF Taking
<1>5. k \in Int /\ 2 <= k /\ k <= n /\ k \in 1..n /\ q = s[k] /\ q = b[k]
  <2>1. k \in 1..n
    BY <1>1, <1>4
  <2> HIDE DEF n
  <2> QED BY <1>2, <1>4, <2>1
<1>6. /\ \A i \in 1..n : s[i] = Place(L, h, i) /\ next[s[i]] = Place(L, h, i + 1) /\ prev[s[i]] = Place(L, h, i - 1)
      /\ Place(L, h, 0) = h /\ Place(L, h, n + 1) = h
  BY <1>2, FirstAndLast
<1> DEFINE M == TakenFrom(L, h, k)
           t == M[h]
<1>7. Rings(prev', next', ready, M) /\ \A y : y \in Queued(M) <=> y \in Queued(L) /\ y # q
  <2>1. Rings(prev, next, ready, L) /\ Takes(prev, next, L[h][k], prev', next')
    BY <1>1, <1>5 DEF Holds, Takes, TakeOut
  <2>2. k \in 1..Len(L[h]) /\ L[h][k] = q
    BY <1>5
  <2> HIDE DEF M, q
  <2>3. Rings(prev', next', ready, M) /\ \A y : y \in Queued(M) <=> y \in Queued(L) /\ y # L[h][k]
    BY <1>2, <2>1, <2>2, RingsTake DEF M
  <2> QED BY <2>2, <2>3
<1>8. /\ t \in Seq(Elts) /\ Len(t) = n - 1
      /\ \A i \in 1..(n - 1) : t[i] = IF i < k THEN s[i] ELSE s[i + 1]
  <2>1. t = DropAt(s, k) /\ L \in [Heads -> Seq(Elts)]
    BY <1>2, HoldsType DEF TakenFrom
  <2> HIDE DEF t, s
  <2> QED BY <1>2, <1>5, <2>1, DropAtElements
<1> HIDE DEF M, t, s, n
<1>9. sort' = [h |-> h, at |-> "compare", q |-> q, prev |-> prev[q], next |-> next[q], before |-> b]
  BY <1>0, <1>1, <1>2 DEF Sorting
<1>10. sort' \in Sorting /\ sort' # Null
  <2>1. prev[q] \in Links /\ next[q] \in Links
    <3>1. prev \in [Links -> Links] /\ next \in [Links -> Links] /\ q \in Links
      BY <1>1, HoldsType, SortingType DEF Rings
    <3> QED BY <3>1
  <2>2. sort' \in Sorting
    BY <1>1, <1>2, <2>1, SortingType DEF Sorting
  <2> QED BY <2>2, NullAssumption
<1>11. /\ sort'.h = h /\ sort'.at = "compare" /\ sort'.q = q /\ sort'.prev = prev[q] /\ sort'.next = next[q]
       /\ sort'.before = b
  BY <1>9
<1>12. Comparing(t, sort', k, k - 1)
  <2>1. Len(t) + 1 = Len(b) /\ k <= Len(b)
    BY <1>2, <1>4, <1>5, <1>8
  <2>2. sort'.prev = t[k - 1]
    <3>1. k - 1 \in 1..n /\ k - 1 \in 1..(n - 1) /\ k - 1 < k
      BY <1>2, <1>5
    <3>2. prev[s[k]] = Place(L, h, k - 1) /\ s[k - 1] = Place(L, h, k - 1)
      BY <1>5, <1>6, <3>1
    <3> QED BY <1>5, <1>8, <1>11, <3>1, <3>2
  <2>3. sort'.next = IF k \in 1..Len(t) THEN t[k] ELSE h
    <3>1. next[q] = Place(L, h, k + 1)
      BY <1>5, <1>6
    <3>2. CASE k = n
      <4>1. k \notin 1..Len(t)
        BY <1>2, <1>5, <1>8, <3>2
      <4> QED BY <1>6, <1>11, <3>1, <3>2, <4>1
    <3>3. CASE k # n
      <4>1. k \in 1..(n - 1) /\ k + 1 \in 1..n /\ ~(k < k)
        BY <1>2, <1>5, <3>3
      <4>2. t[k] = s[k + 1] /\ s[k + 1] = Place(L, h, k + 1)
        BY <1>6, <1>8, <4>1
      <4> QED BY <1>8, <1>11, <3>1, <4>1, <4>2
    <3> QED BY <3>2, <3>3
  <2>4. \A i \in k..Len(t) : t[i] = b[i + 1]
    <3> TAKE i \in k..Len(t)
    <3>1. i \in 1..(n - 1) /\ ~(i < k) /\ i + 1 \in k..n
      BY <1>2, <1>5, <1>8
    <3> QED BY <1>4, <1>8, <3>1
  <2>5. Stable(t, b, k - 1)
    <3>1. \A i \in 1..(k - 1) : t[i] = s[i]
      <4> TAKE i \in 1..(k - 1)
      <4>1. i \in 1..(n - 1) /\ i < k
        BY <1>2, <1>5
      <4> QED BY <1>8, <4>1
    <3> QED BY <1>4, <3>1 DEF Stable, StableBy
  <2>6. \A i \in (k - 1 + 1)..(k - 1) : FALSE
    BY <1>5
  <2> QED BY <1>5, <1>11, <2>1, <2>2, <2>3, <2>4, <2>5, <2>6 DEF Comparing
<1>13. Sorts(t, sort')
  <2>1. k \in 2..(Len(b) + 1) /\ k - 1 \in 1..(k - 1)
    BY <1>5
  <2> QED BY <1>11, <1>12, <2>1 DEF Sorts
<1>14. q \in linked /\ Queued(L) = linked
  <2>1. Queued(L) = linked
    BY <1>1 DEF Holds, InQueues
  <2>2. q \in Queued(L)
    <3>1. k \in 1..Len(L[h]) /\ L[h][k] = q
      BY <1>5 DEF s, n
    <3>2. \A i \in 1..Len(L[h]) : L[h][i] \in Queued(L)
      BY <1>2, HoldsType, PlaceOK
    <3> QED BY <3>1, <3>2
  <2> QED BY <2>1, <2>2
<1>15. Holds(M)'
  <2>1. Rings(prev, next, ready, M)' /\ Queued(M)' = InQueues'
    <3>1. Queued(M) = linked \ {q}
      BY <1>7, <1>14
    <3>2. InQueues' = linked \ {q}
      BY <1>1, <1>10, <1>11 DEF InQueues
    <3> QED BY <1>1, <1>7, <3>1, <3>2 DEF Queued
  <2>2. (linked \subseteq Elts)' /\ (sort \in Sorting \cup {Null})'
    BY <1>1, <1>10 DEF Holds, Sorting
  <2>3. sort'.h \in ready' /\ sort'.q \in linked' \cup {sort'.h} /\ Sorts(M[sort'.h], sort') /\ sort'.q \in linked'
    BY <1>1, <1>2, <1>11, <1>13, <1>14 DEF t
  <2> QED BY <2>1, <2>2, <2>3 DEF Holds, Sorts, Taking, Comparing, Stable, StableBy, Precedes, Greater
<1> QED BY <1>0, <1>2, <1>5, <1>10, <1>11, <1>15 DEF M, n, s

\* The inner loop goes back over an element that is greater.
LEMMA StepSortBack ==
  ASSUME NEW L, Holds(L), SortBack
  PROVE  sort'.h = sort.h /\ sort'.before = sort.before /\ sort' # Null /\ Holds(L)'
<1>0. PICK h : h = sort.h
  OBVIOUS
<1> DEFINE q == sort.q
           b == sort.before
           s == L[h]
           n == Len(s)
<1>1. /\ ~Idle /\ sort.at = "compare" /\ Greater(sort.prev, q) /\ prev[sort.prev] # h
      /\ prev' = prev /\ next' = next /\ ready' = ready /\ linked' = linked
      /\ sort' = [sort EXCEPT !.prev = prev[sort.prev]]
  BY <1>0 DEF SortBack
<1>2. /\ sort \in Sorting /\ sort # Null /\ h \in ready /\ h \in Heads /\ Sorts(s, sort)
      /\ b \in Seq(Elts) /\ Len(b) \in Nat /\ s \in Seq(Elts) /\ n \in Nat
      /\ sort = [h |-> h, at |-> sort.at, q |-> q, prev |-> sort.prev, next |-> sort.next, before |-> b]
  BY <1>0, <1>1, SortingType
<1>3. PICK k \in 2..(Len(b) + 1) : \E j \in 1..(k - 1) : Comparing(s, sort, k, j)
  BY <1>1, <1>2 DEF Sorts, Taking
<1>4. PICK j \in 1..(k - 1) : Comparing(s, sort, k, j)
  BY <1>3
<1>5. /\ n + 1 = Len(b) /\ k <= Len(b) /\ q = b[k] /\ sort.prev = s[j]
      /\ sort.next = (IF k \in 1..n THEN s[k] ELSE h)
      /\ \A i \in k..n : s[i] = b[i + 1]
      /\ Stable(s, b, k - 1)
      /\ \A i \in (j + 1)..(k - 1) : Greater(s[i], q)
  BY <1>0, <1>4 DEF Comparing
<1>6. /\ \A i \in 1..n : s[i] = Place(L, h, i) /\ prev[s[i]] = Place(L, h, i - 1)
      /\ Place(L, h, 0) = h
  BY <1>2, FirstAndLast
<1> HIDE DEF s, n, b, q
<1>7. k \in Int /\ 2 <= k /\ k <= n + 1 /\ j \in Int /\ 1 <= j /\ j <= k - 1 /\ j \in 1..n
  BY <1>2, <1>5
<1>8. j # 1 /\ prev[sort.prev] = s[j - 1]
  <2>1. prev[sort.prev] = Place(L, h, j - 1)
    BY <1>5, <1>6, <1>7
  <2>2. j # 1
    <3>1. ASSUME j = 1 PROVE FALSE
      <4>1. j - 1 = 0
        BY <3>1
      <4> QED BY <1>1, <1>6, <2>1, <4>1
    <3> QED BY <3>1
  <2>3. j - 1 \in 1..n
    BY <1>2, <1>7, <2>2
  <2> QED BY <1>6, <2>1, <2>2, <2>3
<1>9. sort' = [h |-> h, at |-> sort.at, q |-> q, prev |-> s[j - 1], next |-> sort.next, before |-> b]
  BY <1>0, <1>1, <1>2, <1>8 DEF Sorting
<1>10. /\ sort'.h = h /\ sort'.at = "compare" /\ sort'.q = q /\ sort'.prev = s[j - 1]
       /\ sort'.next = sort.next /\ sort'.before = b
  BY <1>1, <1>9
<1>11. sort' \in Sorting /\ sort' # Null
  <2>1. s[j - 1] \in Links
    <3>1. j - 1 \in 1..n
      BY <1>2, <1>7, <1>8
    <3>2. s[j - 1] \in Elts
      BY <1>2, <3>1, ElementOfSeq DEF n
    <3> QED BY <3>2, HoldsType
  <2>2. sort' \in Sorting
    BY <1>2, <1>9, <2>1 DEF Sorting, q, b
  <2> QED BY <2>2, NullAssumption
<1>12. Comparing(s, sort', k, j - 1)
  <2>1. \A i \in (j - 1 + 1)..(k - 1) : Greater(s[i], q)
    <3> TAKE i \in (j - 1 + 1)..(k - 1)
    <3>1. i = j \/ i \in (j + 1)..(k - 1)
      BY <1>7
    <3> QED BY <1>1, <1>5, <3>1
  <2> QED BY <1>5, <1>10, <2>1 DEF Comparing, n
<1>13. Sorts(s, sort')
  <2>1. j - 1 \in 1..(k - 1)
    BY <1>7, <1>8
  <2>2. k \in 2..(Len(b) + 1)
    BY <1>3
  <2> QED BY <1>10, <1>12, <2>1, <2>2 DEF Sorts
<1>14. q \in linked
  BY <1>1, <1>2 DEF Holds, q
<1>15. Holds(L)'
  <2>1. Rings(prev, next, ready, L)' /\ Queued(L)' = InQueues'
    <3>1. InQueues' = InQueues
      BY <1>1, <1>2, <1>10, <1>11 DEF InQueues, q
    <3> QED BY <1>1, <3>1 DEF Holds, Queued
  <2>2. (linked \subseteq Elts)' /\ (sort \in Sorting \cup {Null})'
    BY <1>1, <1>11 DEF Holds, Sorting
  <2>3. sort'.h \in ready' /\ sort'.q \in linked' \cup {sort'.h} /\ Sorts(L[sort'.h], sort') /\ sort'.q \in linked'
    BY <1>1, <1>2, <1>10, <1>13, <1>14 DEF s
  <2> QED BY <2>1, <2>2, <2>3 DEF Holds, Sorts, Taking, Comparing, Stable, StableBy, Precedes, Greater
<1> QED BY <1>0, <1>10, <1>11, <1>15 DEF b

\* The element comes back at its place: one element more is sorted.
LEMMA StepSortPlace ==
  ASSUME NEW L, Holds(L), SortPlace
  PROVE  /\ sort'.h = sort.h /\ sort'.before = sort.before /\ sort' # Null
         /\ \E h \in ready : h = sort.h /\ \E i \in 0..Len(L[h]), x \in Elts : Holds(PutIn(L, h, i, x))'
<1>0. PICK h, q : h = sort.h /\ q = sort.q
  OBVIOUS
<1> DEFINE b == sort.before
           s == L[h]
           n == Len(s)
<1>1. /\ ~Idle /\ sort.at = "compare" /\ (Greater(sort.prev, q) => prev[sort.prev] = h)
      /\ PutAfter(IF Greater(sort.prev, q) THEN h ELSE sort.prev, q)
      /\ ready' = ready /\ linked' = linked
      /\ sort' = [sort EXCEPT !.at = "take", !.q = sort.next, !.prev = Null, !.next = Null]
  BY <1>0 DEF SortPlace
<1>2. /\ sort \in Sorting /\ sort # Null /\ h \in ready /\ h \in Heads /\ Sorts(s, sort)
      /\ b \in Seq(Elts) /\ Len(b) \in Nat /\ s \in Seq(Elts) /\ n \in Nat
      /\ sort = [h |-> h, at |-> sort.at, q |-> q, prev |-> sort.prev, next |-> sort.next, before |-> b]
  BY <1>0, <1>1, SortingType
<1>3. PICK k \in 2..(Len(b) + 1) : \E j \in 1..(k - 1) : Comparing(s, sort, k, j)
  BY <1>1, <1>2 DEF Sorts, Taking
<1>4. PICK j \in 1..(k - 1) : Comparing(s, sort, k, j)
  BY <1>3
<1>5. /\ n + 1 = Len(b) /\ k <= Len(b) /\ q = b[k] /\ sort.prev = s[j]
      /\ sort.next = (IF k \in 1..n THEN s[k] ELSE h)
      /\ \A i \in k..n : s[i] = b[i + 1]
      /\ Stable(s, b, k - 1)
      /\ \A i \in (j + 1)..(k - 1) : Greater(s[i], q)
  BY <1>0, <1>4 DEF Comparing
<1>6. /\ \A i \in 1..n : s[i] = Place(L, h, i) /\ prev[s[i]] = Place(L, h, i - 1) /\ s[i] # h
      /\ Place(L, h, 0) = h
  BY <1>2, FirstAndLast
<1> HIDE DEF s, n, b
<1>7. /\ k \in Int /\ 2 <= k /\ k <= n + 1 /\ j \in Int /\ 1 <= j /\ j <= k - 1 /\ j \in 1..n
      /\ \A i \in 1..n : s[i] \in Elts /\ Key[s[i]] \in Int
  <2>1. \A i \in 1..n : s[i] \in Elts
    BY <1>2, ElementOfSeq DEF n
  <2>2. \A i \in 1..n : Key[s[i]] \in Int
    BY <2>1, QueueAssumption
  <2>3. /\ k \in Int /\ 2 <= k /\ k <= n + 1 /\ j \in Int /\ 1 <= j /\ j <= k - 1 /\ j \in 1..n
    BY <1>2, <1>5
  <2> QED BY <2>1, <2>2, <2>3
<1> DEFINE i0 == IF Greater(s[j], q) THEN 0 ELSE j
<1>8. i0 \in Int /\ 0 <= i0 /\ i0 <= k - 1 /\ i0 <= n /\ (Greater(s[j], q) => j = 1)
  <2>1. ASSUME Greater(s[j], q), j # 1 PROVE FALSE
    <3>1. j - 1 \in 1..n
      BY <1>2, <1>7, <2>1
    <3>2. prev[sort.prev] = s[j - 1] /\ s[j - 1] # h
      BY <1>5, <1>6, <1>7, <3>1
    <3> QED BY <1>1, <1>5, <2>1, <3>2
  <2> QED BY <1>2, <1>7, <2>1
<1>9. PutAfter(Place(L, h, i0), q)
  <2>1. Place(L, h, i0) = IF Greater(s[j], q) THEN h ELSE s[j]
    BY <1>6, <1>7
  <2> QED BY <1>1, <1>5, <2>1
<1>10. q \in Elts /\ q \in linked /\ q \notin Queued(L) /\ Queued(L) = linked \ {q}
  <2>1. q \in linked /\ Queued(L) = linked \ {q} /\ linked \subseteq Elts
    BY <1>0, <1>1, <1>2 DEF Holds, InQueues
  <2> QED BY <2>1
<1>11. PICK i \in 0..n : i = i0
  BY <1>2, <1>8
<1>12. Key[q] \in Int
  BY <1>10, QueueAssumption
<1>13. \A m \in (i + 1)..(k - 1) : Key[s[m]] > Key[q]
  <2> TAKE m \in (i + 1)..(k - 1)
  <2>1. CASE Greater(s[j], q)
    <3>1. m = j \/ m \in (j + 1)..(k - 1)
      BY <1>7, <1>8, <1>11, <2>1
    <3> QED BY <1>5, <2>1, <3>1 DEF Greater
  <2>2. CASE ~Greater(s[j], q)
    <3>1. m \in (j + 1)..(k - 1)
      BY <1>7, <1>8, <1>11, <2>2
    <3> QED BY <1>5, <3>1 DEF Greater
  <2> QED BY <2>1, <2>2
<1>14. \A m \in 1..i : Key[s[m]] <= Key[q]
  <2> TAKE m \in 1..i
  <2>1. ~Greater(s[j], q) /\ i = j
    BY <1>8, <1>11
  <2>2. Key[s[j]] <= Key[q]
    BY <1>7, <1>12, <2>1 DEF Greater
  <2>3. m \in Int /\ 1 <= m /\ m <= j /\ m \in 1..(k - 1) /\ j \in 1..(k - 1) /\ m \in 1..n
    BY <1>2, <1>7, <2>1
  <2>4. m = j \/ Key[s[m]] <= Key[s[j]]
    <3>1. PICK p \in [1..(k - 1) -> 1..(k - 1)] : StableBy(p, s, b, k - 1)
      BY <1>5 DEF Stable
    <3>2. m < j => Precedes(b, p[m], p[j])
      BY <2>3, <3>1 DEF StableBy
    <3>3. b[p[m]] = s[m] /\ b[p[j]] = s[j]
      BY <2>3, <3>1 DEF StableBy
    <3>4. Key[s[m]] \in Int /\ Key[s[j]] \in Int
      BY <1>7, <2>3
    <3>5. m < j => Key[s[m]] < Key[s[j]] \/ Key[s[m]] = Key[s[j]]
      BY <3>2, <3>3, Zenon DEF Precedes
    <3>6. m \in Int /\ j \in Int /\ m <= j
      BY <1>7, <2>3
    <3>7. CASE m < j
      <4>1. Key[s[m]] < Key[s[j]] \/ Key[s[m]] = Key[s[j]]
        BY <3>5, <3>7
      <4> QED BY <3>4, <4>1
    <3> QED BY <3>6, <3>7
  <2>5. Key[s[m]] \in Int /\ Key[s[j]] \in Int
    BY <1>7, <2>3
  <2> QED BY <1>12, <2>2, <2>4, <2>5
<1> DEFINE M == PutIn(L, h, i, q)
           t == M[h]
<1>15. Rings(prev', next', ready, M) /\ Queued(M) = Queued(L) \cup {q}
  <2>1. Rings(prev, next, ready, L) /\ Puts(prev, next, Place(L, h, i), q, prev', next')
    BY <1>9, <1>11 DEF Holds, Puts, PutAfter
  <2>2. i \in 0..Len(L[h])
    BY <1>11 DEF n, s
  <2> HIDE DEF M
  <2> QED BY <1>2, <1>10, <2>1, <2>2, RingsPut DEF M
<1>16. /\ t \in Seq(Elts) /\ Len(t) = n + 1
       /\ \A m \in 1..(n + 1) : t[m] = IF m <= i THEN s[m] ELSE IF m = i + 1 THEN q ELSE s[m - 1]
  <2>1. t = InsertAt(s, i, q) /\ L \in [Heads -> Seq(Elts)] /\ i \in 0..Len(s)
    BY <1>2, <1>11, HoldsType DEF PutIn, s, n
  <2> HIDE DEF t, M
  <2>2. s \in Seq(Elts) /\ n = Len(s) /\ q \in Elts
    BY <1>2, <1>10 DEF n
  <2> HIDE DEF s, n
  <2>3. t \in Seq(Elts) /\ Len(t) = Len(s) + 1
    BY <2>1, <2>2, InsertAtElements
  <2>4. \A m \in 1..(Len(s) + 1) : t[m] = IF m <= i THEN s[m] ELSE IF m = i + 1 THEN q ELSE s[m - 1]
    <3>1. \A m \in 1..(Len(s) + 1) :
            InsertAt(s, i, q)[m] = IF m <= i THEN s[m] ELSE IF m = i + 1 THEN q ELSE s[m - 1]
      <4>1. s \in Seq(Elts) /\ i \in 0..Len(s) /\ q \in Elts
        BY <2>1, <2>2
      <4> QED BY <4>1, InsertAtElements, Zenon
    <3> HIDE DEF i0
    <3> QED BY <2>1, <3>1
  <2> QED BY <2>2, <2>3, <2>4
<1> HIDE DEF M, t, i0
<1>17. sort' = [h |-> h, at |-> "take", q |-> sort.next, prev |-> Null, next |-> Null, before |-> b]
  BY <1>0, <1>1, <1>2 DEF Sorting, b
<1>18. sort'.h = h /\ sort'.at = "take" /\ sort'.q = sort.next /\ sort'.before = b
  BY <1>17
<1>19. sort.next \in linked \cup {h} /\ sort.next \in Links
  <2>1. CASE k \in 1..n
    <3>1. s[k] \in Queued(L) /\ s[k] \in Elts
      BY <1>2, <1>7, <2>1, HoldsType, PlaceOK DEF s, n
    <3> QED BY <1>5, <1>10, <2>1, <3>1, HoldsType
  <2>2. CASE k \notin 1..n
    BY <1>2, <1>5, <2>2, HoldsType
  <2> QED BY <2>1, <2>2
<1>20. sort' \in Sorting /\ sort' # Null
  <2>1. sort' \in Sorting
    BY <1>2, <1>17, <1>19 DEF Sorting
  <2> QED BY <2>1, NullAssumption
<1>21. Taking(t, sort', k + 1)
  <2>1. Len(t) = Len(b)
    BY <1>5, <1>16
  <2>2. sort'.q = IF k + 1 \in 1..Len(t) THEN t[k + 1] ELSE h
    <3>1. CASE k \in 1..n
      <4>1. k + 1 \in 1..(n + 1) /\ ~(k + 1 <= i) /\ k + 1 # i + 1 /\ k + 1 - 1 = k
        BY <1>2, <1>7, <1>8, <1>11, <3>1
      <4>2. t[k + 1] = s[k + 1 - 1]
        BY <1>16, <4>1
      <4> QED BY <1>5, <1>16, <1>18, <3>1, <4>1, <4>2
    <3>2. CASE k \notin 1..n
      <4>1. k + 1 \notin 1..Len(t)
        BY <1>2, <1>7, <1>16, <3>2
      <4> QED BY <1>5, <1>18, <3>2, <4>1
    <3> QED BY <3>1, <3>2
  <2>3. \A m \in (k + 1)..Len(t) : t[m] = b[m]
    <3> TAKE m \in (k + 1)..Len(t)
    <3>0. m \in Int /\ k + 1 <= m /\ m <= n + 1 /\ i \in Int /\ i <= k - 1
      BY <1>2, <1>7, <1>8, <1>11, <1>16
    <3>1. /\ m \in 1..(n + 1) /\ ~(m <= i) /\ m # i + 1 /\ m - 1 \in k..n /\ m - 1 + 1 = m
      <4> HIDE DEF n
      <4>1. m \in 1..(n + 1) /\ ~(m <= i) /\ m # i + 1
        BY <1>2, <1>7, <3>0
      <4>2. m - 1 \in k..n /\ m - 1 + 1 = m
        BY <1>2, <1>7, <3>0
      <4> QED BY <4>1, <4>2
    <3>2. t[m] = s[m - 1] /\ s[m - 1] = b[m - 1 + 1]
      BY <1>5, <1>16, <3>1
    <3> QED BY <3>1, <3>2
  <2>4. Stable(t, b, k)
    <3>1. \A m \in 1..k : t[m] = IF m <= i THEN s[m] ELSE IF m = i + 1 THEN b[k] ELSE s[m - 1]
      <4> TAKE m \in 1..k
      <4>1. m \in 1..(n + 1)
        BY <1>2, <1>7
      <4> QED BY <1>5, <1>16, <4>1
    <3>2. k \in 2..Len(b) /\ i \in 0..(k - 1) /\ Stable(s, b, k - 1) /\ b \in Seq(Elts)
      BY <1>2, <1>5, <1>7, <1>8, <1>11
    <3>3. /\ \A m \in 1..i : Key[s[m]] <= Key[b[k]]
          /\ \A m \in (i + 1)..(k - 1) : Key[s[m]] > Key[b[k]]
      BY <1>5, <1>13, <1>14
    <3> QED BY <3>1, <3>2, <3>3, StableInsert
  <2>5. k + 1 - 1 = k
    BY <1>7
  <2> QED BY <1>18, <2>1, <2>2, <2>3, <2>4, <2>5 DEF Taking
<1>22. Sorts(t, sort')
  <2>1. k + 1 \in 2..(Len(b) + 1)
    BY <1>2, <1>5, <1>7
  <2> QED BY <1>18, <1>21, <2>1 DEF Sorts
<1>23. Holds(M)'
  <2>1. Rings(prev, next, ready, M)' /\ Queued(M)' = InQueues'
    <3>1. Queued(M) = linked
      BY <1>10, <1>15
    <3>2. InQueues' = linked
      BY <1>1, <1>18 DEF InQueues
    <3> QED BY <1>1, <1>15, <3>1, <3>2 DEF Queued
  <2>2. (linked \subseteq Elts)' /\ (sort \in Sorting \cup {Null})'
    BY <1>1, <1>20 DEF Holds, Sorting
  <2>3. sort'.h \in ready' /\ sort'.q \in linked' \cup {sort'.h} /\ Sorts(M[sort'.h], sort') /\ sort'.at # "compare"
    BY <1>1, <1>2, <1>18, <1>19, <1>22 DEF t
  <2> QED BY <2>1, <2>2, <2>3 DEF Holds, Sorts, Taking, Comparing, Stable, StableBy, Precedes, Greater
<1> QED BY <1>0, <1>2, <1>10, <1>18, <1>20, <1>23 DEF M, n, s, b

-----------------------------------------------------------------------------
(* The abstract queues. *)

\* s lists b by a function that QueueOfSequence calls a sort.
SortOf(s, b) ==
  \E p \in [DOMAIN b -> DOMAIN b] : Q!Sorts(p, b) /\ s = [k \in DOMAIN b |-> b[p[k]]]

\* What is in stable order is such a list.
LEMMA StableIsSorted ==
  ASSUME NEW b \in Seq(Elts), NEW s \in Seq(Elts), Len(s) = Len(b), Stable(s, b, Len(b))
  PROVE  SortOf(s, b)
<1> DEFINE n == Len(b)
<1>1. n \in Nat /\ DOMAIN b = 1..n /\ DOMAIN s = 1..n /\ s = [k \in 1..n |-> s[k]]
  BY LenProperties
<1>2. PICK p \in [1..n -> 1..n] : StableBy(p, s, b, n)
  BY DEF Stable
<1> HIDE DEF n
<1>3. s = [k \in 1..n |-> b[p[k]]]
  BY <1>1, <1>2 DEF StableBy
<1>4. Q!Sorts(p, b)
  BY <1>1, <1>2 DEF StableBy, Precedes, Q!Sorts
<1> QED BY <1>1, <1>2, <1>3, <1>4 DEF SortOf

\* The outer loop ends at the head, with all elements sorted.
LEMMA StepSortEnd ==
  ASSUME NEW L, Holds(L), SortEnd
  PROVE  Holds(L)' /\ sort' = Null /\ SortOf(L[sort.h], sort.before)
<1> DEFINE h == sort.h
           b == sort.before
           s == L[h]
           n == Len(s)
<1>1. /\ ~Idle /\ sort.at = "take" /\ sort.q = h /\ sort' = Null
      /\ prev' = prev /\ next' = next /\ ready' = ready /\ linked' = linked
  BY DEF SortEnd
<1>2. h \in ready /\ Sorts(s, sort) /\ b \in Seq(Elts) /\ Len(b) \in Nat /\ s \in Seq(Elts) /\ n \in Nat
  BY <1>1, SortingType
<1>3. PICK m \in 2..(Len(b) + 1) : Taking(s, sort, m)
  BY <1>1, <1>2 DEF Sorts, Comparing
<1>4. n = Len(b) /\ h = (IF m \in 1..n THEN s[m] ELSE h) /\ Stable(s, b, m - 1)
  BY <1>1, <1>3 DEF Taking
<1>5. m \notin 1..n
  BY <1>2, <1>4, FirstAndLast
<1> HIDE DEF n, b, s, h
<1>6. m - 1 = Len(b)
  BY <1>2, <1>4, <1>5
<1>7. SortOf(s, b)
  <2>1. Len(s) = Len(b) /\ Stable(s, b, Len(b))
    BY <1>4, <1>6 DEF n
  <2> QED BY <1>2, <2>1, StableIsSorted
<1>8. Holds(L)'
  <2>1. Queued(L) = linked
    BY <1>1 DEF Holds, InQueues
  <2>2. InQueues' = linked
    BY <1>1 DEF InQueues
  <2> QED BY <1>1, <2>1, <2>2 DEF Holds, Queued
<1> QED BY <1>1, <1>7, <1>8 DEF h, s, b

\* The abstract queues: what the rings hold, except for one that is being sorted.
Abstract(L) == [h \in Heads |-> IF ~Idle /\ sort.h = h THEN sort.before ELSE L[h]]

\* What Lists is in a state of the invariant.
LEMMA ListsHolds ==
  ASSUME NEW L, Holds(L)
  PROVE  Lists = Abstract(L)
<1>1. \A h \in Heads \ ready : L[h] = <<>> /\ ~(~Idle /\ sort.h = h)
  BY DEF Holds, Rings, Idle
<1>2. \A h \in ready : Walk(h) = L[h]
  BY WalkHolds
<1> QED BY <1>1, <1>2 DEF Lists, Abstract

\* The same for the next state.
LEMMA ListsHoldsNext ==
  ASSUME NEW L, Holds(L)'
  PROVE  Lists' = Abstract(L)'
<1>1. \A h \in Heads \ ready' : L[h] = <<>> /\ ~(~Idle' /\ sort'.h = h)
  BY DEF Holds, Rings, Idle
<1>2. \A h \in ready' : Walk(h)' = L[h]
  BY WalkHoldsNext
<1> QED BY <1>1, <1>2 DEF Lists, Abstract

\* While nothing is being sorted Lists are the queues.
LEMMA ListsIdle ==
  ASSUME NEW L, Holds(L), Idle
  PROVE  Lists = L /\ Q!Queued = Queued(L)
<1>1. Lists = Abstract(L) /\ L \in [Heads -> Seq(Elts)]
  BY ListsHolds, HoldsType
<1>2. Lists = L
  BY <1>1 DEF Abstract
<1>3. \A h \in Heads : DOMAIN L[h] = 1..Len(L[h]) /\ \A i \in 1..Len(L[h]) : L[h][i] \in Elts
  BY <1>1, PlaceOK, LenProperties
<1>4. Q!Queued = Queued(L)
  BY <1>2, <1>3 DEF Q!Queued, Queued
<1> QED BY <1>2, <1>4

\* The same for the next state.
LEMMA ListsIdleNext ==
  ASSUME NEW L, Holds(L)', Idle'
  PROVE  Lists' = L
<1>1. Lists' = Abstract(L)' /\ L \in [Heads -> Seq(Elts)]
  BY ListsHoldsNext DEF Holds, Rings
<1> QED BY <1>1 DEF Abstract

\* An element put into a queue is Insert of the sequences.
LEMMA AbstractInsert ==
  ASSUME NEW L, Holds(L), Idle, Idle', NEW h \in ready, NEW i \in 0..Len(L[h]), NEW x \in Elts,
         x \notin Queued(L), Holds(PutIn(L, h, i, x))'
  PROVE  Q!Next
<1>1. Lists = L /\ Q!Queued = Queued(L) /\ Lists' = PutIn(L, h, i, x) /\ h \in Heads
  BY ListsIdle, ListsIdleNext, HoldsType
<1>2. Lists' = [Lists EXCEPT ![h] = Q!Before(h, i) \o <<x>> \o Q!From(h, i + 1)]
  BY <1>1 DEF PutIn, InsertAt, Q!Before, Q!From
<1>3. i \in 0..Len(Lists[h])
  BY <1>1
<1>4. Q!Insert(h, x)
  BY <1>1, <1>2, <1>3 DEF Q!Insert
<1> QED BY <1>1, <1>4 DEF Q!Next

\* An element taken out.
LEMMA AbstractDrop ==
  ASSUME NEW L, Holds(L), Idle, Idle', NEW h \in ready, NEW i \in 1..Len(L[h]), Holds(TakenFrom(L, h, i))'
  PROVE  Q!Next
<1>1. Lists = L /\ Lists' = TakenFrom(L, h, i) /\ h \in Heads /\ DOMAIN L[h] = 1..Len(L[h])
  BY ListsIdle, ListsIdleNext, HoldsType, LenProperties
<1>2. Lists' = [Lists EXCEPT ![h] = Q!Before(h, i - 1) \o Q!From(h, i + 1)]
  BY <1>1 DEF TakenFrom, DropAt, Q!Before, Q!From
<1>3. Q!Drop(h, i) /\ i \in DOMAIN Lists[h]
  BY <1>1, <1>2 DEF Q!Drop
<1> QED BY <1>1, <1>3 DEF Q!Next

\* A queue split.
LEMMA AbstractSplit ==
  ASSUME NEW L, Holds(L), Idle, Idle', NEW h \in ready, NEW m \in Heads, NEW i \in 1..Len(L[h]),
         L[m] = <<>>, Holds(SplitAt(L, h, i, m))'
  PROVE  Q!Next
<1>1. Lists = L /\ Lists' = SplitAt(L, h, i, m) /\ h \in Heads /\ DOMAIN L[h] = 1..Len(L[h])
  BY ListsIdle, ListsIdleNext, HoldsType, LenProperties
<1>2. Lists' = [Lists EXCEPT ![h] = Q!Before(h, i - 1), ![m] = Q!From(h, i)]
  BY <1>1 DEF SplitAt, Q!Before, Q!From
<1>3. Q!Split(h, i, m) /\ i \in DOMAIN Lists[h]
  BY <1>1, <1>2 DEF Q!Split
<1> QED BY <1>1, <1>3 DEF Q!Next

\* Two queues joined.
LEMMA AbstractJoin ==
  ASSUME NEW L, Holds(L), Idle, Idle', NEW h \in Heads, NEW m \in Heads, h # m, Holds(Joined(L, h, m))'
  PROVE  Q!Next
<1>1. Lists = L /\ Lists' = Joined(L, h, m)
  BY ListsIdle, ListsIdleNext
<1>2. Lists' = [Lists EXCEPT ![h] = @ \o Lists[m], ![m] = <<>>]
  BY <1>1 DEF Joined
<1>3. Q!Join(h, m)
  BY <1>2 DEF Q!Join
<1> QED BY <1>3 DEF Q!Next

\* What happens to the queue that is being sorted is not seen.
LEMMA SortHidden ==
  ASSUME NEW L, NEW M, Holds(L), Holds(M)', ~Idle, sort' # Null,
         sort'.h = sort.h, sort'.before = sort.before,
         \A g \in Heads : g # sort.h => M[g] = L[g]
  PROVE  Lists' = Lists
<1>1. Lists = Abstract(L) /\ Lists' = Abstract(M)'
  BY ListsHolds, ListsHoldsNext
<1> QED BY <1>1 DEF Abstract, Idle

\* The last step of a sort puts the sorted queue in the place of the given one.
LEMMA AbstractSort ==
  ASSUME NEW L, Holds(L), SortEnd
  PROVE  Holds(L)' /\ [Q!Next]_Lists
<1>1. Holds(L)' /\ sort' = Null /\ ~Idle
  BY StepSortEnd DEF SortEnd
<1>2. PICK h \in Heads : h = sort.h
  BY <1>1, SortingType
<1>3. PICK b : b = sort.before
  OBVIOUS
<1>4. PICK p \in [DOMAIN b -> DOMAIN b] : Q!Sorts(p, b) /\ L[h] = [k \in DOMAIN b |-> b[p[k]]]
  <2>1. SortOf(L[h], b)
    BY <1>2, <1>3, StepSortEnd
  <2> QED BY <2>1 DEF SortOf
<1>5. Lists = [g \in Heads |-> IF g = h THEN b ELSE L[g]]
  BY <1>1, <1>2, <1>3, ListsHolds DEF Abstract
<1>6. Lists' = L /\ L = [g \in Heads |-> L[g]]
  BY <1>1, ListsIdleNext, HoldsType DEF Idle
<1>7. Lists[h] = b /\ Lists' = [Lists EXCEPT ![h] = [k \in DOMAIN b |-> b[p[k]]]]
  BY <1>4, <1>5, <1>6
<1>8. Lists' # Lists => Q!Sort(h)
  BY <1>4, <1>7 DEF Q!Sort
<1> QED BY <1>1, <1>8 DEF Q!Next

-----------------------------------------------------------------------------
(* The theorems. *)

IInv == \E L : Holds(L)

\* At first nothing is set up and every queue is empty.
LEMMA InitIInv ==
  ASSUME Init
  PROVE  Holds([h \in Heads |-> <<>>])
<1> DEFINE L == [h \in Heads |-> <<>>]
<1>1. L \in [Heads -> Seq(Elts)] /\ \A h \in Heads : L[h] = <<>> /\ Len(L[h]) = 0
  OBVIOUS
<1> HIDE DEF L
<1>2. /\ prev \in [Links -> Links] /\ next \in [Links -> Links] /\ ready = {} /\ linked = {} /\ sort = Null
  BY DEF Init
<1>3. Rings(prev, next, ready, L)
  BY <1>1, <1>2 DEF Rings
<1>4. Queued(L) = {}
  BY <1>1 DEF Queued
<1> QED BY <1>2, <1>3, <1>4 DEF Holds, InQueues, L

\* Every step keeps the invariant, and is one of the abstract queues or none.
LEMMA NextIInv ==
  ASSUME NEW L, Holds(L), [Next]_vars
  PROVE  (\E M : Holds(M)') /\ [Q!Next]_Lists
<1>1. CASE SortTake
  <2>1. PICK h \in ready : /\ h = sort.h /\ \E i \in 1..Len(L[h]) : Holds(TakenFrom(L, h, i))'
                           /\ sort'.h = sort.h /\ sort'.before = sort.before /\ sort' # Null
    BY <1>1, StepSortTake
  <2>2. PICK i \in 1..Len(L[h]) : Holds(TakenFrom(L, h, i))'
    BY <2>1
  <2>3. \A g \in Heads : g # h => TakenFrom(L, h, i)[g] = L[g]
    BY HoldsType DEF TakenFrom
  <2>4. Lists' = Lists
    BY <1>1, <2>1, <2>2, <2>3, SortHidden DEF SortTake
  <2> QED BY <2>2, <2>4
<1>2. CASE SortBack
  <2>1. Holds(L)' /\ Lists' = Lists
    BY <1>2, StepSortBack, SortHidden DEF SortBack
  <2> QED BY <2>1
<1>3. CASE SortPlace
  <2>1. PICK h \in ready : /\ h = sort.h /\ \E i \in 0..Len(L[h]), x \in Elts : Holds(PutIn(L, h, i, x))'
                           /\ sort'.h = sort.h /\ sort'.before = sort.before /\ sort' # Null
    BY <1>3, StepSortPlace
  <2>2. PICK i \in 0..Len(L[h]), x \in Elts : Holds(PutIn(L, h, i, x))'
    BY <2>1
  <2>3. \A g \in Heads : g # h => PutIn(L, h, i, x)[g] = L[g]
    BY HoldsType DEF PutIn
  <2>4. Lists' = Lists
    BY <1>3, <2>1, <2>2, <2>3, SortHidden DEF SortPlace
  <2> QED BY <2>2, <2>4
<1>4. CASE SortEnd
  BY <1>4, AbstractSort
<1>5. ASSUME NEW h \in Heads, QueueInit(h) PROVE (\E M : Holds(M)') /\ [Q!Next]_Lists
  <2>1. Holds(L)' /\ Idle /\ Idle'
    BY <1>5, StepQueueInit DEF QueueInit, Idle
  <2>2. Lists' = Lists
    BY <2>1, ListsIdle, ListsIdleNext
  <2> QED BY <2>1, <2>2
<1>6. ASSUME NEW h \in Heads, SortBegin(h) PROVE (\E M : Holds(M)') /\ [Q!Next]_Lists
  <2>1. Holds(L)' /\ Idle /\ sort'.h = h /\ sort'.before = L[h] /\ sort' # Null
    BY <1>6, StepSortBegin DEF SortBegin
  <2>2. Lists = L /\ Lists' = Abstract(L)' /\ L = [g \in Heads |-> L[g]]
    BY <2>1, ListsIdle, ListsHoldsNext, HoldsType
  <2>3. Abstract(L)' = [g \in Heads |-> L[g]]
    BY <2>1 DEF Abstract, Idle
  <2> QED BY <2>1, <2>2, <2>3
<1>7. ASSUME NEW h \in Heads, NEW x \in Elts, QueueInsertTail(h, x)
      PROVE  (\E M : Holds(M)') /\ [Q!Next]_Lists
  <2>1. PICK i \in 0..Len(L[h]) : x \notin Queued(L) /\ Holds(PutIn(L, h, i, x))'
    BY <1>7, StepInsertTail
  <2>2. Idle /\ Idle' /\ h \in ready
    BY <1>7 DEF QueueInsertTail, Idle
  <2> QED BY <2>1, <2>2, AbstractInsert
<1>8. ASSUME NEW h \in Heads, NEW m \in Heads, QueueAdd(h, m)
      PROVE  (\E M : Holds(M)') /\ [Q!Next]_Lists
  <2>1. Holds(Joined(L, h, m))' /\ Idle /\ Idle' /\ h # m
    BY <1>8, StepAdd DEF QueueAdd, Idle
  <2> QED BY <2>1, AbstractJoin
<1>9. ASSUME NEW h \in Heads, NEW m \in Heads, NEW q \in Elts, QueueSplit(h, q, m)
      PROVE  (\E M : Holds(M)') /\ [Q!Next]_Lists
  <2>1. PICK i \in 1..Len(L[h]) : L[m] = <<>> /\ Holds(SplitAt(L, h, i, m))'
    BY <1>9, StepSplit
  <2>2. Idle /\ Idle' /\ h \in ready
    BY <1>9 DEF QueueSplit, Idle
  <2> QED BY <2>1, <2>2, AbstractSplit
<1>10. ASSUME NEW x \in Elts, QueueRemove(x) PROVE (\E M : Holds(M)') /\ [Q!Next]_Lists
  <2>1. PICK h \in ready : \E i \in 1..Len(L[h]) : Holds(TakenFrom(L, h, i))'
    BY <1>10, StepRemove
  <2>2. PICK i \in 1..Len(L[h]) : Holds(TakenFrom(L, h, i))'
    BY <2>1
  <2>3. Idle /\ Idle'
    BY <1>10 DEF QueueRemove, Idle
  <2> QED BY <2>2, <2>3, AbstractDrop
<1>11. ASSUME NEW x \in Elts, NEW at \in Links, QueueInsertAfter(at, x)
       PROVE  (\E M : Holds(M)') /\ [Q!Next]_Lists
  <2>1. PICK h \in ready : \E i \in 0..Len(L[h]) : x \notin Queued(L) /\ Holds(PutIn(L, h, i, x))'
    BY <1>11, StepInsertAfter
  <2>2. PICK i \in 0..Len(L[h]) : x \notin Queued(L) /\ Holds(PutIn(L, h, i, x))'
    BY <2>1
  <2>3. Idle /\ Idle'
    BY <1>11 DEF QueueInsertAfter, Idle
  <2> QED BY <2>2, <2>3, AbstractInsert
<1>12. CASE UNCHANGED vars
  <2>1. prev' = prev /\ next' = next /\ ready' = ready /\ linked' = linked /\ sort' = sort
    BY <1>12 DEF vars
  <2>2. Queued(L)' = Queued(L) /\ InQueues' = InQueues
    BY <2>1 DEF Queued, InQueues
  <2>3. Holds(L)'
    <3>1. PICK st, t : st = sort /\ t = L[sort.h]
      OBVIOUS
    <3>2. sort' = st /\ L[sort'.h] = t /\ (st # Null => Sorts(t, st))
      BY <2>1, <3>1 DEF Holds
    <3>3. sort' # Null => Sorts(L[sort'.h], sort')
      BY <3>2
    <3>4. /\ Rings(prev, next, ready, L)' /\ Queued(L)' = InQueues' /\ (linked \subseteq Elts)'
          /\ sort' \in Sorting \cup {Null} /\ (sort' # Null /\ sort'.at = "compare" => sort'.q \in linked')
          /\ (sort' # Null => sort'.h \in ready' /\ sort'.q \in linked' \cup {sort'.h})
      BY <2>1, <2>2 DEF Holds
    <3> QED BY <3>3, <3>4 DEF Holds, Sorts, Taking, Comparing, Stable, StableBy, Precedes, Greater, Sorting
  <2>4. Lists = Abstract(L) /\ Lists' = Abstract(L)'
    BY <2>3, ListsHolds, ListsHoldsNext
  <2>5. Lists' = Lists
    BY <2>1, <2>4 DEF Abstract, Idle
  <2> QED BY <2>3, <2>5
<1> QED BY <1>1, <1>2, <1>3, <1>4, <1>5, <1>6, <1>7, <1>8, <1>9, <1>10, <1>11, <1>12 DEF Next

\* What the invariant gives the properties.
LEMMA IInvSuffices ==
  ASSUME NEW L, Holds(L)
  PROVE  TypeOK /\ PrevMirrorsNext /\ MiddleIsMiddle
<1>1. TypeOK
  BY HoldsType DEF Holds, Rings, TypeOK, Idle
<1>2. PrevMirrorsNext
  <2>1. InRing = ready \cup InQueues
    BY DEF InRing, InQueues
  <2>2. ASSUME NEW x \in InRing PROVE /\ next[x] \in InRing /\ prev[next[x]] = x
                                      /\ prev[x] \in InRing /\ next[prev[x]] = x
    <3>1. PICK h \in ready : \E i \in 0..Len(L[h]) : x = Place(L, h, i)
      BY <2>1, HasPlace
    <3>2. PICK i \in 0..Len(L[h]) : x = Place(L, h, i)
      BY <3>1
    <3>3. h \in Heads /\ Len(L[h]) \in Nat /\ L \in [Heads -> Seq(Elts)] /\ Queued(L) = InQueues
      BY HoldsType DEF Holds
    <3>4. \A j \in 0..(Len(L[h]) + 1) : Place(L, h, j) \in InRing
      BY <2>1, <3>3, PlaceOK DEF Place
    <3>5. /\ Place(L, h, 0) = h /\ Place(L, h, Len(L[h]) + 1) = h
          /\ \A j \in 0..Len(L[h]) : /\ next[Place(L, h, j)] = Place(L, h, j + 1)
                                     /\ prev[Place(L, h, j + 1)] = Place(L, h, j)
      BY <3>3, PlaceOK DEF Holds, Rings
    <3>6. PICK j \in 0..Len(L[h]) : x = Place(L, h, j + 1)
      <4>1. CASE i = 0
        BY <3>2, <3>3, <3>5, <4>1
      <4>2. CASE i # 0
        <5>1. i - 1 \in 0..Len(L[h]) /\ (i - 1) + 1 = i
          BY <3>3, <4>2
        <5> QED BY <3>2, <5>1
      <4> QED BY <4>1, <4>2
    <3>7. next[x] = Place(L, h, i + 1) /\ prev[Place(L, h, i + 1)] = x /\ Place(L, h, i + 1) \in InRing
      BY <3>2, <3>3, <3>4, <3>5
    <3>8. prev[x] = Place(L, h, j) /\ next[Place(L, h, j)] = x /\ Place(L, h, j) \in InRing
      BY <3>3, <3>4, <3>5, <3>6
    <3> QED BY <3>7, <3>8
  <2> QED BY <2>2 DEF PrevMirrorsNext
<1>3. MiddleIsMiddle
  <2>1. ASSUME NEW h \in ready, next[h] # h
        PROVE  QueueMiddle(h) = Walk(h)[(Len(Walk(h)) \div 2) + 1]
    <3>1. Len(L[h]) # 0
      BY <2>1, FirstAndLast
    <3>2. MiddleBy(prev, next, h) = L[h][(Len(L[h]) \div 2) + 1]
      BY <3>1, HoldsType, MiddleOfList
    <3>3. QueueMiddle(h) = MiddleBy(prev, next, h)
      BY Zenon DEF QueueMiddle, MiddleBy, Hop, HopBy
    <3> QED BY <3>2, <3>3, WalkHolds
  <2> QED BY <2>1 DEF MiddleIsMiddle
<1> QED BY <1>1, <1>2, <1>3

\* The invariant holds at every time.
LEMMA SpecIInv == Spec => []IInv
<1>1. Init => IInv
  BY InitIInv DEF IInv
<1>2. IInv /\ [Next]_vars => IInv'
  <2> SUFFICES ASSUME IInv, [Next]_vars PROVE IInv'
    OBVIOUS
  <2>1. PICK L : Holds(L)
    BY DEF IInv
  <2>2. PICK M : Holds(M)'
    BY <2>1, NextIInv
  <2> QED BY <2>2 DEF IInv
<1> QED BY <1>1, <1>2, PTL DEF Spec

\* The pointers are of links, and a sort works on a queue and its elements.
THEOREM SpecTypeOK == Spec => []TypeOK
<1>1. IInv => TypeOK
  BY IInvSuffices DEF IInv
<1> QED BY <1>1, SpecIInv, PTL

\* In whatever order queues are filled, split, joined and sorted, the two
\* directions of every ring agree.
THEOREM SpecPrevMirrorsNext == Spec => []PrevMirrorsNext
<1>1. IInv => PrevMirrorsNext
  BY IInvSuffices DEF IInv
<1> QED BY <1>1, SpecIInv, PTL

\* queue_middle() returns the middle of a queue of any length.
THEOREM SpecMiddleIsMiddle == Spec => []MiddleIsMiddle
<1>1. IInv => MiddleIsMiddle
  BY IInvSuffices DEF IInv
<1> QED BY <1>1, SpecIInv, PTL

\* The macros implement sequences, and queue_sort() is a stable sort.
THEOREM SpecImplementsSequences == Spec => ImplementsSequences
<1>1. Init => Q!Init
  <2> SUFFICES ASSUME Init PROVE Q!Init
    OBVIOUS
  <2>1. Holds([h \in Heads |-> <<>>]) /\ Idle
    BY InitIInv DEF Init, Idle
  <2> QED BY <2>1, ListsIdle DEF Q!Init
<1>2. IInv /\ [Next]_vars => [Q!Next]_Lists
  BY NextIInv DEF IInv
<1> QED BY <1>1, <1>2, SpecIInv, PTL DEF Spec, ImplementsSequences, Q!Spec
=============================================================================
