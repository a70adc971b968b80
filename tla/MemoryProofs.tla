---------------------------- MODULE MemoryProofs ----------------------------
(***************************************************************************)
(* A pool in use keeps what it promises, for all sizes of blocks, memory   *)
(* and elements and any number of arrays and lists.  The first part is     *)
(* about the pool alone, what palloc() and its relatives do to it: PoolOK  *)
(* is preserved, and what a call takes from the pool lies behind all that  *)
(* was taken before (Gets).  In the second part arrays and lists own what  *)
(* they were given (Ownership), so that growing or destroying one touches  *)
(* no other.                                                               *)
(***************************************************************************)
EXTENDS Memory, FiniteSetTheorems, WellFoundedInduction, TLAPS

-----------------------------------------------------------------------------
LEMMA LeastOf ==
  ASSUME NEW S \in SUBSET Nat, S # {}
  PROVE  \E m \in S : \A k \in S : m <= k
<1>0. PICK n \in S : TRUE
  OBVIOUS
<1> DEFINE T == {0..k : k \in {j \in S : j <= n}}
<1>1. T \subseteq SUBSET (0..n)
  OBVIOUS
<1>2. 0..n \in T
  BY <1>0
<1>3. IsFiniteSet(0..n)
  BY <1>0, FS_Interval
<1>4. IsWellFoundedOn(StrictSubsetOrdering(0..n), SUBSET (0..n))
  BY <1>3, FS_StrictSubsetOrderingWellFounded, FS_FiniteSubsetsOfFinite
<1>5. PICK x \in T : \A y \in T : ~(<<y, x>> \in StrictSubsetOrdering(0..n))
  <2> HIDE DEF T
  <2> QED BY <1>1, <1>2, <1>4, WFMin
<1>6. PICK m \in S : m <= n /\ x = 0..m
  OBVIOUS
<1>7. ASSUME NEW k \in S, k < m PROVE FALSE
  <2>1. 0..k \in T
    BY <1>6, <1>7
  <2>2. <<0..k, x>> \in StrictSubsetOrdering(0..n)
    <3>1. 0..k \subseteq 0..m /\ m \in 0..m /\ m \notin 0..k
      BY <1>7
    <3>2. 0..k \in SUBSET (0..n) /\ 0..m \in SUBSET (0..n)
      BY <1>6, <1>7
    <3> QED BY <1>6, <3>1, <3>2 DEF StrictSubsetOrdering
  <2> QED BY <1>5, <2>1, <2>2
<1> QED BY <1>7

LEMMA GreatestOf ==
  ASSUME NEW n \in Nat, NEW S \in SUBSET (0..n), S # {}
  PROVE  \E m \in S : \A k \in S : k <= m
<1> DEFINE T == {n - k : k \in S}
<1>1. T \in SUBSET Nat /\ T # {}
  <2>1. ASSUME NEW k \in S PROVE n - k \in Nat
    <3>1. k \in 0..n
      OBVIOUS
    <3> QED BY <3>1
  <2>2. \A t \in T : t \in Nat
    BY <2>1
  <2>3. PICK k \in S : TRUE
    OBVIOUS
  <2>4. n - k \in T
    BY <2>3
  <2> QED BY <2>2, <2>4
<1>2. PICK d \in T : \A e \in T : d <= e
  <2> HIDE DEF T
  <2> QED BY <1>1, LeastOf
<1>3. PICK m \in S : d = n - m
  OBVIOUS
<1>4. \A k \in S : n - k \in T
  OBVIOUS
<1>5. \A k \in S : k \in 0..n /\ d <= n - k
  BY <1>2, <1>4
<1> QED BY <1>3, <1>5

LEMMA AlignUpOK ==
  ASSUME NEW m \in Nat, m <= PoolSize
  PROVE  /\ AlignUp(m) \in Nat /\ m <= AlignUp(m) /\ AlignUp(m) <= PoolSize
         /\ AlignUp(m) % Alignment = 0
<1> DEFINE k == m + 7
<1>1. k \in Nat /\ k % 8 \in 0..7 /\ k - (k % 8) = 8 * (k \div 8) /\ k \div 8 \in Nat
  OBVIOUS
<1>2. AlignUp(m) = 8 * (k \div 8)
  BY <1>1 DEF AlignUp, Alignment
<1>3. PoolSize \in Nat /\ PoolSize \div 8 \in Nat /\ PoolSize = 8 * (PoolSize \div 8)
  BY PoolAssumption DEF Alignment
<1>4. m <= 8 * (k \div 8) /\ 8 * (k \div 8) <= PoolSize + 7
  BY <1>1, <1>3
<1>5. k \div 8 <= PoolSize \div 8
  BY <1>1, <1>3, <1>4
<1>6. (8 * (k \div 8)) % 8 = 0
  BY <1>1
<1> QED BY <1>1, <1>2, <1>3, <1>4, <1>5, <1>6 DEF Alignment

-----------------------------------------------------------------------------
NodeChunks == [blk : Nat, from : Nat, to : Nat, aligned : BOOLEAN]
LargeNodes == [at : NodeChunks, alloc : Heap \cup {Null}]
Counters == UNION {[1..k -> Nat] : k \in Nat}
Pools == [n : Nat, last : Counters, failed : Counters, current : Nat,
          large : Seq(LargeNodes), heap : SUBSET Heap]

NodesOf(p) == {p.large[i].at : i \in DOMAIN p.large}

\* c is memory that p has, below d.last of its block.
Placed(p, c) ==
  /\ c \in Chunks
  /\ c.from < c.to
  /\ c.aligned => c.from % Alignment = 0
  /\ IF c.blk \in Heap THEN c.blk \in p.heap /\ c.from = 0
     ELSE c.blk \in 1..p.n /\ SizeofPoolData <= c.from /\ c.to <= p.last[c.blk]

\* c is memory that p does not have, or not yet given out.
Above(p, c) ==
  IF c.blk \in Heap THEN c.blk \notin p.heap
  ELSE c.blk \in 1..p.n => p.last[c.blk] <= c.from

Disjoint(c, d) == c.blk # d.blk \/ c.to <= d.from \/ d.to <= c.from

BlocksOK(p) ==
  /\ p.last \in [1..p.n -> Nat]
  /\ \A i \in 1..p.n : SizeofPoolData <= p.last[i] /\ p.last[i] <= PoolSize
  /\ p.n > 0 => p.current \in 1..p.n

\* Blocks further down the chain have failed no more often, so that those that
\* are passed over are the first ones.
FailedOK(p) ==
  /\ p.failed \in [1..p.n -> Nat]
  /\ \A i \in 1..p.n : i < p.current <=> p.failed[i] > FailedLimit
  /\ \A i, j \in 1..p.n : p.current <= i /\ i <= j => p.failed[j] <= p.failed[i]

LargeOK(p) ==
  /\ p.n = 0 => p.large = <<>>
  /\ p.heap = Allocs(p)
  /\ \A i, j \in DOMAIN p.large :
       i # j /\ p.large[i].alloc # Null => p.large[i].alloc # p.large[j].alloc

PoolOK(p) ==
  /\ p \in Pools
  /\ BlocksOK(p) /\ FailedOK(p) /\ LargeOK(p)
  /\ \A c \in NodesOf(p) : Placed(p, c)

Grown(p, q) ==
  /\ p.n <= q.n /\ \A i \in 1..p.n : p.last[i] <= q.last[i]
  /\ p.heap \subseteq q.heap

\* q is p after a call that gave the chunks in given to its caller.
Gets(p, q, given) ==
  LET fresh == given \cup (NodesOf(q) \ NodesOf(p))
  IN  /\ PoolOK(q)
      /\ Grown(p, q)
      /\ NodesOf(p) \subseteq NodesOf(q) /\ given \cap NodesOf(q) = {}
      /\ \A c \in fresh : Placed(q, c) /\ Above(p, c)
      /\ \A c, d \in fresh : c # d => Disjoint(c, d)
      /\ q.heap = p.heap \cup ({c.blk : c \in given} \cap Heap)

-----------------------------------------------------------------------------
LEMMA AboveIsApart ==
  ASSUME NEW p, PoolOK(p), NEW c, NEW d, Placed(p, c), Above(p, d), d \in Chunks, d.from < d.to
  PROVE  c # d /\ Disjoint(c, d)
<1>1. c.from \in Nat /\ c.to \in Nat /\ d.from \in Nat /\ d.to \in Nat /\ c.from < c.to
  BY DEF Placed, Chunks
<1>2. CASE c.blk # d.blk
  BY <1>2 DEF Disjoint
<1>3. CASE c.blk = d.blk /\ c.blk \in Heap
  BY <1>3 DEF Placed, Above
<1>4. CASE c.blk = d.blk /\ c.blk \notin Heap
  <2>1. c.to <= p.last[c.blk] /\ p.last[c.blk] <= d.from
    BY <1>4 DEF Placed, Above
  <2>2. p.last[c.blk] \in Nat
    BY <1>4 DEF Placed, PoolOK, BlocksOK
  <2> QED BY <1>1, <1>4, <2>1, <2>2 DEF Disjoint
<1> QED BY <1>2, <1>3, <1>4

LEMMA PlacedAfter ==
  ASSUME NEW p \in Pools, NEW q \in Pools, BlocksOK(p), BlocksOK(q), Grown(p, q),
         NEW c, Placed(p, c)
  PROVE  Placed(q, c)
<1>1. p.n \in Nat /\ q.n \in Nat /\ p.n <= q.n
  BY DEF Grown, Pools
<1>2. CASE c.blk \in Heap
  BY <1>2 DEF Placed, Grown
<1>3. CASE c.blk \notin Heap
  <2>1. c.blk \in 1..p.n /\ c.to <= p.last[c.blk] /\ c.to \in Nat
    BY <1>3 DEF Placed, Chunks
  <2>2. c.blk \in 1..q.n /\ p.last[c.blk] <= q.last[c.blk]
    BY <1>1, <2>1 DEF Grown
  <2>3. p.last[c.blk] \in Nat /\ q.last[c.blk] \in Nat
    BY <2>1, <2>2 DEF BlocksOK
  <2> QED BY <1>3, <2>1, <2>2, <2>3 DEF Placed
<1> QED BY <1>2, <1>3

LEMMA AboveBefore ==
  ASSUME NEW p \in Pools, NEW q \in Pools, BlocksOK(p), BlocksOK(q), Grown(p, q),
         NEW c \in Chunks, Above(q, c)
  PROVE  Above(p, c)
<1>1. p.n \in Nat /\ q.n \in Nat /\ p.n <= q.n
  BY DEF Grown, Pools
<1>2. CASE c.blk \in Heap
  BY <1>2 DEF Above, Grown
<1>3. CASE c.blk \notin Heap
  <2> SUFFICES ASSUME c.blk \in 1..p.n PROVE p.last[c.blk] <= c.from
    BY <1>3 DEF Above
  <2>1. c.blk \in 1..q.n /\ p.last[c.blk] <= q.last[c.blk]
    BY <1>1 DEF Grown
  <2>2. p.last[c.blk] \in Nat /\ q.last[c.blk] \in Nat /\ c.from \in Nat
    BY <2>1 DEF BlocksOK, Chunks
  <2>3. q.last[c.blk] <= c.from
    BY <1>3, <2>1 DEF Above
  <2> QED BY <2>1, <2>2, <2>3
<1> QED BY <1>2, <1>3

LEMMA GetsNothing ==
  ASSUME NEW p, PoolOK(p)
  PROVE  Gets(p, p, {})
<1>1. \A i \in 1..p.n : p.last[i] <= p.last[i]
  BY DEF PoolOK, BlocksOK, Pools
<1>2. p.n <= p.n
  BY DEF PoolOK, Pools
<1> QED BY <1>1, <1>2 DEF Gets, Grown

\* Two calls, one after the other.
LEMMA GetsTwice ==
  ASSUME NEW p, NEW q, NEW r, NEW g, NEW h, PoolOK(p), Gets(p, q, g), Gets(q, r, h)
  PROVE  Gets(p, r, g \cup h)
<1> DEFINE G == g \cup (NodesOf(q) \ NodesOf(p))
           H == h \cup (NodesOf(r) \ NodesOf(q))
           F == (g \cup h) \cup (NodesOf(r) \ NodesOf(p))
<1>0. /\ PoolOK(q) /\ PoolOK(r) /\ Grown(p, q) /\ Grown(q, r)
      /\ p \in Pools /\ q \in Pools /\ r \in Pools
  BY DEF Gets, PoolOK
<1>1. PoolOK(q) /\ PoolOK(r) /\ BlocksOK(p) /\ BlocksOK(q) /\ BlocksOK(r)
  BY <1>0 DEF PoolOK
<1>2. NodesOf(p) \subseteq NodesOf(q) /\ NodesOf(q) \subseteq NodesOf(r)
  BY DEF Gets
<1>3. F = G \cup H
  BY <1>2
<1>4. \A c \in G : Placed(q, c) /\ Above(p, c)
  BY DEF Gets
<1>5. \A c \in H : Placed(r, c) /\ Above(q, c)
  BY DEF Gets
<1>6. \A c \in G : Placed(r, c)
  BY <1>0, <1>1, <1>4, PlacedAfter
<1>7. \A c \in H : Above(p, c)
  BY <1>0, <1>1, <1>5, AboveBefore DEF Placed
<1>8. \A c \in G, d \in H : c # d /\ Disjoint(c, d)
  BY <1>1, <1>4, <1>5, AboveIsApart DEF Placed
<1>9. \A c \in G, d \in H : Disjoint(d, c)
  BY <1>8 DEF Disjoint
<1>10. \A c, d \in F : c # d => Disjoint(c, d)
  <2>1. \A c, d \in G : c # d => Disjoint(c, d)
    BY DEF Gets
  <2>2. \A c, d \in H : c # d => Disjoint(c, d)
    BY DEF Gets
  <2> HIDE DEF F, G, H
  <2> QED BY <1>3, <1>8, <1>9, <2>1, <2>2
<1>11. Grown(p, r)
  <2>1. p.n \in Nat /\ q.n \in Nat /\ r.n \in Nat /\ p.n <= q.n /\ q.n <= r.n
    BY <1>0 DEF Grown, Pools
  <2>2. ASSUME NEW i \in 1..p.n PROVE p.last[i] <= r.last[i]
    <3>1. i \in 1..q.n /\ i \in 1..r.n
      BY <2>1
    <3>2. p.last[i] <= q.last[i] /\ q.last[i] <= r.last[i]
      BY <1>0, <3>1 DEF Grown
    <3>3. p.last[i] \in Nat /\ q.last[i] \in Nat /\ r.last[i] \in Nat
      BY <1>1, <3>1 DEF BlocksOK
    <3> QED BY <3>2, <3>3
  <2> QED BY <1>0, <2>1, <2>2 DEF Grown
<1>12. (g \cup h) \cap NodesOf(r) = {}
  <2>1. g \cap NodesOf(q) = {} /\ h \cap NodesOf(r) = {}
    BY DEF Gets
  <2>2. \A c \in g, d \in NodesOf(r) \ NodesOf(q) : c # d
    BY <1>8
  <2> QED BY <2>1, <2>2
<1>13. r.heap = p.heap \cup ({c.blk : c \in g \cup h} \cap Heap)
  BY DEF Gets
<1>14. \A c \in F : Placed(r, c) /\ Above(p, c)
  <2> HIDE DEF F, G, H
  <2> QED BY <1>3, <1>4, <1>5, <1>6, <1>7
<1> QED BY <1>1, <1>2, <1>10, <1>11, <1>12, <1>13, <1>14 DEF Gets

-----------------------------------------------------------------------------
LEMMA MaxOK ==
  ASSUME NEW p
  PROVE  /\ Max(p) \in Nat /\ SizeofPoolData + Max(p) <= PoolSize
         /\ SizeofPoolData + SizeofLarge <= PoolSize
BY PoolAssumption DEF Max, SizeofPool, SizeofPoolData, SizeofLarge, MinPoolSize

\* What the pool's own memory, from palloc_small(), is and leaves as it is.
SmallGets(p, r) ==
  /\ r.at \in NodeChunks \cup {Null}
  /\ Gets(p, r.pool, {r.at} \ {Null})
  /\ r.pool.large = p.large

LEMMA NodesAreChunks ==
  /\ NodeChunks \subseteq Chunks /\ Null \notin NodeChunks
  /\ \A c \in NodeChunks : c.blk \in Nat /\ c.blk \notin Heap
BY PoolAssumption DEF NodeChunks, Chunks

\* The blocks that palloc_block() passes over, and pool->current after it.
PassedBlocks(p) == {i \in p.current..(p.n - 1) : p.failed[i] >= FailedLimit}

CurrentAfter(p) ==
  CHOOSE i \in {p.current} \cup {j + 1 : j \in PassedBlocks(p)} : \A j \in PassedBlocks(p) : j < i

LEMMA BlocksPassed ==
  ASSUME NEW p, PoolOK(p), p.n > 0
  PROVE  /\ CurrentAfter(p) \in Nat /\ p.current <= CurrentAfter(p) /\ CurrentAfter(p) <= p.n
         /\ FailedAfter(p, PassedBlocks(p)) \in [1..(p.n + 1) -> Nat]
         /\ \A i \in 1..(p.n + 1) :
              i < CurrentAfter(p) <=> FailedAfter(p, PassedBlocks(p))[i] > FailedLimit
         /\ \A i, j \in 1..(p.n + 1) :
              CurrentAfter(p) <= i /\ i <= j =>
                FailedAfter(p, PassedBlocks(p))[j] <= FailedAfter(p, PassedBlocks(p))[i]
<1> DEFINE n == p.n
           c == p.current
           f == p.failed
           passed == PassedBlocks(p)
           k == CurrentAfter(p)
           g == FailedAfter(p, passed)
<1>1. n \in Nat /\ c \in Nat /\ 1 <= c /\ c <= n /\ f \in [1..n -> Nat]
  BY DEF PoolOK, Pools, BlocksOK, FailedOK
<1>2. \A i \in 1..n : i < c <=> f[i] > FailedLimit
  BY DEF PoolOK, FailedOK
<1>3. \A i, j \in 1..n : c <= i /\ i <= j => f[j] <= f[i]
  BY DEF PoolOK, FailedOK
<1>4. passed = {i \in c..(n - 1) : f[i] >= FailedLimit}
  BY DEF PassedBlocks
<1>5. k = CHOOSE i \in {c} \cup {j + 1 : j \in passed} : \A j \in passed : j < i
  BY DEF CurrentAfter
<1>6. g = [i \in 1..(n + 1) |-> IF i \in c..(n - 1) THEN f[i] + 1 ELSE IF i <= n THEN f[i] ELSE 0]
  BY DEF FailedAfter
<1> HIDE DEF n, c, f, passed, k, g
<1>7. k \in Nat /\ c <= k /\ k <= n /\ \A i \in 1..n : c <= i /\ i < n => (i < k <=> f[i] >= FailedLimit)
  <2> USE <1>1, <1>3, <1>4, <1>5
  <2> DEFINE K == {c} \cup {j + 1 : j \in passed}
  <2>0. FailedLimit \in Nat
    BY PoolAssumption
  <2>1. \A i \in passed : i \in 1..n /\ i \in Nat /\ c <= i /\ i < n /\ f[i] >= FailedLimit
    OBVIOUS
  <2>2. \A i \in 1..n : c <= i /\ i < n /\ f[i] >= FailedLimit => i \in passed
    OBVIOUS
  <2> HIDE <1>4
  <2>3. \E x \in K : \A j \in passed : j < x
    <3>1. CASE passed = {}
      BY <3>1
    <3>2. CASE passed # {}
      <4>1. passed \in SUBSET (0..n)
        BY <2>1
      <4>2. PICK m \in passed : \A j \in passed : j <= m
        BY <3>2, <4>1, GreatestOf
      <4>3. m + 1 \in K /\ \A j \in passed : j < m + 1
        BY <2>1, <4>2
      <4> QED BY <4>3
    <3> QED BY <3>1, <3>2
  <2>4. k \in K /\ \A j \in passed : j < k
    <3>1. k = CHOOSE i \in K : \A j \in passed : j < i
      OBVIOUS
    <3> HIDE DEF K
    <3> QED BY <2>3, <3>1
  <2> HIDE <1>5
  <2>5. k \in Nat /\ c <= k /\ k <= n
    <3>1. CASE k = c
      BY <3>1
    <3>2. CASE \E j \in passed : k = j + 1
      BY <2>1, <3>2
    <3> QED BY <2>4, <3>1, <3>2
  <2>6. ASSUME NEW i \in 1..n, c <= i, i < n, i < k PROVE f[i] >= FailedLimit
    <3>1. k # c
      BY <2>5, <2>6
    <3>2. PICK j \in passed : k = j + 1
      BY <2>4, <3>1
    <3>3. j \in 1..n /\ i <= j /\ f[j] >= FailedLimit
      BY <2>1, <2>5, <2>6, <3>2
    <3>4. f[j] <= f[i] /\ f[i] \in Nat /\ f[j] \in Nat
      BY <2>6, <3>3
    <3> QED BY <2>0, <3>3, <3>4
  <2>7. ASSUME NEW i \in 1..n, c <= i, i < n, f[i] >= FailedLimit PROVE i < k
    BY <2>2, <2>4, <2>7
  <2> QED BY <2>4, <2>5, <2>6, <2>7
<1>8. /\ g \in [1..(n + 1) -> Nat]
      /\ \A i \in 1..(n + 1) : i < k <=> g[i] > FailedLimit
      /\ \A i, j \in 1..(n + 1) : k <= i /\ i <= j => g[j] <= g[i]
  <2> USE <1>1, <1>2, <1>3, <1>6, <1>7
  <2>0. FailedLimit \in Nat
    BY PoolAssumption
  <2>1. \A i \in 1..n : f[i] \in Nat
    OBVIOUS
  <2>2. \A i \in 1..(n + 1) :
          g[i] = IF c <= i /\ i < n THEN f[i] + 1 ELSE IF i <= n THEN f[i] ELSE 0
    OBVIOUS
  <2>3. g \in [1..(n + 1) -> Nat]
    <3>1. ASSUME NEW i \in 1..(n + 1)
          PROVE (IF i \in c..(n - 1) THEN f[i] + 1 ELSE IF i <= n THEN f[i] ELSE 0) \in Nat
      BY <2>1
    <3> QED BY <3>1
  <2> HIDE <1>6
  <2>4. ASSUME NEW i \in 1..(n + 1) PROVE i < k <=> g[i] > FailedLimit
    <3>1. CASE i <= n
      <4>1. i \in 1..n /\ f[i] \in Nat
        BY <2>1, <3>1
      <4>2. g[i] = IF c <= i /\ i < n THEN f[i] + 1 ELSE f[i]
        BY <2>2, <3>1
      <4>3. i < c <=> f[i] > FailedLimit
        BY <4>1
      <4>4. c <= i /\ i < n => (i < k <=> f[i] >= FailedLimit)
        BY <4>1
      <4> QED BY <2>0, <3>1, <4>1, <4>2, <4>3, <4>4
    <3>2. CASE i = n + 1
      <4>1. g[i] = 0
        BY <2>2, <3>2
      <4> QED BY <2>0, <3>2, <4>1
    <3> QED BY <3>1, <3>2
  <2>5. ASSUME NEW i \in 1..(n + 1), NEW j \in 1..(n + 1), k <= i, i <= j
        PROVE  g[j] <= g[i]
    <3>1. CASE j = n + 1
      <4>1. g[j] = 0 /\ g[i] \in Nat
        BY <2>2, <2>3, <3>1
      <4> QED BY <4>1
    <3>2. CASE j <= n
      <4>1. i \in 1..n /\ j \in 1..n /\ c <= i
        BY <2>5, <3>2
      <4>2. f[j] <= f[i] /\ f[i] \in Nat /\ f[j] \in Nat
        BY <2>1, <2>5, <4>1
      <4>3. g[j] = IF j < n THEN f[j] + 1 ELSE f[j]
        BY <2>2, <2>5, <4>1
      <4>4. g[i] = IF i < n THEN f[i] + 1 ELSE f[i]
        BY <2>2, <4>1
      <4> QED BY <2>5, <4>1, <4>2, <4>3, <4>4
    <3> QED BY <3>1, <3>2
  <2> QED BY <2>3, <2>4, <2>5
<1> QED BY <1>7, <1>8 DEF n, c, f, passed, k, g

LEMMA InCounters ==
  ASSUME NEW n \in Nat, NEW f \in [1..n -> Nat]
  PROVE  f \in Counters
BY DEF Counters

\* A step that takes one chunk from a block.
LEMMA GetsSmall ==
  ASSUME NEW p, PoolOK(p), p.n > 0,
         NEW q \in Pools, BlocksOK(q), FailedOK(q), Grown(p, q), q.large = p.large, q.heap = p.heap,
         NEW c \in NodeChunks, Placed(q, c), Above(p, c)
  PROVE  Gets(p, q, {c})
<1>1. p \in Pools /\ BlocksOK(p) /\ p.n \in Nat /\ q.n \in Nat /\ q.n > 0
  BY DEF PoolOK, Pools, Grown
<1>2. NodesOf(q) = NodesOf(p)
  BY DEF NodesOf
<1>3. \A d \in NodesOf(q) : Placed(q, d)
  BY <1>1, <1>2, PlacedAfter DEF PoolOK
<1>4. LargeOK(q)
  BY <1>1 DEF PoolOK, LargeOK, Allocs
<1>5. PoolOK(q)
  BY <1>3, <1>4 DEF PoolOK
<1>6. c \in Chunks /\ c.from < c.to
  BY DEF Placed
<1>7. c \notin NodesOf(q)
  <2>1. \A d \in NodesOf(p) : Placed(p, d)
    BY DEF PoolOK
  <2> QED BY <1>2, <1>6, <2>1, AboveIsApart
<1>8. c.blk \notin Heap
  BY NodesAreChunks
<1> QED BY <1>2, <1>5, <1>7, <1>8 DEF Gets

LEMMA PallocBlockOK ==
  ASSUME NEW p, PoolOK(p), p.n > 0, NEW size \in Nat \ {0}, SizeofPoolData + size <= PoolSize,
         NEW aligned \in BOOLEAN, NEW granted \in BOOLEAN
  PROVE  SmallGets(p, PallocBlock(p, size, aligned, granted))
<1> DEFINE m == AlignUp(SizeofPoolData)
           passed == PassedBlocks(p)
           k == CurrentAfter(p)
           q == [p EXCEPT !.n = @ + 1,
                          !.last = [i \in 1..(p.n + 1) |-> IF i <= p.n THEN p.last[i] ELSE m + size],
                          !.failed = FailedAfter(p, passed),
                          !.current = k]
           c == Chunk(p.n + 1, m, size, aligned)
<1>1. CASE ~granted
  <2>1. PallocBlock(p, size, aligned, granted) = Result(p, Null)
    BY <1>1 DEF PallocBlock
  <2>2. {Null} \ {Null} = {}
    OBVIOUS
  <2> QED BY <2>1, <2>2, GetsNothing DEF SmallGets, Result
<1>2. CASE granted
  <2>1. PallocBlock(p, size, aligned, granted) = Result(q, c)
    BY <1>2 DEF PallocBlock, PassedBlocks, CurrentAfter
  <2>2. /\ p \in Pools /\ p.n \in Nat /\ p.current \in Nat /\ 1 <= p.current /\ p.current <= p.n
        /\ p.last \in [1..p.n -> Nat]
        /\ p.failed \in [1..p.n -> Nat]
    BY DEF PoolOK, Pools, BlocksOK, FailedOK
  <2>3. m = 32
    BY DEF AlignUp, Alignment, SizeofPoolData
  <2>4. /\ k \in Nat /\ p.current <= k /\ k <= p.n
        /\ FailedAfter(p, passed) \in [1..(p.n + 1) -> Nat]
        /\ \A i \in 1..(p.n + 1) : i < k <=> FailedAfter(p, passed)[i] > FailedLimit
        /\ \A i, j \in 1..(p.n + 1) :
             k <= i /\ i <= j => FailedAfter(p, passed)[j] <= FailedAfter(p, passed)[i]
    BY BlocksPassed
  <2> HIDE DEF k, passed, m
  <2>6. [i \in 1..(p.n + 1) |-> IF i <= p.n THEN p.last[i] ELSE m + size] \in [1..(p.n + 1) -> Nat]
    <3>1. ASSUME NEW i \in 1..(p.n + 1) PROVE (IF i <= p.n THEN p.last[i] ELSE m + size) \in Nat
      BY <2>2, <2>3
    <3> QED BY <3>1
  <2>7. /\ q.n = p.n + 1 /\ q.current = k /\ q.large = p.large /\ q.heap = p.heap
        /\ q.failed = FailedAfter(p, passed)
        /\ q.last = [i \in 1..(p.n + 1) |-> IF i <= p.n THEN p.last[i] ELSE m + size]
        /\ q \in Pools
    <3>0. p.n + 1 \in Nat
      BY <2>2
    <3>1. FailedAfter(p, passed) \in Counters
      BY <2>4, <3>0, InCounters
    <3>2. [i \in 1..(p.n + 1) |-> IF i <= p.n THEN p.last[i] ELSE m + size] \in Counters
      BY <2>6, <3>0, InCounters
    <3> DEFINE last == [i \in 1..(p.n + 1) |-> IF i <= p.n THEN p.last[i] ELSE m + size]
               failed == FailedAfter(p, passed)
    <3>3. q = [p EXCEPT !.n = @ + 1, !.last = last, !.failed = failed, !.current = k]
      OBVIOUS
    <3>4. last \in Counters /\ failed \in Counters
      BY <3>1, <3>2
    <3> HIDE DEF q, last, failed
    <3>5. /\ q.n = p.n + 1 /\ q.current = k /\ q.large = p.large /\ q.heap = p.heap
          /\ q.failed = failed /\ q.last = last /\ q \in Pools
      BY <2>2, <2>4, <3>0, <3>3, <3>4 DEF Pools
    <3> QED BY <3>5 DEF last, failed
  <2> HIDE DEF q
  <2>8. \A i \in 1..p.n : q.last[i] = p.last[i]
    BY <2>2, <2>7
  <2>9. q.last[p.n + 1] = m + size
    BY <2>2, <2>7
  <2>10. BlocksOK(q)
    <3>1. ASSUME NEW i \in 1..q.n PROVE SizeofPoolData <= q.last[i] /\ q.last[i] <= PoolSize
      <4>1. CASE i \in 1..p.n
        BY <2>8, <4>1 DEF PoolOK, BlocksOK
      <4>2. CASE i = p.n + 1
        BY <2>3, <2>9, <4>2 DEF SizeofPoolData
      <4> QED BY <2>2, <2>7, <4>1, <4>2
    <3>2. q.current \in 1..q.n
      BY <2>2, <2>4, <2>7
    <3> QED BY <2>6, <2>7, <3>1, <3>2 DEF BlocksOK
  <2>11. FailedOK(q)
    BY <2>4, <2>7 DEF FailedOK
  <2>12. Grown(p, q)
    <3>1. \A i \in 1..p.n : p.last[i] <= q.last[i]
      BY <2>2, <2>8
    <3> QED BY SMTT(30), <2>2, <2>7, <3>1 DEF Grown
  <2>13. /\ c \in NodeChunks /\ c.blk = p.n + 1 /\ c.from = 32 /\ c.to = m + size
         /\ c.aligned = aligned
    BY <2>2, <2>3 DEF Chunk, NodeChunks
  <2> HIDE DEF c
  <2>14. c.blk \notin Heap /\ c \in Chunks
    BY <2>13, NodesAreChunks
  <2>15. Placed(q, c)
    <3>1. c.from < c.to
      BY <2>3, <2>13
    <3>2. c.from % Alignment = 0
      BY <2>13 DEF Alignment
    <3>3. c.blk \in 1..q.n /\ SizeofPoolData <= c.from /\ c.to <= q.last[c.blk]
      BY <2>2, <2>3, <2>7, <2>9, <2>13 DEF SizeofPoolData
    <3> QED BY <2>14, <3>1, <3>2, <3>3 DEF Placed
  <2>16. Above(p, c)
    BY <2>2, <2>13, <2>14 DEF Above
  <2>17. Gets(p, q, {c})
    BY <2>7, <2>10, <2>11, <2>12, <2>13, <2>15, <2>16, GetsSmall
  <2>18. {c} \ {Null} = {c}
    BY <2>13, NodesAreChunks
  <2> DEFINE r == PallocBlock(p, size, aligned, granted)
  <2>19. r.pool = q /\ r.at = c
    BY <2>1 DEF Result
  <2> HIDE DEF r
  <2>20. r.pool.large = p.large /\ r.at \in NodeChunks /\ Gets(p, r.pool, {r.at} \ {Null})
    BY <2>7, <2>13, <2>17, <2>18, <2>19
  <2>21. SmallGets(p, r)
    BY <2>20 DEF SmallGets
  <2> QED BY <2>21 DEF r
<1> QED BY <1>1, <1>2

\* Memory in a block that has room.
LEMMA FitsOK ==
  ASSUME NEW p, PoolOK(p), p.n > 0, NEW size \in Nat \ {0}, NEW aligned \in BOOLEAN,
         NEW i \in 1..p.n, Fits(p, i, size, aligned)
  PROVE  LET m == Start(p, i, aligned)
         IN  SmallGets(p, Result([p EXCEPT !.last[i] = m + size], Chunk(i, m, size, aligned)))
<1> DEFINE m == Start(p, i, aligned)
           last == [p.last EXCEPT ![i] = m + size]
           q == [p EXCEPT !.last = last]
           c == Chunk(i, m, size, aligned)
<1>1. /\ p \in Pools /\ p.n \in Nat /\ p.last \in [1..p.n -> Nat] /\ PoolSize \in Nat
      /\ SizeofPoolData <= p.last[i] /\ p.last[i] <= PoolSize /\ p.last[i] \in Nat
  BY PoolAssumption DEF PoolOK, Pools, BlocksOK
<1>2. m \in Nat /\ p.last[i] <= m /\ m <= PoolSize /\ (aligned => m % Alignment = 0)
  BY SMTT(30), <1>1, AlignUpOK DEF Start
<1>3. m + size <= PoolSize
  <2>1. Room(m) >= size
    BY DEF Fits
  <2>2. Room(m) = PoolSize - m
    BY <1>2 DEF Room
  <2> QED BY <1>1, <1>2, <2>1, <2>2
<1> HIDE DEF m
<1>4. last \in [1..p.n -> Nat]
  BY <1>1, <1>2
<1>5. /\ q.n = p.n /\ q.last = last /\ q.failed = p.failed /\ q.current = p.current
      /\ q.large = p.large /\ q.heap = p.heap /\ q \in Pools
  <2>1. last \in Counters
    BY <1>1, <1>4, InCounters
  <2> HIDE DEF last
  <2> QED BY <1>1, <2>1 DEF Pools
<1>6. [p EXCEPT !.last[i] = m + size] = q
  BY <1>1 DEF Pools
<1>7. q.last[i] = m + size /\ \A j \in 1..p.n : j # i => q.last[j] = p.last[j]
  BY <1>1, <1>5
<1> HIDE DEF q, last
<1>8. BlocksOK(q)
  <2>1. ASSUME NEW j \in 1..q.n PROVE SizeofPoolData <= q.last[j] /\ q.last[j] <= PoolSize
    <3>1. CASE j = i
      BY <1>1, <1>2, <1>3, <1>7, <3>1 DEF SizeofPoolData
    <3>2. CASE j # i
      BY <1>5, <1>7, <3>2 DEF PoolOK, BlocksOK
    <3> QED BY <3>1, <3>2
  <2>2. p.n > 0 => p.current \in 1..p.n
    BY DEF PoolOK, BlocksOK
  <2> QED BY <1>4, <1>5, <2>1, <2>2 DEF BlocksOK
<1>9. FailedOK(q)
  BY <1>5 DEF PoolOK, FailedOK
<1>10. Grown(p, q)
  <2>1. ASSUME NEW j \in 1..p.n PROVE p.last[j] <= q.last[j]
    <3>1. p.last[j] \in Nat
      BY <1>1
    <3> QED BY <1>1, <1>2, <1>7, <3>1
  <2> QED BY <1>1, <1>5, <2>1 DEF Grown
<1>11. c \in NodeChunks /\ c.blk = i /\ c.from = m /\ c.to = m + size /\ c.aligned = aligned
  BY <1>1, <1>2 DEF Chunk, NodeChunks
<1> HIDE DEF c
<1>12. c.blk \notin Heap /\ c \in Chunks /\ c # Null
  BY <1>11, NodesAreChunks
<1>13. Placed(q, c)
  <2>1. c.from < c.to
    BY <1>2, <1>11
  <2>2. SizeofPoolData <= c.from
    BY <1>1, <1>2, <1>11 DEF SizeofPoolData
  <2>3. c.to <= q.last[c.blk] /\ c.blk \in 1..q.n
    BY <1>2, <1>5, <1>7, <1>11
  <2> QED BY <1>2, <1>11, <1>12, <2>1, <2>2, <2>3 DEF Placed
<1>14. Above(p, c)
  BY <1>1, <1>2, <1>11, <1>12 DEF Above
<1>15. Gets(p, q, {c})
  BY <1>5, <1>8, <1>9, <1>10, <1>11, <1>13, <1>14, GetsSmall
<1> DEFINE r == Result(q, c)
<1>16. r.pool = q /\ r.at = c /\ {c} \ {Null} = {c}
  BY <1>12 DEF Result
<1> HIDE DEF r
<1>17. SmallGets(p, r)
  BY <1>5, <1>11, <1>15, <1>16 DEF SmallGets
<1> QED BY <1>6, <1>17 DEF r, c, m

LEMMA PallocSmallOK ==
  ASSUME NEW p, PoolOK(p), p.n > 0, NEW size \in Nat \ {0}, SizeofPoolData + size <= PoolSize,
         NEW aligned \in BOOLEAN, NEW granted \in BOOLEAN
  PROVE  SmallGets(p, PallocSmall(p, size, aligned, granted))
<1> DEFINE Fit == {i \in p.current..p.n : Fits(p, i, size, aligned)}
           First(i) == /\ Fits(p, i, size, aligned)
                       /\ \A j \in p.current..(i - 1) : ~Fits(p, j, size, aligned)
<1>1. p.n \in Nat /\ p.current \in Nat /\ 1 <= p.current /\ p.current <= p.n
  BY DEF PoolOK, Pools, BlocksOK
<1>2. CASE Fit = {}
  BY <1>2, PallocBlockOK DEF PallocSmall
<1>3. CASE Fit # {}
  <2>1. \E i \in p.current..p.n : First(i)
    <3>1. Fit \in SUBSET Nat
      BY <1>1
    <3>2. PICK i \in Fit : \A j \in Fit : i <= j
      BY <1>3, <3>1, LeastOf
    <3>3. ASSUME NEW j \in p.current..(i - 1) PROVE ~Fits(p, j, size, aligned)
      <4>1. j \in p.current..p.n /\ ~(i <= j)
        BY <1>1, <3>1, <3>2
      <4> QED BY <3>2, <4>1
    <3> QED BY <3>2, <3>3
  <2> DEFINE i == CHOOSE k \in p.current..p.n : First(k)
             m == Start(p, i, aligned)
  <2>2. i \in p.current..p.n /\ First(i)
    BY <2>1
  <2>3. PallocSmall(p, size, aligned, granted) =
          Result([p EXCEPT !.last[i] = m + size], Chunk(i, m, size, aligned))
    BY <1>3 DEF PallocSmall
  <2> HIDE DEF i
  <2>4. i \in 1..p.n
    BY <1>1, <2>2
  <2> QED BY <2>2, <2>3, <2>4, FitsOK
<1> QED BY <1>2, <1>3

-----------------------------------------------------------------------------
CallGets(p, r) == r.at \in Chunks \cup {Null} /\ Gets(p, r.pool, {r.at} \ {Null})

\* What the operating system may answer while the pool is p.
MayAnswer(p, os) == os.area \in (Heap \ p.heap) \cup {Null} /\ os.block \in BOOLEAN

LEMMA SmallIsCall ==
  ASSUME NEW p, NEW r, SmallGets(p, r)
  PROVE  CallGets(p, r)
BY NodesAreChunks DEF SmallGets, CallGets

LEMMA FailedCall ==
  ASSUME NEW p, PoolOK(p)
  PROVE  CallGets(p, Result(p, Null))
<1>1. {Null} \ {Null} = {}
  OBVIOUS
<1> QED BY <1>1, GetsNothing DEF CallGets, Result

LEMMA LargeChunk ==
  ASSUME NEW size \in Nat \ {0}, NEW h \in Heap
  PROVE  LET c == Chunk(h, 0, size, TRUE)
         IN  /\ c \in Chunks /\ c # Null /\ c.blk = h /\ c.from = 0 /\ c.to = size
             /\ c.aligned = TRUE /\ c.from % Alignment = 0 /\ c.from < c.to
<1> DEFINE c == Chunk(h, 0, size, TRUE)
<1>1. c = [blk |-> h, from |-> 0, to |-> size, aligned |-> TRUE]
  <2>1. 0 + size = size
    OBVIOUS
  <2> QED BY <2>1 DEF Chunk
<1> HIDE DEF c
<1>2. h \in Nat \cup Heap /\ 0 \in Nat /\ size \in Nat
  OBVIOUS
<1>3. c \in Chunks
  BY <1>1, <1>2 DEF Chunks
<1>4. c # Null
  BY <1>3, PoolAssumption
<1>5. c.blk = h /\ c.from = 0 /\ c.to = size /\ c.aligned = TRUE
  BY <1>1
<1>6. 0 % Alignment = 0 /\ 0 < size
  BY DEF Alignment
<1> QED BY <1>3, <1>4, <1>5, <1>6 DEF c

LEMMA AddLargeOK ==
  ASSUME NEW p, PoolOK(p), p.n > 0, NEW size \in Nat \ {0}, NEW h \in Heap \ p.heap,
         NEW granted \in BOOLEAN
  PROVE  CallGets(p, AddLarge(p, size, h, granted))
<1> DEFINE node == PallocSmall(p, SizeofLarge, TRUE, granted)
           q == node.pool
           new == [at |-> node.at, alloc |-> h]
           z == [q EXCEPT !.large = Append(@, new), !.heap = @ \cup {h}]
           c == Chunk(h, 0, size, TRUE)
<1>1. SmallGets(p, node)
  <2>1. SizeofLarge \in Nat \ {0} /\ SizeofPoolData + SizeofLarge <= PoolSize
    BY MaxOK DEF SizeofLarge
  <2> QED BY <2>1, PallocSmallOK
<1> HIDE DEF node
<1>2. CASE node.at = Null
  BY <1>2, FailedCall DEF AddLarge, node
<1>3. CASE node.at # Null
  <2>1. AddLarge(p, size, h, granted) = Result(z, c)
    BY <1>3 DEF AddLarge, node
  <2>2. /\ node.at \in NodeChunks /\ Gets(p, q, {node.at}) /\ q.large = p.large
        /\ {node.at} \ {Null} = {node.at}
    BY <1>1, <1>3 DEF SmallGets
  <2> HIDE DEF q
  <2>3. /\ PoolOK(q) /\ Grown(p, q) /\ node.at \notin NodesOf(q)
        /\ Placed(q, node.at) /\ Above(p, node.at)
    BY <2>2 DEF Gets
  <2>4. q.heap = p.heap /\ NodesOf(q) = NodesOf(p) /\ p \in Pools /\ q \in Pools
    BY <2>2, <2>3, NodesAreChunks DEF Gets, NodesOf, PoolOK
  <2>5. q.large \in Seq(LargeNodes) /\ new \in LargeNodes /\ h \in Heap /\ h # Null /\ h \notin q.heap
    BY <2>2, <2>4, PoolAssumption DEF Pools, LargeNodes
  <2>6. /\ z.n = q.n /\ z.last = q.last /\ z.failed = q.failed /\ z.current = q.current
        /\ z.large = Append(q.large, new) /\ z.heap = q.heap \cup {h} /\ z \in Pools
    <3>1. Append(q.large, new) \in Seq(LargeNodes)
      BY <2>5
    <3> HIDE DEF new
    <3> QED BY <2>4, <2>5, <3>1 DEF Pools
  <2> HIDE DEF z
  <2>7. /\ DOMAIN z.large = DOMAIN q.large \cup {Len(q.large) + 1}
        /\ Len(q.large) \in Nat /\ DOMAIN q.large = 1..Len(q.large)
        /\ z.large[Len(q.large) + 1] = new
        /\ \A i \in DOMAIN q.large : z.large[i] = q.large[i]
    BY <2>5, <2>6
  <2>8. NodesOf(z) = NodesOf(q) \cup {node.at}
    BY <2>7 DEF NodesOf
  <2>9. LargeOK(z)
    <3>1. Allocs(z) = Allocs(q) \cup {h}
      BY <2>5, <2>7 DEF Allocs
    <3>2. h \notin Allocs(q)
      BY <2>3, <2>5 DEF PoolOK, LargeOK
    <3>3. \A i \in DOMAIN q.large : q.large[i].alloc # h
      BY <2>5, <3>2 DEF Allocs
    <3>4. ASSUME NEW i \in DOMAIN z.large, NEW j \in DOMAIN z.large, i # j, z.large[i].alloc # Null
          PROVE  z.large[i].alloc # z.large[j].alloc
      <4>1. CASE i \in DOMAIN q.large /\ j \in DOMAIN q.large
        BY <2>3, <2>7, <3>4, <4>1 DEF PoolOK, LargeOK
      <4>2. CASE i \notin DOMAIN q.large
        BY <2>7, <3>3, <3>4, <4>2
      <4>3. CASE j \notin DOMAIN q.large
        BY <2>7, <3>3, <3>4, <4>3
      <4> QED BY <4>1, <4>2, <4>3
    <3>5. z.n # 0
      <4>1. q.n \in Nat /\ p.n \in Nat /\ p.n <= q.n
        BY <2>3, <2>4 DEF Pools, Grown
      <4> QED BY <2>6, <4>1
    <3>6. z.heap = Allocs(z)
      BY <2>3, <2>6, <3>1 DEF PoolOK, LargeOK
    <3> QED BY <3>4, <3>5, <3>6 DEF LargeOK
  <2>10. BlocksOK(z) /\ FailedOK(z) /\ BlocksOK(q) /\ BlocksOK(p)
    BY <2>3, <2>6 DEF PoolOK, BlocksOK, FailedOK
  <2>11. Grown(q, z) /\ Grown(p, z)
    <3>1. q.n <= q.n /\ \A i \in 1..q.n : q.last[i] <= q.last[i]
      BY <2>4, <2>10 DEF BlocksOK, Pools
    <3> QED BY <2>3, <2>4, <2>6, <3>1 DEF Grown
  <2>12. \A d \in NodesOf(z) : Placed(z, d)
    BY <2>3, <2>4, <2>6, <2>8, <2>10, <2>11, PlacedAfter DEF PoolOK
  <2>13. PoolOK(z)
    BY <2>6, <2>9, <2>10, <2>12 DEF PoolOK
  <2>14. c \in Chunks /\ c # Null /\ c.blk = h /\ Placed(z, c) /\ Above(p, c)
    BY ZenonT(60), <2>4, <2>5, <2>6, LargeChunk DEF Placed, Above
  <2> HIDE DEF c
  <2>15. \A d \in NodesOf(z) : d.blk \notin Heap /\ d # c
    <3>1. ASSUME NEW d \in NodesOf(z) PROVE d \in NodeChunks
      <4>1. \A i \in DOMAIN q.large : q.large[i].at \in NodeChunks
        <5>1. \A i \in DOMAIN q.large : q.large[i] \in LargeNodes
          BY <2>5
        <5> QED BY <5>1 DEF LargeNodes
      <4> QED BY <2>2, <2>8, <4>1 DEF NodesOf
    <3> QED BY <2>5, <2>14, <3>1, NodesAreChunks
  <2> DEFINE fresh == {c} \cup (NodesOf(z) \ NodesOf(p))
  <2>16. fresh = {c, node.at}
    BY <2>3, <2>4, <2>8
  <2>17. \A d \in fresh : Placed(z, d) /\ Above(p, d)
    BY <2>3, <2>8, <2>12, <2>14, <2>16
  <2>18. \A d, e \in fresh : d # e => Disjoint(d, e)
    BY <2>8, <2>14, <2>15, <2>16, <2>5 DEF Disjoint
  <2>19. z.heap = p.heap \cup ({d.blk : d \in {c}} \cap Heap)
    BY <2>4, <2>5, <2>6, <2>14
  <2>20. NodesOf(p) \subseteq NodesOf(z) /\ {c} \cap NodesOf(z) = {}
    BY <2>4, <2>8, <2>15
  <2>21. Gets(p, z, {c})
    BY <2>11, <2>13, <2>17, <2>18, <2>19, <2>20 DEF Gets
  <2> DEFINE r == Result(z, c)
  <2>22. r.pool = z /\ r.at = c /\ {c} \ {Null} = {c}
    BY <2>14 DEF Result
  <2> HIDE DEF r
  <2>23. CallGets(p, r)
    BY <2>14, <2>21, <2>22 DEF CallGets
  <2> QED BY <2>1, <2>23 DEF r, c
<1> QED BY <1>2, <1>3

\* A node whose memory was freed gets new memory.
LEMMA ReuseOK ==
  ASSUME NEW p, PoolOK(p), p.n > 0, NEW size \in Nat \ {0}, NEW h \in Heap \ p.heap,
         NEW i \in DOMAIN p.large, p.large[i].alloc = Null
  PROVE  CallGets(p, Result([p EXCEPT !.large[i].alloc = h, !.heap = @ \cup {h}], Chunk(h, 0, size, TRUE)))
<1> DEFINE large == [p.large EXCEPT ![i].alloc = h]
           z == [p EXCEPT !.large = large, !.heap = @ \cup {h}]
           c == Chunk(h, 0, size, TRUE)
<1>1. p \in Pools /\ p.large \in Seq(LargeNodes) /\ h \in Heap /\ h # Null /\ h \notin p.heap /\ p.n \in Nat
  BY PoolAssumption DEF PoolOK, Pools
<1>2. /\ large \in Seq(LargeNodes) /\ DOMAIN large = DOMAIN p.large
      /\ large[i].at = p.large[i].at /\ large[i].alloc = h
      /\ \A j \in DOMAIN p.large : j # i => large[j] = p.large[j]
  <2>1. p.large[i] \in LargeNodes
    BY <1>1
  <2>2. [p.large[i] EXCEPT !.alloc = h] \in LargeNodes
    BY <1>1, <2>1 DEF LargeNodes
  <2> DEFINE new == [p.large[i] EXCEPT !.alloc = h]
  <2>3. new.at = p.large[i].at /\ new.alloc = h
    BY <2>1 DEF LargeNodes
  <2>4. large = [p.large EXCEPT ![i] = new]
    OBVIOUS
  <2>5. new \in LargeNodes
    BY <2>2
  <2> HIDE DEF large, new
  <2> QED BY <1>1, <2>3, <2>4, <2>5
<1> HIDE DEF large
<1>3. /\ z.n = p.n /\ z.last = p.last /\ z.failed = p.failed /\ z.current = p.current
      /\ z.large = large /\ z.heap = p.heap \cup {h} /\ z \in Pools
  BY <1>1, <1>2 DEF Pools
<1>4. Result([p EXCEPT !.large[i].alloc = h, !.heap = @ \cup {h}], c) = Result(z, c)
  BY DEF large
<1> HIDE DEF z
<1>5. NodesOf(z) = NodesOf(p)
  BY <1>2, <1>3 DEF NodesOf
<1>6. LargeOK(z)
  <2>1. Allocs(z) = Allocs(p) \cup {h}
    <3>1. h \in Allocs(z)
      BY <1>1, <1>2, <1>3 DEF Allocs
    <3> QED BY <1>1, <1>2, <1>3, <3>1 DEF Allocs
  <2>2. \A j \in DOMAIN p.large : p.large[j].alloc # h
    BY <1>1 DEF PoolOK, LargeOK, Allocs
  <2>3. ASSUME NEW j \in DOMAIN z.large, NEW k \in DOMAIN z.large, j # k, z.large[j].alloc # Null
        PROVE  z.large[j].alloc # z.large[k].alloc
    <3>1. CASE j = i \/ k = i
      BY <1>2, <1>3, <2>2, <2>3, <3>1
    <3>2. CASE j # i /\ k # i
      BY <1>2, <1>3, <2>3, <3>2 DEF PoolOK, LargeOK
    <3> QED BY <3>1, <3>2
  <2>4. p.heap = Allocs(p)
    BY DEF PoolOK, LargeOK
  <2> QED BY <1>1, <1>3, <2>1, <2>3, <2>4 DEF LargeOK
<1>7. BlocksOK(z) /\ FailedOK(z) /\ BlocksOK(p)
  BY <1>3 DEF PoolOK, BlocksOK, FailedOK
<1>8. Grown(p, z)
  <2>1. p.n <= p.n /\ \A j \in 1..p.n : p.last[j] <= p.last[j]
    BY <1>1, <1>7 DEF BlocksOK
  <2> QED BY <1>3, <2>1 DEF Grown
<1>9. PoolOK(z)
  <2>1. \A d \in NodesOf(z) : Placed(z, d)
    BY <1>1, <1>3, <1>5, <1>7, <1>8, PlacedAfter DEF PoolOK
  <2> QED BY <1>3, <1>6, <1>7, <2>1 DEF PoolOK
<1>10. c \in Chunks /\ c # Null /\ c.blk = h /\ Placed(z, c) /\ Above(p, c) /\ c.from < c.to
  BY <1>1, <1>3, LargeChunk DEF Placed, Above
<1> HIDE DEF c
<1>11. c \notin NodesOf(z)
  BY <1>5, <1>10, AboveIsApart DEF PoolOK
<1>12. z.heap = p.heap \cup ({d.blk : d \in {c}} \cap Heap)
  BY <1>1, <1>3, <1>10
<1>13. Gets(p, z, {c})
  BY <1>5, <1>8, <1>9, <1>10, <1>11, <1>12 DEF Gets
<1> DEFINE r == Result(z, c)
<1>14. r.pool = z /\ r.at = c /\ {c} \ {Null} = {c}
  BY <1>10 DEF Result
<1> HIDE DEF r
<1>15. CallGets(p, r)
  BY <1>10, <1>13, <1>14 DEF CallGets
<1> QED BY <1>4, <1>15 DEF r, c

LEMMA PallocLargeOK ==
  ASSUME NEW p, PoolOK(p), p.n > 0, NEW size \in Nat \ {0}, NEW h \in (Heap \ p.heap) \cup {Null},
         NEW granted \in BOOLEAN
  PROVE  CallGets(p, PallocLarge(p, size, h, granted))
<1> DEFINE empty == {i \in DOMAIN p.large : i > Len(p.large) - LargeTries /\ p.large[i].alloc = Null}
<1>1. CASE h = Null
  BY <1>1, FailedCall DEF PallocLarge
<1>2. CASE h # Null /\ empty = {}
  BY <1>2, AddLargeOK DEF PallocLarge
<1>3. CASE h # Null /\ empty # {}
  <2>1. Len(p.large) \in Nat /\ DOMAIN p.large = 1..Len(p.large)
    BY DEF PoolOK, Pools
  <2>2. empty \in SUBSET (0..Len(p.large))
    BY <2>1
  <2>3. \E m \in empty : \A j \in empty : j <= m
    <3> HIDE DEF empty
    <3> QED BY <1>3, <2>1, <2>2, GreatestOf
  <2> DEFINE i == CHOOSE m \in empty : \A j \in empty : j <= m
  <2>4. i \in empty
    <3> HIDE DEF empty
    <3> QED BY <2>3
  <2>5. PallocLarge(p, size, h, granted) =
          Result([p EXCEPT !.large[i].alloc = h, !.heap = @ \cup {h}], Chunk(h, 0, size, TRUE))
    BY <1>3 DEF PallocLarge
  <2>6. i \in DOMAIN p.large /\ p.large[i].alloc = Null
    BY <2>4
  <2> HIDE DEF i
  <2>7. h \in Heap \ p.heap
    BY <1>3
  <2>8. CallGets(p, Result([p EXCEPT !.large[i].alloc = h, !.heap = @ \cup {h}], Chunk(h, 0, size, TRUE)))
    BY <2>6, <2>7, ReuseOK
  <2> QED BY <2>5, <2>8
<1> QED BY <1>1, <1>2, <1>3

\* palloc() takes memory that nobody has, whatever fails.
LEMMA PallocOK ==
  ASSUME NEW p, PoolOK(p), p.n > 0, NEW size \in Nat \ {0}, NEW aligned \in BOOLEAN,
         NEW os, MayAnswer(p, os)
  PROVE  CallGets(p, Palloc(p, size, aligned, os))
<1>1. CASE size <= Max(p)
  <2>1. SizeofPoolData + size <= PoolSize
    BY <1>1, MaxOK, PoolAssumption DEF SizeofPoolData
  <2> QED BY <1>1, <2>1, PallocSmallOK, SmallIsCall DEF Palloc, MayAnswer
<1>2. CASE ~(size <= Max(p))
  BY <1>2, PallocLargeOK DEF Palloc, MayAnswer
<1> QED BY <1>1, <1>2

LEMMA PmemalignOK ==
  ASSUME NEW p, PoolOK(p), p.n > 0, NEW size \in Nat \ {0}, NEW os, MayAnswer(p, os)
  PROVE  CallGets(p, Pmemalign(p, size, os))
BY AddLargeOK, FailedCall DEF Pmemalign, MayAnswer

LEMMA AnswersMay ==
  ASSUME NEW p, NEW large, NEW os \in Answers(p, large)
  PROVE  MayAnswer(p, os)
BY DEF Answers, MayAnswer

-----------------------------------------------------------------------------
\* own is memory that callers have of p.
MemoryOK(p, own) ==
  /\ PoolOK(p)
  /\ own \cap NodesOf(p) = {}
  /\ \A c \in own : Placed(p, c)
  /\ \A c, d \in own \cup NodesOf(p) : c # d => Disjoint(c, d)
  /\ p.heap = {c.blk : c \in own} \cap Heap

LEMMA SameHeap ==
  ASSUME NEW p \in Pools
  PROVE  [p EXCEPT !.heap = p.heap] = p
BY DEF Pools

LEMMA NoPoolOK ==
  MemoryOK(NoPool, {}) /\ NodesOf(NoPool) = {}
<1>1. /\ NoPool.n = 0 /\ NoPool.last = <<>> /\ NoPool.failed = <<>> /\ NoPool.current = 1
      /\ NoPool.large = <<>> /\ NoPool.heap = {}
  BY DEF NoPool
<1>2. <<>> \in [1..0 -> Nat] /\ <<>> \in Seq(LargeNodes)
  OBVIOUS
<1>3. NoPool \in Pools
  <2>1. <<>> \in Counters
    BY <1>2, InCounters
  <2> QED BY <1>2, <2>1 DEF NoPool, Pools
<1>4. NodesOf(NoPool) = {} /\ Allocs(NoPool) = {}
  BY <1>1 DEF NodesOf, Allocs
<1>5. BlocksOK(NoPool) /\ FailedOK(NoPool) /\ LargeOK(NoPool)
  BY <1>1, <1>2, <1>4 DEF BlocksOK, FailedOK, LargeOK
<1> QED BY <1>1, <1>3, <1>4, <1>5 DEF MemoryOK, PoolOK

LEMMA NewPoolOK ==
  MemoryOK(NewPool, {}) /\ NodesOf(NewPool) = {}
<1>1. /\ NewPool.n = 1 /\ NewPool.last = <<SizeofPool>> /\ NewPool.failed = <<0>>
      /\ NewPool.current = 1 /\ NewPool.large = <<>> /\ NewPool.heap = {}
  BY DEF NewPool
<1>2. <<SizeofPool>> \in [1..1 -> Nat] /\ <<0>> \in [1..1 -> Nat] /\ <<>> \in Seq(LargeNodes)
  BY DEF SizeofPool
<1>3. NewPool \in Pools
  <2>1. <<SizeofPool>> \in Counters /\ <<0>> \in Counters
    BY <1>2, InCounters
  <2> QED BY <1>2, <2>1 DEF NewPool, Pools
<1>4. NodesOf(NewPool) = {} /\ Allocs(NewPool) = {}
  BY <1>1 DEF NodesOf, Allocs
<1>5. BlocksOK(NewPool)
  BY <1>1, <1>2, PoolAssumption DEF BlocksOK, SizeofPool, SizeofPoolData, MinPoolSize
<1>6. FailedOK(NewPool)
  BY <1>1, <1>2, PoolAssumption DEF FailedOK
<1>7. LargeOK(NewPool)
  BY <1>1, <1>4 DEF LargeOK
<1> QED BY <1>1, <1>3, <1>4, <1>5, <1>6, <1>7 DEF MemoryOK, PoolOK

LEMMA ResetOK ==
  ASSUME NEW p, PoolOK(p), p.n > 0
  PROVE  MemoryOK(ResetPool(p), {}) /\ NodesOf(ResetPool(p)) = {}
<1> DEFINE q == ResetPool(p)
           last == [i \in 1..p.n |-> SizeofPool]
           failed == [i \in 1..p.n |-> 0]
<1>1. p \in Pools /\ p.n \in Nat /\ p.heap = Allocs(p)
  BY DEF PoolOK, Pools, LargeOK
<1>2. last \in [1..p.n -> Nat] /\ failed \in [1..p.n -> Nat] /\ <<>> \in Seq(LargeNodes)
  BY DEF SizeofPool
<1>3. last \in Counters /\ failed \in Counters
  BY <1>1, <1>2, InCounters
<1>4. /\ q.n = p.n /\ q.last = last /\ q.failed = failed /\ q.current = 1
      /\ q.large = <<>> /\ q.heap = {} /\ q \in Pools
  <2>1. q = [p EXCEPT !.last = last, !.failed = failed, !.current = 1, !.large = <<>>,
                      !.heap = @ \ Allocs(p)]
    BY DEF ResetPool
  <2> HIDE DEF q, last, failed
  <2> QED BY <1>1, <1>2, <1>3, <2>1 DEF Pools
<1> HIDE DEF q
<1>5. NodesOf(q) = {} /\ Allocs(q) = {}
  BY <1>4 DEF NodesOf, Allocs
<1>6. BlocksOK(q)
  <2>1. \A i \in 1..q.n : q.last[i] = 56
    BY <1>4 DEF SizeofPool
  <2>2. SizeofPoolData <= 56 /\ 56 <= PoolSize
    BY PoolAssumption DEF SizeofPoolData, MinPoolSize
  <2> QED BY <1>1, <1>2, <1>4, <2>1, <2>2 DEF BlocksOK
<1>7. FailedOK(q)
  <2>1. \A i \in 1..q.n : q.failed[i] = 0
    BY <1>4
  <2>2. FailedLimit \in Nat
    BY PoolAssumption
  <2> QED BY <1>1, <1>2, <1>4, <2>1, <2>2 DEF FailedOK
<1>8. LargeOK(q)
  BY <1>4, <1>5 DEF LargeOK
<1> QED BY <1>4, <1>5, <1>6, <1>7, <1>8 DEF MemoryOK, PoolOK, q

LEMMA DestroyOK ==
  ASSUME NEW p, PoolOK(p)
  PROVE  DestroyPool(p) = NoPool
<1>1. p.heap \ Allocs(p) = {}
  BY DEF PoolOK, LargeOK
<1>2. [NoPool EXCEPT !.heap = {}] = NoPool
  <2>1. NoPool \in Pools
    BY NoPoolOK DEF MemoryOK, PoolOK
  <2>2. NoPool.heap = {}
    BY DEF NoPool
  <2> QED BY <2>1, <2>2, SameHeap
<1> QED BY <1>1, <1>2 DEF DestroyPool

LEMMA CreateOK ==
  ASSUME NEW p, NEW own, MemoryOK(p, own), p.n = 0
  PROVE  own = {} /\ [NewPool EXCEPT !.heap = p.heap] = NewPool
<1>1. p.heap = {}
  BY DEF MemoryOK, PoolOK, LargeOK, Allocs
<1>2. \A c \in own : FALSE
  BY <1>1 DEF MemoryOK, Placed
<1>3. [NewPool EXCEPT !.heap = {}] = NewPool
  <2>1. NewPool \in Pools
    BY NewPoolOK DEF MemoryOK, PoolOK
  <2>2. NewPool.heap = {}
    BY DEF NewPool
  <2> QED BY <2>1, <2>2, SameHeap
<1> QED BY <1>1, <1>2, <1>3

\* Callers have more after a call, and nothing of it is memory they had.
LEMMA MemoryGets ==
  ASSUME NEW p, NEW own, MemoryOK(p, own), NEW q, NEW given, Gets(p, q, given)
  PROVE  /\ MemoryOK(q, own \cup given)
         /\ given \cap (own \cup NodesOf(p)) = {} /\ NodesOf(p) \subseteq NodesOf(q)
<1> DEFINE old == own \cup NodesOf(p)
           fresh == given \cup (NodesOf(q) \ NodesOf(p))
<1>1. PoolOK(p) /\ PoolOK(q) /\ p \in Pools /\ q \in Pools /\ BlocksOK(p) /\ BlocksOK(q) /\ Grown(p, q)
  BY DEF MemoryOK, Gets, PoolOK
<1>2. \A c \in old : Placed(p, c)
  BY DEF MemoryOK, PoolOK
<1>3. \A c \in fresh : Placed(q, c) /\ Above(p, c)
  BY DEF Gets
<1>4. \A c \in old : Placed(q, c)
  BY <1>1, <1>2, PlacedAfter
<1>5. \A c \in old, d \in fresh : c # d /\ Disjoint(c, d)
  BY <1>1, <1>2, <1>3, AboveIsApart DEF Placed
<1>6. \A c \in old, d \in fresh : Disjoint(d, c)
  BY <1>5 DEF Disjoint
<1>7. NodesOf(p) \subseteq NodesOf(q) /\ given \cap NodesOf(q) = {}
  BY DEF Gets
<1>8. (own \cup given) \cup NodesOf(q) = old \cup fresh
  BY <1>7
<1>9. \A c, d \in old \cup fresh : c # d => Disjoint(c, d)
  <2>1. \A c, d \in old : c # d => Disjoint(c, d)
    BY DEF MemoryOK
  <2>2. \A c, d \in fresh : c # d => Disjoint(c, d)
    BY DEF Gets
  <2> HIDE DEF old, fresh
  <2> QED BY <1>5, <1>6, <2>1, <2>2
<1>10. (own \cup given) \cap NodesOf(q) = {}
  <2>1. own \cap NodesOf(p) = {}
    BY DEF MemoryOK
  <2>2. \A c \in own, d \in NodesOf(q) \ NodesOf(p) : c # d
    BY <1>5
  <2> QED BY <1>7, <2>1, <2>2
<1>11. given \cap (own \cup NodesOf(p)) = {}
  BY <1>5
<1>12. q.heap = {c.blk : c \in own \cup given} \cap Heap
  BY DEF MemoryOK, Gets
<1>13. \A c \in own \cup given : Placed(q, c)
  BY <1>3, <1>4
<1>14. \A c, d \in (own \cup given) \cup NodesOf(q) : c # d => Disjoint(c, d)
  BY <1>8, <1>9
<1> QED BY <1>1, <1>7, <1>10, <1>11, <1>12, <1>13, <1>14 DEF MemoryOK

\* pfree() of what a caller has.
LEMMA FreeOK ==
  ASSUME NEW p, NEW own, MemoryOK(p, own), NEW c \in own, c.blk \in Heap
  PROVE  MemoryOK(Pfree(p, c.blk), own \ {c}) /\ NodesOf(Pfree(p, c.blk)) = NodesOf(p)
<1> DEFINE h == c.blk
           large == [i \in DOMAIN p.large |->
                       IF p.large[i].alloc = h THEN [p.large[i] EXCEPT !.alloc = Null] ELSE p.large[i]]
           q == Pfree(p, h)
<1>1. /\ PoolOK(p) /\ p \in Pools /\ p.large \in Seq(LargeNodes) /\ p.heap \subseteq Heap
      /\ p.n \in Nat /\ BlocksOK(p) /\ FailedOK(p)
  BY DEF MemoryOK, PoolOK, Pools
<1>2. h \in p.heap /\ h # Null
  BY PoolAssumption DEF MemoryOK
<1>3. \A i \in DOMAIN p.large : p.large[i] \in LargeNodes
  BY <1>1
<1>4. /\ DOMAIN large = DOMAIN p.large
      /\ \A i \in DOMAIN p.large : /\ large[i].at = p.large[i].at
                                   /\ large[i].alloc = (IF p.large[i].alloc = h THEN Null ELSE p.large[i].alloc)
                                   /\ large[i] \in LargeNodes
  BY <1>3 DEF LargeNodes
<1>5. large \in Seq(LargeNodes)
  <2>1. DOMAIN p.large = 1..Len(p.large) /\ Len(p.large) \in Nat
    BY <1>1
  <2>2. large \in [1..Len(p.large) -> LargeNodes]
    BY <1>4, <2>1
  <2> QED BY <2>1, <2>2
<1>6. /\ q.n = p.n /\ q.last = p.last /\ q.failed = p.failed /\ q.current = p.current
      /\ q.large = large /\ q.heap = p.heap \ {h} /\ q \in Pools
  <2>1. q = [p EXCEPT !.large = large, !.heap = @ \ {h}]
    BY DEF Pfree
  <2> HIDE DEF q, large, h
  <2> QED BY <1>1, <1>5, <2>1 DEF Pools
<1>7. p.n # 0
  BY <1>2 DEF MemoryOK, PoolOK, LargeOK, Allocs
<1> HIDE DEF q, large
<1>8. NodesOf(q) = NodesOf(p)
  BY <1>4, <1>6 DEF NodesOf
<1>9. LargeOK(q)
  <2>1. p.heap = Allocs(p)
    BY <1>1 DEF PoolOK, LargeOK
  <2>2. Allocs(q) = Allocs(p) \ {h}
    BY <1>2, <1>4, <1>6 DEF Allocs
  <2>3. ASSUME NEW i \in DOMAIN q.large, NEW j \in DOMAIN q.large, i # j, q.large[i].alloc # Null
        PROVE  q.large[i].alloc # q.large[j].alloc
    <3>1. p.large[i].alloc # p.large[j].alloc /\ q.large[i].alloc = p.large[i].alloc
      BY <1>1, <1>4, <1>6, <2>3 DEF PoolOK, LargeOK
    <3> QED BY <1>4, <1>6, <2>3, <3>1
  <2> QED BY <1>6, <1>7, <2>1, <2>2, <2>3 DEF LargeOK
<1>10. \A d \in own \ {c} : d.blk # h
  <2> SUFFICES ASSUME NEW d \in own, d # c, d.blk = h PROVE FALSE
    OBVIOUS
  <2>1. Placed(p, c) /\ Placed(p, d) /\ Disjoint(c, d)
    BY DEF MemoryOK
  <2>2. c.from = 0 /\ d.from = 0 /\ c.from < c.to /\ d.from < d.to /\ c.to \in Nat /\ d.to \in Nat
    BY <2>1 DEF Placed, Chunks
  <2> QED BY <2>1, <2>2 DEF Disjoint
<1>11. ASSUME NEW d, Placed(p, d), d.blk # h PROVE Placed(q, d)
  BY <1>6, <1>11 DEF Placed
<1>12. \A d \in NodesOf(p) : d.blk # h
  BY <1>3, NodesAreChunks DEF NodesOf, LargeNodes
<1>13. PoolOK(q)
  BY <1>1, <1>6, <1>8, <1>9, <1>11, <1>12 DEF PoolOK, BlocksOK, FailedOK
<1>14. q.heap = {d.blk : d \in own \ {c}} \cap Heap
  BY <1>6, <1>10 DEF MemoryOK
<1>15. \A d \in own \ {c} : Placed(q, d)
  BY <1>10, <1>11 DEF MemoryOK
<1>16. MemoryOK(q, own \ {c})
  BY <1>8, <1>13, <1>14, <1>15 DEF MemoryOK
<1> QED BY <1>8, <1>16 DEF q

\* The last chunk of the pool's first block.
LastOfPool(p, c) == c.blk = 1 /\ c.to = p.last[1]

\* What is the last in the first block is given back.
LEMMA TrimOK ==
  ASSUME NEW p, NEW own, MemoryOK(p, own), NEW c \in own, LastOfPool(p, c)
  PROVE  LET q == [p EXCEPT !.last[1] = c.from]
         IN  MemoryOK(q, own \ {c}) /\ NodesOf(q) = NodesOf(p)
<1> DEFINE last == [p.last EXCEPT ![1] = c.from]
           q == [p EXCEPT !.last = last]
<1>1. 1 \notin Heap
  BY PoolAssumption
<1>2. Placed(p, c) /\ c.blk = 1 /\ c.to = p.last[1]
  BY DEF MemoryOK, LastOfPool
<1>3. /\ PoolOK(p) /\ p \in Pools /\ BlocksOK(p) /\ p.n \in Nat /\ p.last \in [1..p.n -> Nat] /\ 1 \in 1..p.n
      /\ c.from \in Nat /\ c.from < c.to /\ SizeofPoolData <= c.from /\ p.last[1] \in Nat
  BY <1>1, <1>2 DEF MemoryOK, PoolOK, Pools, BlocksOK, Placed, Chunks
<1>4. last \in [1..p.n -> Nat]
  BY <1>3
<1>5. /\ q.n = p.n /\ q.last = last /\ q.failed = p.failed /\ q.current = p.current
      /\ q.large = p.large /\ q.heap = p.heap /\ q \in Pools
  <2>1. last \in Counters
    BY <1>3, <1>4, InCounters
  <2> HIDE DEF last
  <2> QED BY <1>3, <2>1 DEF Pools
<1>6. q.last[1] = c.from /\ \A i \in 1..p.n : i # 1 => q.last[i] = p.last[i]
  BY <1>3, <1>5
<1>7. [p EXCEPT !.last[1] = c.from] = q
  OBVIOUS
<1> HIDE DEF q, last
<1>8. NodesOf(q) = NodesOf(p)
  BY <1>5 DEF NodesOf
<1>9. ASSUME NEW d \in own \cup NodesOf(p), d # c PROVE Placed(q, d)
  <2>1. Placed(p, d) /\ Disjoint(c, d)
    BY <1>3, <1>9 DEF MemoryOK, PoolOK
  <2>2. CASE d.blk # 1
    BY <1>5, <1>6, <2>1, <2>2 DEF Placed
  <2>3. CASE d.blk = 1
    <3>1. d.from < d.to /\ d.to <= c.to /\ d.to \in Nat /\ d.from \in Nat /\ c.to \in Nat
      BY <1>1, <1>2, <2>1, <2>3 DEF Placed, Chunks
    <3>2. d.to <= c.from
      BY <1>2, <1>3, <2>1, <2>3, <3>1 DEF Disjoint
    <3> QED BY <1>1, <1>3, <1>5, <1>6, <2>1, <2>3, <3>2 DEF Placed
  <2> QED BY <2>2, <2>3
<1>10. c \notin NodesOf(p)
  BY DEF MemoryOK
<1>11. BlocksOK(q)
  <2>1. ASSUME NEW i \in 1..q.n PROVE SizeofPoolData <= q.last[i] /\ q.last[i] <= PoolSize
    <3>1. CASE i = 1
      <4>1. p.last[1] <= PoolSize /\ c.from < p.last[1]
        BY <1>2, <1>3 DEF BlocksOK
      <4> QED BY <1>3, <1>6, <3>1, <4>1, PoolAssumption
    <3>2. CASE i # 1
      BY <1>3, <1>5, <1>6, <3>2 DEF BlocksOK
    <3> QED BY <3>1, <3>2
  <2> QED BY <1>3, <1>4, <1>5, <2>1 DEF BlocksOK
<1>12. FailedOK(q) /\ LargeOK(q)
  BY <1>3, <1>5 DEF PoolOK, FailedOK, LargeOK, Allocs
<1>13. PoolOK(q)
  BY <1>5, <1>8, <1>9, <1>10, <1>11, <1>12 DEF PoolOK
<1>14. q.heap = {d.blk : d \in own \ {c}} \cap Heap
  BY <1>1, <1>2, <1>5 DEF MemoryOK
<1>15. MemoryOK(q, own \ {c})
  BY <1>8, <1>9, <1>13, <1>14 DEF MemoryOK
<1> QED BY <1>7, <1>8, <1>15

\* The last in the first block gets longer.
LEMMA GrowOK ==
  ASSUME NEW p, NEW own, MemoryOK(p, own), NEW c \in own, LastOfPool(p, c),
         NEW k \in Nat \ {0}, p.last[1] + k <= PoolSize
  PROVE  LET q == [p EXCEPT !.last[1] = p.last[1] + k]
             d == [c EXCEPT !.to = c.to + k]
         IN  /\ MemoryOK(q, (own \ {c}) \cup {d}) /\ NodesOf(q) = NodesOf(p)
             /\ d \notin own \cup NodesOf(p) /\ d.to = c.to + k /\ d.from = c.from
<1> DEFINE last == [p.last EXCEPT ![1] = p.last[1] + k]
           q == [p EXCEPT !.last = last]
           d == [c EXCEPT !.to = c.to + k]
<1>1. 1 \notin Heap
  BY PoolAssumption
<1>2. Placed(p, c) /\ c.blk = 1 /\ c.to = p.last[1] /\ c \in Chunks /\ c.to \in Nat /\ c.from \in Nat
  BY DEF MemoryOK, LastOfPool, Placed, Chunks
<1>3. /\ PoolOK(p) /\ p \in Pools /\ BlocksOK(p) /\ p.n \in Nat /\ p.last \in [1..p.n -> Nat] /\ 1 \in 1..p.n
      /\ c.from < c.to /\ SizeofPoolData <= c.from /\ p.last[1] \in Nat
  BY <1>1, <1>2 DEF MemoryOK, PoolOK, Pools, BlocksOK, Placed
<1>4. last \in [1..p.n -> Nat]
  BY <1>3
<1>5. /\ q.n = p.n /\ q.last = last /\ q.failed = p.failed /\ q.current = p.current
      /\ q.large = p.large /\ q.heap = p.heap /\ q \in Pools
  <2>1. last \in Counters
    BY <1>3, <1>4, InCounters
  <2> HIDE DEF last
  <2> QED BY <1>3, <2>1 DEF Pools
<1>6. q.last[1] = p.last[1] + k /\ \A i \in 1..p.n : i # 1 => q.last[i] = p.last[i]
  BY <1>3, <1>5
<1>7. [p EXCEPT !.last[1] = p.last[1] + k] = q
  OBVIOUS
<1>8. d \in Chunks /\ d.blk = 1 /\ d.from = c.from /\ d.to = c.to + k /\ d.aligned = c.aligned
  BY <1>2 DEF Chunks
<1> HIDE DEF q, last, d
<1>9. NodesOf(q) = NodesOf(p)
  BY <1>5 DEF NodesOf
<1>10. Grown(p, q)
  <2>1. ASSUME NEW i \in 1..p.n PROVE p.last[i] <= q.last[i]
    <3>1. p.last[i] \in Nat
      BY <1>3
    <3> QED BY <1>3, <1>6, <3>1
  <2> QED BY <1>3, <1>5, <2>1 DEF Grown
<1>11. BlocksOK(q)
  <2>1. ASSUME NEW i \in 1..q.n PROVE SizeofPoolData <= q.last[i] /\ q.last[i] <= PoolSize
    <3>1. CASE i = 1
      <4>1. SizeofPoolData <= p.last[1]
        BY <1>3 DEF BlocksOK
      <4> QED BY <1>3, <1>6, <3>1, <4>1 DEF SizeofPoolData
    <3>2. CASE i # 1
      BY <1>3, <1>5, <1>6, <3>2 DEF BlocksOK
    <3> QED BY <3>1, <3>2
  <2> QED BY <1>3, <1>4, <1>5, <2>1 DEF BlocksOK
<1>12. \A e \in own \cup NodesOf(p) : Placed(p, e) /\ Placed(q, e)
  BY <1>3, <1>5, <1>10, <1>11, PlacedAfter DEF MemoryOK, PoolOK
<1>13. FailedOK(q) /\ LargeOK(q)
  BY <1>3, <1>5 DEF PoolOK, FailedOK, LargeOK, Allocs
<1>14. PoolOK(q)
  BY <1>5, <1>9, <1>11, <1>12, <1>13 DEF PoolOK
<1>15. Placed(q, d)
  <2>1. d.from < d.to /\ d.to <= q.last[1]
    BY <1>2, <1>3, <1>6, <1>8
  <2> QED BY <1>1, <1>2, <1>3, <1>5, <1>8, <2>1 DEF Placed
<1>16. ASSUME NEW e \in own \cup NodesOf(p), e # c
       PROVE  Disjoint(e, d) /\ Disjoint(d, e)
  <2>1. Placed(p, e) /\ Disjoint(c, e)
    BY <1>12, <1>16 DEF MemoryOK
  <2>2. CASE e.blk # 1
    BY <1>8, <2>2 DEF Disjoint
  <2>3. CASE e.blk = 1
    <3>1. e.from < e.to /\ e.to <= c.to /\ e.to \in Nat /\ e.from \in Nat
      BY <1>1, <1>2, <2>1, <2>3 DEF Placed, Chunks
    <3>2. e.to <= c.from
      BY <1>2, <1>3, <2>1, <2>3, <3>1 DEF Disjoint
    <3> QED BY <1>8, <3>2 DEF Disjoint
  <2> QED BY <2>2, <2>3
<1>17. d \notin own \cup NodesOf(p)
  <2> SUFFICES ASSUME d \in own \cup NodesOf(p) PROVE FALSE
    OBVIOUS
  <2>1. d.to <= p.last[1]
    BY <1>1, <1>8, <1>12 DEF Placed
  <2> QED BY <1>2, <1>3, <1>8, <2>1
<1> DEFINE H == (own \ {c}) \cup {d}
<1>18. q.heap = {e.blk : e \in H} \cap Heap
  BY <1>1, <1>2, <1>5, <1>8 DEF MemoryOK
<1>19. \A e \in H : Placed(q, e)
  BY <1>12, <1>15
<1>20. H \cap NodesOf(q) = {}
  BY <1>9, <1>17 DEF MemoryOK
<1>21. \A e, f \in H \cup NodesOf(q) : e # f => Disjoint(e, f)
  <2>1. c \notin NodesOf(q)
    BY <1>9 DEF MemoryOK
  <2>2. ASSUME NEW e \in H \cup NodesOf(q), NEW f \in H \cup NodesOf(q), e # f PROVE Disjoint(e, f)
    <3>1. CASE e = d
      BY <1>9, <1>16, <2>1, <2>2, <3>1
    <3>2. CASE f = d
      BY <1>9, <1>16, <2>1, <2>2, <3>2
    <3>3. CASE e # d /\ f # d
      BY <1>9, <2>2, <3>3 DEF MemoryOK
    <3> QED BY <3>1, <3>2, <3>3
  <2> QED BY <2>2
<1>22. MemoryOK(q, H)
  BY <1>14, <1>18, <1>19, <1>20, <1>21 DEF MemoryOK
<1> QED BY <1>7, <1>8, <1>9, <1>17, <1>22 DEF d

-----------------------------------------------------------------------------
(* Arrays and lists. *)

Positive == Nat \ {0}
ArrayTs == [at : Chunks, elts : Chunks, nelts : Nat, nalloc : Positive, size : Positive]
ListParts == [at : Chunks, elts : Chunks, nelts : Nat]
ListTs == [at : Chunks, parts : Seq(ListParts), nalloc : Positive, size : Positive]

TypeOK ==
  /\ arrays \in [Arrays -> ArrayTs \cup {Null}]
  /\ lists \in [Lists -> ListTs \cup {Null}]

OfArray(a) == {c \in {arrays[a].at, arrays[a].elts} : arrays[a] # Null}

OfList(l) ==
  {c \in {lists[l].at} \cup UNION {{lists[l].parts[i].at, lists[l].parts[i].elts} : i \in DOMAIN lists[l].parts} :
     lists[l] # Null}

\* Arrays and lists have memory of their own.
Ownership ==
  /\ \A a \in Arrays : OfArray(a) \subseteq held
  /\ \A l \in Lists : OfList(l) \subseteq held
  /\ \A a, b \in Arrays : a # b => OfArray(a) \cap OfArray(b) = {}
  /\ \A l, k \in Lists : l # k => OfList(l) \cap OfList(k) = {}
  /\ \A a \in Arrays, l \in Lists : OfArray(a) \cap OfList(l) = {}

Length(c) == c.to - c.from

ArraysOK ==
  \A a \in Arrays : arrays[a] # Null =>
    /\ arrays[a].at # arrays[a].elts
    /\ Length(arrays[a].elts) = arrays[a].nalloc * arrays[a].size
    /\ arrays[a].nelts <= arrays[a].nalloc

PartsOK(r) ==
  /\ Len(r.parts) > 0
  /\ \A i \in DOMAIN r.parts :
       /\ Length(r.parts[i].elts) = r.nalloc * r.size
       /\ r.parts[i].nelts <= r.nalloc
       /\ i > 1 => r.parts[i].nelts > 0
       /\ i < Len(r.parts) => r.parts[i].nelts = r.nalloc
  /\ \A i, j \in DOMAIN r.parts : i # j => r.parts[i].elts # r.parts[j].elts

ListsOK == \A l \in Lists : lists[l] # Null => PartsOK(lists[l])

IInv == MemoryOK(pool, held) /\ TypeOK /\ Ownership /\ ArraysOK /\ ListsOK

LEMMA InitIInv == Init => IInv
<1> SUFFICES ASSUME Init PROVE IInv
  OBVIOUS
<1>1. MemoryOK(pool, held)
  BY NoPoolOK DEF Init
<1>2. \A a \in Arrays : arrays[a] = Null
  BY DEF Init, NoArrays
<1>3. \A l \in Lists : lists[l] = Null
  BY DEF Init, NoLists
<1>4. TypeOK
  BY DEF Init, NoArrays, NoLists, TypeOK
<1>5. Ownership
  BY <1>2, <1>3 DEF Ownership, OfArray, OfList
<1> QED BY <1>1, <1>2, <1>3, <1>4, <1>5 DEF IInv, ArraysOK, ListsOK

-----------------------------------------------------------------------------
LEMMA ProductOK ==
  ASSUME NEW m \in Positive, NEW n \in Positive
  PROVE  m * n \in Positive
<1>1. m \in Nat /\ n \in Nat /\ m >= 1 /\ n >= 1
  BY DEF Positive
<1>2. m * n \in Nat /\ m * n >= 1
  BY <1>1
<1> QED BY <1>2 DEF Positive

\* What palloc() returns is as long as asked for.
LEMMA PallocLength ==
  ASSUME NEW p, NEW size \in Positive, NEW aligned, NEW os,
         Palloc(p, size, aligned, os).at \in Chunks
  PROVE  Length(Palloc(p, size, aligned, os).at) = size
<1> DEFINE r == Palloc(p, size, aligned, os)
<1>1. r.at = Null \/ \E b, m, x : r.at = Chunk(b, m, size, x)
  BY ZenonT(60) DEF Palloc, PallocSmall, PallocBlock, PallocLarge, AddLarge, Result
<1>2. r.at # Null
  BY PoolAssumption
<1>3. PICK b, m, x : r.at = Chunk(b, m, size, x)
  BY <1>1, <1>2
<1> HIDE DEF r
<1>4. r.at.from = m /\ r.at.to = m + size
  BY <1>3 DEF Chunk
<1>5. r.at \in Chunks
  BY DEF r
<1>6. m \in Nat /\ size \in Nat
  BY <1>4, <1>5 DEF Chunks, Positive
<1> QED BY <1>4, <1>6 DEF Length, r

\* Two allocations, the second of which may fail.
LEMMA TwoOK ==
  ASSUME NEW p, PoolOK(p), p.n > 0, NEW size1 \in Positive, NEW size2 \in Positive,
         NEW os1, MayAnswer(p, os1), NEW os2, MayAnswer(Palloc(p, size1, TRUE, os1).pool, os2)
  PROVE  LET r == Two(p, size1, size2, os1, os2)
         IN  /\ Gets(p, r.pool, {r.head, r.data} \ {Null})
             /\ r.head \in Chunks \cup {Null} /\ r.data \in Chunks \cup {Null}
             /\ r.data # Null => /\ r.head \in Chunks /\ r.data \in Chunks /\ r.head # r.data
                                 /\ Length(r.data) = size2
             /\ r.head = Null => r.data = Null
<1> DEFINE first == Palloc(p, size1, TRUE, os1)
           second == Palloc(first.pool, size2, TRUE, os2)
           r == Two(p, size1, size2, os1, os2)
<1>1. CallGets(p, first)
  BY PallocOK DEF Positive
<1> HIDE DEF first
<1>2. CASE first.at = Null
  <2>1. r.pool = first.pool /\ r.head = Null /\ r.data = Null
    BY <1>2 DEF Two, first
  <2>2. {r.head, r.data} \ {Null} = {first.at} \ {Null}
    BY <1>2, <2>1
  <2> HIDE DEF r
  <2>3. Gets(p, r.pool, {r.head, r.data} \ {Null})
    BY <1>1, <2>1, <2>2 DEF CallGets
  <2> QED BY <2>1, <2>3 DEF r
<1>3. CASE first.at # Null
  <2>1. r.pool = second.pool /\ r.head = first.at /\ r.data = second.at
    BY <1>3 DEF Two, first
  <2>2. first.at \in Chunks /\ Gets(p, first.pool, {first.at} \ {Null}) /\ {first.at} \ {Null} = {first.at}
    BY <1>1, <1>3 DEF CallGets
  <2>3. PoolOK(first.pool) /\ first.pool.n > 0
    <3>1. PoolOK(first.pool) /\ Grown(p, first.pool)
      BY <2>2 DEF Gets
    <3>2. first.pool.n \in Nat /\ p.n \in Nat
      BY <3>1 DEF PoolOK, Pools
    <3> QED BY <3>1, <3>2 DEF Grown
  <2>4. CallGets(first.pool, second)
    BY <2>3, PallocOK DEF Positive, first
  <2>5. Gets(p, second.pool, ({first.at} \ {Null}) \cup ({second.at} \ {Null}))
    BY <2>2, <2>4, GetsTwice DEF CallGets
  <2>6. second.at # Null => /\ second.at \in Chunks /\ second.at # first.at
                            /\ Length(second.at) = size2
    <3> SUFFICES ASSUME second.at # Null
                 PROVE  second.at \in Chunks /\ second.at # first.at /\ Length(second.at) = size2
      OBVIOUS
    <3>1. second.at \in Chunks /\ Gets(first.pool, second.pool, {second.at} \ {Null})
      BY <2>4 DEF CallGets
    <3>2. Length(second.at) = size2
      BY <3>1, PallocLength
    <3> HIDE DEF second
    <3>3. Above(first.pool, second.at) /\ Placed(second.pool, second.at)
      <4>1. second.at \in {second.at} \ {Null}
        OBVIOUS
      <4> QED BY <3>1, <4>1 DEF Gets
    <3>4. Placed(first.pool, first.at)
      BY <2>2 DEF Gets
    <3> QED BY <2>3, <3>1, <3>2, <3>3, <3>4, AboveIsApart DEF Placed
  <2> HIDE DEF second, r
  <2>7. {r.head, r.data} \ {Null} = ({first.at} \ {Null}) \cup ({second.at} \ {Null})
    BY <2>1
  <2>8. Gets(p, r.pool, {r.head, r.data} \ {Null})
    BY <2>1, <2>5, <2>7
  <2>9. second.at \in Chunks \cup {Null}
    BY <2>4 DEF CallGets
  <2> QED BY <1>3, <2>1, <2>2, <2>6, <2>8, <2>9 DEF r
<1> QED BY <1>2, <1>3

-----------------------------------------------------------------------------
\* What a step does to memory in use: more of it, less of it, or one chunk
\* longer.
Shrinks == InUse' \subseteq InUse
Extends == InUse \subseteq InUse'
MemoryStep == MemoryOK(pool, held)' /\ (Extends \/ Shrinks \/ A!Grow)

LEMMA InUseIs == InUse = held \cup NodesOf(pool) /\ InUse' = held' \cup NodesOf(pool')
BY DEF InUse, NodesOf

\* A call that gives callers memory.
LEMMA GivenStep ==
  ASSUME IInv, NEW q, NEW chunks, Gets(pool, q, chunks \ {Null}), pool' = q, Given(chunks)
  PROVE  MemoryStep /\ held \subseteq held' /\ held' = held \cup (chunks \ {Null})
         /\ (chunks \ {Null}) \cap held = {}
<1>1. MemoryOK(pool, held)
  BY DEF IInv
<1>2. held' = held \cup (chunks \ {Null})
  BY DEF Given
<1> DEFINE given == chunks \ {Null}
<1>3. /\ MemoryOK(q, held \cup given)
      /\ given \cap (held \cup NodesOf(pool)) = {} /\ NodesOf(pool) \subseteq NodesOf(q)
  BY <1>1, MemoryGets
<1>4. MemoryOK(pool, held)'
  BY <1>2, <1>3
<1>5. Extends
  BY <1>2, <1>3, InUseIs DEF Extends
<1> QED BY <1>2, <1>3, <1>4, <1>5 DEF MemoryStep

LEMMA UnchangedOwners ==
  ASSUME IInv, held \subseteq held', UNCHANGED <<arrays, lists>>
  PROVE  TypeOK' /\ Ownership' /\ ArraysOK' /\ ListsOK'
<1>1. TypeOK /\ Ownership /\ ArraysOK /\ ListsOK
  BY DEF IInv
<1>2. TypeOK' /\ ArraysOK' /\ ListsOK'
  BY <1>1 DEF TypeOK, ArraysOK, ListsOK
<1>3. (\A a \in Arrays : OfArray(a)' = OfArray(a)) /\ (\A l \in Lists : OfList(l)' = OfList(l))
  BY DEF OfArray, OfList
<1>4. Ownership'
  BY <1>1, <1>3 DEF Ownership
<1> QED BY <1>2, <1>4

\* An array gets a new value with memory that it had or that is new.
LEMMA ArraySet ==
  ASSUME IInv, NEW a \in Arrays, NEW r \in ArrayTs, arrays' = [arrays EXCEPT ![a] = r], UNCHANGED lists,
         NEW given, given \cap held = {},
         \A b \in Arrays : b # a => OfArray(b) \subseteq held',
         \A l \in Lists : OfList(l) \subseteq held',
         {r.at, r.elts} \subseteq held', {r.at, r.elts} \subseteq OfArray(a) \cup given,
         r.at # r.elts, Length(r.elts) = r.nalloc * r.size, r.nelts <= r.nalloc
  PROVE  TypeOK' /\ Ownership' /\ ArraysOK' /\ ListsOK'
<1>1. TypeOK /\ Ownership /\ ArraysOK /\ ListsOK
  BY DEF IInv
<1>2. arrays'[a] = r /\ \A b \in Arrays : b # a => arrays'[b] = arrays[b]
  BY <1>1 DEF TypeOK
<1>3. TypeOK' /\ ListsOK'
  BY <1>1 DEF TypeOK, ListsOK
<1>4. ArraysOK'
  <2> SUFFICES ASSUME NEW b \in Arrays, arrays'[b] # Null
               PROVE  /\ arrays'[b].at # arrays'[b].elts
                      /\ Length(arrays'[b].elts) = arrays'[b].nalloc * arrays'[b].size
                      /\ arrays'[b].nelts <= arrays'[b].nalloc
    BY DEF ArraysOK, Length
  <2>1. CASE b = a
    BY <1>2, <2>1
  <2>2. CASE b # a
    BY <1>1, <1>2, <2>2 DEF ArraysOK
  <2> QED BY <2>1, <2>2
<1>5. OfArray(a)' \subseteq {r.at, r.elts}
  BY <1>2 DEF OfArray
<1>6. \A b \in Arrays : b # a => OfArray(b)' = OfArray(b)
  BY <1>2 DEF OfArray
<1>7. \A l \in Lists : OfList(l)' = OfList(l)
  BY DEF OfList
<1>8. Ownership'
  <2>1. \A b \in Arrays : OfArray(b)' \subseteq held'
    BY <1>5, <1>6
  <2>2. \A l \in Lists : OfList(l)' \subseteq held'
    BY <1>7
  <2>3. \A b \in Arrays : b # a => OfArray(a)' \cap OfArray(b)' = {}
    <3> SUFFICES ASSUME NEW b \in Arrays, b # a PROVE OfArray(a)' \cap OfArray(b)' = {}
      OBVIOUS
    <3>1. OfArray(b) \subseteq held /\ OfArray(a) \cap OfArray(b) = {}
      BY <1>1 DEF Ownership
    <3> QED BY <1>5, <1>6, <3>1
  <2>4. \A b, c \in Arrays : b # c => OfArray(b)' \cap OfArray(c)' = {}
    <3> SUFFICES ASSUME NEW b \in Arrays, NEW c \in Arrays, b # c PROVE OfArray(b)' \cap OfArray(c)' = {}
      OBVIOUS
    <3>1. CASE b = a
      BY <2>3, <3>1
    <3>2. CASE c = a
      BY <2>3, <3>2
    <3>3. CASE b # a /\ c # a
      BY <1>1, <1>6, <3>3 DEF Ownership
    <3> QED BY <3>1, <3>2, <3>3
  <2>5. \A l, k \in Lists : l # k => OfList(l)' \cap OfList(k)' = {}
    BY <1>1, <1>7 DEF Ownership
  <2>6. \A b \in Arrays, l \in Lists : OfArray(b)' \cap OfList(l)' = {}
    <3> SUFFICES ASSUME NEW b \in Arrays, NEW l \in Lists PROVE OfArray(b)' \cap OfList(l)' = {}
      OBVIOUS
    <3>1. OfList(l) \subseteq held /\ OfArray(a) \cap OfList(l) = {} /\ OfArray(b) \cap OfList(l) = {}
      BY <1>1 DEF Ownership
    <3>2. CASE b = a
      BY <1>5, <1>7, <3>1, <3>2
    <3>3. CASE b # a
      BY <1>6, <1>7, <3>1, <3>3
    <3> QED BY <3>2, <3>3
  <2> QED BY <2>1, <2>2, <2>4, <2>5, <2>6 DEF Ownership
<1> QED BY <1>3, <1>4, <1>8

\* A list gets a new value with memory that it had or that is new.
LEMMA ListSet ==
  ASSUME IInv, NEW l \in Lists, NEW r \in ListTs, lists' = [lists EXCEPT ![l] = r], UNCHANGED arrays,
         held \subseteq held', NEW given, given \subseteq held', given \cap held = {},
         {r.at} \cup UNION {{r.parts[i].at, r.parts[i].elts} : i \in DOMAIN r.parts} \subseteq OfList(l) \cup given,
         PartsOK(r)
  PROVE  TypeOK' /\ Ownership' /\ ArraysOK' /\ ListsOK'
<1>1. TypeOK /\ Ownership /\ ArraysOK /\ ListsOK
  BY DEF IInv
<1>2. lists'[l] = r /\ \A k \in Lists : k # l => lists'[k] = lists[k]
  BY <1>1 DEF TypeOK
<1>3. TypeOK' /\ ArraysOK'
  BY <1>1 DEF TypeOK, ArraysOK
<1>4. ListsOK'
  <2> SUFFICES ASSUME NEW k \in Lists, lists'[k] # Null PROVE PartsOK(lists'[k])
    BY DEF ListsOK, PartsOK, Length
  <2>1. CASE k = l
    BY <1>2, <2>1
  <2>2. CASE k # l
    BY <1>1, <1>2, <2>2 DEF ListsOK
  <2> QED BY <2>1, <2>2
<1>5. OfList(l)' \subseteq OfList(l) \cup given
  <2>1. OfList(l)' \subseteq {r.at} \cup UNION {{r.parts[i].at, r.parts[i].elts} : i \in DOMAIN r.parts}
    BY <1>2 DEF OfList
  <2> QED BY <2>1
<1>6. \A k \in Lists : k # l => OfList(k)' = OfList(k)
  BY <1>2 DEF OfList
<1>7. \A a \in Arrays : OfArray(a)' = OfArray(a)
  BY DEF OfArray
<1>8. OfList(l) \subseteq held
  BY <1>1 DEF Ownership
<1>9. Ownership'
  <2>1. \A k \in Lists : OfList(k)' \subseteq held'
    <3> SUFFICES ASSUME NEW k \in Lists PROVE OfList(k)' \subseteq held'
      OBVIOUS
    <3>1. OfList(k) \subseteq held
      BY <1>1 DEF Ownership
    <3> QED BY <1>5, <1>6, <3>1
  <2>2. \A a \in Arrays : OfArray(a)' \subseteq held'
    <3> SUFFICES ASSUME NEW a \in Arrays PROVE OfArray(a)' \subseteq held'
      OBVIOUS
    <3>1. OfArray(a) \subseteq held
      BY <1>1 DEF Ownership
    <3> QED BY <1>7, <3>1
  <2>3. \A k \in Lists : k # l => OfList(l)' \cap OfList(k)' = {}
    <3> SUFFICES ASSUME NEW k \in Lists, k # l PROVE OfList(l)' \cap OfList(k)' = {}
      OBVIOUS
    <3>1. OfList(k) \subseteq held /\ OfList(l) \cap OfList(k) = {}
      BY <1>1 DEF Ownership
    <3> QED BY <1>5, <1>6, <3>1
  <2>4. \A j, k \in Lists : j # k => OfList(j)' \cap OfList(k)' = {}
    <3> SUFFICES ASSUME NEW j \in Lists, NEW k \in Lists, j # k PROVE OfList(j)' \cap OfList(k)' = {}
      OBVIOUS
    <3>1. CASE j = l
      BY <2>3, <3>1
    <3>2. CASE k = l
      BY <2>3, <3>2
    <3>3. CASE j # l /\ k # l
      BY <1>1, <1>6, <3>3 DEF Ownership
    <3> QED BY <3>1, <3>2, <3>3
  <2>5. \A a, b \in Arrays : a # b => OfArray(a)' \cap OfArray(b)' = {}
    BY <1>1, <1>7 DEF Ownership
  <2>6. \A a \in Arrays, k \in Lists : OfArray(a)' \cap OfList(k)' = {}
    <3> SUFFICES ASSUME NEW a \in Arrays, NEW k \in Lists PROVE OfArray(a)' \cap OfList(k)' = {}
      OBVIOUS
    <3>1. OfArray(a) \subseteq held /\ OfArray(a) \cap OfList(l) = {} /\ OfArray(a) \cap OfList(k) = {}
      BY <1>1 DEF Ownership
    <3>2. CASE k = l
      BY <1>5, <1>7, <3>1, <3>2
    <3>3. CASE k # l
      BY <1>6, <1>7, <3>1, <3>3
    <3> QED BY <3>2, <3>3
  <2> QED BY <2>1, <2>2, <2>4, <2>5, <2>6 DEF Ownership
<1> QED BY <1>3, <1>4, <1>9

\* Arrays go or stay as they are, lists stay.
LEMMA OwnersStay ==
  ASSUME IInv, UNCHANGED lists, arrays' \in [Arrays -> ArrayTs \cup {Null}],
         \A a \in Arrays : arrays'[a] = Null \/ arrays'[a] = arrays[a],
         \A a \in Arrays : arrays'[a] # Null => OfArray(a) \subseteq held',
         \A l \in Lists : OfList(l) \subseteq held'
  PROVE  TypeOK' /\ Ownership' /\ ArraysOK' /\ ListsOK'
<1>1. TypeOK /\ Ownership /\ ArraysOK /\ ListsOK
  BY DEF IInv
<1>2. TypeOK' /\ ListsOK'
  BY <1>1 DEF TypeOK, ListsOK
<1>3. ArraysOK'
  BY <1>1 DEF ArraysOK
<1>4. \A a \in Arrays : OfArray(a)' = {} \/ (arrays'[a] # Null /\ OfArray(a)' = OfArray(a))
  BY DEF OfArray
<1>5. \A l \in Lists : OfList(l)' = OfList(l)
  BY DEF OfList
<1>6. \A a \in Arrays : OfArray(a)' \subseteq OfArray(a) /\ OfArray(a)' \subseteq held'
  BY <1>4
<1>7. Ownership'
  <2>1. \A a, b \in Arrays : a # b => OfArray(a)' \cap OfArray(b)' = {}
    <3> SUFFICES ASSUME NEW a \in Arrays, NEW b \in Arrays, a # b PROVE OfArray(a)' \cap OfArray(b)' = {}
      OBVIOUS
    <3>1. OfArray(a) \cap OfArray(b) = {}
      BY <1>1 DEF Ownership
    <3> QED BY <1>6, <3>1
  <2>2. \A a \in Arrays, l \in Lists : OfArray(a)' \cap OfList(l)' = {}
    <3> SUFFICES ASSUME NEW a \in Arrays, NEW l \in Lists PROVE OfArray(a)' \cap OfList(l)' = {}
      OBVIOUS
    <3>1. OfArray(a) \cap OfList(l) = {}
      BY <1>1 DEF Ownership
    <3> QED BY <1>5, <1>6, <3>1
  <2>3. \A l, k \in Lists : l # k => OfList(l)' \cap OfList(k)' = {}
    BY <1>1, <1>5 DEF Ownership
  <2> QED BY <1>5, <1>6, <2>1, <2>2, <2>3 DEF Ownership
<1> QED BY <1>2, <1>3, <1>7

LEMMA ForgetStep ==
  ASSUME IInv, Forget, MemoryOK(pool', {}), NodesOf(pool') = {}
  PROVE  MemoryStep /\ IInv'
<1>1. held' = {} /\ (\A a \in Arrays : arrays'[a] = Null) /\ \A l \in Lists : lists'[l] = Null
  BY DEF Forget, NoArrays, NoLists
<1>2. MemoryOK(pool, held)'
  BY <1>1
<1>3. Shrinks
  BY <1>1, InUseIs DEF Shrinks
<1>4. TypeOK'
  BY DEF Forget, NoArrays, NoLists, TypeOK
<1>5. Ownership'
  BY <1>1 DEF Ownership, OfArray, OfList
<1>6. ArraysOK' /\ ListsOK'
  BY <1>1 DEF ArraysOK, ListsOK
<1> QED BY <1>2, <1>3, <1>4, <1>5, <1>6 DEF IInv, MemoryStep

-----------------------------------------------------------------------------
LEMMA PoolIs ==
  ASSUME IInv
  PROVE  PoolOK(pool) /\ MemoryOK(pool, held) /\ TypeOK /\ Ownership /\ ArraysOK /\ ListsOK
BY DEF IInv, MemoryOK

LEMMA CreatePoolStep == ASSUME IInv, CreatePool PROVE MemoryStep /\ IInv'
<1>1. held = {} /\ pool' = NewPool /\ held' = {} /\ UNCHANGED <<arrays, lists>>
  BY PoolIs, CreateOK DEF CreatePool
<1>2. MemoryOK(pool', held') /\ NodesOf(pool') = {}
  BY <1>1, NewPoolOK
<1>3. Shrinks
  BY <1>1, <1>2, InUseIs DEF Shrinks
<1>4. MemoryOK(pool, held)'
  BY <1>2
<1>5. TypeOK' /\ Ownership' /\ ArraysOK' /\ ListsOK'
  BY <1>1, UnchangedOwners
<1> QED BY <1>3, <1>4, <1>5 DEF IInv, MemoryStep

LEMMA ResetStep == ASSUME IInv, Reset PROVE MemoryStep /\ IInv'
<1>1. MemoryOK(pool', {}) /\ NodesOf(pool') = {}
  BY PoolIs, ResetOK DEF Reset
<1> QED BY <1>1, ForgetStep DEF Reset

LEMMA DestroyStep == ASSUME IInv, Destroy PROVE MemoryStep /\ IInv'
<1>1. MemoryOK(pool', {}) /\ NodesOf(pool') = {}
  BY PoolIs, DestroyOK, NoPoolOK DEF Destroy
<1> QED BY <1>1, ForgetStep DEF Destroy

\* palloc(), pmemalign()
LEMMA CallStep ==
  ASSUME IInv, NEW r, CallGets(pool, r), pool' = r.pool, Given({r.at}), UNCHANGED <<arrays, lists>>
  PROVE  MemoryStep /\ IInv'
<1>1. MemoryStep /\ held \subseteq held'
  BY GivenStep DEF CallGets
<1>2. TypeOK' /\ Ownership' /\ ArraysOK' /\ ListsOK'
  BY <1>1, UnchangedOwners
<1> QED BY <1>1, <1>2 DEF IInv, MemoryStep

LEMMA AllocStep ==
  ASSUME IInv, NEW size \in Sizes, NEW aligned \in BOOLEAN, NEW os \in AnswersTo(size),
         Alloc(size, aligned, os)
  PROVE  MemoryStep /\ IInv'
<1>1. MayAnswer(pool, os) /\ size \in Nat \ {0} /\ pool.n > 0
  BY AnswersMay, MemoryAssumption DEF AnswersTo, Alloc
<1> DEFINE r == Palloc(pool, size, aligned, os)
<1>2. CallGets(pool, r)
  BY <1>1, PoolIs, PallocOK
<1>3. pool' = r.pool /\ Given({r.at}) /\ UNCHANGED <<arrays, lists>>
  BY DEF Alloc
<1> HIDE DEF r
<1> QED BY <1>2, <1>3, CallStep

LEMMA AllocAlignedStep ==
  ASSUME IInv, NEW size \in Sizes, NEW os \in Answers(pool, TRUE), AllocAligned(size, os)
  PROVE  MemoryStep /\ IInv'
<1>1. MayAnswer(pool, os) /\ size \in Nat \ {0} /\ pool.n > 0
  BY AnswersMay, MemoryAssumption DEF AllocAligned
<1> DEFINE r == Pmemalign(pool, size, os)
<1>2. CallGets(pool, r)
  BY <1>1, PoolIs, PmemalignOK
<1>3. pool' = r.pool /\ Given({r.at}) /\ UNCHANGED <<arrays, lists>>
  BY DEF AllocAligned
<1> HIDE DEF r
<1> QED BY <1>2, <1>3, CallStep

LEMMA FreeStep == ASSUME IInv, NEW c \in held, Free(c) PROVE MemoryStep /\ IInv'
<1>1. /\ c.blk \in Heap /\ pool' = Pfree(pool, c.blk) /\ held' = held \ {c}
      /\ UNCHANGED <<arrays, lists>> /\ c \notin OfArrays /\ c \notin OfLists
  BY DEF Free, Plain
<1>2. MemoryOK(pool', held') /\ NodesOf(pool') = NodesOf(pool)
  BY <1>1, PoolIs, FreeOK
<1>3. MemoryOK(pool, held)'
  BY <1>2
<1>4. Shrinks
  BY <1>1, <1>2, InUseIs DEF Shrinks
<1>5. \A a \in Arrays : c \notin OfArray(a)
  BY <1>1 DEF OfArrays, OfArray
<1>6. \A l \in Lists : c \notin OfList(l)
  BY <1>1 DEF OfLists, OfList
<1>7. (\A a \in Arrays : OfArray(a) \subseteq held') /\ \A l \in Lists : OfList(l) \subseteq held'
  BY <1>1, <1>5, <1>6, PoolIs DEF Ownership
<1>8. TypeOK' /\ Ownership' /\ ArraysOK' /\ ListsOK'
  BY <1>1, <1>7, PoolIs, OwnersStay DEF TypeOK
<1> QED BY <1>3, <1>4, <1>8 DEF IInv, MemoryStep

-----------------------------------------------------------------------------
\* Two allocations gave new memory, the second of so many bytes, or failed.
TwoTaken(r, bytes) ==
  /\ MemoryStep /\ held \subseteq held'
  /\ r.data # Null => /\ r.head \in Chunks /\ r.data \in Chunks /\ r.head # r.data
                      /\ Length(r.data) = bytes
                      /\ {r.head, r.data} \subseteq held' /\ {r.head, r.data} \cap held = {}

LEMMA TakenStep ==
  ASSUME IInv, NEW size1 \in Positive, NEW size2 \in Positive,
         NEW os1, MayAnswer(pool, os1), NEW os2, MayAnswer(Palloc(pool, size1, TRUE, os1).pool, os2),
         pool.n > 0, NEW r, r = Two(pool, size1, size2, os1, os2), Taken(r)
  PROVE  TwoTaken(r, size2)
<1>1. /\ Gets(pool, r.pool, {r.head, r.data} \ {Null})
      /\ r.data # Null => /\ r.head \in Chunks /\ r.data \in Chunks /\ r.head # r.data
                          /\ Length(r.data) = size2
  BY PoolIs, TwoOK
<1> DEFINE chunks == {r.head, r.data}
<1>2. /\ MemoryStep /\ held \subseteq held' /\ held' = held \cup (chunks \ {Null})
      /\ (chunks \ {Null}) \cap held = {}
  BY <1>1, GivenStep DEF Taken
<1>3. r.data # Null => chunks \ {Null} = chunks
  BY <1>1, PoolAssumption
<1> QED BY <1>1, <1>2, <1>3 DEF TwoTaken

LEMMA FirstMay ==
  ASSUME NEW size, NEW os \in AnswersTo(size)
  PROVE  MayAnswer(pool, os)
BY AnswersMay DEF AnswersTo

LEMMA SecondMay ==
  ASSUME NEW size1, NEW os1, NEW size2, NEW os2 \in AnswersAfter(size1, os1, size2)
  PROVE  MayAnswer(Palloc(pool, size1, TRUE, os1).pool, os2)
BY AnswersMay DEF AnswersAfter

LEMMA CreateTempBufStep ==
  ASSUME IInv, NEW size \in Sizes, NEW os1 \in AnswersTo(SizeofBuf),
         NEW os2 \in AnswersAfter(SizeofBuf, os1, size), CreateTempBuf(size, os1, os2)
  PROVE  MemoryStep /\ IInv'
<1>1. MayAnswer(pool, os1) /\ MayAnswer(Palloc(pool, SizeofBuf, TRUE, os1).pool, os2)
  BY FirstMay, SecondMay
<1>2. size \in Positive /\ SizeofBuf \in Positive /\ pool.n > 0
  BY MemoryAssumption DEF CreateTempBuf, SizeofBuf, Positive
<1> DEFINE r == Two(pool, SizeofBuf, size, os1, os2)
<1>3. Taken(r) /\ UNCHANGED <<arrays, lists>> /\ r = Two(pool, SizeofBuf, size, os1, os2)
  BY DEF CreateTempBuf
<1> HIDE DEF r
<1>4. MemoryStep /\ held \subseteq held'
  <2>1. TwoTaken(r, size)
    BY <1>1, <1>2, <1>3, TakenStep
  <2> QED BY <2>1 DEF TwoTaken
<1>5. TypeOK' /\ Ownership' /\ ArraysOK' /\ ListsOK'
  BY <1>3, <1>4, UnchangedOwners
<1> QED BY <1>4, <1>5 DEF IInv, MemoryStep

-----------------------------------------------------------------------------
LEMMA ArrayCreateStep ==
  ASSUME IInv, NEW a \in Arrays, NEW n \in Counts, NEW size \in EltSizes, NEW os1 \in AnswersTo(SizeofArray),
         NEW os2 \in AnswersAfter(SizeofArray, os1, n * size), ArrayCreate(a, n, size, os1, os2)
  PROVE  MemoryStep /\ IInv'
<1>1. MayAnswer(pool, os1) /\ MayAnswer(Palloc(pool, SizeofArray, TRUE, os1).pool, os2)
  BY FirstMay, SecondMay
<1>2. n \in Positive /\ size \in Positive /\ SizeofArray \in Positive /\ pool.n > 0
  BY MemoryAssumption DEF ArrayCreate, SizeofArray, Positive
<1> DEFINE bytes == n * size
<1>3. bytes \in Positive
  BY <1>2, ProductOK
<1> DEFINE r == Two(pool, SizeofArray, bytes, os1, os2)
           new == [at |-> r.head, elts |-> r.data, nelts |-> 0, nalloc |-> n, size |-> size]
<1>4. /\ Taken(r) /\ UNCHANGED lists /\ r = Two(pool, SizeofArray, bytes, os1, os2)
      /\ arrays' = IF r.data = Null THEN arrays ELSE [arrays EXCEPT ![a] = new]
  BY DEF ArrayCreate
<1> HIDE DEF r
<1>5. /\ MemoryStep /\ held \subseteq held'
      /\ r.data # Null => /\ r.head \in Chunks /\ r.data \in Chunks /\ r.head # r.data
                          /\ Length(r.data) = bytes
                          /\ {r.head, r.data} \subseteq held' /\ {r.head, r.data} \cap held = {}
  <2> HIDE DEF bytes
  <2>1. TwoTaken(r, bytes)
    BY <1>1, <1>2, <1>3, <1>4, TakenStep
  <2> QED BY <2>1 DEF TwoTaken
<1>6. TypeOK' /\ Ownership' /\ ArraysOK' /\ ListsOK'
  <2>1. CASE r.data = Null
    BY <1>4, <1>5, <2>1, UnchangedOwners
  <2>2. CASE r.data # Null
    <3>1. new \in ArrayTs /\ new.nelts <= new.nalloc
      BY <1>2, <1>5, <2>2 DEF ArrayTs, Positive
    <3>2. new.at = r.head /\ new.elts = r.data /\ new.nalloc = n /\ new.size = size
      OBVIOUS
    <3>3. arrays' = [arrays EXCEPT ![a] = new] /\ UNCHANGED lists
      BY <1>4, <2>2
    <3>4. (\A b \in Arrays : OfArray(b) \subseteq held') /\ \A l \in Lists : OfList(l) \subseteq held'
      BY <1>5, PoolIs DEF Ownership
    <3> DEFINE given == {r.head, r.data}
    <3>5. given \cap held = {} /\ given \subseteq held'
      BY <1>5, <2>2
    <3>6. {new.at, new.elts} \subseteq held' /\ {new.at, new.elts} \subseteq OfArray(a) \cup given
      BY <3>2, <3>5
    <3>7. new.at # new.elts /\ Length(new.elts) = new.nalloc * new.size
      BY <1>5, <2>2, <3>2
    <3> HIDE DEF new, given
    <3> QED BY <3>1, <3>3, <3>4, <3>5, <3>6, <3>7, ArraySet
  <2> QED BY <2>1, <2>2
<1> QED BY <1>5, <1>6 DEF IInv, MemoryStep

LEMMA ArrayIs ==
  ASSUME IInv, NEW a \in Arrays, arrays[a] # Null
  PROVE  /\ arrays[a] \in ArrayTs /\ OfArray(a) = {arrays[a].at, arrays[a].elts}
         /\ arrays[a].at \in held /\ arrays[a].elts \in held /\ arrays[a].at # arrays[a].elts
         /\ Length(arrays[a].elts) = arrays[a].nalloc * arrays[a].size
         /\ arrays[a].nelts <= arrays[a].nalloc
<1>1. TypeOK /\ Ownership /\ ArraysOK
  BY PoolIs
<1>2. arrays[a] \in ArrayTs /\ OfArray(a) = {arrays[a].at, arrays[a].elts}
  BY <1>1 DEF TypeOK, OfArray
<1>3. OfArray(a) \subseteq held
  BY <1>1 DEF Ownership
<1> QED BY <1>1, <1>2, <1>3 DEF ArraysOK

LEMMA SameMemory ==
  ASSUME IInv, UNCHANGED <<pool, held>>
  PROVE  MemoryStep
<1>1. MemoryOK(pool, held)'
  BY PoolIs
<1> QED BY <1>1 DEF MemoryStep, Extends, InUse

LEMMA ArrayFillStep ==
  ASSUME IInv, NEW a \in Arrays, NEW n \in Counts, ArrayFill(a, n)
  PROVE  MemoryStep /\ IInv'
<1> DEFINE old == arrays[a]
           new == [old EXCEPT !.nelts = @ + n]
<1>1. /\ old # Null /\ old.nelts + n <= old.nalloc /\ arrays' = [arrays EXCEPT ![a] = new]
      /\ UNCHANGED <<pool, held, lists>> /\ n \in Nat
  BY MemoryAssumption DEF ArrayFill
<1>2. MemoryStep
  BY <1>1, SameMemory
<1>3. old \in ArrayTs /\ old.nelts \in Nat
  BY <1>1, ArrayIs DEF ArrayTs
<1>4. new \in ArrayTs /\ new.at = old.at /\ new.elts = old.elts /\ new.nalloc = old.nalloc
      /\ new.size = old.size /\ new.nelts = old.nelts + n
  BY <1>1, <1>3 DEF ArrayTs
<1>5. (\A b \in Arrays : OfArray(b) \subseteq held') /\ \A l \in Lists : OfList(l) \subseteq held'
  BY <1>1, PoolIs DEF Ownership
<1>6. /\ {new.at, new.elts} \subseteq held' /\ {new.at, new.elts} \subseteq OfArray(a) \cup {}
      /\ new.at # new.elts /\ Length(new.elts) = new.nalloc * new.size
  BY <1>1, <1>4, ArrayIs
<1>7. new.nelts <= new.nalloc
  BY <1>1, <1>4
<1>8. {} \cap held = {}
  OBVIOUS
<1> HIDE DEF new
<1>9. TypeOK' /\ Ownership' /\ ArraysOK' /\ ListsOK'
  BY <1>1, <1>4, <1>5, <1>6, <1>7, <1>8, ArraySet
<1> QED BY <1>2, <1>9 DEF IInv, MemoryStep

LEMMA ArrayMoveStep ==
  ASSUME IInv, NEW a \in Arrays, NEW n \in Counts, NEW os \in Answers(pool, TRUE), ArrayMove(a, n, os)
  PROVE  MemoryStep /\ IInv'
<1> DEFINE old == arrays[a]
           nalloc == Twice(old.nalloc, n)
           r == Palloc(pool, nalloc * old.size, TRUE, os)
           new == [old EXCEPT !.elts = r.at, !.nelts = @ + n, !.nalloc = nalloc]
<1>1. /\ old # Null /\ old.nelts + n > old.nalloc /\ pool' = r.pool /\ Given({r.at})
      /\ arrays' = IF r.at = Null THEN arrays ELSE [arrays EXCEPT ![a] = new]
      /\ UNCHANGED lists /\ n \in Positive /\ MayAnswer(pool, os)
  BY MemoryAssumption, AnswersMay DEF ArrayMove, Positive
<1>2. /\ old \in ArrayTs /\ old.nelts \in Nat /\ old.nalloc \in Positive /\ old.size \in Positive
      /\ old.nelts <= old.nalloc /\ old.at \in held /\ old.at \in Chunks
  BY <1>1, ArrayIs DEF ArrayTs
<1>3. nalloc \in Positive /\ old.nelts + n <= nalloc
  BY <1>1, <1>2 DEF Twice, Positive
<1>4. nalloc * old.size \in Positive
  BY <1>2, <1>3, ProductOK
<1>5. pool.n > 0
  <2>1. Placed(pool, old.at) /\ (pool.n = 0 => pool.heap = {}) /\ pool.n \in Nat
    BY <1>2, PoolIs DEF MemoryOK, PoolOK, LargeOK, Allocs, Pools
  <2> QED BY <2>1 DEF Placed
<1>6. CallGets(pool, r)
  <2>1. nalloc * old.size \in Nat \ {0} /\ TRUE \in BOOLEAN
    BY <1>4 DEF Positive
  <2> HIDE DEF nalloc
  <2> QED BY <1>1, <1>5, <2>1, PoolIs, PallocOK
<1>7. r.at # Null => r.at \in Chunks /\ Length(r.at) = nalloc * old.size
  <2> SUFFICES ASSUME r.at # Null PROVE r.at \in Chunks /\ Length(r.at) = nalloc * old.size
    OBVIOUS
  <2>1. r.at \in Chunks
    BY <1>6 DEF CallGets
  <2> HIDE DEF nalloc
  <2> QED BY <1>4, <2>1, PallocLength
<1> HIDE DEF r, nalloc
<1>8. /\ MemoryStep /\ held \subseteq held' /\ held' = held \cup ({r.at} \ {Null})
      /\ ({r.at} \ {Null}) \cap held = {}
  BY <1>1, <1>6, GivenStep DEF CallGets
<1>9. TypeOK' /\ Ownership' /\ ArraysOK' /\ ListsOK'
  <2>1. CASE r.at = Null
    BY <1>1, <1>8, <2>1, UnchangedOwners
  <2>2. CASE r.at # Null
    <3>1. r.at \in held' /\ r.at \notin held /\ {r.at} \cap held = {}
      BY <1>8, <2>2
    <3>2. new \in ArrayTs /\ new.at = old.at /\ new.elts = r.at /\ new.nalloc = nalloc
          /\ new.size = old.size /\ new.nelts = old.nelts + n
      <4>1. old.nelts + n \in Nat
        BY <1>1, <1>2 DEF Positive
      <4>2. r.at \in Chunks
        BY <1>7, <2>2
      <4> DEFINE k == old.nelts + n
      <4> HIDE DEF old, k
      <4> QED BY <1>2, <1>3, <4>1, <4>2 DEF ArrayTs, k
    <3>3. (\A b \in Arrays : OfArray(b) \subseteq held') /\ \A l \in Lists : OfList(l) \subseteq held'
      BY <1>8, PoolIs DEF Ownership
    <3>4. old.at \in OfArray(a)
      BY <1>1, ArrayIs
    <3>5. {new.at, new.elts} \subseteq held' /\ {new.at, new.elts} \subseteq OfArray(a) \cup {r.at}
      BY <1>2, <1>8, <3>1, <3>2, <3>4
    <3>6. new.at # new.elts /\ Length(new.elts) = new.nalloc * new.size /\ new.nelts <= new.nalloc
      BY <1>2, <1>3, <1>7, <2>2, <3>1, <3>2
    <3>7. arrays' = [arrays EXCEPT ![a] = new] /\ UNCHANGED lists
      BY <1>1, <2>2
    <3> HIDE DEF new, old
    <3> QED BY <3>1, <3>2, <3>3, <3>5, <3>6, <3>7, ArraySet
  <2> QED BY <2>1, <2>2
<1> QED BY <1>8, <1>9 DEF IInv, MemoryStep

\* All memory in use is placed as the abstract allocator wants it.
LEMMA FreshOK == MemoryOK(pool, held)' => A!Fresh
<1> SUFFICES ASSUME MemoryOK(pool, held)' PROVE A!Fresh
  OBVIOUS
<1>1. PoolOK(pool') /\ PoolSize \in Nat
  BY PoolAssumption DEF MemoryOK
<1>2. ASSUME NEW c \in InUse' PROVE A!WellPlaced(c)
  <2>1. Placed(pool', c)
    BY <1>1, <1>2, InUseIs DEF MemoryOK, PoolOK
  <2>2. CASE c.blk \in Heap
    BY <2>1, <2>2 DEF Placed, A!WellPlaced
  <2>3. CASE c.blk \notin Heap
    <3>1. c.to <= pool'.last[c.blk] /\ pool'.last[c.blk] <= PoolSize /\ pool'.last[c.blk] \in Nat /\ c.to \in Nat
      BY <1>1, <2>1, <2>3 DEF Placed, PoolOK, BlocksOK, Chunks
    <3> QED BY <1>1, <2>1, <2>3, <3>1 DEF Placed, A!WellPlaced
  <2> QED BY <2>2, <2>3
<1>3. ASSUME NEW c \in InUse', NEW d \in InUse' \ {c} PROVE A!Apart(c, d)
  BY <1>3, InUseIs DEF MemoryOK, Disjoint, A!Apart
<1> QED BY <1>2, <1>3 DEF A!Fresh, A!New

LEMMA Distribute ==
  ASSUME NEW k \in Nat, NEW m \in Nat, NEW n \in Nat
  PROVE  k * n + m * n = (k + m) * n
OBVIOUS

LEMMA ArrayGrowStep ==
  ASSUME IInv, NEW a \in Arrays, NEW n \in Counts, ArrayGrow(a, n)
  PROVE  MemoryStep /\ IInv'
<1> DEFINE old == arrays[a]
           k == n * old.size
           c == old.elts
           d == [c EXCEPT !.to = c.to + k]
           q == [pool EXCEPT !.last[1] = pool.last[1] + k]
           new == [old EXCEPT !.elts = d, !.nelts = @ + n, !.nalloc = @ + n]
<1>1. /\ old # Null /\ old.nelts + n > old.nalloc /\ CanGrow(old, n)
      /\ held' = (held \ {c}) \cup {d} /\ UNCHANGED lists
      /\ arrays' = [arrays EXCEPT ![a] = new] /\ n \in Positive
  BY MemoryAssumption DEF ArrayGrow, Positive
<1>2. pool' = q
  BY DEF ArrayGrow
<1>3. /\ old \in ArrayTs /\ old.nelts \in Nat /\ old.nalloc \in Positive /\ old.size \in Positive
      /\ old.nelts <= old.nalloc /\ old.at \in held /\ c \in held /\ old.at # c
      /\ Length(c) = old.nalloc * old.size /\ OfArray(a) = {old.at, c}
      /\ c \in Chunks
  BY <1>1, ArrayIs DEF ArrayTs
<1>4. k \in Nat \ {0}
  BY <1>1, <1>3, ProductOK DEF Positive
<1>5. LastOfPool(pool, c) /\ pool.last[1] + k <= PoolSize
  BY <1>1 DEF CanGrow, IsLast, LastOfPool
<1>6. /\ MemoryOK(q, (held \ {c}) \cup {d}) /\ NodesOf(q) = NodesOf(pool)
      /\ d \notin held \cup NodesOf(pool) /\ d.to = c.to + k /\ d.from = c.from
  <2>1. MemoryOK(pool, held) /\ c \in held
    BY <1>3, PoolIs
  <2> HIDE DEF k, c
  <2>2. \A p : MemoryOK(p, held) /\ LastOfPool(p, c) /\ p.last[1] + k <= PoolSize =>
          LET z == [p EXCEPT !.last[1] = p.last[1] + k]
          IN  /\ MemoryOK(z, (held \ {c}) \cup {d}) /\ NodesOf(z) = NodesOf(p)
              /\ d \notin held \cup NodesOf(p) /\ d.to = c.to + k /\ d.from = c.from
    BY <1>4, <2>1, GrowOK
  <2> QED BY <1>5, <2>1, <2>2
<1>7. MemoryOK(pool, held)'
  BY <1>1, <1>2, <1>6
<1>8. d \in Chunks /\ Length(d) = Length(c) + k
  <2>1. c.to \in Nat /\ c.from \in Nat /\ c.to + k \in Nat
    BY <1>3, <1>4 DEF Chunks
  <2> HIDE DEF k, c
  <2>2. d \in Chunks
    BY <1>3, <2>1 DEF Chunks
  <2> HIDE DEF d
  <2>3. d.to - d.from = (c.to - c.from) + k
    BY <1>4, <1>6, <2>1
  <2> QED BY <2>2, <2>3 DEF Length
<1>9. A!Grow
  <2>1. c \notin NodesOf(pool)
    BY <1>3, PoolIs DEF MemoryOK
  <2>2. InUse' = (InUse \ {c}) \cup {d}
    BY <1>1, <1>2, <1>6, <2>1, InUseIs
  <2>3. c \in InUse /\ d \notin InUse
    BY <1>3, <1>6, InUseIs
  <2>4. A!Gone = {c} /\ A!New = {d}
    <3> HIDE DEF c, d
    <3> QED BY <2>2, <2>3 DEF A!Gone, A!New
  <2>5. A!Fresh
    BY <1>7, FreshOK
  <2>6. d = [c EXCEPT !.to = d.to]
    <3>1. d.to = c.to + k
      BY <1>6
    <3> QED BY <3>1
  <2>7. d.to > c.to
    <3>1. c.to \in Nat
      BY <1>3 DEF Chunks
    <3> QED BY <1>4, <1>6, <3>1
  <2> HIDE DEF c, d
  <2> QED BY <2>4, <2>5, <2>6, <2>7 DEF A!Grow
<1>10. TypeOK' /\ Ownership' /\ ArraysOK' /\ ListsOK'
  <2>1. /\ new \in ArrayTs /\ new.at = old.at /\ new.elts = d /\ new.nalloc = old.nalloc + n
        /\ new.size = old.size /\ new.nelts = old.nelts + n
    <3>1. old.nelts + n \in Nat /\ old.nalloc + n \in Positive
      BY <1>1, <1>3 DEF Positive
    <3> DEFINE e == old.nelts + n
               f == old.nalloc + n
    <3>2. new = [old EXCEPT !.elts = d, !.nelts = e, !.nalloc = f]
      OBVIOUS
    <3>3. e \in Nat /\ f \in Positive
      BY <3>1
    <3> HIDE DEF new, old, d, e, f
    <3>4. /\ new \in ArrayTs /\ new.at = old.at /\ new.elts = d /\ new.nalloc = f
          /\ new.size = old.size /\ new.nelts = e
      BY <1>3, <1>8, <3>2, <3>3 DEF ArrayTs
    <3> QED BY <3>4 DEF e, f
  <2>2. Length(d) = new.nalloc * new.size /\ new.nelts <= new.nalloc
    <3>1. n \in Nat /\ old.size \in Nat /\ old.nalloc \in Nat
      BY <1>1, <1>3 DEF Positive
    <3>2. old.nalloc * old.size + n * old.size = (old.nalloc + n) * old.size
      BY <3>1, Distribute
    <3> QED BY <1>3, <1>8, <2>1, <3>1, <3>2
  <2>3. \A b \in Arrays : b # a => OfArray(b) \subseteq held'
    <3> SUFFICES ASSUME NEW b \in Arrays, b # a PROVE OfArray(b) \subseteq held'
      OBVIOUS
    <3>1. OfArray(b) \subseteq held /\ OfArray(a) \cap OfArray(b) = {}
      BY PoolIs DEF Ownership
    <3> QED BY <1>1, <1>3, <3>1
  <2>4. \A l \in Lists : OfList(l) \subseteq held'
    <3> SUFFICES ASSUME NEW l \in Lists PROVE OfList(l) \subseteq held'
      OBVIOUS
    <3>1. OfList(l) \subseteq held /\ OfArray(a) \cap OfList(l) = {}
      BY PoolIs DEF Ownership
    <3> QED BY <1>1, <1>3, <3>1
  <2>5. {d} \cap held = {}
    BY <1>6
  <2> HIDE DEF new, d, c, old
  <2>6. {new.at, new.elts} \subseteq held' /\ {new.at, new.elts} \subseteq OfArray(a) \cup {d}
    BY <1>1, <1>3, <2>1
  <2>7. new.at # new.elts /\ Length(new.elts) = new.nalloc * new.size
    BY <1>3, <2>1, <2>2, <2>5
  <2> QED BY <1>1, <2>1, <2>2, <2>3, <2>4, <2>5, <2>6, <2>7, ArraySet
<1> QED BY <1>7, <1>9, <1>10 DEF IInv, MemoryStep

LEMMA SameLast ==
  ASSUME NEW p \in Pools, BlocksOK(p), p.n > 0
  PROVE  /\ [p EXCEPT !.last[1] = p.last[1]] = p
         /\ \A x, y : [[p EXCEPT !.last[1] = x] EXCEPT !.last[1] = y] = [p EXCEPT !.last[1] = y]
         /\ \A x : [p EXCEPT !.last[1] = x].last[1] = x
<1>1. p.last \in [1..p.n -> Nat] /\ 1 \in 1..p.n
  BY DEF BlocksOK, Pools
<1>2. [p.last EXCEPT ![1] = p.last[1]] = p.last
  BY <1>1
<1>3. [p EXCEPT !.last = p.last] = p
  BY DEF Pools
<1>4. \A x, y : [[p.last EXCEPT ![1] = x] EXCEPT ![1] = y] = [p.last EXCEPT ![1] = y]
  BY <1>1
<1>5. \A x, y : [[p EXCEPT !.last = x] EXCEPT !.last = y] = [p EXCEPT !.last = y]
  BY DEF Pools
<1>6. \A x : [p EXCEPT !.last = x].last = x
  BY DEF Pools
<1>7. \A x : [p.last EXCEPT ![1] = x][1] = x
  BY <1>1
<1>8. \A x : [p EXCEPT !.last[1] = x] = [p EXCEPT !.last = [p.last EXCEPT ![1] = x]]
  OBVIOUS
<1>9. ASSUME NEW x, NEW y
      PROVE  [[p EXCEPT !.last[1] = x] EXCEPT !.last[1] = y] = [p EXCEPT !.last[1] = y]
  <2> DEFINE q == [p EXCEPT !.last[1] = x]
  <2>1. q = [p EXCEPT !.last = [p.last EXCEPT ![1] = x]] /\ q.last = [p.last EXCEPT ![1] = x]
    BY <1>6, <1>8
  <2>2. [q EXCEPT !.last[1] = y] = [q EXCEPT !.last = [q.last EXCEPT ![1] = y]]
    OBVIOUS
  <2>3. [q.last EXCEPT ![1] = y] = [p.last EXCEPT ![1] = y]
    BY <1>4, <2>1
  <2> HIDE DEF q
  <2>4. [q EXCEPT !.last[1] = y] = [q EXCEPT !.last = [p.last EXCEPT ![1] = y]]
    BY <2>2, <2>3
  <2>5. [q EXCEPT !.last = [p.last EXCEPT ![1] = y]] = [p EXCEPT !.last = [p.last EXCEPT ![1] = y]]
    BY <1>5, <2>1
  <2> QED BY <1>8, <2>4, <2>5 DEF q
<1> QED BY <1>2, <1>3, <1>6, <1>7, <1>8, <1>9

\* What is given back by array_destroy() was the last of the first block when
\* its turn came.
LEMMA ArrayDestroyMemory ==
  ASSUME NEW p, NEW H, MemoryOK(p, H), p.n > 0, NEW elts \in H, NEW at \in H, at # elts,
         NEW mid, mid = IF LastOfPool(p, elts) THEN elts.from ELSE p.last[1],
         NEW back, back = {c \in {elts} : LastOfPool(p, c)} \cup {c \in {at} : c.blk = 1 /\ c.to = mid},
         NEW q, q = [p EXCEPT !.last[1] = IF at \in back THEN at.from ELSE mid]
  PROVE  MemoryOK(q, H \ back) /\ NodesOf(q) = NodesOf(p)
<1> DEFINE p1 == [p EXCEPT !.last[1] = mid]
           H1 == H \ {c \in {elts} : LastOfPool(p, c)}
<1>1. p \in Pools /\ BlocksOK(p)
  BY DEF MemoryOK, PoolOK
<1>2. /\ [p EXCEPT !.last[1] = p.last[1]] = p
      /\ \A x, y : [[p EXCEPT !.last[1] = x] EXCEPT !.last[1] = y] = [p EXCEPT !.last[1] = y]
      /\ \A x : [p EXCEPT !.last[1] = x].last[1] = x
  BY <1>1, SameLast
<1>3. MemoryOK(p1, H1) /\ NodesOf(p1) = NodesOf(p)
  <2>1. CASE LastOfPool(p, elts)
    <3>1. mid = elts.from /\ H1 = H \ {elts}
      BY <2>1
    <3>2. MemoryOK([p EXCEPT !.last[1] = elts.from], H \ {elts})
          /\ NodesOf([p EXCEPT !.last[1] = elts.from]) = NodesOf(p)
      BY <2>1, TrimOK
    <3> QED BY <3>1, <3>2
  <2>2. CASE ~LastOfPool(p, elts)
    <3>1. p1 = p /\ H1 = H
      BY <1>2, <2>2
    <3> QED BY <3>1
  <2> QED BY <2>1, <2>2
<1>4. p1.last[1] = mid
  BY <1>2
<1>5. at \in H1 /\ (at \in back <=> LastOfPool(p1, at))
  BY <1>4 DEF LastOfPool
<1>6. CASE at \in back
  <2>1. q = [p1 EXCEPT !.last[1] = at.from] /\ H \ back = H1 \ {at}
    <3>1. q = [p EXCEPT !.last[1] = at.from]
      BY <1>6
    <3>2. [p1 EXCEPT !.last[1] = at.from] = [p EXCEPT !.last[1] = at.from]
      <4>1. \A x, y : [[p EXCEPT !.last[1] = x] EXCEPT !.last[1] = y] = [p EXCEPT !.last[1] = y]
        BY <1>1, SameLast
      <4> QED BY ONLY <4>1, Zenon
    <3>3. at.blk = 1 /\ at.to = mid
      BY <1>6
    <3>4. back = {c \in {elts} : LastOfPool(p, c)} \cup {at}
      BY <3>3
    <3>5. H \ back = H1 \ {at}
      BY <3>4
    <3> QED BY <3>1, <3>2, <3>5
  <2> HIDE DEF p1, H1
  <2>2. MemoryOK([p1 EXCEPT !.last[1] = at.from], H1 \ {at})
        /\ NodesOf([p1 EXCEPT !.last[1] = at.from]) = NodesOf(p1)
    BY <1>3, <1>5, <1>6, TrimOK
  <2> QED BY <1>3, <2>1, <2>2
<1>7. CASE at \notin back
  <2>1. q = p1 /\ H \ back = H1
    BY <1>7
  <2> QED BY <1>3, <2>1
<1> QED BY <1>6, <1>7

LEMMA ArrayDestroyStep ==
  ASSUME IInv, NEW a \in Arrays, ArrayDestroy(a)
  PROVE  MemoryStep /\ IInv'
<1> DEFINE old == arrays[a]
           mid == IF IsLast(old.elts) THEN old.elts.from ELSE pool.last[1]
           back == {c \in {old.elts} : IsLast(c)} \cup {c \in {old.at} : c.blk = 1 /\ c.to = mid}
           q == [pool EXCEPT !.last[1] = IF old.at \in back THEN old.at.from ELSE mid]
<1>1. /\ old # Null /\ pool' = q /\ held' = held \ back /\ UNCHANGED lists
      /\ arrays' = [arrays EXCEPT ![a] = Null]
  BY DEF ArrayDestroy
<1>2. old.at \in held /\ old.elts \in held /\ old.at # old.elts /\ OfArray(a) = {old.at, old.elts}
  BY <1>1, ArrayIs
<1>3. \A c : IsLast(c) <=> LastOfPool(pool, c)
  BY DEF IsLast, LastOfPool
<1>4. pool.n > 0
  <2>1. Placed(pool, old.at) /\ (pool.n = 0 => pool.heap = {}) /\ pool.n \in Nat
    BY <1>2, PoolIs DEF MemoryOK, PoolOK, LargeOK, Allocs, Pools
  <2> QED BY <2>1 DEF Placed
<1>5. mid = IF LastOfPool(pool, old.elts) THEN old.elts.from ELSE pool.last[1]
  BY <1>3
<1>6. back = {c \in {old.elts} : LastOfPool(pool, c)} \cup {c \in {old.at} : c.blk = 1 /\ c.to = mid}
  BY <1>3
<1>7. q = [pool EXCEPT !.last[1] = IF old.at \in back THEN old.at.from ELSE mid]
  OBVIOUS
<1>8. back \subseteq OfArray(a)
  BY <1>2
<1> HIDE DEF q, back, mid, old
<1>9. MemoryOK(q, held \ back) /\ NodesOf(q) = NodesOf(pool)
  <2>1. MemoryOK(pool, held)
    BY PoolIs
  <2> QED BY <1>2, <1>4, <1>5, <1>6, <1>7, <2>1, ArrayDestroyMemory
<1>10. MemoryOK(pool, held)'
  BY <1>1, <1>9
<1>11. Shrinks
  BY <1>1, <1>9, InUseIs DEF Shrinks
<1>12. TypeOK' /\ Ownership' /\ ArraysOK' /\ ListsOK'
  <2>1. arrays' \in [Arrays -> ArrayTs \cup {Null}]
    BY <1>1, PoolIs DEF TypeOK
  <2>2. arrays'[a] = Null /\ \A b \in Arrays : b # a => arrays'[b] = arrays[b]
    BY <1>1, PoolIs DEF TypeOK
  <2>3. \A b \in Arrays : arrays'[b] # Null => OfArray(b) \subseteq held'
    <3> SUFFICES ASSUME NEW b \in Arrays, b # a PROVE OfArray(b) \subseteq held'
      BY <2>2
    <3>1. OfArray(b) \subseteq held /\ OfArray(a) \cap OfArray(b) = {}
      BY PoolIs DEF Ownership
    <3> QED BY <1>1, <1>8, <3>1
  <2>4. \A l \in Lists : OfList(l) \subseteq held'
    <3> SUFFICES ASSUME NEW l \in Lists PROVE OfList(l) \subseteq held'
      OBVIOUS
    <3>1. OfList(l) \subseteq held /\ OfArray(a) \cap OfList(l) = {}
      BY PoolIs DEF Ownership
    <3> QED BY <1>1, <1>8, <3>1
  <2> QED BY <1>1, <2>1, <2>2, <2>3, <2>4, OwnersStay
<1> QED BY <1>10, <1>11, <1>12 DEF IInv, MemoryStep

-----------------------------------------------------------------------------
LEMMA ListIs ==
  ASSUME IInv, NEW l \in Lists, lists[l] # Null
  PROVE  /\ lists[l] \in ListTs /\ PartsOK(lists[l])
         /\ OfList(l) = {lists[l].at} \cup
              UNION {{lists[l].parts[i].at, lists[l].parts[i].elts} : i \in DOMAIN lists[l].parts}
         /\ OfList(l) \subseteq held
BY PoolIs DEF TypeOK, ListsOK, Ownership, OfList

LEMMA ListCreateStep ==
  ASSUME IInv, NEW l \in Lists, NEW n \in Counts, NEW size \in EltSizes, NEW os1 \in AnswersTo(SizeofList),
         NEW os2 \in AnswersAfter(SizeofList, os1, n * size), ListCreate(l, n, size, os1, os2)
  PROVE  MemoryStep /\ IInv'
<1>1. MayAnswer(pool, os1) /\ MayAnswer(Palloc(pool, SizeofList, TRUE, os1).pool, os2)
  BY FirstMay, SecondMay
<1>2. n \in Positive /\ size \in Positive /\ SizeofList \in Positive /\ pool.n > 0
  BY MemoryAssumption DEF ListCreate, SizeofList, Positive
<1> DEFINE bytes == n * size
<1>3. bytes \in Positive
  BY <1>2, ProductOK
<1> DEFINE r == Two(pool, SizeofList, bytes, os1, os2)
           part == [at |-> r.head, elts |-> r.data, nelts |-> 0]
           new == [at |-> r.head, parts |-> <<part>>, nalloc |-> n, size |-> size]
<1>4. /\ Taken(r) /\ UNCHANGED arrays /\ r = Two(pool, SizeofList, bytes, os1, os2)
      /\ lists' = IF r.data = Null THEN lists ELSE [lists EXCEPT ![l] = new]
  BY DEF ListCreate
<1> HIDE DEF r
<1>5. TwoTaken(r, bytes)
  <2> HIDE DEF bytes
  <2> QED BY <1>1, <1>2, <1>3, <1>4, TakenStep
<1>6. TypeOK' /\ Ownership' /\ ArraysOK' /\ ListsOK'
  <2>1. CASE r.data = Null
    BY <1>4, <1>5, <2>1, UnchangedOwners DEF TwoTaken
  <2>2. CASE r.data # Null
    <3>1. /\ r.head \in Chunks /\ r.data \in Chunks /\ r.head # r.data /\ Length(r.data) = bytes
          /\ {r.head, r.data} \subseteq held' /\ {r.head, r.data} \cap held = {} /\ held \subseteq held'
      BY <1>5, <2>2 DEF TwoTaken
    <3>2. part \in ListParts /\ part.at = r.head /\ part.elts = r.data /\ part.nelts = 0
      BY <3>1 DEF ListParts
    <3> HIDE DEF part
    <3>3. new \in ListTs /\ new.at = r.head /\ new.parts = <<part>> /\ new.nalloc = n /\ new.size = size
      BY <1>2, <3>1, <3>2 DEF ListTs
    <3> HIDE DEF new
    <3>4. Len(new.parts) = 1 /\ DOMAIN new.parts = {1} /\ new.parts[1] = part
      BY <3>3
    <3>5. PartsOK(new)
      BY <1>2, <3>1, <3>2, <3>3, <3>4 DEF PartsOK, Positive
    <3> DEFINE given == {r.head, r.data}
    <3>6. given \subseteq held' /\ given \cap held = {}
      BY <3>1
    <3>7. {new.at} \cup UNION {{new.parts[i].at, new.parts[i].elts} : i \in DOMAIN new.parts}
            \subseteq OfList(l) \cup given
      BY <3>2, <3>3, <3>4
    <3>8. lists' = [lists EXCEPT ![l] = new] /\ UNCHANGED arrays
      BY <1>4, <2>2 DEF new
    <3> HIDE DEF given
    <3> QED BY <3>1, <3>3, <3>5, <3>6, <3>7, <3>8, ListSet
  <2> QED BY <2>1, <2>2
<1> QED BY <1>5, <1>6 DEF IInv, MemoryStep, TwoTaken

LEMMA ListFillStep ==
  ASSUME IInv, NEW l \in Lists, ListFill(l)
  PROVE  MemoryStep /\ IInv'
<1> DEFINE old == lists[l]
           last == Len(old.parts)
           part == [old.parts[last] EXCEPT !.nelts = @ + 1]
           parts == [old.parts EXCEPT ![last] = part]
           new == [old EXCEPT !.parts = parts]
<1>1. /\ old # Null /\ old.parts[last].nelts < old.nalloc /\ UNCHANGED <<pool, held, arrays>>
      /\ lists' = [lists EXCEPT ![l] = new]
  BY DEF ListFill, LastPart
<1>2. MemoryStep
  BY <1>1, SameMemory
<1>3. /\ old \in ListTs /\ PartsOK(old) /\ old.nalloc \in Nat /\ old.parts \in Seq(ListParts)
      /\ OfList(l) = {old.at} \cup UNION {{old.parts[i].at, old.parts[i].elts} : i \in DOMAIN old.parts}
      /\ OfList(l) \subseteq held
  BY <1>1, ListIs DEF ListTs, Positive
<1> HIDE DEF old
<1>4. last \in Nat /\ last > 0 /\ DOMAIN old.parts = 1..last /\ last \in DOMAIN old.parts
  BY <1>3 DEF PartsOK
<1>5. old.parts[last] \in ListParts
  BY <1>3, <1>4
<1>6. /\ part \in ListParts /\ part.at = old.parts[last].at /\ part.elts = old.parts[last].elts
      /\ part.nelts = old.parts[last].nelts + 1 /\ old.parts[last].nelts \in Nat
  BY <1>5 DEF ListParts
<1> HIDE DEF part
<1>7. /\ parts \in Seq(ListParts) /\ Len(parts) = last /\ DOMAIN parts = DOMAIN old.parts
      /\ parts[last] = part /\ \A i \in DOMAIN old.parts : i # last => parts[i] = old.parts[i]
  BY <1>3, <1>4, <1>6
<1> HIDE DEF parts
<1>8. /\ new \in ListTs /\ new.at = old.at /\ new.parts = parts /\ new.nalloc = old.nalloc
      /\ new.size = old.size
  BY <1>3, <1>7 DEF ListTs
<1> HIDE DEF new
<1>9. \A i \in DOMAIN parts : parts[i].at = old.parts[i].at /\ parts[i].elts = old.parts[i].elts
  BY <1>6, <1>7
<1>10. PartsOK(new)
  <2>1. ASSUME NEW i \in DOMAIN parts
        PROVE  /\ Length(parts[i].elts) = old.nalloc * old.size
               /\ parts[i].nelts <= old.nalloc
               /\ i > 1 => parts[i].nelts > 0
               /\ i < Len(parts) => parts[i].nelts = old.nalloc
    <3>1. CASE i = last
      BY <1>1, <1>3, <1>4, <1>6, <1>7, <3>1 DEF PartsOK
    <3>2. CASE i # last
      BY <1>3, <1>4, <1>7, <3>2 DEF PartsOK
    <3> QED BY <3>1, <3>2
  <2>2. \A i, j \in DOMAIN parts : i # j => parts[i].elts # parts[j].elts
    BY <1>3, <1>7, <1>9 DEF PartsOK
  <2> QED BY <1>4, <1>7, <1>8, <2>1, <2>2 DEF PartsOK
<1>11. {new.at} \cup UNION {{new.parts[i].at, new.parts[i].elts} : i \in DOMAIN new.parts} \subseteq OfList(l) \cup {}
  BY <1>3, <1>7, <1>8, <1>9
<1>12. held \subseteq held' /\ {} \subseteq held' /\ {} \cap held = {}
  BY <1>1
<1>13. TypeOK' /\ Ownership' /\ ArraysOK' /\ ListsOK'
  BY <1>1, <1>8, <1>10, <1>11, <1>12, ListSet
<1> QED BY <1>2, <1>13 DEF IInv, MemoryStep

LEMMA ListExtendStep ==
  ASSUME IInv, NEW l \in Lists, NEW os1 \in AnswersTo(SizeofListPart),
         NEW os2 \in AnswersAfter(SizeofListPart, os1, PoolSize), ListExtend(l, os1, os2)
  PROVE  MemoryStep /\ IInv'
<1> DEFINE old == lists[l]
           bytes == old.nalloc * old.size
           r == Two(pool, SizeofListPart, bytes, os1, os2)
           part == [at |-> r.head, elts |-> r.data, nelts |-> 1]
           parts == Append(old.parts, part)
           new == [old EXCEPT !.parts = parts]
           end == Len(old.parts)
<1>1. /\ old # Null /\ old.parts[end].nelts = old.nalloc /\ Taken(r) /\ UNCHANGED arrays
      /\ lists' = IF r.data = Null THEN lists ELSE [lists EXCEPT ![l] = new]
      /\ r = Two(pool, SizeofListPart, bytes, os1, os2)
  BY DEF ListExtend, LastPart
<1>2. MayAnswer(pool, os1) /\ MayAnswer(Palloc(pool, SizeofListPart, TRUE, os1).pool, os2)
  BY FirstMay, SecondMay
<1>3. /\ old \in ListTs /\ PartsOK(old) /\ old.nalloc \in Positive /\ old.size \in Positive
      /\ old.parts \in Seq(ListParts) /\ old.at \in OfList(l)
      /\ OfList(l) = {old.at} \cup UNION {{old.parts[i].at, old.parts[i].elts} : i \in DOMAIN old.parts}
      /\ OfList(l) \subseteq held
  <2>1. /\ old \in ListTs /\ PartsOK(old)
        /\ OfList(l) = {old.at} \cup UNION {{old.parts[i].at, old.parts[i].elts} : i \in DOMAIN old.parts}
        /\ OfList(l) \subseteq held
    BY <1>1, ListIs
  <2> HIDE DEF old
  <2> QED BY <2>1 DEF ListTs
<1>4. bytes \in Positive /\ SizeofListPart \in Positive
  BY <1>3, ProductOK DEF SizeofListPart, Positive
<1>5. pool.n > 0
  <2>1. old.at \in held
    BY <1>3
  <2>2. Placed(pool, old.at) /\ (pool.n = 0 => pool.heap = {}) /\ pool.n \in Nat
    BY <2>1, PoolIs DEF MemoryOK, PoolOK, LargeOK, Allocs, Pools
  <2> QED BY <2>2 DEF Placed
<1> HIDE DEF old, r
<1>6. TwoTaken(r, bytes)
  <2> HIDE DEF bytes
  <2> QED BY <1>1, <1>2, <1>4, <1>5, TakenStep
<1>7. TypeOK' /\ Ownership' /\ ArraysOK' /\ ListsOK'
  <2>1. CASE r.data = Null
    BY <1>1, <1>6, <2>1, UnchangedOwners DEF TwoTaken
  <2>2. CASE r.data # Null
    <3>1. /\ r.head \in Chunks /\ r.data \in Chunks /\ r.head # r.data /\ Length(r.data) = bytes
          /\ {r.head, r.data} \subseteq held' /\ {r.head, r.data} \cap held = {} /\ held \subseteq held'
      BY <1>6, <2>2 DEF TwoTaken
    <3>2. part \in ListParts /\ part.at = r.head /\ part.elts = r.data /\ part.nelts = 1
      BY <3>1 DEF ListParts
    <3> HIDE DEF part
    <3>3. end \in Nat /\ end > 0 /\ DOMAIN old.parts = 1..end /\ end \in DOMAIN old.parts
      BY <1>3 DEF PartsOK
    <3>4. /\ parts \in Seq(ListParts) /\ Len(parts) = end + 1 /\ DOMAIN parts = 1..(end + 1)
          /\ parts[end + 1] = part /\ \A i \in DOMAIN old.parts : parts[i] = old.parts[i]
      BY <1>3, <3>2, <3>3
    <3> HIDE DEF parts
    <3>5. /\ new \in ListTs /\ new.at = old.at /\ new.parts = parts /\ new.nalloc = old.nalloc
          /\ new.size = old.size
      BY <1>3, <3>4 DEF ListTs
    <3>6. lists' = [lists EXCEPT ![l] = new] /\ UNCHANGED arrays
      BY <1>1, <2>2
    <3> HIDE DEF new
    <3>7. PartsOK(new)
      <4>1. ASSUME NEW i \in DOMAIN parts
            PROVE  /\ Length(parts[i].elts) = old.nalloc * old.size
                   /\ parts[i].nelts <= old.nalloc
                   /\ i > 1 => parts[i].nelts > 0
                   /\ i < Len(parts) => parts[i].nelts = old.nalloc
        <5>1. CASE i = end + 1
          <6>1. parts[i] = part
            BY <3>4, <5>1
          <6>2. old.nalloc \in Nat /\ 1 <= old.nalloc
            BY <1>3 DEF Positive
          <6> QED BY <3>1, <3>2, <3>3, <3>4, <5>1, <6>1, <6>2
        <5>2. CASE i \in DOMAIN old.parts
          <6>1. parts[i] = old.parts[i]
            BY <3>4, <5>2
          <6>2. i = end => old.parts[i].nelts = old.nalloc
            BY <1>1
          <6> QED BY <1>3, <3>3, <3>4, <5>2, <6>1, <6>2 DEF PartsOK
        <5> QED BY <3>3, <3>4, <5>1, <5>2
      <4>2. ASSUME NEW i \in DOMAIN old.parts PROVE old.parts[i].elts # part.elts
        <5>1. old.parts[i].elts \in OfList(l)
          BY <1>3
        <5>2. old.parts[i].elts \in held /\ r.data \notin held
          BY <1>3, <3>1, <5>1
        <5> QED BY <3>2, <5>2
      <4>3. ASSUME NEW i \in DOMAIN parts, NEW j \in DOMAIN parts, i # j
            PROVE  parts[i].elts # parts[j].elts
        <5>1. CASE i \in DOMAIN old.parts /\ j \in DOMAIN old.parts
          BY <1>3, <3>4, <4>3, <5>1 DEF PartsOK
        <5>2. CASE i \notin DOMAIN old.parts \/ j \notin DOMAIN old.parts
          BY <3>3, <3>4, <4>2, <4>3, <5>2
        <5> QED BY <5>1, <5>2
      <4>4. Len(parts) > 0
        BY <3>3, <3>4
      <4> QED BY <3>5, <4>1, <4>3, <4>4 DEF PartsOK
    <3> DEFINE given == {r.head, r.data}
    <3>8. given \subseteq held' /\ given \cap held = {}
      BY <3>1
    <3>9. {new.at} \cup UNION {{new.parts[i].at, new.parts[i].elts} : i \in DOMAIN new.parts}
            \subseteq OfList(l) \cup given
      <4>1. ASSUME NEW i \in DOMAIN parts PROVE {parts[i].at, parts[i].elts} \subseteq OfList(l) \cup given
        <5>1. CASE i = end + 1
          BY <3>2, <3>4, <5>1
        <5>2. CASE i \in DOMAIN old.parts
          BY <1>3, <3>4, <5>2
        <5> QED BY <3>3, <3>4, <5>1, <5>2
      <4> HIDE DEF given
      <4> QED BY <1>3, <3>5, <4>1
    <3> HIDE DEF given
    <3> QED BY <3>1, <3>5, <3>6, <3>7, <3>8, <3>9, ListSet
  <2> QED BY <2>1, <2>2
<1> QED BY <1>6, <1>7 DEF IInv, MemoryStep, TwoTaken

-----------------------------------------------------------------------------
LEMMA NextStep ==
  ASSUME IInv, Next
  PROVE  MemoryStep /\ IInv'
<1>1. CASE CreatePool
  BY <1>1, CreatePoolStep
<1>2. CASE Reset
  BY <1>2, ResetStep
<1>3. CASE Destroy
  BY <1>3, DestroyStep
<1>4. ASSUME NEW size \in Sizes, NEW aligned \in BOOLEAN, NEW os \in AnswersTo(size),
             Alloc(size, aligned, os)
      PROVE  MemoryStep /\ IInv'
  BY <1>4, AllocStep
<1>5. ASSUME NEW size \in Sizes, NEW os \in Answers(pool, TRUE), AllocAligned(size, os)
      PROVE  MemoryStep /\ IInv'
  BY <1>5, AllocAlignedStep
<1>6. ASSUME NEW size \in Sizes, NEW os1 \in AnswersTo(SizeofBuf),
             NEW os2 \in AnswersAfter(SizeofBuf, os1, size), CreateTempBuf(size, os1, os2)
      PROVE  MemoryStep /\ IInv'
  BY <1>6, CreateTempBufStep
<1>7. ASSUME NEW c \in held, Free(c) PROVE MemoryStep /\ IInv'
  BY <1>7, FreeStep
<1>8. ASSUME NEW a \in Arrays, ArrayDestroy(a) PROVE MemoryStep /\ IInv'
  BY <1>8, ArrayDestroyStep
<1>9. ASSUME NEW a \in Arrays, NEW n \in Counts, ArrayFill(a, n) PROVE MemoryStep /\ IInv'
  BY <1>9, ArrayFillStep
<1>10. ASSUME NEW a \in Arrays, NEW n \in Counts, ArrayGrow(a, n) PROVE MemoryStep /\ IInv'
  BY <1>10, ArrayGrowStep
<1>11. ASSUME NEW a \in Arrays, NEW n \in Counts, NEW os \in Answers(pool, TRUE), ArrayMove(a, n, os)
       PROVE  MemoryStep /\ IInv'
  BY <1>11, ArrayMoveStep
<1>12. ASSUME NEW a \in Arrays, NEW n \in Counts, NEW size \in EltSizes, NEW os1 \in AnswersTo(SizeofArray),
              NEW os2 \in AnswersAfter(SizeofArray, os1, n * size), ArrayCreate(a, n, size, os1, os2)
       PROVE  MemoryStep /\ IInv'
  BY <1>12, ArrayCreateStep
<1>13. ASSUME NEW l \in Lists, ListFill(l) PROVE MemoryStep /\ IInv'
  BY <1>13, ListFillStep
<1>14. ASSUME NEW l \in Lists, NEW os1 \in AnswersTo(SizeofListPart),
              NEW os2 \in AnswersAfter(SizeofListPart, os1, PoolSize), ListExtend(l, os1, os2)
       PROVE  MemoryStep /\ IInv'
  BY <1>14, ListExtendStep
<1>15. ASSUME NEW l \in Lists, NEW n \in Counts, NEW size \in EltSizes, NEW os1 \in AnswersTo(SizeofList),
              NEW os2 \in AnswersAfter(SizeofList, os1, n * size), ListCreate(l, n, size, os1, os2)
       PROVE  MemoryStep /\ IInv'
  BY <1>15, ListCreateStep
<1> QED BY <1>1, <1>2, <1>3, <1>4, <1>5, <1>6, <1>7, <1>8, <1>9, <1>10, <1>11, <1>12, <1>13, <1>14,
           <1>15 DEF Next

LEMMA StepIInv == IInv /\ [Next]_vars => IInv'
<1> SUFFICES ASSUME IInv, [Next]_vars PROVE IInv'
  OBVIOUS
<1>1. CASE Next
  BY <1>1, NextStep
<1>2. CASE UNCHANGED vars
  <2>1. TypeOK' /\ Ownership' /\ ArraysOK' /\ ListsOK' /\ MemoryOK(pool, held)'
    BY <1>2, PoolIs, UnchangedOwners DEF vars
  <2> QED BY <2>1 DEF IInv
<1> QED BY <1>1, <1>2

LEMMA SpecIInv == Spec => []IInv
BY InitIInv, StepIInv, PTL DEF Spec

-----------------------------------------------------------------------------
\* free() gets everything that malloc() gave, each once: every large block of
\* the pool is in one node of pool->large, and one caller has it.
THEOREM SpecLargeAccounted == Spec => []LargeAccounted
<1>1. IInv => LargeAccounted
  BY DEF IInv, MemoryOK, PoolOK, LargeOK, LargeAccounted
<1> QED BY SpecIInv, <1>1, PTL

\* palloc_block() moves pool->current over the blocks that have failed often
\* enough, and over no others.
THEOREM SpecBlocksPassedOver == Spec => []BlocksPassedOver
<1>1. IInv => BlocksPassedOver
  BY DEF IInv, MemoryOK, PoolOK, FailedOK, BlocksPassedOver
<1> QED BY SpecIInv, <1>1, PTL

\* list_push() links no part that has no element: the loop in list.h meets
\* elements only.
THEOREM SpecIterationMeetsElements == Spec => []IterationMeetsElements
<1>1. IInv => IterationMeetsElements
  <2> SUFFICES ASSUME IInv, NEW l \in Lists, lists[l] # Null
               PROVE  LET parts == lists[l].parts
                      IN  /\ \A i \in 2..Len(parts) : parts[i].nelts > 0
                          /\ \A i \in 1..(Len(parts) - 1) : parts[i].nelts = lists[l].nalloc
    BY DEF IterationMeetsElements
  <2>1. lists[l] \in ListTs /\ PartsOK(lists[l])
    BY DEF IInv, TypeOK, ListsOK
  <2>2. lists[l].parts \in Seq(ListParts)
    BY <2>1 DEF ListTs
  <2>3. DOMAIN lists[l].parts = 1..Len(lists[l].parts) /\ Len(lists[l].parts) \in Nat
    BY <2>2
  <2> QED BY <2>1, <2>3 DEF PartsOK
<1> QED BY SpecIInv, <1>1, PTL

\* Elements of an array or a part of a list.
ArrayRuns ==
  {[elts |-> arrays[a].elts, nelts |-> arrays[a].nelts, nalloc |-> arrays[a].nalloc,
    size |-> arrays[a].size] : a \in {b \in Arrays : arrays[b] # Null}}
PartRuns(l) ==
  {[elts |-> p.elts, nelts |-> p.nelts, nalloc |-> lists[l].nalloc, size |-> lists[l].size] :
     p \in {lists[l].parts[i] : i \in DOMAIN lists[l].parts}}
ListRuns == UNION {PartRuns(l) : l \in {k \in Lists : lists[k] # Null}}

\* array_push(), array_push_n() and list_push() return space that no other
\* element lies in, after any moves, growth in place and destruction.
THEOREM SpecElementsHeld == Spec => []ElementsHeld
<1>1. ASSUME IInv PROVE ElementsHeld
  <2>1. Ownership /\ ArraysOK /\ ListsOK /\ TypeOK
    BY <1>1 DEF IInv
  <2>2. ASSUME NEW r \in ArrayRuns
        PROVE  \E a \in Arrays : /\ arrays[a] # Null /\ r.elts = arrays[a].elts /\ r.nelts = arrays[a].nelts
                                 /\ r.nalloc = arrays[a].nalloc /\ r.size = arrays[a].size
                                 /\ r.elts \in OfArray(a)
    BY DEF ArrayRuns, OfArray
  <2>3. ASSUME NEW r \in ListRuns
        PROVE  \E l \in Lists : \E i \in DOMAIN lists[l].parts :
                 /\ lists[l] # Null /\ r.elts = lists[l].parts[i].elts
                 /\ r.nelts = lists[l].parts[i].nelts
                 /\ r.nalloc = lists[l].nalloc /\ r.size = lists[l].size
                 /\ r.elts \in OfList(l)
    <3>1. PICK l \in Lists : lists[l] # Null /\ r \in PartRuns(l)
      BY DEF ListRuns
    <3>2. PICK i \in DOMAIN lists[l].parts :
            r = [elts |-> lists[l].parts[i].elts, nelts |-> lists[l].parts[i].nelts,
                 nalloc |-> lists[l].nalloc, size |-> lists[l].size]
      BY <3>1 DEF PartRuns
    <3>3. r.elts \in OfList(l)
      BY <3>1, <3>2 DEF OfList
    <3> QED BY <3>1, <3>2, <3>3
  <2>4. ASSUME NEW r \in ArrayRuns \cup ListRuns
        PROVE  r.elts \in held /\ r.elts.to - r.elts.from = r.nalloc * r.size /\ r.nelts <= r.nalloc
    <3>1. CASE r \in ArrayRuns
      BY <2>1, <2>2, <3>1 DEF Ownership, ArraysOK, Length
    <3>2. CASE r \in ListRuns
      <4>1. PICK l \in Lists : \E i \in DOMAIN lists[l].parts :
              /\ lists[l] # Null /\ r.elts = lists[l].parts[i].elts
              /\ r.nelts = lists[l].parts[i].nelts
              /\ r.nalloc = lists[l].nalloc /\ r.size = lists[l].size /\ r.elts \in OfList(l)
        BY <2>3, <3>2
      <4>2. PartsOK(lists[l]) /\ OfList(l) \subseteq held
        BY <2>1, <4>1 DEF ListsOK, Ownership
      <4> QED BY <4>1, <4>2 DEF PartsOK, Length
    <3> QED BY <3>1, <3>2
  <2>5. ASSUME NEW r \in ArrayRuns \cup ListRuns, NEW s \in ArrayRuns \cup ListRuns, r # s
        PROVE  r.elts # s.elts
    <3> SUFFICES ASSUME r.elts = s.elts PROVE r = s
      BY <2>5
    <3>1. CASE r \in ArrayRuns /\ s \in ArrayRuns
      <4>1. PICK a \in Arrays : arrays[a] # Null /\
              r = [elts |-> arrays[a].elts, nelts |-> arrays[a].nelts, nalloc |-> arrays[a].nalloc,
                   size |-> arrays[a].size]
        BY <3>1 DEF ArrayRuns
      <4>2. PICK b \in Arrays : arrays[b] # Null /\
              s = [elts |-> arrays[b].elts, nelts |-> arrays[b].nelts, nalloc |-> arrays[b].nalloc,
                   size |-> arrays[b].size]
        BY <3>1 DEF ArrayRuns
      <4>3. r.elts \in OfArray(a) /\ s.elts \in OfArray(b)
        BY <4>1, <4>2 DEF OfArray
      <4>4. a = b
        BY <2>1, <4>3 DEF Ownership
      <4> QED BY <4>1, <4>2, <4>4
    <3>2. CASE r \in ListRuns /\ s \in ListRuns
      <4>1. PICK l \in Lists : lists[l] # Null /\ r \in PartRuns(l)
        BY <3>2 DEF ListRuns
      <4>2. PICK k \in Lists : lists[k] # Null /\ s \in PartRuns(k)
        BY <3>2 DEF ListRuns
      <4>3. PICK i \in DOMAIN lists[l].parts :
              r = [elts |-> lists[l].parts[i].elts, nelts |-> lists[l].parts[i].nelts,
                   nalloc |-> lists[l].nalloc, size |-> lists[l].size]
        BY <4>1 DEF PartRuns
      <4>4. PICK j \in DOMAIN lists[k].parts :
              s = [elts |-> lists[k].parts[j].elts, nelts |-> lists[k].parts[j].nelts,
                   nalloc |-> lists[k].nalloc, size |-> lists[k].size]
        BY <4>2 DEF PartRuns
      <4>5. r.elts \in OfList(l) /\ s.elts \in OfList(k)
        <5>1. r.elts = lists[l].parts[i].elts /\ s.elts = lists[k].parts[j].elts
          BY <4>3, <4>4
        <5>2. lists[l].parts[i].elts \in OfList(l)
          BY <4>1 DEF OfList
        <5>3. lists[k].parts[j].elts \in OfList(k)
          BY <4>2 DEF OfList
        <5> QED BY <5>1, <5>2, <5>3
      <4>6. l = k
        BY <2>1, <4>5 DEF Ownership
      <4>7. i = j
        BY <2>1, <4>1, <4>3, <4>4, <4>6 DEF ListsOK, PartsOK
      <4> QED BY <4>3, <4>4, <4>6, <4>7
    <3>3. CASE ~(r \in ArrayRuns /\ s \in ArrayRuns) /\ ~(r \in ListRuns /\ s \in ListRuns)
      BY <2>1, <2>2, <2>3, <3>3 DEF Ownership
    <3> QED BY <3>1, <3>2, <3>3
  <2>6. \A a \in Arrays : arrays[a] # Null => arrays[a].at \in held
    BY <2>1 DEF Ownership, OfArray
  <2>7. ElementsHeld <=>
          /\ \A r \in ArrayRuns \cup ListRuns :
               r.elts \in held /\ r.elts.to - r.elts.from = r.nalloc * r.size /\ r.nelts <= r.nalloc
          /\ \A r, s \in ArrayRuns \cup ListRuns : r # s => r.elts # s.elts
          /\ \A a \in Arrays : arrays[a] # Null => arrays[a].at \in held
    BY DEF ElementsHeld, ArrayRuns, ListRuns, PartRuns
  <2> QED BY <2>4, <2>5, <2>6, <2>7
<1> QED BY SpecIInv, <1>1, PTL

-----------------------------------------------------------------------------
\* Memory that the pool hands out keeps the allocator's contract: nobody else
\* has it, it lies in its block, and it stays until it is given back.
THEOREM SpecImplementsAllocator == Spec => ImplementsAllocator
<1>1. Init => A!Init
  BY NoPoolOK, InUseIs DEF Init, A!Init
<1>2. ASSUME IInv, [Next]_vars PROVE [A!Next]_InUse
  <2>1. CASE UNCHANGED vars
    BY <2>1 DEF vars, InUse
  <2>2. CASE Next
    <3>1. MemoryOK(pool, held)' /\ (Extends \/ Shrinks \/ A!Grow)
      BY <1>2, <2>2, NextStep DEF MemoryStep
    <3>2. CASE Extends
      BY <3>1, <3>2, FreshOK DEF Extends, A!Next, A!Take, A!Gone
    <3>3. CASE Shrinks
      BY <3>3 DEF Shrinks, A!Next, A!GiveBack, A!New
    <3> QED BY <3>1, <3>2, <3>3 DEF A!Next
  <2> QED BY <1>2, <2>1, <2>2
<1> QED BY SpecIInv, <1>1, <1>2, PTL DEF Spec, ImplementsAllocator, A!Spec
=============================================================================
