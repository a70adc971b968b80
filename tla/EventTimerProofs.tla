-------------------------- MODULE EventTimerProofs --------------------------
(***************************************************************************)
(* The timers, for any number of events, any width of the clock and any    *)
(* delays that keep within half of its range.                              *)
(*                                                                         *)
(* The inductive invariant is that event_timer_rbtree is a tree of the     *)
(* events with ev->timer_set (TreeInv of RBTreeProofs), and where on the   *)
(* circle their keys are: not as far behind the clock as the clock moves   *)
(* between two passes, in front of it when no pass is due, and never more  *)
(* than the lazy delay away from what was asked for.  All of them are then *)
(* in one half of the circle, and signed comparisons are those of a line.  *)
(***************************************************************************)
EXTENDS EventTimer, RBTreeProofs

-----------------------------------------------------------------------------
(* Differences of keys.                                                    *)

\* The remainder of a number in the circle, or one round behind.
LEMMA WrapUp ==
  ASSUME NEW C \in Nat \ {0}, NEW x \in Int, 0 <= x, x < C + C
  PROVE  x % C = IF x < C THEN x ELSE x - C
<1>1. CASE x < C
  <2>1. x \in 0..(C - 1)
    BY <1>1
  <2> QED BY <1>1, <2>1, Z3
<1>2. CASE ~(x < C)
  <2>1. x - C \in 0..(C - 1) /\ x = (x - C) + 1 * C
    BY <1>2
  <2> QED BY <1>2, <2>1, Z3
<1> QED BY <1>1, <1>2

\* The values of rbtree_key_t.
LEMMA Circular ==
  /\ Half \in Nat \ {0} /\ Circle = 2 * Half /\ Circle \in Nat \ {0} /\ Keys = 0..(Circle - 1)
  /\ Half \in Int /\ Circle \in Int /\ 0 < Half
  /\ Keys \subseteq Int /\ \A k \in Keys : 0 <= k /\ k < Circle
BY RedBlackAssumption DEF Circle, Keys

\* The signed difference is that of the numbers, or one round off.
LEMMA SignedIs ==
  ASSUME NEW a \in Keys, NEW b \in Keys
  PROVE  Signed(a, b) = IF a - b < -Half THEN a - b + Circle ELSE IF a - b < Half THEN a - b ELSE a - b - Circle
<1>1. a - b \in Int /\ -Circle <= a - b /\ a - b < Circle
  BY Circular
<1> DEFINE x == a - b
           m == x % Circle
<1>2. m = IF x < 0 THEN x + Circle ELSE x
  BY <1>1, Circular, Wrap
<1>3. Signed(a, b) = IF m < Half THEN m ELSE m - Circle
  BY DEF Signed
<1>4. x \in Int /\ -Circle <= x /\ x < Circle
  BY <1>1
<1>5. Signed(a, b) = IF x < -Half THEN x + Circle ELSE IF x < Half THEN x ELSE x - Circle
  <2> HIDE DEF m, x
  <2> QED BY <1>2, <1>3, <1>4, Circular
<1> QED BY <1>5

\* It is a number of half as many bits to either side.
LEMMA SignedRange ==
  ASSUME NEW a \in Keys, NEW b \in Keys
  PROVE  Signed(a, b) \in Int /\ -Half <= Signed(a, b) /\ Signed(a, b) < Half
<1>1. a \in Int /\ b \in Int /\ 0 <= a /\ a < Circle /\ 0 <= b /\ b < Circle
  BY Circular
<1> DEFINE x == a - b
           r == Signed(a, b)
<1>2. r = IF x < -Half THEN x + Circle ELSE IF x < Half THEN x ELSE x - Circle
  BY SignedIs
<1>3. x \in Int /\ -Circle < x /\ x < Circle
  BY <1>1, Circular
<1> HIDE DEF x, r
<1>4. r \in Int /\ -Half <= r /\ r < Half
  BY <1>2, <1>3, Circular
<1> QED BY <1>4 DEF r

\* Two differences to the same key give the difference of the two.
LEMMA SignedMinus ==
  ASSUME NEW a \in Keys, NEW b \in Keys, NEW c \in Keys,
         -Half <= Signed(a, c) - Signed(b, c), Signed(a, c) - Signed(b, c) < Half
  PROVE  Signed(a, b) = Signed(a, c) - Signed(b, c)
<1>1. /\ a \in Int /\ b \in Int /\ c \in Int
      /\ 0 <= a /\ a < Circle /\ 0 <= b /\ b < Circle /\ 0 <= c /\ c < Circle
  BY Circular
<1> DEFINE p == Signed(a, c)
           q == Signed(b, c)
           r == Signed(a, b)
<1>2. /\ p = IF a - c < -Half THEN a - c + Circle ELSE IF a - c < Half THEN a - c ELSE a - c - Circle
      /\ q = IF b - c < -Half THEN b - c + Circle ELSE IF b - c < Half THEN b - c ELSE b - c - Circle
      /\ r = IF a - b < -Half THEN a - b + Circle ELSE IF a - b < Half THEN a - b ELSE a - b - Circle
  BY SignedIs
<1>3. -Half <= p - q /\ p - q < Half
  OBVIOUS
<1> HIDE DEF p, q, r
<1>4. r = p - q
  BY <1>1, <1>2, <1>3, Circular
<1> QED BY <1>4 DEF p, q, r

\* A key that is d later than c.
LEMMA LaterKey ==
  ASSUME NEW c \in Keys, NEW d \in Nat, d < Half
  PROVE  Wrapped(c + d) \in Keys /\ Signed(Wrapped(c + d), c) = d
<1>1. c \in Int /\ 0 <= c /\ c < Circle /\ c + d \in Nat /\ c + d < 2 * Circle
  BY Circular
<1>2. Wrapped(c + d) = IF c + d < Circle THEN c + d ELSE (c + d) - Circle
  <2>1. c + d \in Int /\ 0 <= c + d /\ c + d < Circle + Circle
    BY <1>1, Circular
  <2> QED BY <2>1, Circular, WrapUp DEF Wrapped
<1> DEFINE k == Wrapped(c + d)
<1>3. k \in Keys /\ k \in Int
  BY <1>1, <1>2, Circular
<1>4. Signed(k, c) = IF k - c < -Half THEN k - c + Circle ELSE IF k - c < Half THEN k - c ELSE k - c - Circle
  BY <1>3, SignedIs
<1>5. k = IF c + d < Circle THEN c + d ELSE (c + d) - Circle
  BY <1>2
<1> HIDE DEF k
<1>6. Signed(k, c) = d
  BY <1>1, <1>3, <1>4, <1>5, Circular
<1> QED BY <1>3, <1>6 DEF k

\* The clock moves on: less time is left.
LEMMA LessLeft ==
  ASSUME NEW k \in Keys, NEW c \in Keys, NEW d \in Nat, d < Half, -Half <= Signed(k, c) - d
  PROVE  Signed(k, Wrapped(c + d)) = Signed(k, c) - d
<1> DEFINE b == Wrapped(c + d)
<1>1. b \in Keys /\ Signed(b, c) = d
  BY LaterKey
<1> HIDE DEF b
<1>2. Signed(k, c) \in Int /\ Signed(k, c) < Half
  BY SignedRange
<1>3. -Half <= Signed(k, c) - Signed(b, c) /\ Signed(k, c) - Signed(b, c) < Half
  BY <1>1, <1>2, Circular
<1> QED BY <1>1, <1>3, SignedMinus DEF b

\* Keys that are around the clock, less than half of the circle in all.
Around(k, c) == -MaxTick < Signed(k, c) /\ Signed(k, c) < Half - MaxTick

\* Those are near each other.
LEMMA AroundNear ==
  ASSUME NEW c \in Keys, NEW K \in SUBSET Keys, MaxTick \in Nat, MaxTick < Half, \A k \in K : Around(k, c)
  PROVE  Near(K)
<1> DEFINE first == IF c < MaxTick THEN c - MaxTick + Circle ELSE c - MaxTick
<1>1. c \in Int /\ 0 <= c /\ c < Circle /\ MaxTick \in Int /\ 0 <= MaxTick
  BY Circular
<1>2. first \in Keys /\ first \in Int /\ 0 <= first /\ first < Circle
  BY <1>1, Circular
<1>3. first = IF c < MaxTick THEN c - MaxTick + Circle ELSE c - MaxTick
  OBVIOUS
<1> HIDE DEF first
<1>4. ASSUME NEW k \in K PROVE (k - first) % Circle < Half
  <2>1. k \in Int /\ 0 <= k /\ k < Circle /\ k \in Keys
    BY Circular
  <2>2. (k - first) % Circle = IF k - first < 0 THEN k - first + Circle ELSE k - first
    <3>1. k - first \in Int /\ -Circle <= k - first /\ k - first < Circle
      BY <1>2, <2>1, Circular
    <3> QED BY <3>1, Circular, Wrap
  <2> DEFINE s == Signed(k, c)
             m == (k - first) % Circle
  <2>3. s = IF k - c < -Half THEN k - c + Circle ELSE IF k - c < Half THEN k - c ELSE k - c - Circle
    BY <2>1, SignedIs
  <2>4. -MaxTick < s /\ s < Half - MaxTick
    BY DEF Around
  <2>5. m = IF k - first < 0 THEN k - first + Circle ELSE k - first
    BY <2>2
  <2> HIDE DEF s, m
  <2>6. m < Half
    BY <1>1, <1>2, <1>3, <2>1, <2>3, <2>4, <2>5, Circular
  <2> QED BY <2>6 DEF m
<1> QED BY <1>2, <1>4 DEF Near

-----------------------------------------------------------------------------
(* The invariant. *)

\* e goes off neither early nor late, and its key is where keys may be.
InTime(e) ==
  /\ (IF expiring THEN -MaxTick ELSE 0) < Left(e)
  /\ \E d \in Delays : Left(e) < d + Lazy
  /\ -Lazy < asked[e] - Left(e) /\ asked[e] - Left(e) < Lazy

TimerInv ==
  /\ current_msec \in Keys /\ expiring \in BOOLEAN
  /\ asked \in [Nodes -> Int]
  /\ TreeInv
  /\ \A e \in timer_set : InTime(e)

\* Of the constants.
LEMMA Bounds ==
  /\ MaxTick \in Nat /\ MaxTick \in Int /\ 0 < MaxTick /\ Lazy \in Int /\ 0 < Lazy
  /\ \A d \in Delays : d \in Nat /\ d \in Int /\ 0 < d /\ d + MaxTick + Lazy < Half
BY EventTimerAssumption

\* The keys of timers are around the clock.
LEMMA TimersAround ==
  ASSUME TimerInv, NEW e \in linked
  PROVE  /\ e \in Nodes /\ t.key[e] \in Keys /\ Left(e) \in Int /\ Around(t.key[e], current_msec)
         /\ MaxTick < Half
<1>1. e \in Nodes /\ InTime(e) /\ current_msec \in Keys
  BY DEF TimerInv, TreeInv, timer_set
<1>2. t.key[e] \in Keys
  <2>1. PICK at : TreeGood(t, linked, at)
    BY DEF TimerInv, TreeInv
  <2>2. t \in Trees
    BY <2>1 DEF TreeGood, Shape
  <2> QED BY <1>1, <2>2, TreeFields
<1>3. Left(e) \in Int
  BY <1>1, <1>2, SignedRange DEF Left
<1>4. PICK d \in Delays : Left(e) < d + Lazy
  BY <1>1 DEF InTime
<1>5. -MaxTick < Left(e)
  <2>1. (IF expiring THEN -MaxTick ELSE 0) < Left(e)
    BY <1>1 DEF InTime
  <2> QED BY <1>3, <2>1, Bounds
<1>6. Left(e) < Half - MaxTick /\ MaxTick < Half
  <2>1. d \in Int /\ 0 < d /\ d + MaxTick + Lazy < Half
    BY Bounds
  <2> QED BY <1>3, <1>4, <2>1, Bounds, Circular
<1>7. Around(t.key[e], current_msec)
  BY <1>5, <1>6 DEF Around, Left
<1> QED BY <1>1, <1>2, <1>3, <1>6, <1>7

\* What comes first in the tree is due first.
LEMMA PlacesInTime ==
  ASSUME TimerInv, NEW at, TreeGood(t, linked, at), NEW e \in linked, NEW f \in linked, ~(at[f] < at[e])
  PROVE  Left(e) <= Left(f)
<1>1. /\ t.key[e] \in Keys /\ Left(e) \in Int /\ Around(t.key[e], current_msec)
      /\ t.key[f] \in Keys /\ Left(f) \in Int /\ Around(t.key[f], current_msec)
      /\ current_msec \in Keys
  BY TimersAround DEF TimerInv
<1>2. CASE e = f
  BY <1>1, <1>2
<1>3. CASE e # f
  <2>1. at[e] < at[f]
    <3>1. Listing(linked, at) /\ IsFiniteSet(linked)
      BY RedBlackAssumption, FS_Subset DEF TreeGood, TimerInv, TreeInv
    <3>2. at[e] \in Int /\ at[f] \in Int /\ at[e] # at[f]
      BY <1>3, <3>1, ListingOK DEF Ordered
    <3> QED BY <3>2
  <2>2. ~(Signed(t.key[f], t.key[e]) < 0)
    BY <2>1 DEF TreeGood, InKeyOrder
  <2>3. Signed(t.key[f], t.key[e]) = Left(f) - Left(e)
    <3> DEFINE x == Signed(t.key[e], current_msec)
               y == Signed(t.key[f], current_msec)
    <3>1. /\ x \in Int /\ -MaxTick < x /\ x < Half - MaxTick
          /\ y \in Int /\ -MaxTick < y /\ y < Half - MaxTick
      BY <1>1 DEF Around, Left
    <3>2. -Half <= y - x /\ y - x < Half
      <4> HIDE DEF x, y
      <4> QED BY <3>1, Bounds, Circular
    <3> QED BY <1>1, <3>2, SignedMinus DEF Left
  <2>4. ~(Left(f) - Left(e) < 0)
    BY <2>2, <2>3
  <2> QED BY <1>1, <2>4
<1> QED BY <1>2, <1>3

\* rbtree_min() is the timer with the least time left.
LEMMA FirstOK ==
  ASSUME TimerInv
  PROVE  /\ t.root = Sentinel <=> linked = {}
         /\ t.root # Sentinel => /\ RbtreeMin(t, t.root) \in linked
                                 /\ \A f \in linked : Left(RbtreeMin(t, t.root)) <= Left(f)
<1>1. PICK at : TreeGood(t, linked, at)
  BY DEF TimerInv, TreeInv
<1>2. PICK D, bh : Shape(t, linked, at, D) /\ Even(t, linked, bh, {})
  BY <1>1 DEF TreeGood
<1>3. (t.root = Sentinel <=> linked = {}) /\ (linked # {} => t.root \in linked /\ D[t.root] = linked)
  <2>1. Sentinel \notin linked
    BY <1>2, EndsOK DEF Shape
  <2> QED BY <1>2, <2>1 DEF Shape
<1>4. ASSUME t.root # Sentinel
      PROVE  /\ RbtreeMin(t, t.root) \in linked
             /\ \A f \in linked : Left(RbtreeMin(t, t.root)) <= Left(f)
  <2> DEFINE m == RbtreeMin(t, t.root)
  <2>1. m \in linked /\ \A z \in linked : ~(at[z] < at[m])
    BY <1>2, <1>3, <1>4, MinOK DEF Toward
  <2> HIDE DEF m
  <2>2. \A f \in linked : Left(m) <= Left(f)
    BY <1>1, <2>1, PlacesInTime
  <2> QED BY <2>1, <2>2 DEF m
<1> QED BY <1>3, <1>4

-----------------------------------------------------------------------------
(* The steps. *)

\* A timer is taken out.
LEMMA TakenOut ==
  ASSUME TreeInv, NEW e \in linked, t' = RbtreeDelete(t, e), linked' = linked \ {e}
  PROVE  TreeInv' /\ \A f \in linked' : t'.key[f] = t.key[f]
<1>1. PICK at : TreeGood(t, linked, at)
  BY DEF TreeInv
<1> DEFINE U == RbtreeDelete(t, e)
<1>2. /\ \A f \in linked \ {e} : U.key[f] = t.key[f]
      /\ TreeGood(U, linked \ {e}, DeleteAt(linked, at, e))
  BY <1>1, DeleteOK
<1>3. t' = U
  OBVIOUS
<1> HIDE DEF U
<1>4. TreeInv'
  BY <1>2, <1>3 DEF TreeInv
<1> QED BY <1>2, <1>3, <1>4

\* A timer is put in, wherever it was before.
LEMMA PutAnew ==
  ASSUME TreeInv, NEW e \in Nodes, NEW k \in Keys, Near({t.key[f] : f \in linked} \cup {k}),
         t' = RbtreeInsert(IF e \in linked THEN RbtreeDelete(t, e) ELSE t, e, k), linked' = linked \cup {e}
  PROVE  TreeInv' /\ t'.key[e] = k /\ \A f \in linked \ {e} : t'.key[f] = t.key[f]
<1> DEFINE clean == IF e \in linked THEN RbtreeDelete(t, e) ELSE t
           S == linked \ {e}
<1>1. (\E at : TreeGood(clean, S, at)) /\ \A f \in S : clean.key[f] = t.key[f]
  <2>1. PICK at : TreeGood(t, linked, at)
    BY DEF TreeInv
  <2>2. CASE e \in linked
    <3> DEFINE U == RbtreeDelete(t, e)
    <3>1. (\A f \in linked \ {e} : U.key[f] = t.key[f]) /\ TreeGood(U, linked \ {e}, DeleteAt(linked, at, e))
      BY <2>1, <2>2, DeleteOK
    <3>2. clean = U
      BY <2>2
    <3> HIDE DEF U, clean
    <3> QED BY <3>1, <3>2
  <2>3. CASE e \notin linked
    <3>1. clean = t /\ S = linked
      BY <2>3
    <3> QED BY <2>1, <3>1
  <2> QED BY <2>2, <2>3
<1>2. t' = RbtreeInsert(clean, e, k)
  OBVIOUS
<1> HIDE DEF clean
<1>3. PICK at : TreeGood(clean, S, at)
  BY <1>1
<1>4. e \notin S /\ S \cup {e} = linked'
  OBVIOUS
<1>5. NearWith(clean, S, k)
  <2>1. {clean.key[f] : f \in S} \cup {k} \subseteq {t.key[f] : f \in linked} \cup {k}
    BY <1>1
  <2>2. Near({clean.key[f] : f \in S} \cup {k})
    BY <2>1 DEF Near
  <2> QED BY <2>2 DEF NearWith
<1> DEFINE V == RbtreeInsert(clean, e, k)
<1>6. V.key[e] = k /\ \A f \in S : V.key[f] = clean.key[f]
  BY <1>3, <1>4, <1>5, InsertOK
<1>7. PICK p : TreeGood(V, S \cup {e}, InsertAt(S, at, e, p))
  <2>1. \E p \in 0..Cardinality(S) : /\ \A z \in S : at[z] <= p <=> ~(Signed(k, clean.key[z]) < 0)
                                     /\ TreeGood(V, S \cup {e}, InsertAt(S, at, e, p))
    BY <1>3, <1>4, <1>5, InsertOK
  <2> HIDE DEF V, S
  <2> QED BY <2>1
<1>8. t' = V
  BY <1>2
<1> HIDE DEF V
<1>9. TreeInv'
  BY <1>4, <1>7, <1>8 DEF TreeInv
<1> QED BY <1>1, <1>6, <1>8, <1>9

\* Nothing is armed in the beginning.
LEMMA InitTimers == Init => TimerInv /\ Timers!Init
<1> SUFFICES ASSUME Init PROVE TimerInv /\ Timers!Init
  OBVIOUS
<1>1. /\ current_msec = 0 /\ TreeInit /\ expiring = FALSE /\ ev = Null /\ asked = [e \in Nodes |-> 0]
      /\ linked = {}
  BY DEF Init, TreeInit
<1>2. TreeInv
  BY <1>1, InitTreeInv
<1>3. 0 \in Keys /\ asked \in [Nodes -> Int]
  BY <1>1, Circular
<1> QED BY <1>1, <1>2, <1>3 DEF TimerInv, Timers!Init, timer_set

\* The time left of a timer whose key stays, when the clock does.
LEMMA SameLeft ==
  ASSUME current_msec' = current_msec, NEW f, t'.key[f] = t.key[f]
  PROVE  Left(f)' = Left(f)
BY DEF Left

\* event_add_timer(): the key is the one that was asked for.
LEMMA AddAnew ==
  ASSUME TimerInv, NEW e \in Nodes, NEW d \in Delays, EventAddTimer(e, d),
         ~StaysPut(e, Wrapped(current_msec + d))
  PROVE  TimerInv'
<1> DEFINE key == Wrapped(current_msec + d)
<1>1. d \in Nat /\ 0 < d /\ d + MaxTick + Lazy < Half /\ d < Half /\ d < Half - MaxTick
  <2>1. d \in Nat /\ d \in Int /\ 0 < d /\ d + MaxTick + Lazy < Half
    BY Bounds
  <2> QED BY <2>1, Bounds, Circular
<1>2. key \in Keys /\ Signed(key, current_msec) = d
  BY <1>1, LaterKey DEF TimerInv
<1>3. /\ t' = RbtreeInsert(IF e \in linked THEN RbtreeDelete(t, e) ELSE t, e, key)
      /\ linked' = linked \cup {e} /\ asked' = [asked EXCEPT ![e] = d]
      /\ current_msec' = current_msec /\ expiring' = expiring
  BY DEF EventAddTimer, timer_set
<1> HIDE DEF key
<1>4. Near({t.key[f] : f \in linked} \cup {key})
  <2> DEFINE K == {t.key[f] : f \in linked} \cup {key}
  <2>1. \A f \in linked : t.key[f] \in Keys /\ Around(t.key[f], current_msec)
    BY TimersAround
  <2>2. Around(key, current_msec)
    BY <1>1, <1>2, Bounds DEF Around
  <2>3. K \in SUBSET Keys /\ \A k \in K : Around(k, current_msec)
    BY <1>2, <2>1, <2>2
  <2>4. MaxTick \in Nat /\ MaxTick < Half
    BY <1>1, Bounds, Circular
  <2> HIDE DEF K
  <2>5. Near(K)
    BY <2>3, <2>4, AroundNear DEF TimerInv
  <2> QED BY <2>5 DEF K
<1>5. TreeInv' /\ t'.key[e] = key /\ \A f \in linked \ {e} : t'.key[f] = t.key[f]
  <2>1. TreeInv
    BY DEF TimerInv
  <2> QED BY <1>2, <1>3, <1>4, <2>1, PutAnew
<1>6. asked' \in [Nodes -> Int] /\ asked'[e] = d /\ \A f \in Nodes \ {e} : asked'[f] = asked[f]
  BY <1>1, <1>3 DEF TimerInv
<1>7. ASSUME NEW f \in linked' PROVE InTime(f)'
  <2>1. CASE f = e
    <3>1. Left(f)' = d
      BY <1>2, <1>3, <1>5, <2>1 DEF Left
    <3>2. /\ (IF expiring' THEN -MaxTick ELSE 0) < d
          /\ d < d + Lazy /\ -Lazy < d - d /\ d - d < Lazy
      BY <1>1, Bounds
    <3> QED BY <1>6, <2>1, <3>1, <3>2 DEF InTime
  <2>2. CASE f # e
    <3>1. f \in linked \ {e} /\ f \in Nodes \ {e} /\ InTime(f)
      BY <1>3, <2>2 DEF TimerInv, TreeInv, timer_set
    <3>2. Left(f)' = Left(f)
      BY <1>3, <1>5, <3>1, SameLeft
    <3> QED BY <1>3, <1>6, <3>1, <3>2 DEF InTime
  <2> QED BY <2>1, <2>2
<1> QED BY <1>3, <1>5, <1>6, <1>7 DEF TimerInv, timer_set

\* It may leave the key that is there, which is less than the lazy delay away.
LEMMA AddStays ==
  ASSUME TimerInv, NEW e \in Nodes, NEW d \in Delays, EventAddTimer(e, d),
         StaysPut(e, Wrapped(current_msec + d))
  PROVE  TimerInv'
<1> DEFINE key == Wrapped(current_msec + d)
           diff == Signed(key, t.key[e])
<1>1. d \in Nat /\ d \in Int /\ 0 < d /\ d + MaxTick + Lazy < Half /\ d < Half
  <2>1. d \in Nat /\ d \in Int /\ 0 < d /\ d + MaxTick + Lazy < Half
    BY Bounds
  <2> QED BY <2>1, Bounds, Circular
<1>2. key \in Keys /\ Signed(key, current_msec) = d
  BY <1>1, LaterKey DEF TimerInv
<1>3. /\ t' = t /\ linked' = linked /\ asked' = [asked EXCEPT ![e] = d]
      /\ current_msec' = current_msec /\ expiring' = expiring
      /\ e \in linked /\ diff \in -(Lazy - 1)..(Lazy - 1)
  BY DEF EventAddTimer, StaysPut, timer_set
<1>4. /\ t.key[e] \in Keys /\ Left(e) \in Int /\ Around(t.key[e], current_msec)
      /\ \A f \in linked : f \in Nodes /\ InTime(f)
  BY <1>3, TimersAround DEF TimerInv, timer_set
<1> HIDE DEF key
<1>5. diff = d - Left(e)
  <2> DEFINE x == Signed(t.key[e], current_msec)
  <2>1. x \in Int /\ -MaxTick < x /\ x < Half - MaxTick
    BY <1>4 DEF Around, Left
  <2>2. -Half <= d - x /\ d - x < Half
    <3> HIDE DEF x
    <3> QED BY <1>1, <2>1, Bounds, Circular
  <2> QED BY <1>2, <1>4, <2>2, SignedMinus DEF Left, TimerInv
<1> HIDE DEF diff
<1>6. -Lazy < d - Left(e) /\ d - Left(e) < Lazy
  BY <1>1, <1>3, <1>4, <1>5, Bounds
<1>7. asked' \in [Nodes -> Int] /\ asked'[e] = d /\ \A f \in Nodes \ {e} : asked'[f] = asked[f]
  BY <1>1, <1>3 DEF TimerInv
<1>8. ASSUME NEW f \in linked' PROVE InTime(f)'
  <2>1. Left(f)' = Left(f) /\ f \in Nodes /\ InTime(f)
    BY <1>3, <1>4, SameLeft
  <2>2. -Lazy < asked'[f] - Left(f) /\ asked'[f] - Left(f) < Lazy
    <3>1. CASE f = e
      BY <1>6, <1>7, <3>1
    <3>2. CASE f # e
      BY <1>7, <2>1, <3>2 DEF InTime
    <3> QED BY <3>1, <3>2
  <2> QED BY <1>3, <2>1, <2>2 DEF InTime
<1>9. TreeInv'
  BY <1>3 DEF TimerInv, TreeInv
<1> QED BY <1>3, <1>7, <1>8, <1>9 DEF TimerInv, timer_set

\* A timer is armed.
LEMMA AddStep ==
  ASSUME TimerInv, NEW e \in Nodes, NEW d \in Delays, EventAddTimer(e, d)
  PROVE  TimerInv' /\ Timers!Add(e, d)
<1>1. TimerInv'
  BY AddAnew, AddStays
<1>2. Timers!Add(e, d)
  BY DEF EventAddTimer, Timers!Add, timer_set
<1> QED BY <1>1, <1>2

\* A timer is out: what the others have is the same.
LEMMA OutStep ==
  ASSUME TimerInv, NEW e \in linked, t' = RbtreeDelete(t, e), linked' = linked \ {e},
         asked' = [asked EXCEPT ![e] = 0], current_msec' = current_msec, expiring' = expiring
  PROVE  TimerInv'
<1>1. TreeInv' /\ \A f \in linked' : t'.key[f] = t.key[f]
  <2>1. TreeInv
    BY DEF TimerInv
  <2> QED BY <2>1, TakenOut
<1>2. asked' \in [Nodes -> Int] /\ \A f \in Nodes \ {e} : asked'[f] = asked[f]
  <2>1. asked \in [Nodes -> Int] /\ e \in Nodes
    BY DEF TimerInv, TreeInv
  <2> QED BY <2>1
<1>3. ASSUME NEW f \in linked' PROVE InTime(f)'
  <2>1. f \in Nodes \ {e} /\ InTime(f)
    BY DEF TimerInv, TreeInv, timer_set
  <2>2. Left(f)' = Left(f)
    BY <1>1, SameLeft
  <2> QED BY <1>2, <2>1, <2>2 DEF InTime
<1> QED BY <1>1, <1>2, <1>3 DEF TimerInv, timer_set

\* A timer is disarmed.
LEMMA DelStep ==
  ASSUME TimerInv, NEW e, EventDelTimer(e)
  PROVE  TimerInv' /\ Timers!Del(e)
<1>1. TimerInv'
  BY OutStep DEF EventDelTimer, timer_set
<1>2. Timers!Del(e)
  BY DEF EventDelTimer, Timers!Del, timer_set
<1> QED BY <1>1, <1>2

\* stime_update() moves the clock, and the pass begins.
LEMMA TickStep ==
  ASSUME TimerInv, NEW d \in 1..MaxTick, Tick(d)
  PROVE  TimerInv' /\ Timers!Tick(d)
<1>1. /\ ~expiring /\ expiring' = TRUE /\ current_msec' = Wrapped(current_msec + d)
      /\ t' = t /\ linked' = linked
      /\ asked' = [f \in Nodes |-> IF f \in linked THEN asked[f] - d ELSE 0]
  BY DEF Tick, timer_set
<1>2. d \in Nat /\ 0 < d /\ d <= MaxTick /\ current_msec \in Keys
  BY Bounds DEF TimerInv
<1>3. current_msec' \in Keys
  <2>1. current_msec + d \in Int
    BY <1>2, Circular
  <2> DEFINE x == current_msec + d
  <2>2. current_msec' = x % Circle
    BY <1>1 DEF Wrapped
  <2> HIDE DEF x
  <2>3. Circle \in Nat \ {0} /\ x \in Int
    BY <2>1, Circular DEF x
  <2>4. x % Circle \in 0..(Circle - 1)
    BY <2>3, Z3
  <2> QED BY <2>2, <2>4, Circular
<1>4. asked' \in [Nodes -> Int]
  <2>1. \A f \in Nodes : asked[f] - d \in Int
    BY <1>2 DEF TimerInv
  <2> QED BY <1>1, <2>1
<1>5. ASSUME NEW f \in linked' PROVE InTime(f)'
  <2>1. f \in linked /\ f \in Nodes /\ InTime(f) /\ t.key[f] \in Keys /\ Left(f) \in Int /\ MaxTick < Half
        /\ Left(f) < Half - MaxTick
    BY <1>1, TimersAround DEF TimerInv, timer_set, Around, Left
  <2>2. 0 < Left(f) /\ -Lazy < asked[f] - Left(f) /\ asked[f] - Left(f) < Lazy
    BY <1>1, <2>1 DEF InTime
  <2>3. PICK b \in Delays : Left(f) < b + Lazy
    BY <2>1 DEF InTime
  <2>4. d < Half /\ -Half <= Left(f) - d /\ asked[f] \in Int /\ b \in Int
    BY <1>2, <2>1, <2>2, Bounds, Circular DEF TimerInv
  <2>5. Left(f)' = Left(f) - d
    BY <1>1, <1>2, <2>1, <2>4, LessLeft DEF Left
  <2>6. asked'[f] = asked[f] - d
    BY <1>1, <2>1
  <2> DEFINE x == Left(f)
             y == asked[f]
  <2>7. x \in Int /\ y \in Int /\ 0 < x /\ -Lazy < y - x /\ y - x < Lazy /\ x < b + Lazy
    BY <2>1, <2>2, <2>3, <2>4
  <2>8. Left(f)' = x - d /\ asked'[f] = y - d
    BY <2>5, <2>6
  <2> HIDE DEF x, y
  <2>9. -MaxTick < x - d /\ x - d < b + Lazy /\ -Lazy < (y - d) - (x - d) /\ (y - d) - (x - d) < Lazy
    BY <1>2, <2>4, <2>7, Bounds
  <2> QED BY <1>1, <2>8, <2>9 DEF InTime
<1>6. TreeInv'
  BY <1>1 DEF TimerInv, TreeInv
<1>7. Timers!Tick(d)
  BY DEF Tick, Timers!Tick, timer_set
<1> QED BY <1>1, <1>3, <1>4, <1>5, <1>6, <1>7 DEF TimerInv, timer_set

\* The first timer goes off: it is not early.
LEMMA ExpireStep ==
  ASSUME TimerInv, ExpireTimer
  PROVE  /\ TimerInv' /\ \E e \in Nodes : Timers!Fire(e)
         /\ \A f \in timer_set : Left(ev') <= Left(f)
<1> DEFINE e == RbtreeMin(t, t.root)
<1>1. /\ expiring /\ Due(e) /\ t' = RbtreeDelete(t, e) /\ linked' = linked \ {e} /\ ev' = e
      /\ asked' = [asked EXCEPT ![e] = 0] /\ current_msec' = current_msec /\ expiring' = expiring
      /\ t.root # Sentinel
  BY DEF ExpireTimer, timer_set
<1>2. e \in linked /\ \A f \in linked : Left(e) <= Left(f)
  BY <1>1, FirstOK
<1> HIDE DEF e
<1>3. TimerInv'
  BY <1>1, <1>2, OutStep
<1>4. e \in Nodes /\ Left(e) \in Int /\ InTime(e) /\ asked[e] \in Int
  BY <1>2, TimersAround DEF TimerInv, timer_set
<1>5. asked[e] <= Timers!Slack
  <2>1. Left(e) <= 0 /\ asked[e] - Left(e) < Lazy
    BY <1>1, <1>4 DEF Due, InTime
  <2> DEFINE x == Left(e)
             y == asked[e]
  <2>2. x \in Int /\ y \in Int /\ x <= 0 /\ y - x < Lazy
    BY <1>4, <2>1
  <2> HIDE DEF x, y
  <2>3. y <= Lazy - 1
    BY <2>2, Bounds
  <2> QED BY <2>3 DEF Timers!Slack, y
<1>6. Timers!Fire(e)
  BY <1>1, <1>2, <1>5 DEF Timers!Fire, timer_set
<1> QED BY <1>1, <1>2, <1>3, <1>4, <1>6 DEF timer_set

\* The pass ends: no timer is late.
LEMMA DoneStep ==
  ASSUME TimerInv, ExpireDone
  PROVE  TimerInv' /\ Timers!Done
<1>1. /\ expiring /\ expiring' = FALSE /\ ev' = Null
      /\ t' = t /\ linked' = linked /\ asked' = asked /\ current_msec' = current_msec
      /\ t.root # Sentinel => ~Due(RbtreeMin(t, t.root))
  BY DEF ExpireDone
<1>2. ASSUME NEW f \in linked PROVE 0 < Left(f) /\ InTime(f) /\ f \in Nodes /\ Left(f) \in Int /\ asked[f] \in Int
  <2>1. InTime(f) /\ f \in Nodes /\ Left(f) \in Int /\ asked[f] \in Int
    BY TimersAround DEF TimerInv, timer_set
  <2> DEFINE e == RbtreeMin(t, t.root)
  <2>2. e \in linked /\ Left(e) <= Left(f) /\ ~Due(e)
    BY <1>1, FirstOK
  <2> HIDE DEF e
  <2>3. Left(e) \in Int
    BY <2>2, TimersAround
  <2>4. 0 < Left(e)
    BY <2>2, <2>3 DEF Due
  <2> QED BY <2>1, <2>2, <2>3, <2>4
<1>3. ASSUME NEW f \in linked' PROVE InTime(f)'
  <2>1. f \in linked /\ Left(f)' = Left(f)
    BY <1>1, SameLeft
  <2> QED BY <1>1, <1>2, <2>1 DEF InTime
<1>4. TimerInv'
  <2>1. TreeInv'
    BY <1>1 DEF TimerInv, TreeInv
  <2> QED BY <1>1, <1>3, <2>1 DEF TimerInv, timer_set
<1>5. ASSUME NEW f \in linked PROVE -Timers!Slack < asked[f]
  <2> DEFINE x == Left(f)
             y == asked[f]
  <2>1. x \in Int /\ y \in Int /\ 0 < x /\ -Lazy < y - x
    BY <1>2 DEF InTime
  <2> HIDE DEF x, y
  <2>2. -(Lazy - 1) < y
    BY <2>1, Bounds
  <2> QED BY <2>2 DEF Timers!Slack, y
<1>6. Timers!Done
  <2>1. \A f \in linked : asked[f] > -Timers!Slack
    <3> TAKE f \in linked
    <3>1. -Timers!Slack < asked[f] /\ asked[f] \in Int /\ Timers!Slack \in Int
      BY <1>2, <1>5, Bounds DEF Timers!Slack
    <3> QED BY <3>1
  <2> QED BY <1>1, <2>1 DEF Timers!Done, timer_set
<1> QED BY <1>4, <1>6

\* Every step keeps the invariant and is one of the set of timers, and what
\* goes off in it is due first.
LEMMA NextTimers ==
  TimerInv /\ [Next]_vars =>
    /\ TimerInv' /\ [Timers!Next]_(Timers!vars)
    /\ [ev' \notin {ev, Null} => \A f \in timer_set : Left(ev') <= Left(f)]_vars
<1> DEFINE First == ev' \notin {ev, Null} => \A f \in timer_set : Left(ev') <= Left(f)
<1> SUFFICES ASSUME TimerInv, [Next]_vars PROVE TimerInv' /\ [Timers!Next]_(Timers!vars) /\ [First]_vars
  OBVIOUS
<1>1. ASSUME NEW e \in Nodes, EventDelTimer(e) PROVE TimerInv' /\ Timers!Next /\ First
  <2>1. ev' = ev
    BY <1>1 DEF EventDelTimer
  <2> QED BY <1>1, <2>1, DelStep DEF Timers!Next
<1>2. ASSUME NEW e \in Nodes, NEW d \in Delays, EventAddTimer(e, d) PROVE TimerInv' /\ Timers!Next /\ First
  <2>1. ev' = ev
    BY <1>2 DEF EventAddTimer
  <2> QED BY <1>2, <2>1, AddStep DEF Timers!Next
<1>3. ASSUME NEW d \in 1..MaxTick, Tick(d) PROVE TimerInv' /\ Timers!Next /\ First
  <2>1. ev' = ev
    BY <1>3 DEF Tick
  <2> QED BY <1>3, <2>1, TickStep DEF Timers!Next
<1>4. CASE ExpireTimer
  BY <1>4, ExpireStep DEF Timers!Next
<1>5. CASE ExpireDone
  <2>1. ev' = Null
    BY <1>5 DEF ExpireDone
  <2> QED BY <1>5, <2>1, DoneStep DEF Timers!Next
<1>6. CASE UNCHANGED vars
  <2>1. TimerInv'
    BY <1>6 DEF vars, TimerInv, TreeInv, InTime, Left, timer_set
  <2>2. UNCHANGED Timers!vars
    BY <1>6 DEF vars, Timers!vars, timer_set
  <2> QED BY <1>6, <2>1, <2>2
<1> QED BY <1>1, <1>2, <1>3, <1>4, <1>5, <1>6 DEF Next

-----------------------------------------------------------------------------
(* The walk of event_no_timers_left(). *)

\* The rounds of its loop.
Skip(x) == IF x \in Cancelable THEN RbtreeNext(t, x) ELSE x

\* Where it is after i of them: it has passed i cancelable timers, or it has
\* stopped, at one that is not, or behind the last.
WalkStates(at, i) ==
  {x \in linked \cup {Null} :
     \/ x \in linked /\ i < at[x] /\ \A z \in linked : at[z] < at[x] => z \in Cancelable
     \/ x \in linked \ Cancelable
     \/ x = Null /\ linked \subseteq Cancelable}

\* A round leads from the states after one number of rounds to those after the next.
LEMMA SkipOK ==
  ASSUME NEW at, TreeGood(t, linked, at), NEW i \in Nat \ {0}, NEW x \in WalkStates(at, i - 1)
  PROVE  Skip(x) \in WalkStates(at, i)
<1>1. PICK D, bh : Shape(t, linked, at, D) /\ Even(t, linked, bh, {})
  BY DEF TreeGood
<1>2. Null \notin Cancelable /\ Null \notin linked
  BY <1>1, RedBlackAssumption, EventTimerAssumption DEF Shape
<1>3. \A z \in linked : at[z] \in Int
  BY <1>1 DEF Shape, Ordered
<1>4. CASE x \notin Cancelable
  <2>1. Skip(x) = x
    BY <1>4 DEF Skip
  <2>2. x \in linked \ Cancelable \/ (x = Null /\ linked \subseteq Cancelable)
    BY <1>4 DEF WalkStates
  <2> QED BY <2>1, <2>2 DEF WalkStates
<1>5. CASE x \in Cancelable
  <2> DEFINE y == RbtreeNext(t, x)
  <2>1. Skip(x) = y
    BY <1>5 DEF Skip
  <2>2. x \in linked /\ i - 1 < at[x] /\ \A z \in linked : at[z] < at[x] => z \in Cancelable
    BY <1>2, <1>5 DEF WalkStates
  <2>3. \/ y \in linked /\ at[x] < at[y] /\ \A z \in linked : at[x] < at[z] => ~(at[z] < at[y])
        \/ y = Null /\ \A z \in linked : ~(at[x] < at[z])
    BY <1>1, <2>2, NextOK DEF Follows, Toward
  <2> HIDE DEF y
  <2>4. ASSUME NEW z \in linked, ~(at[x] < at[z]) PROVE z \in Cancelable
    <3>1. at[z] < at[x] \/ at[z] = at[x]
      BY <1>3, <2>2, <2>4
    <3>2. at[z] = at[x] => z = x
      BY <1>1, <2>2 DEF Shape, Ordered
    <3> QED BY <1>5, <2>2, <3>1, <3>2
  <2>5. CASE y \in linked /\ at[x] < at[y] /\ \A z \in linked : at[x] < at[z] => ~(at[z] < at[y])
    <3>1. i < at[y]
      BY <1>3, <2>2, <2>5
    <3>2. \A z \in linked : at[z] < at[y] => z \in Cancelable
      BY <2>4, <2>5
    <3> QED BY <2>1, <2>5, <3>1, <3>2 DEF WalkStates
  <2>6. CASE y = Null /\ \A z \in linked : ~(at[x] < at[z])
    BY <2>1, <2>4, <2>6 DEF WalkStates
  <2> QED BY <2>3, <2>5, <2>6
<1> QED BY <1>4, <1>5

\* The walk ends at NULL if all timers are cancelable.
LEMMA WalkOK ==
  ASSUME TimerInv
  PROVE  NoTimersLeftOK
<1>1. PICK at : TreeGood(t, linked, at)
  BY DEF TimerInv, TreeInv
<1>2. PICK D, bh : Shape(t, linked, at, D) /\ Even(t, linked, bh, {})
  BY <1>1 DEF TreeGood
<1>3. CASE t.root = Sentinel
  <2>1. linked = {}
    BY <1>3, FirstOK
  <2>2. EventNoTimersLeft
    BY <1>3, Zenon DEF EventNoTimersLeft
  <2> QED BY <2>1, <2>2 DEF NoTimersLeftOK, timer_set
<1>4. CASE t.root # Sentinel
  <2> DEFINE m == RbtreeMin(t, t.root)
             G == [i \in 0..Limit |-> WalkStates(at, i)]
             f == [x \in linked \cup {Null} |-> Skip(x)]
             Run(g) == g = [i \in 0..Limit |-> IF i = 0 THEN m ELSE Skip(g[i - 1])]
  <2>1. /\ Limit \in Nat /\ Cardinality(linked) <= Limit /\ Cardinality(linked) \in Nat
        /\ \A x \in linked : at[x] \in 1..Cardinality(linked)
    BY <1>1, <1>2, Finite, ListingOK DEF TreeGood
  <2>2. m \in linked /\ \A z \in linked : ~(at[z] < at[m])
    <3>1. t.root \in linked /\ D[t.root] = linked
      BY <1>2, <1>4 DEF Shape
    <3> QED BY <1>2, <3>1, MinOK DEF Toward
  <2>3. m \in G[0]
    <3>1. 0 \in 0..Limit /\ 0 < at[m]
      BY <2>1, <2>2
    <3>2. m \in WalkStates(at, 0)
      <4> HIDE DEF m
      <4> QED BY <2>2, <3>1 DEF WalkStates
    <3> QED BY <3>1, <3>2
  <2>4. ASSUME NEW i \in 1..Limit, NEW x \in G[i - 1] PROVE f[x] = Skip(x) /\ Skip(x) \in G[i]
    <3>1. i - 1 \in 0..Limit /\ i \in 0..Limit /\ i \in Nat \ {0}
      BY <2>1
    <3>2. x \in WalkStates(at, i - 1)
      BY <3>1
    <3>3. Skip(x) \in WalkStates(at, i)
      BY <1>1, <3>1, <3>2, SkipOK
    <3>4. x \in linked \cup {Null}
      BY <3>2 DEF WalkStates
    <3> QED BY <3>1, <3>3, <3>4
  <2>5. \A x \in G[Limit] : x \in linked \ Cancelable \/ (x = Null /\ linked \subseteq Cancelable)
    <3> TAKE x \in G[Limit]
    <3>1. x \in WalkStates(at, Limit)
      BY <2>1
    <3>2. x \in linked => ~(Limit < at[x])
      BY <2>1
    <3> QED BY <3>1, <3>2 DEF WalkStates
  <2> HIDE DEF G, f, m
  <2>6. \E g : Run(g)
    <3>1. PICK g : Loop(Limit, f, m, g) /\ \A i \in 0..Limit : g[i] \in G[i]
      <4>1. \A i \in 1..Limit : \A s \in G[i - 1] : f[s] \in G[i]
        BY <2>4
      <4> QED BY <2>1, <2>3, <4>1, LoopRuns
    <3>2. \A i \in 0..Limit : g[i] = IF i = 0 THEN m ELSE Skip(g[i - 1])
      <4> TAKE i \in 0..Limit
      <4>1. i # 0 => i \in 1..Limit /\ i - 1 \in 0..Limit
        BY <2>1
      <4>2. g[i] = IF i = 0 THEN m ELSE f[g[i - 1]]
        BY <3>1 DEF Loop
      <4> QED BY <2>4, <3>1, <4>1, <4>2
    <3>3. g = [i \in 0..Limit |-> g[i]]
      BY <3>1 DEF Loop
    <3> QED BY <3>2, <3>3
  <2>7. PICK g : Run(g) /\ (EventNoTimersLeft <=> t.root = Sentinel \/ g[Limit] = Null)
    BY <2>6, Zenon DEF EventNoTimersLeft, Skip, m
  <2>8. \A i \in 0..Limit : g[i] \in G[i]
    <3>1. \A i \in 0..Limit : g[i] = IF i = 0 THEN m ELSE Skip(g[i - 1])
      BY <2>7
    <3>2. g[0] \in G[0]
      BY <2>1, <2>3, <3>1
    <3>3. ASSUME NEW i \in 1..Limit, g[i - 1] \in G[i - 1] PROVE g[i] \in G[i]
      <4>1. g[i] = Skip(g[i - 1])
        BY <3>1
      <4> QED BY <2>4, <3>3, <4>1
    <3> QED BY <2>1, <3>2, <3>3, LoopStays
  <2>9. g[Limit] \in linked \ Cancelable \/ (g[Limit] = Null /\ linked \subseteq Cancelable)
    BY <2>1, <2>5, <2>8
  <2>10. Null \notin linked
    BY <1>2, EndsOK DEF Shape, Ends
  <2>11. EventNoTimersLeft <=> linked \subseteq Cancelable
    BY <1>4, <2>7, <2>9, <2>10
  <2> QED BY <2>11 DEF NoTimersLeftOK, timer_set
<1> QED BY <1>3, <1>4

-----------------------------------------------------------------------------
(* The theorems. *)

\* The tree has the timers that are set, and each in its time (event_timer.c:41-140).
THEOREM SpecTimerInv == Spec => []TimerInv
BY InitTimers, NextTimers, PTL DEF Spec

\* The time-out for epoll_wait() is right (event_find_timer(), event_timer.c:21-38).
THEOREM SpecFindTimerOK == Spec => []FindTimerOK
<1>1. TimerInv => FindTimerOK
  <2> SUFFICES ASSUME TimerInv PROVE FindTimerOK
    OBVIOUS
  <2>1. CASE linked = {}
    <3>1. EventFindTimer = Infinite
      BY <2>1, FirstOK DEF EventFindTimer
    <3> QED BY <2>1, <3>1 DEF FindTimerOK, timer_set
  <2>2. CASE linked # {}
    <3> DEFINE e == RbtreeMin(t, t.root)
    <3>1. t.root # Sentinel /\ e \in linked /\ \A f \in linked : Left(e) <= Left(f)
      BY <2>2, FirstOK
    <3>2. EventFindTimer = IF Left(e) > 0 THEN Left(e) ELSE 0
      BY <3>1 DEF EventFindTimer
    <3> HIDE DEF e
    <3> QED BY <2>2, <3>1, <3>2 DEF FindTimerOK, timer_set
  <2> QED BY <2>1, <2>2
<1> QED BY <1>1, SpecTimerInv, PTL

\* Cancelable timers do not keep the process (event_no_timers_left(), event_timer.c:74-97).
THEOREM SpecNoTimersLeftOK == Spec => []NoTimersLeftOK
BY WalkOK, SpecTimerInv, PTL

\* Timers go off in the order of their times (event_expire_timers(), event_timer.c:41-71).
THEOREM SpecFiresEarliest == Spec => FiresEarliest
BY InitTimers, NextTimers, PTL DEF Spec, FiresEarliest

\* They go off when asked to, give or take the lazy delay (event_timer.c:41-140).
THEOREM SpecImplementsTimerSet == Spec => ImplementsTimerSet
BY InitTimers, NextTimers, PTL DEF Spec, ImplementsTimerSet, Timers!Spec
=============================================================================
