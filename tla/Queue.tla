------------------------------- MODULE Queue -------------------------------
(***************************************************************************)
(* queue.h and queue.c: rings of links through a head, changed by macros   *)
(* that assign pointers one after the other.  One thread inserts links     *)
(* that are in no queue and removes links that are in one; queue_sort() is *)
(* taken apart into the passes of its loops.                               *)
(***************************************************************************)
EXTENDS Integers, FiniteSets, Sequences

CONSTANTS
  Heads,
  Elts,   \* links within data
  Key,    \* by which cmp() compares: a number for each of Elts
  Null

ASSUME QueueAssumption ==
  /\ Heads \cap Elts = {}
  /\ Key \in [Elts -> Int]
  /\ IsFiniteSet(Heads) /\ IsFiniteSet(Elts)

VARIABLES
  prev, next,  \* of all links, stale in those that are in no queue
  ready,       \* heads that queue_init() or queue_split() has set up
  linked,      \* elements in a queue
  sort         \* queue_sort(): its queue, pointers and place, or Null

vars == <<prev, next, ready, linked, sort>>

Links == Heads \cup Elts

\* queue_sort() at work on the queue h: "take" before its outer and "compare"
\* in its inner loop, its three pointers, and the queue as it was given.
Sorting ==
  [h : Heads, at : {"take", "compare"}, q : Links,
   prev : Links \cup {Null}, next : Links \cup {Null}, before : Seq(Elts)]

ASSUME NullAssumption == Null \notin Sorting

Idle == sort = Null

Init ==
  /\ prev = [x \in Links |-> x] /\ next = [x \in Links |-> x]
  /\ ready = {} /\ linked = {} /\ sort = Null

\* The k-th link behind x, and the elements behind h up to h again: no more
\* than there are.
Hop(x) == LET hop[k \in 0..(2 * Cardinality(Links))] == IF k = 0 THEN x ELSE next[hop[k - 1]] IN hop

Walk(h) ==
  LET hop == Hop(h)
      len == CHOOSE k \in 0..Cardinality(Elts) :
               /\ hop[k + 1] = h \/ k = Cardinality(Elts)
               /\ \A j \in 1..k : hop[j] # h
  IN  [k \in 1..len |-> hop[k]]

Members(h) == LET walk == Walk(h) IN {walk[k] : k \in DOMAIN walk}

-----------------------------------------------------------------------------
QueueInit(h) ==
  /\ Idle /\ h \notin ready
  /\ prev' = [prev EXCEPT ![h] = h] /\ next' = [next EXCEPT ![h] = h]
  /\ ready' = ready \cup {h}
  /\ UNCHANGED <<linked, sort>>

\* queue_insert_head() and queue_insert_after(): what the two functions become.
PutAfter(at, x) ==
  /\ next' = [next EXCEPT ![x] = next[at], ![at] = x]
  /\ prev' = [prev EXCEPT ![next[at]] = x, ![x] = at]

\* queue_remove(): x keeps its pointers.
TakeOut(x) ==
  /\ prev' = [prev EXCEPT ![next[x]] = prev[x]]
  /\ next' = [next EXCEPT ![prev[x]] = next[x]]

QueueInsertAfter(at, x) ==
  /\ Idle /\ at \in ready \cup linked /\ x \notin linked
  /\ PutAfter(at, x)
  /\ linked' = linked \cup {x}
  /\ UNCHANGED <<ready, sort>>

\* Faulty variant: the old last element still points to the head.
QueueInsertTailKeepsNext(h, x) ==
  /\ Idle /\ h \in ready /\ x \notin linked
  /\ prev' = [prev EXCEPT ![x] = prev[h], ![h] = x]
  /\ next' = [next EXCEPT ![x] = h]
  /\ linked' = linked \cup {x}
  /\ UNCHANGED <<ready, sort>>

QueueInsertTail(h, x) ==
  /\ Idle /\ h \in ready /\ x \notin linked
  /\ prev' = [prev EXCEPT ![x] = prev[h], ![h] = x]
  /\ next' = [next EXCEPT ![prev[h]] = x, ![x] = h]
  /\ linked' = linked \cup {x}
  /\ UNCHANGED <<ready, sort>>

QueueRemove(x) ==
  /\ Idle /\ x \in linked
  /\ TakeOut(x)
  /\ linked' = linked \ {x}
  /\ UNCHANGED <<ready, sort>>

\* queue_split(): q and what is behind it go to n.  q is an element; with the
\* head itself, which is what queue_middle() returns for an empty queue, the
\* macro would leave a queue that is neither empty nor has elements.
QueueSplit(h, q, n) ==
  /\ Idle /\ h \in ready /\ q \in Members(h)
  /\ n # h /\ (n \in ready => next[n] = n)
  /\ LET last  == prev[h]
         next1 == [next EXCEPT ![last] = n, ![n] = q]
     IN  /\ prev' = [prev EXCEPT ![n] = last, ![h] = prev[q], ![q] = n]
         /\ next' = [next1 EXCEPT ![prev[q]] = h]
  /\ ready' = ready \cup {n}
  /\ UNCHANGED <<linked, sort>>

\* queue_add(): the elements of n behind those of h.  If n has none, the second
\* assignment changes n's own prev, which the third one then reads.
QueueAdd(h, n) ==
  /\ Idle /\ {h, n} \subseteq ready /\ h # n
  /\ LET prev2 == [prev EXCEPT ![next[n]] = prev[h]]
         last  == prev2[n]
     IN  /\ prev' = [prev2 EXCEPT ![h] = last]
         /\ next' = [[next EXCEPT ![prev[h]] = next[n]] EXCEPT ![last] = h]
  /\ ready' = ready \ {n}
  /\ UNCHANGED <<linked, sort>>

\* Faulty variant: the end is looked for in every second step only.
QueueMiddleSkips(h) ==
  LET hop == Hop(next[h])
      k   == CHOOSE k \in 1..Cardinality(Links) :
               /\ hop[2 * k] = prev[h] \/ k = Cardinality(Links)
               /\ \A j \in 1..(k - 1) : hop[2 * j] # prev[h]
  IN  IF next[h] = prev[h] THEN next[h] ELSE hop[k]

\* queue_middle(): one pointer goes on two links while the other goes on one.
QueueMiddle(h) ==
  LET hop == Hop(next[h])
      k   == CHOOSE k \in 1..Cardinality(Links) :
               /\ prev[h] \in {hop[2 * k - 1], hop[2 * k]} \/ k = Cardinality(Links)
               /\ \A j \in 1..(k - 1) : prev[h] \notin {hop[2 * j - 1], hop[2 * j]}
  IN  IF next[h] = prev[h] THEN next[h] ELSE hop[k]

-----------------------------------------------------------------------------
\* queue_sort() up to its loop; a queue of at most one element stays as it is.
SortBegin(h) ==
  /\ Idle /\ h \in ready /\ next[h] # prev[h]
  /\ sort' = [h |-> h, at |-> "take", q |-> next[next[h]], prev |-> Null, next |-> Null, before |-> Walk(h)]
  /\ UNCHANGED <<prev, next, ready, linked>>

\* The next element leaves the queue.
SortTake ==
  /\ ~Idle /\ sort.at = "take" /\ sort.q # sort.h
  /\ sort' = [sort EXCEPT !.at = "compare", !.prev = prev[sort.q], !.next = next[sort.q]]
  /\ TakeOut(sort.q)
  /\ UNCHANGED <<ready, linked>>

\* Faulty variant: equal elements change places.
GreaterOrEqual(x, y) == Key[x] >= Key[y]

\* cmp(x, y) > 0
Greater(x, y) == Key[x] > Key[y]

SortBack ==
  /\ ~Idle /\ sort.at = "compare"
  /\ Greater(sort.prev, sort.q) /\ prev[sort.prev] # sort.h
  /\ sort' = [sort EXCEPT !.prev = prev[sort.prev]]
  /\ UNCHANGED <<prev, next, ready, linked>>

\* It comes back behind one that is not greater, or first.
SortPlace ==
  /\ ~Idle /\ sort.at = "compare"
  /\ Greater(sort.prev, sort.q) => prev[sort.prev] = sort.h
  /\ PutAfter(IF Greater(sort.prev, sort.q) THEN sort.h ELSE sort.prev, sort.q)
  /\ sort' = [sort EXCEPT !.at = "take", !.q = sort.next, !.prev = Null, !.next = Null]
  /\ UNCHANGED <<ready, linked>>

SortEnd ==
  /\ ~Idle /\ sort.at = "take" /\ sort.q = sort.h
  /\ sort' = Null
  /\ UNCHANGED <<prev, next, ready, linked>>

Next ==
  \/ SortTake \/ SortBack \/ SortPlace \/ SortEnd
  \/ \E h \in Heads :
       \/ QueueInit(h) \/ SortBegin(h)
       \/ \E x \in Elts : QueueInsertTail(h, x)
       \/ \E n \in Heads : QueueAdd(h, n) \/ \E q \in Elts : QueueSplit(h, q, n)
  \/ \E x \in Elts : QueueRemove(x) \/ \E at \in Links : QueueInsertAfter(at, x)

Spec == Init /\ [][Next]_vars

-----------------------------------------------------------------------------
TypeOK ==
  /\ prev \in [Links -> Links] /\ next \in [Links -> Links]
  /\ ready \subseteq Heads /\ linked \subseteq Elts
  /\ sort \in Sorting \cup {Null}
  /\ ~Idle => sort.h \in ready /\ sort.q \in linked \cup {sort.h}

\* The links that are in a ring: while an element is being sorted it is not.
InRing == ready \cup (IF sort # Null /\ sort.at = "compare" THEN linked \ {sort.q} ELSE linked)

\* The two directions agree in every ring, and none leads to a link that is in
\* no queue, in whichever order queues were filled, split, joined and sorted.
PrevMirrorsNext ==
  \A x \in InRing :
    /\ next[x] \in InRing /\ prev[next[x]] = x
    /\ prev[x] \in InRing /\ next[prev[x]] = x

\* queue.c:2-5: the middle element of an odd number of elements, and the first
\* of the second part otherwise.
MiddleIsMiddle ==
  \A h \in ready : Idle /\ next[h] # h => QueueMiddle(h) = Walk(h)[(Len(Walk(h)) \div 2) + 1]

\* The elements of each queue; one that is being sorted is as it was until it is
\* as it will be.
Lists ==
  [h \in Heads |-> IF h \notin ready THEN <<>>
                   ELSE IF ~Idle /\ sort.h = h THEN sort.before ELSE Walk(h)]

\* Queues are sequences, and queue_sort() is the stable sort that its comment
\* (queue.c:35) calls it.
Q == INSTANCE QueueOfSequence WITH lists <- Lists
ImplementsSequences == Q!Spec
=============================================================================
