-------------------------- MODULE QueueOfSequence --------------------------
(***************************************************************************)
(* What queue.h promises: every queue is a sequence of its elements.       *)
(***************************************************************************)
EXTENDS Integers, Sequences

CONSTANTS
  Heads, Elts,
  Key

VARIABLE lists   \* the elements of each queue

Queued == UNION {{lists[h][i] : i \in DOMAIN lists[h]} : h \in Heads}
Before(h, i) == SubSeq(lists[h], 1, i)
From(h, i) == SubSeq(lists[h], i, Len(lists[h]))

\* What p lists is in the order of the keys, and among equal keys as it was in s.
Sorts(p, s) ==
  \A i, j \in DOMAIN s : i < j =>
    Key[s[p[i]]] < Key[s[p[j]]] \/ (Key[s[p[i]]] = Key[s[p[j]]] /\ p[i] < p[j])

Init == lists = [h \in Heads |-> <<>>]

Insert(h, x) ==
  /\ x \notin Queued
  /\ \E i \in 0..Len(lists[h]) :
       lists' = [lists EXCEPT ![h] = Before(h, i) \o <<x>> \o From(h, i + 1)]

Drop(h, i) == lists' = [lists EXCEPT ![h] = Before(h, i - 1) \o From(h, i + 1)]

Split(h, i, n) ==
  /\ lists[n] = <<>>
  /\ lists' = [lists EXCEPT ![h] = Before(h, i - 1), ![n] = From(h, i)]

Join(h, n) ==
  /\ h # n
  /\ lists' = [lists EXCEPT ![h] = @ \o lists[n], ![n] = <<>>]

Sort(h) ==
  LET s == lists[h]
  IN  /\ lists' # lists
      /\ \E p \in [DOMAIN s -> DOMAIN s] :
           Sorts(p, s) /\ lists' = [lists EXCEPT ![h] = [k \in DOMAIN s |-> s[p[k]]]]

Next ==
  \E h \in Heads :
    \/ \E x \in Elts : Insert(h, x)
    \/ \E i \in DOMAIN lists[h] : Drop(h, i)
    \/ \E n \in Heads : Join(h, n) \/ \E i \in DOMAIN lists[h] : Split(h, i, n)
    \/ Sort(h)

Spec == Init /\ [][Next]_lists
=============================================================================
