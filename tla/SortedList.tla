----------------------------- MODULE SortedList -----------------------------
(***************************************************************************)
(* What a red-black tree with duplicate keys promises: a list of its nodes *)
(* in the order of their keys, equal keys in the order of their insertion. *)
(***************************************************************************)
EXTENDS Integers, Sequences

CONSTANTS
  Nodes,
  Keys,
  Less     \* the pairs of keys of which the first is less

VARIABLE list    \* of [node, key]

Members == LET l == list IN {l[i].node : i \in DOMAIN l}

Init == list = <<>>

\* A new node goes behind all that its key is not less than.
Insert(k) ==
  LET l == list
  IN  \E p \in 0..Len(l) :
        /\ \A i \in DOMAIN l : i <= p <=> <<k, l[i].key>> \notin Less
        /\ list' \in {SubSeq(l, 1, p) \o <<[node |-> n, key |-> k]>> \o SubSeq(l, p + 1, Len(l)) : n \in Nodes \ Members}

Delete == LET l == list IN list' \in {SubSeq(l, 1, i - 1) \o SubSeq(l, i + 1, Len(l)) : i \in DOMAIN l}

Next == Delete \/ \E k \in Keys : Insert(k)

Spec == Init /\ [][Next]_list
=============================================================================
