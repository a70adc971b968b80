------------------------------ MODULE MCQueue ------------------------------
EXTENDS Queue

\* Of the elements 1..5, two and two have equal keys.
Halves == [e \in Elts |-> e \div 2]

\* Links that are in no queue are written before they are read: states that
\* differ in them are one.
Rings == <<[x \in InRing |-> <<prev[x], next[x]>>], ready, linked, sort>>
=============================================================================
