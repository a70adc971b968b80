---------------------------- MODULE MCTimeCache ----------------------------
EXTENDS TimeCache

\* The last days before 1970, a cycle of the calendar from then on, the last
\* year that is supported, and what is behind it.
CycleAndEnd == -2..146096 \cup (LastDay - 365)..(LastDay + 3)
=============================================================================
