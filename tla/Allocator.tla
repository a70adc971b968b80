----------------------------- MODULE Allocator -----------------------------
(***************************************************************************)
(* What a memory pool promises its callers: memory that nobody else has,   *)
(* within what the pool has from the operating system, aligned if asked    *)
(* for, and that stays where it is until it is given back.                 *)
(***************************************************************************)
EXTENDS Integers

CONSTANTS
  Heap,       \* memory from malloc(), whose chunks lie in a block of their own
  HeaderSize, \* of a block
  BlockSize,
  Alignment

VARIABLE inUse   \* a set of chunks

Apart(c, d) == c.blk # d.blk \/ c.to <= d.from \/ d.to <= c.from

WellPlaced(c) ==
  /\ c.from < c.to
  /\ c.aligned => c.from % Alignment = 0
  /\ c.blk \notin Heap => HeaderSize <= c.from /\ c.to <= BlockSize

Init == inUse = {}

New == inUse' \ inUse
Gone == inUse \ inUse'

\* New chunks, apart from each other and from all that is in use.
Fresh ==
  \A c \in New : WellPlaced(c) /\ \A d \in inUse' \ {c} : Apart(c, d)

Take == Gone = {} /\ Fresh

\* A chunk that gets longer at its end.
Grow ==
  \E c \in Gone, d \in New :
    /\ Gone = {c} /\ New = {d} /\ Fresh
    /\ d = [c EXCEPT !.to = d.to] /\ d.to > c.to

GiveBack == New = {}

Next == Take \/ Grow \/ GiveBack

Spec == Init /\ [][Next]_inUse
=============================================================================
