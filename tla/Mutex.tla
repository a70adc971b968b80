------------------------------- MODULE Mutex -------------------------------
(***************************************************************************)
(* What a lock between processes promises, whatever it is made of: one     *)
(* process at a time is inside, it leaves by itself, and a process that    *)
(* dies inside keeps the lock for good.                                    *)
(***************************************************************************)
CONSTANT Procs

VARIABLES
  inside,  \* the process that has the lock, as a set
  dead

Init == inside = {} /\ dead = {}

Enter(p) ==
  /\ inside = {} /\ p \notin dead
  /\ inside' = {p}
  /\ UNCHANGED dead

Leave(p) ==
  /\ inside = {p} /\ p \notin dead
  /\ inside' = {}
  /\ UNCHANGED dead

Die(p) ==
  /\ p \notin dead
  /\ dead' = dead \cup {p}
  /\ UNCHANGED inside

Next == \E p \in Procs : Enter(p) \/ Leave(p) \/ Die(p)

Spec == Init /\ [][Next]_<<inside, dead>>
=============================================================================
