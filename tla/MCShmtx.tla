------------------------------ MODULE MCShmtx ------------------------------
(* A small instance of the lock for TLC. *)
EXTENDS Shmtx

\* shmtx.c stores the pid of the process.
Pid == [p \in Procs |-> p]
=============================================================================
