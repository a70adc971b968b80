---------------------------- MODULE MCEventLoop ----------------------------
(* Small instances of the event loop for TLC. *)
EXTENDS EventLoopProperties, TLC

\* Clients are interchangeable.  Sound for the runs without liveness.
Symmetry == Permutations(Socks)

\* What a client did before its socket was closed, or taken by another worker,
\* is read by nobody again.
Remembered ==
  <<workerVars, alarm, backlog, unread,
    [s \in Socks |-> IF Reachable(s) \/ peer[s] = "new" THEN peer[s] ELSE "over"]>>
=============================================================================
