------------------------------ MODULE TimerSet ------------------------------
(***************************************************************************)
(* What event_timer.c promises to the owners of events: a timer goes off   *)
(* in the first pass of event_expire_timers() after its time, give or take *)
(* less than Lazy milliseconds, and only then.                             *)
(***************************************************************************)
EXTENDS Integers

CONSTANTS
  Nodes,    \* the events
  Delays,   \* the values that callers pass to event_add_timer()
  Lazy,     \* TIMER_LAZY_DELAY
  Null,
  MaxTick   \* the most that the clock moves between two passes

VARIABLES
  armed,    \* the events that have a timer
  asked,    \* for each event, the time its owner asked for minus the time now
  expiring, \* the clock has moved, and the pass is not over
  ev        \* the event that went off last in this pass

vars == <<armed, asked, expiring, ev>>

\* A timer may be this much early or late: the difference is less than Lazy.
Slack == Lazy - 1

Init == armed = {} /\ asked = [e \in Nodes |-> 0] /\ expiring = FALSE /\ ev = Null

Add(e, d) ==
  /\ armed' = armed \cup {e}
  /\ asked' = [asked EXCEPT ![e] = d]
  /\ UNCHANGED <<expiring, ev>>

Del(e) ==
  /\ e \in armed
  /\ armed' = armed \ {e}
  /\ asked' = [asked EXCEPT ![e] = 0]
  /\ UNCHANGED <<expiring, ev>>

Tick(d) ==
  /\ ~expiring
  /\ expiring' = TRUE
  /\ asked' = [e \in Nodes |-> IF e \in armed THEN asked[e] - d ELSE 0]
  /\ UNCHANGED <<armed, ev>>

Fire(e) ==
  /\ expiring
  /\ e \in armed /\ asked[e] <= Slack
  /\ armed' = armed \ {e}
  /\ asked' = [asked EXCEPT ![e] = 0]
  /\ ev' = e
  /\ UNCHANGED expiring

Done ==
  /\ expiring
  /\ \A e \in armed : asked[e] > -Slack
  /\ expiring' = FALSE /\ ev' = Null
  /\ UNCHANGED <<armed, asked>>

Next ==
  \/ \E e \in Nodes : Del(e) \/ Fire(e) \/ \E d \in Delays : Add(e, d)
  \/ \E d \in 1..MaxTick : Tick(d)
  \/ Done

Spec == Init /\ [][Next]_vars
=============================================================================
