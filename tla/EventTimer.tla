----------------------------- MODULE EventTimer -----------------------------
(***************************************************************************)
(* event_timer.c: the timers of events in a red-black tree, keyed by the   *)
(* millisecond they are due at, in an unsigned integer that overflows.     *)
(*                                                                         *)
(* The worker moves the clock at most once per iteration and then runs     *)
(* event_expire_timers() (event.c:120-135).  Handlers add and delete       *)
(* timers before that pass, within it and after it.                        *)
(***************************************************************************)
EXTENDS RBTree

CONSTANTS
  Cancelable,   \* the events with ev->cancelable
  Delays,
  Lazy,
  MaxTick

ASSUME EventTimerAssumption ==
  /\ Cancelable \subseteq Nodes
  /\ Delays \subseteq Nat \ {0}
  /\ Lazy \in Nat \ {0}
  /\ MaxTick \in Nat \ {0}
  /\ \A d \in Delays : d + MaxTick + Lazy < Half

VARIABLES
  current_msec,
  expiring,   \* the clock has moved, and event_expire_timers() has not returned
  ev,         \* in event_expire_timers(): the event whose handler is called
  asked       \* history: the time asked for last minus current_msec

\* The events with ev->timer_set are the nodes linked in t, event_timer_rbtree.
timer_set == linked

vars == <<current_msec, t, linked, expiring, ev, asked>>

Init ==
  /\ current_msec = 0 /\ TreeInit /\ expiring = FALSE /\ ev = Null
  /\ asked = [e \in Nodes |-> 0]

Wrapped(k) == k % Circle
Left(e) == Signed(t.key[e], current_msec)

\* Faulty variant: without c_abs(), a timer cannot be shortened.
StaysPutShortened(e, key) == e \in timer_set /\ Signed(key, t.key[e]) < Lazy

\* c_abs(key - ev->timer.key) < TIMER_LAZY_DELAY
StaysPut(e, key) ==
  /\ e \in timer_set
  /\ LET diff == Signed(key, t.key[e]) IN diff \in -(Lazy - 1)..(Lazy - 1)

\* event_add_timer()
EventAddTimer(e, d) ==
  LET key   == Wrapped(current_msec + d)
      clean == IF e \in timer_set THEN RbtreeDelete(t, e) ELSE t
  IN  /\ t' = IF StaysPut(e, key) THEN t ELSE RbtreeInsert(clean, e, key)
      /\ linked' = linked \cup {e}
      /\ asked' = [asked EXCEPT ![e] = d]
      /\ UNCHANGED <<current_msec, expiring, ev>>

\* event_del_timer(), which all callers call for ev->timer_set only.
EventDelTimer(e) ==
  /\ e \in timer_set
  /\ t' = RbtreeDelete(t, e)
  /\ linked' = linked \ {e}
  /\ asked' = [asked EXCEPT ![e] = 0]
  /\ UNCHANGED <<current_msec, expiring, ev>>

\* stime_update() in epoll_process_events() moves current_msec.
Tick(d) ==
  /\ ~expiring
  /\ expiring' = TRUE
  /\ current_msec' = Wrapped(current_msec + d)
  /\ asked' = [e \in Nodes |-> IF e \in timer_set THEN asked[e] - d ELSE 0]
  /\ UNCHANGED <<t, linked, ev>>

Due(e) == Left(e) <= 0

\* A round of event_expire_timers(), up to the call of the handler.
ExpireTimer ==
  /\ expiring
  /\ t.root # Sentinel
  /\ LET e == RbtreeMin(t, t.root)
     IN  /\ Due(e)
         /\ t' = RbtreeDelete(t, e)
         /\ linked' = linked \ {e}
         /\ ev' = e
         /\ asked' = [asked EXCEPT ![e] = 0]
  /\ UNCHANGED <<current_msec, expiring>>

\* event_expire_timers() returns.
ExpireDone ==
  /\ expiring
  /\ t.root # Sentinel => ~Due(RbtreeMin(t, t.root))
  /\ expiring' = FALSE /\ ev' = Null
  /\ UNCHANGED <<current_msec, t, linked, asked>>

Next ==
  \/ \E e \in Nodes : EventDelTimer(e) \/ \E d \in Delays : EventAddTimer(e, d)
  \/ \E d \in 1..MaxTick : Tick(d)
  \/ ExpireTimer \/ ExpireDone

Spec == Init /\ [][Next]_vars

-----------------------------------------------------------------------------
Infinite == -1   \* TIMER_INFINITE

\* Faulty variant: an overdue timer gives a negative timeout, which waits for ever.
EventFindTimerSigned ==
  IF t.root = Sentinel THEN Infinite ELSE Left(RbtreeMin(t, t.root))

\* event_find_timer()
EventFindTimer ==
  IF t.root = Sentinel THEN Infinite
  ELSE LET timer == Left(RbtreeMin(t, t.root)) IN IF timer > 0 THEN timer ELSE 0

\* Faulty variant: only the first timer is looked at.
EventNoTimersLeftFirst == t.root = Sentinel \/ RbtreeMin(t, t.root) \in Cancelable

\* event_no_timers_left() returns 0: its walk stops at the first event that is
\* not cancelable, or at NULL.
EventNoTimersLeft ==
  LET Skip(x) == IF x \in Cancelable THEN RbtreeNext(t, x) ELSE x
      at[i \in 0..Limit] == IF i = 0 THEN RbtreeMin(t, t.root) ELSE Skip(at[i - 1])
  IN  t.root = Sentinel \/ at[Limit] = Null

-----------------------------------------------------------------------------
\* The time-out for epoll_wait() is that of the earliest timer, 0 when one is
\* due, also when current_msec and the keys lie on two sides of the overflow.
FindTimerOK ==
  IF timer_set = {} THEN EventFindTimer = Infinite
  ELSE \E e \in timer_set : /\ \A f \in timer_set : Left(e) <= Left(f)
                            /\ EventFindTimer = IF Left(e) > 0 THEN Left(e) ELSE 0

\* A shutdown may go on when only cancelable timers are left, and only then.
NoTimersLeftOK == EventNoTimersLeft <=> timer_set \subseteq Cancelable

\* A pass calls the handlers in the order of the times in the tree, timers
\* that earlier handlers of the same pass have added included.
FiresEarliest ==
  [][ev' \notin {ev, Null} => \A f \in timer_set : Left(ev') <= Left(f)]_vars

Timers == INSTANCE TimerSet WITH armed <- timer_set

\* Skipping short postponements never adds up: a timer goes off less than
\* TIMER_LAZY_DELAY away from the last time asked for, in the pass for it.
ImplementsTimerSet == Timers!Spec
=============================================================================
