----------------------------- MODULE TimeCache -----------------------------
(***************************************************************************)
(* times.c: the cached time, in a ring of slots that stime_update() writes *)
(* under a lock, for readers that take none (times.c:6-13).  Threads and   *)
(* signal handlers update; a reader loads cached_time and copies the       *)
(* fields of the slot one by one.                                          *)
(*                                                                         *)
(* Milliseconds are told apart by the second that they belong to.          *)
(***************************************************************************)
EXTENDS Calendar, FiniteSets

CONSTANTS
  TIME_SLOTS,
  Updaters,
  Readers,
  Seconds,   \* what gettimeofday() may say
  Days,      \* for which sgmtime() is checked
  Null

ASSUME TimeCacheAssumption ==
  /\ TIME_SLOTS \in Nat /\ TIME_SLOTS >= 3
  /\ Seconds \subseteq Nat \ {0} /\ Seconds # {}
  /\ Days \subseteq Int
  /\ Null \notin Int

VARIABLES
  now,        \* the second of the system's clock
  slots,      \* scached_time: sec, and the second that msec belongs to
  slot,       \* index of the newest
  cached,     \* cached_time, as an index
  time_lock,
  updater,    \* per thread its place in stime_update(), and the local sec
  reader      \* per thread its place, the pointer it has, when it got it, and what it copied

vars == <<now, slots, slot, cached, time_lock, updater, reader>>

Indices == 0..(TIME_SLOTS - 1)
NoCopy == [ptr |-> Null, since |-> 0, sec |-> Null, msec |-> Null]

\* stime_init() has no caller: cached_time is NULL before the first update.
Init ==
  /\ now \in Seconds
  /\ slots = [i \in Indices |-> [sec |-> 0, msec |-> 0]]
  /\ slot = 0 /\ cached = Null /\ time_lock = 0
  /\ updater = [u \in Updaters |-> [at |-> "out", sec |-> 0]]
  /\ reader = [r \in Readers |-> NoCopy]

-----------------------------------------------------------------------------
At(u, place) == updater[u].at = place
Goto(u, place) == updater' = [updater EXCEPT ![u].at = place]

\* Faulty variant: the lock is not asked for.
TrylockUnlocked(u) ==
  /\ At(u, "out")
  /\ time_lock' = 1 /\ Goto(u, "locked")
  /\ UNCHANGED <<now, slots, slot, cached, reader>>

\* stime_update() of a thread that does not win the lock returns.
Trylock(u) ==
  /\ At(u, "out") /\ time_lock = 0
  /\ time_lock' = 1 /\ Goto(u, "locked")
  /\ UNCHANGED <<now, slots, slot, cached, reader>>

\* Faulty variant: every update takes another slot.
GettimeofdayAlwaysNew(u) ==
  /\ At(u, "locked")
  /\ updater' = [updater EXCEPT ![u] = [at |-> "new", sec |-> now]]
  /\ UNCHANGED <<now, slots, slot, cached, time_lock, reader>>

\* In the second of the newest slot its milliseconds are written in place.
Gettimeofday(u) ==
  /\ At(u, "locked")
  /\ updater' = [updater EXCEPT ![u] =
       [at |-> IF slots[slot].sec = now THEN "done" ELSE "new", sec |-> now]]
  /\ UNCHANGED <<now, slots, slot, cached, time_lock, reader>>

WriteSec(u) ==
  /\ At(u, "new")
  /\ LET next == IF slot = TIME_SLOTS - 1 THEN 0 ELSE slot + 1
     IN  slot' = next /\ slots' = [slots EXCEPT ![next].sec = updater[u].sec]
  /\ Goto(u, "sec")
  /\ UNCHANGED <<now, cached, time_lock, reader>>

WriteMsec(u) ==
  /\ At(u, "sec")
  /\ slots' = [slots EXCEPT ![slot].msec = updater[u].sec]
  /\ Goto(u, "msec")
  /\ UNCHANGED <<now, slot, cached, time_lock, reader>>

Publish(u) ==
  /\ At(u, "msec")
  /\ cached' = slot /\ Goto(u, "done")
  /\ UNCHANGED <<now, slots, slot, time_lock, reader>>

Unlock(u) ==
  /\ At(u, "done")
  /\ time_lock' = 0 /\ Goto(u, "out")
  /\ UNCHANGED <<now, slots, slot, cached, reader>>

-----------------------------------------------------------------------------
\* A reader of stime() and stimeofday(): the pointer, then the fields.
LoadPointer(r) ==
  /\ cached # Null
  /\ reader' = [reader EXCEPT ![r] = [NoCopy EXCEPT !.ptr = cached, !.since = now]]
  /\ UNCHANGED <<now, slots, slot, cached, time_lock, updater>>

CopySec(r) ==
  /\ reader[r].ptr # Null /\ reader[r].sec = Null
  /\ reader' = [reader EXCEPT ![r].sec = slots[reader[r].ptr].sec]
  /\ UNCHANGED <<now, slots, slot, cached, time_lock, updater>>

CopyMsec(r) ==
  /\ reader[r].ptr # Null /\ reader[r].msec = Null
  /\ reader' = [reader EXCEPT ![r].msec = slots[reader[r].ptr].msec]
  /\ UNCHANGED <<now, slots, slot, cached, time_lock, updater>>

\* The clock goes on, by any number of seconds, and is not set back.
Tick ==
  /\ now' \in {s \in Seconds : s > now}
  /\ UNCHANGED <<slots, slot, cached, time_lock, updater, reader>>

Next ==
  \/ \E u \in Updaters : \/ Trylock(u) \/ Gettimeofday(u) \/ WriteSec(u)
                         \/ WriteMsec(u) \/ Publish(u) \/ Unlock(u)
  \/ \E r \in Readers : LoadPointer(r) \/ CopySec(r) \/ CopyMsec(r)
  \/ Tick

Spec == Init /\ [][Next]_vars

-----------------------------------------------------------------------------
\* What times.c:6-13 promises to readers without a lock, with the number of
\* seconds that the code grants: a copy finished at most TIME_SLOTS - 3 seconds
\* after the pointer was loaded is of one slot as it was published.  (One
\* update may have its slot but not have published it yet when the pointer is
\* loaded, and its second may be over by then.)
ReadWhole ==
  \A r \in Readers :
    /\ Null \notin {reader[r].sec, reader[r].msec}
    /\ now - reader[r].since <= TIME_SLOTS - 3
    => reader[r].sec = reader[r].msec

\* The time that cached_time points to never goes back, whichever threads
\* update it, read the clock and are preempted in which order.
TimeNeverGoesBack ==
  [][cached # Null => slots'[cached'].sec >= slots[cached].sec]_vars

\* A day of its month and of the week, as many days from January 1, 1970 as
\* there were.
DaysBefore(y) == LET p == y - 1 IN 365 * p + p \div 4 - p \div 100 + p \div 400
MonthLengths(y) == <<31, IF LeapYear(y) THEN 29 ELSE 28, 31, 30, 31, 30, 31, 31, 30, 31, 30, 31>>

\* The days of the first m months.
MonthDays(months) == LET first[m \in 0..11] == IF m = 0 THEN 0 ELSE first[m - 1] + months[m] IN first

IsDayOf(day, gmt) ==
  LET months == MonthLengths(gmt.tm_year)
  IN  /\ gmt.tm_mon \in 1..12 /\ gmt.tm_mday \in 1..months[gmt.tm_mon]
      /\ DaysBefore(gmt.tm_year) - DaysBefore(1970) + MonthDays(months)[gmt.tm_mon - 1] + gmt.tm_mday - 1 = day
      /\ gmt.tm_wday = (day + 4) % 7

IsSecOf(sec, gmt) ==
  /\ gmt.tm_min \in 0..59 /\ gmt.tm_sec \in 0..59
  /\ gmt.tm_hour * 3600 + gmt.tm_min * 60 + gmt.tm_sec = sec

\* Before 1970 there is its first second only, behind 9999 its last.
EveryDay ==
  \A day \in Days :
    LET sec == day % (LastSec + 1)
        gmt == Sgmtime([day |-> day, sec |-> sec])
    IN  /\ day \in 0..LastDay => IsDayOf(day, gmt) /\ IsSecOf(sec, gmt)
        /\ day < 0 => IsDayOf(0, gmt) /\ IsSecOf(0, gmt)
        /\ day > LastDay => IsDayOf(LastDay, gmt) /\ IsSecOf(LastSec, gmt)

\* The call of sgmtime() before the slot is published, for any of the days that
\* the second may belong to, gives the date of the Gregorian calendar: across
\* the ends of months, leap years and centuries.
GmtOK == \A u \in Updaters : At(u, "msec") => EveryDay
=============================================================================
