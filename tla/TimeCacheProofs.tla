-------------------------- MODULE TimeCacheProofs --------------------------
(***************************************************************************)
(* A copy of the cached time is whole for so many seconds, and the cached  *)
(* time never goes back, for any number of slots from three on, of threads *)
(* that update, of readers, and for any seconds that the clock may show;   *)
(* and sgmtime() finds the date of every day.                              *)
(***************************************************************************)
EXTENDS TimeCache, TLAPS

Following(i) == IF i = TIME_SLOTS - 1 THEN 0 ELSE i + 1

\* Slots from p on to s in the order in which they are written.
Distance(p, s) == IF s >= p THEN s - p ELSE s - p + TIME_SLOTS

TypeOK ==
  /\ now \in Nat
  /\ slots \in [Indices -> [sec : Nat, msec : Nat]]
  /\ slot \in Indices /\ cached \in Indices \cup {Null} /\ time_lock \in {0, 1}
  /\ updater \in [Updaters -> [at : {"out", "locked", "new", "sec", "msec", "done"}, sec : Nat]]
  /\ reader \in [Readers -> [ptr : Indices \cup {Null}, since : Nat,
                             sec : Nat \cup {Null}, msec : Nat \cup {Null}]]

Writes(u) == updater[u].at \in {"sec", "msec"}

\* One thread at a time is behind the trylock.
Alone ==
  /\ \A u \in Updaters : ~At(u, "out") => time_lock = 1
  /\ \A u, v \in Updaters : ~At(u, "out") /\ ~At(v, "out") => u = v

\* The seconds of the slots are of the past, and that of a new slot is later
\* than that of the one before.
SecondsOK ==
  /\ \A i \in Indices : slots[i].sec <= now
  /\ \A u \in Updaters : updater[u].sec <= now
  /\ \A u \in Updaters : At(u, "new") => slots[slot].sec < updater[u].sec
  /\ \A u \in Updaters : Writes(u) => slots[slot].sec = updater[u].sec

\* cached_time points to the newest slot but while the next one is written.
PublishedOK ==
  cached # Null =>
    /\ (\A u \in Updaters : ~Writes(u)) => cached = slot
    /\ (\E u \in Updaters : Writes(u)) => slot = Following(cached)
    /\ slots[cached].sec <= slots[slot].sec

\* Slots are whole but while they are written.
SlotsWhole ==
  \A i \in Indices :
    slots[i].sec = slots[i].msec \/ (i = slot /\ \E u \in Updaters : At(u, "sec"))

\* The slot of reader r has not been written since its pointer was loaded, and
\* from the second slot on that was written since then each took a second.
Intact(r) ==
  LET p == reader[r].ptr
      d == Distance(p, slot)
  IN  /\ slots[p].sec = slots[p].msec
      /\ reader[r].sec \in {Null, slots[p].sec} /\ reader[r].msec \in {Null, slots[p].sec}
      /\ d >= 2 => slots[slot].sec >= reader[r].since + d - 2
      /\ \A u \in Updaters : d >= 1 /\ At(u, "new") => updater[u].sec >= reader[r].since

Late(r) == now - reader[r].since >= TIME_SLOTS - 2

ReadersOK ==
  \A r \in Readers :
    /\ reader[r].since <= now
    /\ reader[r].ptr # Null => Intact(r) \/ Late(r)
    /\ reader[r].ptr = Null => reader[r].sec = Null

IInv == TypeOK /\ Alone /\ SecondsOK /\ PublishedOK /\ SlotsWhole /\ ReadersOK

-----------------------------------------------------------------------------
LEMMA InitIInv == Init => IInv
<1> SUFFICES ASSUME Init PROVE IInv
  OBVIOUS
<1> USE TimeCacheAssumption DEF Init, Indices, NoCopy
<1>1. TypeOK
  BY DEF TypeOK
<1>2. Alone /\ SecondsOK /\ PublishedOK /\ SlotsWhole
  BY DEF Alone, SecondsOK, PublishedOK, SlotsWhole, At, Writes
<1>3. ReadersOK
  BY DEF ReadersOK
<1> QED
  BY <1>1, <1>2, <1>3 DEF IInv

\* What the lock protects does not matter to readers until it is published.
LEMMA TrylockIInv == ASSUME IInv, NEW u \in Updaters, Trylock(u) PROVE IInv'
<1> USE TimeCacheAssumption DEF Trylock, At, Goto
<1>1. TypeOK'
  BY DEF IInv, TypeOK
<1>2. Alone' /\ SecondsOK'
  BY DEF IInv, TypeOK, Alone, SecondsOK, Writes
<1>3. \A v \in Updaters : (Writes(v)' <=> Writes(v)) /\ (At(v, "sec")' <=> At(v, "sec"))
                         /\ (At(v, "new")' <=> At(v, "new")) /\ updater'[v].sec = updater[v].sec
  BY DEF IInv, TypeOK, Writes
<1>4. PublishedOK' /\ SlotsWhole'
  BY <1>3 DEF IInv, PublishedOK, SlotsWhole
<1>5. ReadersOK'
  BY <1>3 DEF IInv, ReadersOK, Intact, Late
<1> QED
  BY <1>1, <1>2, <1>4, <1>5 DEF IInv

LEMMA GettimeofdayIInv == ASSUME IInv, NEW u \in Updaters, Gettimeofday(u) PROVE IInv'
<1> USE TimeCacheAssumption DEF Gettimeofday, At, Goto
<1>1. TypeOK'
  BY DEF IInv, TypeOK
<1>2. Alone' /\ SecondsOK'
  <2>1. /\ \A v \in Updaters : v # u => updater'[v] = updater[v]
        /\ updater'[u].sec = now /\ updater'[u].at \in {"new", "done"}
        /\ updater'[u].at = "new" => slots[slot].sec # now
        /\ now \in Nat /\ slots[slot].sec \in Nat /\ slot \in Indices
    BY DEF IInv, TypeOK
  <2>2. Alone'
    BY <2>1 DEF IInv, Alone
  <2>3. SecondsOK'
    BY <2>1 DEF IInv, SecondsOK, Writes
  <2> QED
    BY <2>2, <2>3
<1>3. \A v \in Updaters : (Writes(v)' <=> Writes(v)) /\ (At(v, "sec")' <=> At(v, "sec"))
  BY DEF IInv, TypeOK, Writes
<1>4. PublishedOK' /\ SlotsWhole'
  BY <1>3 DEF IInv, PublishedOK, SlotsWhole
<1>5. ASSUME NEW r \in Readers, reader[r].ptr # Null, Intact(r) PROVE Intact(r)'
  <2>1. \A v \in Updaters : At(v, "new")' => \/ v = u /\ updater'[v].sec = now
                                             \/ At(v, "new") /\ updater'[v] = updater[v]
    BY DEF IInv, TypeOK
  <2>2. reader[r].since <= now
    BY DEF IInv, ReadersOK
  <2> QED
    BY <1>5, <2>1, <2>2 DEF Intact
<1>6. ReadersOK'
  BY <1>5 DEF IInv, ReadersOK, Late
<1> QED
  BY <1>1, <1>2, <1>4, <1>6 DEF IInv

\* The step that takes a slot from the readers that still have a pointer to it.
LEMMA WriteSecIInv == ASSUME IInv, NEW u \in Updaters, WriteSec(u) PROVE IInv'
<1> DEFINE next == Following(slot)
<1> USE TimeCacheAssumption DEF At, Goto
<1>1. /\ next \in Indices /\ next # slot
      /\ slot' = next /\ slots' = [slots EXCEPT ![next].sec = updater[u].sec]
      /\ updater' = [updater EXCEPT ![u].at = "sec"] /\ updater[u].at = "new"
      /\ UNCHANGED <<now, cached, time_lock, reader>>
  BY DEF WriteSec, Following, Indices, IInv, TypeOK
<1>2. /\ updater[u].sec \in Nat /\ updater[u].sec <= now /\ slots[slot].sec < updater[u].sec
      /\ slots[slot].sec \in Nat
      /\ \A v \in Updaters : v # u => At(v, "out")
  BY <1>1 DEF IInv, TypeOK, SecondsOK, Alone
<1>3. /\ slots'[next].sec = updater[u].sec /\ slots'[next].msec = slots[next].msec
      /\ \A i \in Indices : i # next => slots'[i] = slots[i]
      /\ \A v \in Updaters : v # u => updater'[v] = updater[v]
      /\ updater'[u].sec = updater[u].sec /\ updater'[u].at = "sec"
  BY <1>1 DEF IInv, TypeOK
<1> HIDE DEF next
<1>4. TypeOK'
  BY <1>1, <1>2 DEF IInv, TypeOK
<1>5. Alone'
  BY <1>1, <1>3 DEF IInv, Alone
<1>6. SecondsOK'
  BY <1>1, <1>2, <1>3 DEF IInv, SecondsOK, Writes
<1>7. cached # Null => cached = slot
  BY <1>1, <1>2 DEF IInv, PublishedOK, Writes
<1>8. PublishedOK'
  <2>1. Writes(u)'
    BY <1>3 DEF Writes
  <2>2. cached # Null => slots'[cached].sec <= slots'[next].sec /\ slot' = Following(cached')
    BY <1>1, <1>2, <1>3, <1>7 DEF IInv, TypeOK, next
  <2> QED
    BY <1>1, <2>1, <2>2 DEF PublishedOK
<1>9. SlotsWhole'
  BY <1>1, <1>2, <1>3 DEF IInv, SlotsWhole
<1>10. ASSUME NEW r \in Readers, reader[r].ptr # Null, Intact(r) PROVE Intact(r)' \/ Late(r)'
  <2> DEFINE p == reader[r].ptr
             d == Distance(p, slot)
  <2>1. p \in Indices /\ reader[r].since \in Nat /\ d \in 0..(TIME_SLOTS - 1)
    BY SMTT(30), <1>10 DEF IInv, TypeOK, Indices, Distance
  <2>2. d >= 1 => updater[u].sec >= reader[r].since
    BY <1>1, <1>10 DEF Intact
  <2>3. d >= 2 => updater[u].sec >= reader[r].since + d - 1
    BY <1>2, <1>10, <2>1 DEF Intact
  <2>4. CASE d = TIME_SLOTS - 1
    <3>1. updater[u].sec >= reader[r].since + TIME_SLOTS - 2
      BY <2>3, <2>4
    <3>2. now - reader[r].since >= TIME_SLOTS - 2
      BY <1>2, <2>1, <3>1 DEF IInv, TypeOK
    <3> QED
      BY <1>1, <3>2 DEF Late
  <2>5. CASE d # TIME_SLOTS - 1
    <3>0. slot \in 0..(TIME_SLOTS - 1) /\ p \in 0..(TIME_SLOTS - 1)
      BY <2>1 DEF IInv, TypeOK, Indices
    <3>1. p # next /\ Distance(p, next) = d + 1
      BY <3>0, <2>5 DEF next, Following, Distance
    <3>2. slots'[p] = slots[p]
      BY <1>3, <2>1, <3>1
    <3>3. d + 1 >= 2 => slots'[next].sec >= reader[r].since + (d + 1) - 2
      BY <1>2, <1>3, <2>1, <2>2, <2>3
    <3>4. \A v \in Updaters : ~At(v, "new")'
      BY <1>2, <1>3
    <3> QED
      BY <1>1, <1>10, <3>1, <3>2, <3>3, <3>4 DEF Intact
  <2> QED
    BY <2>4, <2>5
<1>11. ReadersOK'
  BY <1>1, <1>10 DEF IInv, ReadersOK, Late
<1> QED
  BY <1>4, <1>5, <1>6, <1>8, <1>9, <1>11 DEF IInv

LEMMA WriteMsecIInv == ASSUME IInv, NEW u \in Updaters, WriteMsec(u) PROVE IInv'
<1> USE TimeCacheAssumption DEF WriteMsec, At, Goto
<1>1. /\ \A i \in Indices : slots'[i].sec = slots[i].sec /\ (i # slot => slots'[i] = slots[i])
      /\ slots'[slot].msec = updater[u].sec /\ slots[slot].sec = updater[u].sec
      /\ slot \in Indices
      /\ \A v \in Updaters : v # u => updater'[v] = updater[v]
      /\ updater'[u].sec = updater[u].sec /\ updater'[u].at = "msec"
  BY DEF IInv, TypeOK, SecondsOK, Writes
<1>2. TypeOK'
  BY DEF IInv, TypeOK
<1>3. Alone' /\ SecondsOK'
  BY <1>1 DEF IInv, Alone, SecondsOK, Writes
<1>4. cached \in Indices \cup {Null} /\ \A v \in Updaters : Writes(v)' <=> Writes(v)
  BY <1>1 DEF IInv, TypeOK, Writes
<1>5. PublishedOK'
  BY <1>1, <1>4 DEF IInv, PublishedOK
<1>6. SlotsWhole'
  BY <1>1 DEF IInv, SlotsWhole
<1>7. ASSUME NEW r \in Readers, reader[r].ptr # Null, Intact(r) PROVE Intact(r)'
  <2>1. reader[r].ptr \in Indices
    BY <1>7 DEF IInv, TypeOK
  <2>2. slots'[reader[r].ptr].msec = slots[reader[r].ptr].msec
    BY <1>1, <1>7, <2>1 DEF Intact
  <2> QED
    BY <1>1, <1>7, <2>1, <2>2 DEF Intact
<1>8. ReadersOK'
  BY <1>7 DEF IInv, ReadersOK, Late
<1> QED
  BY <1>2, <1>3, <1>5, <1>6, <1>8 DEF IInv

LEMMA PublishIInv == ASSUME IInv, NEW u \in Updaters, Publish(u) PROVE IInv'
<1> USE TimeCacheAssumption DEF Publish, At, Goto
<1>1. TypeOK'
  BY DEF IInv, TypeOK
<1>2. /\ \A v \in Updaters : v # u => updater'[v] = updater[v]
      /\ updater'[u].sec = updater[u].sec /\ updater'[u].at = "done"
      /\ \A v \in Updaters : v # u => updater[v].at = "out"
  BY DEF IInv, TypeOK, Alone
<1>3. Alone' /\ SecondsOK'
  BY <1>2 DEF IInv, Alone, SecondsOK, Writes
<1>4. PublishedOK'
  BY <1>2, <1>1 DEF PublishedOK, Writes, TypeOK
<1>5. SlotsWhole'
  BY <1>2 DEF IInv, SlotsWhole
<1>6. ReadersOK'
  BY <1>2 DEF IInv, ReadersOK, Intact, Late
<1> QED
  BY <1>1, <1>3, <1>4, <1>5, <1>6 DEF IInv

LEMMA UnlockIInv == ASSUME IInv, NEW u \in Updaters, Unlock(u) PROVE IInv'
<1> USE TimeCacheAssumption DEF Unlock, At, Goto
<1>1. TypeOK'
  BY DEF IInv, TypeOK
<1>2. /\ \A v \in Updaters : v # u => updater'[v] = updater[v]
      /\ updater'[u].sec = updater[u].sec /\ updater'[u].at = "out"
      /\ \A v \in Updaters : v # u => updater[v].at = "out"
  BY DEF IInv, TypeOK, Alone
<1>3. Alone' /\ SecondsOK'
  BY <1>2 DEF IInv, Alone, SecondsOK, Writes
<1>4. PublishedOK' /\ SlotsWhole'
  BY <1>2 DEF IInv, PublishedOK, SlotsWhole, Writes
<1>5. ReadersOK'
  BY <1>2 DEF IInv, ReadersOK, Intact, Late
<1> QED
  BY <1>1, <1>3, <1>4, <1>5 DEF IInv

-----------------------------------------------------------------------------
LEMMA LoadPointerIInv == ASSUME IInv, NEW r \in Readers, LoadPointer(r) PROVE IInv'
<1> USE TimeCacheAssumption DEF LoadPointer
<1>1. TypeOK'
  BY DEF IInv, TypeOK, NoCopy
<1>2. Alone' /\ SecondsOK' /\ PublishedOK' /\ SlotsWhole'
  BY DEF IInv, Alone, SecondsOK, PublishedOK, SlotsWhole, At, Writes
<1>3. /\ reader'[r] = [ptr |-> cached, since |-> now, sec |-> Null, msec |-> Null]
      /\ \A q \in Readers : q # r => reader'[q] = reader[q]
      /\ cached \in Indices /\ slot \in Indices /\ now \in Nat
      /\ UNCHANGED <<now, slots, slot, cached, updater>>
  BY DEF IInv, TypeOK, NoCopy
<1> HIDE DEF LoadPointer
<1>4. Intact(r)'
  <2>1. CASE \E u \in Updaters : Writes(u)
    <3>1. cached # slot /\ Distance(cached, slot) = 1
      BY <1>3, <2>1 DEF IInv, PublishedOK, Following, Indices, Distance
    <3>2. slots[cached].sec = slots[cached].msec
      BY <1>3, <3>1 DEF IInv, SlotsWhole
    <3>3. \A u \in Updaters : ~At(u, "new")
      BY <2>1 DEF IInv, Alone, Writes, At
    <3> QED
      BY <1>3, <3>1, <3>2, <3>3 DEF Intact, At
  <2>2. CASE \A u \in Updaters : ~Writes(u)
    <3>1. cached = slot /\ Distance(cached, slot) = 0
      BY <1>3, <2>2 DEF IInv, PublishedOK, Indices, Distance
    <3>2. slots[cached].sec = slots[cached].msec
      BY <1>3, <2>2 DEF IInv, SlotsWhole, Writes, At
    <3> QED
      BY <1>3, <3>1, <3>2 DEF Intact
  <2> QED
    BY <2>1, <2>2
<1>5. \A q \in Readers : q # r => (Intact(q) => Intact(q)')
  BY <1>3 DEF Intact, At
<1>6. ReadersOK'
  BY <1>3, <1>4, <1>5 DEF IInv, ReadersOK, Late
<1> QED
  BY <1>1, <1>2, <1>6 DEF IInv

LEMMA CopyIInv == ASSUME IInv, NEW r \in Readers, CopySec(r) \/ CopyMsec(r) PROVE IInv'
<1> USE TimeCacheAssumption DEF CopySec, CopyMsec
<1>1. reader[r].ptr \in Indices /\ UNCHANGED <<now, slots, slot, cached, time_lock, updater>>
  BY DEF IInv, TypeOK
<1>2. TypeOK'
  <2>1. slots[reader[r].ptr].sec \in Nat /\ slots[reader[r].ptr].msec \in Nat
    BY <1>1 DEF IInv, TypeOK
  <2>2. CASE CopySec(r)
    BY <1>1, <2>1, <2>2 DEF IInv, TypeOK
  <2>3. CASE CopyMsec(r)
    BY <1>1, <2>1, <2>3 DEF IInv, TypeOK
  <2> QED
    BY <2>2, <2>3
<1>3. Alone' /\ SecondsOK' /\ PublishedOK' /\ SlotsWhole'
  BY <1>1 DEF IInv, Alone, SecondsOK, PublishedOK, SlotsWhole, At, Writes
<1>4. /\ reader'[r].ptr = reader[r].ptr /\ reader'[r].since = reader[r].since
      /\ reader'[r].sec \in {reader[r].sec, slots[reader[r].ptr].sec}
      /\ reader'[r].msec \in {reader[r].msec, slots[reader[r].ptr].msec}
      /\ \A q \in Readers : q # r => reader'[q] = reader[q]
  BY DEF IInv, TypeOK
<1>5. Intact(r) => Intact(r)'
  BY <1>1, <1>4 DEF Intact, At
<1>6. \A q \in Readers : q # r => (Intact(q) => Intact(q)')
  BY <1>1, <1>4 DEF Intact, At
<1>7. ReadersOK'
  BY <1>1, <1>4, <1>5, <1>6 DEF IInv, ReadersOK, Late
<1> QED
  BY <1>2, <1>3, <1>7 DEF IInv

LEMMA TickIInv == ASSUME IInv, Tick PROVE IInv'
<1> USE TimeCacheAssumption DEF Tick
<1>1. now' \in Nat /\ now' > now /\ now \in Nat
  BY DEF IInv, TypeOK
<1>2. TypeOK'
  BY <1>1 DEF IInv, TypeOK
<1>3. SecondsOK'
  BY <1>1 DEF IInv, TypeOK, SecondsOK, At, Writes
<1>4. Alone' /\ PublishedOK' /\ SlotsWhole'
  BY DEF IInv, Alone, PublishedOK, SlotsWhole, At, Writes
<1>5. ReadersOK'
  BY <1>1 DEF IInv, TypeOK, ReadersOK, Intact, Late, At
<1> QED
  BY <1>2, <1>3, <1>4, <1>5 DEF IInv

LEMMA StepIInv == IInv /\ [Next]_vars => IInv'
<1> SUFFICES ASSUME IInv, [Next]_vars PROVE IInv'
  OBVIOUS
<1>1. CASE UNCHANGED vars
  BY <1>1 DEF vars, IInv, TypeOK, Alone, SecondsOK, PublishedOK, SlotsWhole, ReadersOK, Intact, Late,
              At, Writes
<1>2. CASE Next
  BY <1>2, TrylockIInv, GettimeofdayIInv, WriteSecIInv, WriteMsecIInv, PublishIInv, UnlockIInv,
     LoadPointerIInv, CopyIInv, TickIInv DEF Next
<1> QED
  BY <1>1, <1>2

LEMMA SpecIInv == Spec => []IInv
  BY InitIInv, StepIInv, PTL DEF Spec

-----------------------------------------------------------------------------
\* A copy finished within TIME_SLOTS - 3 seconds is of one published slot.
THEOREM SpecReadWhole == Spec => []ReadWhole
<1>1. IInv => ReadWhole
  <2> SUFFICES ASSUME IInv, NEW r \in Readers,
                      Null \notin {reader[r].sec, reader[r].msec},
                      now - reader[r].since <= TIME_SLOTS - 3
               PROVE  reader[r].sec = reader[r].msec
    BY DEF ReadWhole
  <2>1. ~Late(r)
    BY TimeCacheAssumption DEF Late, IInv, TypeOK
  <2>2. Intact(r)
    BY <2>1 DEF IInv, ReadersOK
  <2> QED
    BY <2>2 DEF Intact
<1> QED
  BY SpecIInv, <1>1, PTL

\* The time that cached_time points to never goes back.
THEOREM SpecTimeNeverGoesBack == Spec => TimeNeverGoesBack
<1> DEFINE Step == cached # Null => slots'[cached'].sec >= slots[cached].sec
<1>1. ASSUME IInv, [Next]_vars PROVE [Step]_vars
  <2> SUFFICES ASSUME cached # Null, Next PROVE slots'[cached'].sec >= slots[cached].sec
    BY <1>1
  <2> USE <1>1, TimeCacheAssumption
  <2>1. cached \in Indices /\ slot \in Indices /\ \A i \in Indices : slots[i].sec \in Nat
    BY DEF IInv, TypeOK
  <2>2. CASE \E u \in Updaters : WriteSec(u)
    <3> PICK u \in Updaters : WriteSec(u)
      BY <2>2
    <3>1. cached = slot /\ cached' = cached
      BY DEF IInv, PublishedOK, Alone, Writes, WriteSec, At
    <3>2. slots'[cached] = slots[cached]
      BY <2>1, <3>1 DEF IInv, TypeOK, WriteSec, Indices
    <3> QED
      BY <2>1, <3>1, <3>2
  <2>3. CASE \E u \in Updaters : WriteMsec(u)
    BY <2>1, <2>3 DEF IInv, TypeOK, WriteMsec
  <2>4. CASE \E u \in Updaters : Publish(u)
    BY <2>1, <2>4 DEF IInv, PublishedOK, Publish
  <2>5. CASE UNCHANGED <<slots, cached>>
    BY <2>1, <2>5
  <2> QED
    BY <2>2, <2>3, <2>4, <2>5 DEF Next, Trylock, Gettimeofday, Unlock, LoadPointer, CopySec, CopyMsec, Tick
<1> QED
  BY SpecIInv, <1>1, PTL DEF Spec, TimeNeverGoesBack

-----------------------------------------------------------------------------
(* sgmtime() *)

\* The days of the first months are those that their recursion adds up.
LEMMA MonthDaysUnfolded ==
  ASSUME NEW months \in [1..12 -> Nat]
  PROVE  /\ DOMAIN MonthDays(months) = 0..11
         /\ \A m \in 0..11 :
              MonthDays(months)[m] = IF m = 0 THEN 0 ELSE MonthDays(months)[m - 1] + months[m]
<1> DEFINE F(f) == [m \in 0..11 |-> IF m = 0 THEN 0 ELSE f[m - 1] + months[m]]
           s2 == months[1] + months[2]
           s3 == s2 + months[3]
           s4 == s3 + months[4]
           s5 == s4 + months[5]
           s6 == s5 + months[6]
           s7 == s6 + months[7]
           s8 == s7 + months[8]
           s9 == s8 + months[9]
           s10 == s9 + months[10]
           s11 == s10 + months[11]
           g == [m \in 0..11 |-> CASE m = 0 -> 0 [] m = 1 -> months[1] [] m = 2 -> s2 [] m = 3 -> s3 [] m = 4 -> s4
                   [] m = 5 -> s5 [] m = 6 -> s6 [] m = 7 -> s7 [] m = 8 -> s8 [] m = 9 -> s9
                   [] m = 10 -> s10 [] m = 11 -> s11]
<1>1. \A m \in 0..11 : g[m] = IF m = 0 THEN 0 ELSE g[m - 1] + months[m]
  OBVIOUS
<1>2. g = [m \in 0..11 |-> g[m]]
  OBVIOUS
<1> HIDE DEF g
<1>3. g = F(g)
  BY <1>1, <1>2
<1>4. MonthDays(months) = F(MonthDays(months))
  BY <1>3, Zenon DEF MonthDays
<1> QED BY <1>4

\* The days of y years from March 1 of the year 0 on.
YearDays(y) == 365 * y + y \div 4 - y \div 100 + y \div 400

\* They are a number.
LEMMA YearDaysType ==
  ASSUME NEW y \in Nat
  PROVE  YearDays(y) \in Int
BY SMT DEF YearDays

\* A year in its cycle of four centuries.
YearParts(y, a, b, c, e) ==
  /\ y = 400 * a + 100 * b + 4 * c + e
  /\ y \div 4 = 100 * a + 25 * b + c /\ y \div 100 = 4 * a + b /\ y \div 400 = a
  /\ y % 4 = e /\ y % 100 = 4 * c + e /\ y % 400 = 100 * b + 4 * c + e

\* Every year has its place in a cycle.
LEMMA YearInCycle ==
  ASSUME NEW y \in Nat
  PROVE  \E a \in Nat, b \in 0..3, c \in 0..24, e \in 0..3 : YearParts(y, a, b, c, e)
<1> DEFINE a == y \div 400
           b == (y % 400) \div 100
           c == (y % 100) \div 4
           e == y % 4
<1>1. a \in Nat /\ b \in 0..3 /\ c \in 0..24 /\ e \in 0..3
  OBVIOUS
<1>2. y = 400 * a + 100 * b + 4 * c + e
  OBVIOUS
<1>3. y \div 4 = 100 * a + 25 * b + c /\ y \div 100 = 4 * a + b
  OBVIOUS
<1>4. y % 4 = e /\ y % 100 = 4 * c + e /\ y % 400 = 100 * b + 4 * c + e
  OBVIOUS
<1>5. YearParts(y, a, b, c, e)
  BY <1>2, <1>3, <1>4 DEF YearParts
<1> QED BY <1>1, <1>5

\* The year of the formula is that of the day, or the next one.
LEMMA FormulaYear ==
  ASSUME NEW days \in Nat, NEW y \in Nat, y = ((days + 2) * 400) \div 146097
  PROVE  days - YearDays(y) <= 365 /\ -366 <= days - YearDays(y)
<1>1. PICK a \in Nat, b \in 0..3, c \in 0..24, e \in 0..3 : YearParts(y, a, b, c, e)
  BY YearInCycle
<1>2. YearDays(y) = 146097 * a + 36524 * b + 1461 * c + 365 * e
  BY <1>1 DEF YearDays, YearParts
<1>3. 146097 * y <= 400 * days + 800 /\ 400 * days + 800 < 146097 * y + 146097
  OBVIOUS
<1> QED BY <1>1, <1>2, <1>3 DEF YearParts

\* Only a leap year has a day behind the 365th or before the first of the
\* year before.
LEMMA FormulaLeap ==
  ASSUME NEW days \in Nat, NEW y \in Nat, y = ((days + 2) * 400) \div 146097
  PROVE  /\ days - YearDays(y) = 365 => LeapYear(y + 1)
         /\ days - YearDays(y) = -366 => LeapYear(y)
<1>1. PICK a \in Nat, b \in 0..3, c \in 0..24, e \in 0..3 : YearParts(y, a, b, c, e)
  BY YearInCycle
<1>2. YearDays(y) = 146097 * a + 36524 * b + 1461 * c + 365 * e
  BY <1>1 DEF YearDays, YearParts
<1>3. 146097 * y <= 400 * days + 800 /\ 400 * days + 800 < 146097 * y + 146097
  OBVIOUS
<1>4. ASSUME days - YearDays(y) = 365 PROVE LeapYear(y + 1)
  <2>1. e = 3
    BY <1>1, <1>2, <1>3, <1>4 DEF YearParts
  <2> QED BY <1>1, <1>2, <1>3, <1>4, <2>1 DEF YearParts, LeapYear
<1>5. ASSUME days - YearDays(y) = -366 PROVE LeapYear(y)
  BY <1>1, <1>2, <1>3, <1>5 DEF YearParts, LeapYear
<1> QED BY <1>4, <1>5

\* From one March 1 to the next there are 365 days, and one more if there was
\* a February 29.
LEMMA YearLength ==
  ASSUME NEW y \in Nat \ {0}
  PROVE  YearDays(y) = YearDays(y - 1) + 365 + (IF LeapYear(y) THEN 1 ELSE 0)
<1>1. PICK a \in Nat, b \in 0..3, c \in 0..24, e \in 0..3 : YearParts(y, a, b, c, e)
  BY YearInCycle
<1>2. YearDays(y) = 146097 * a + 36524 * b + 1461 * c + 365 * e
  BY <1>1 DEF YearDays, YearParts
<1>3. PICK aa \in Nat, bb \in 0..3, cc \in 0..24, ee \in 0..3 : YearParts(y - 1, aa, bb, cc, ee)
  BY YearInCycle
<1>4. YearDays(y - 1) = 146097 * aa + 36524 * bb + 1461 * cc + 365 * ee
  BY <1>3 DEF YearDays, YearParts
<1>5. 400 * a + 100 * b + 4 * c + e = 400 * aa + 100 * bb + 4 * cc + ee + 1
  BY <1>1, <1>3 DEF YearParts
<1>6. LeapYear(y) <=> e = 0 /\ (c # 0 \/ b = 0)
  BY <1>1 DEF YearParts, LeapYear
<1>7. CASE e # 0
  <2>1. a = aa /\ b = bb /\ c = cc /\ e = ee + 1
    BY <1>5, <1>7
  <2> QED BY <1>2, <1>4, <1>6, <1>7, <2>1
<1>8. CASE e = 0 /\ c # 0
  <2>1. a = aa /\ b = bb /\ c = cc + 1 /\ ee = 3
    BY <1>5, <1>8
  <2> QED BY <1>2, <1>4, <1>6, <1>8, <2>1
<1>9. CASE e = 0 /\ c = 0 /\ b # 0
  <2>1. a = aa /\ b = bb + 1 /\ cc = 24 /\ ee = 3
    BY <1>5, <1>9
  <2> QED BY <1>2, <1>4, <1>6, <1>9, <2>1
<1>10. CASE e = 0 /\ c = 0 /\ b = 0
  <2>1. a = aa + 1 /\ bb = 3 /\ cc = 24 /\ ee = 3
    BY <1>5, <1>10
  <2> QED BY <1>2, <1>4, <1>6, <1>10, <2>1
<1> QED BY <1>7, <1>8, <1>9, <1>10

\* The first day of 1970 is after March 1 of 1969.
LEMMA Days1969 == YearDays(1969) = 719162
BY SMT DEF YearDays

\* March 1 of the year 0 is the first of the days; every day but those after
\* the last one falls into a year that begins on March 1.
LEMMA MarchDayOf ==
  ASSUME NEW days \in Nat, 719468 <= days, days <= 3652364,
         NEW y \in Nat, y = ((days + 2) * 400) \div 146097
  PROVE  LET march == MarchDay(days, y)
         IN  /\ march[1] \in 0..365 /\ march[2] \in Nat /\ 1969 <= march[2]
             /\ days = YearDays(march[2]) + march[1]
             /\ march[1] = 365 => LeapYear(march[2] + 1)
<1>1. 1969 <= y
  BY SMT
<1> DEFINE yday == days - YearDays(y)
           leap == IF LeapYear(y) THEN 1 ELSE 0
<1>2. yday <= 365 /\ -366 <= yday /\ YearDays(y) \in Int
  BY SMT, FormulaYear DEF YearDays
<1>3. CASE yday >= 0
  <2>1. MarchDay(days, y) = <<yday, y>>
    BY SMT, <1>3 DEF MarchDay, YearDays
  <2>2. yday = 365 => LeapYear(y + 1)
    BY SMT, FormulaLeap
  <2>3. yday \in 0..365 /\ days = YearDays(y) + yday
    BY SMT, <1>2, <1>3
  <2> HIDE DEF yday
  <2> QED BY SMT, <1>1, <2>1, <2>2, <2>3
<1>4. CASE yday < 0
  <2> DEFINE v == 365 + leap + yday
  <2>1. MarchDay(days, y) = <<v, y - 1>>
    BY SMT, <1>4 DEF MarchDay, YearDays
  <2>2. YearDays(y) = YearDays(y - 1) + 365 + leap /\ YearDays(y - 1) \in Int
    BY SMT, <1>1, YearLength DEF YearDays
  <2>3. yday = -366 => leap = 1
    BY SMT, FormulaLeap
  <2>4. leap \in 0..1 /\ (leap = 1 => LeapYear(y))
    BY SMT
  <2> HIDE DEF leap
  <2>5. days = YearDays(y - 1) + v /\ v \in 0..365 /\ (v = 365 => LeapYear(y - 1 + 1))
    BY SMT, <1>1, <1>2, <1>4, <2>2, <2>3, <2>4
  <2>6. y - 1 \in Nat /\ 1969 <= y - 1
    <3>1. y # 1969
      BY SMT, <1>4, Days1969
    <3> QED BY SMT, <1>1, <3>1
  <2> HIDE DEF v
  <2> QED BY SMT, <2>1, <2>5, <2>6
<1> QED BY SMT, <1>2, <1>3, <1>4

\* The days before each month.
LEMMA MonthDaysOf ==
  ASSUME NEW year \in Int, NEW leap, leap = IF LeapYear(year) THEN 1 ELSE 0
  PROVE  LET before == MonthDays(MonthLengths(year))
         IN  /\ before[0] = 0 /\ before[1] = 31 /\ before[2] = 59 + leap /\ before[3] = 90 + leap
             /\ before[4] = 120 + leap /\ before[5] = 151 + leap /\ before[6] = 181 + leap
             /\ before[7] = 212 + leap /\ before[8] = 243 + leap /\ before[9] = 273 + leap
             /\ before[10] = 304 + leap /\ before[11] = 334 + leap
<1> DEFINE months == MonthLengths(year)
           before == MonthDays(months)
<1>1. /\ months \in [1..12 -> Nat]
      /\ months[1] = 31 /\ months[2] = 28 + leap /\ months[3] = 31 /\ months[4] = 30 /\ months[5] = 31
      /\ months[6] = 30 /\ months[7] = 31 /\ months[8] = 31 /\ months[9] = 30 /\ months[10] = 31 /\ months[11] = 30
  BY DEF MonthLengths
<1>2. \A m \in 0..11 : before[m] = IF m = 0 THEN 0 ELSE before[m - 1] + months[m]
  BY <1>1, MonthDaysUnfolded
<1> HIDE DEF months
<1> HIDE DEF before
<1>3. before[0] = 0 /\ before[1] = 31 /\ before[2] = 59 + leap /\ before[3] = 90 + leap
  BY <1>1, <1>2
<1>4. before[4] = 120 + leap /\ before[5] = 151 + leap /\ before[6] = 181 + leap
  BY <1>1, <1>2, <1>3
<1>5. before[7] = 212 + leap /\ before[8] = 243 + leap /\ before[9] = 273 + leap
  BY <1>1, <1>2, <1>4
<1>6. before[10] = 304 + leap /\ before[11] = 334 + leap
  BY <1>1, <1>2, <1>5
<1> QED BY <1>3, <1>4, <1>5, <1>6 DEF before, months

\* A month of the year that begins on March 1, and its days.
InMonth(yday, mon) ==
  /\ mon \in 1..12 /\ (yday >= 306 <=> mon >= 11)
  /\ mon = 1 => yday \in 0..30 /\ (367 * mon) \div 12 = 30
  /\ mon = 2 => yday \in 31..60 /\ (367 * mon) \div 12 = 61
  /\ mon = 3 => yday \in 61..91 /\ (367 * mon) \div 12 = 91
  /\ mon = 4 => yday \in 92..121 /\ (367 * mon) \div 12 = 122
  /\ mon = 5 => yday \in 122..152 /\ (367 * mon) \div 12 = 152
  /\ mon = 6 => yday \in 153..183 /\ (367 * mon) \div 12 = 183
  /\ mon = 7 => yday \in 184..213 /\ (367 * mon) \div 12 = 214
  /\ mon = 8 => yday \in 214..244 /\ (367 * mon) \div 12 = 244
  /\ mon = 9 => yday \in 245..274 /\ (367 * mon) \div 12 = 275
  /\ mon = 10 => yday \in 275..305 /\ (367 * mon) \div 12 = 305
  /\ mon = 11 => yday \in 306..336 /\ (367 * mon) \div 12 = 336
  /\ mon = 12 => yday \in 337..365 /\ (367 * mon) \div 12 = 367

\* Which is what the empirical formula of sgmtime() computes.
LEMMA FormulaMonth ==
  ASSUME NEW yday \in 0..365
  PROVE  InMonth(yday, ((yday + 31) * 10) \div 306)
BY SMT DEF InMonth

\* What sgmtime() writes for a day of a year that begins on March 1.
Written(day, yday, year, mon, gmt) ==
  /\ day \in Nat /\ yday \in 0..365 /\ year \in Nat /\ 1969 <= year /\ mon \in Int
  /\ day = YearDays(year) + yday - 719468
  /\ yday = 365 => LeapYear(year + 1)
  /\ InMonth(yday, mon)
  /\ gmt.tm_mday = yday - ((367 * mon) \div 12 - 30) + 1
  /\ gmt.tm_mon = IF yday >= 306 THEN mon - 10 ELSE mon + 2
  /\ gmt.tm_year = IF yday >= 306 THEN year + 1 ELSE year
  /\ gmt.tm_wday = (4 + day) % 7

\* It is the day of the Gregorian calendar.
LEMMA DateOf ==
  ASSUME NEW day, NEW yday, NEW year, NEW mon, NEW gmt, Written(day, yday, year, mon, gmt)
  PROVE  IsDayOf(day, gmt)
<1> USE DEF Written
<1> DEFINE months == MonthLengths(gmt.tm_year)
           before == MonthDays(months)
           leap == IF LeapYear(gmt.tm_year) THEN 1 ELSE 0
<1>1. gmt.tm_year \in Nat /\ YearDays(year) \in Int
  BY SMT DEF YearDays
<1>2. /\ before[0] = 0 /\ before[1] = 31 /\ before[2] = 59 + leap /\ before[3] = 90 + leap
      /\ before[4] = 120 + leap /\ before[5] = 151 + leap /\ before[6] = 181 + leap
      /\ before[7] = 212 + leap /\ before[8] = 243 + leap /\ before[9] = 273 + leap
      /\ before[10] = 304 + leap /\ before[11] = 334 + leap
  BY SMT, <1>1, MonthDaysOf
<1>3. /\ months[1] = 31 /\ months[2] = 28 + leap /\ months[3] = 31 /\ months[4] = 30 /\ months[5] = 31
      /\ months[6] = 30 /\ months[7] = 31 /\ months[8] = 31 /\ months[9] = 30 /\ months[10] = 31
      /\ months[11] = 30 /\ months[12] = 31
  BY SMT DEF MonthLengths
<1>4. DaysBefore(1970) = 719162
  BY SMT DEF DaysBefore
<1>5. DaysBefore(year + 1) = YearDays(year)
  BY SMT DEF DaysBefore, YearDays
<1>6. YearDays(year) = DaysBefore(year) + 365 + (IF LeapYear(year) THEN 1 ELSE 0) /\ DaysBefore(year) \in Int
  BY SMT, YearLength DEF DaysBefore, YearDays
<1> HIDE DEF before
<1> HIDE DEF months
<1>7. CASE mon \in 11..12
  <2>1. /\ gmt.tm_year = year + 1 /\ gmt.tm_mon = mon - 10
        /\ DaysBefore(gmt.tm_year) = YearDays(year)
    BY SMT, <1>5, <1>7 DEF InMonth
  <2>2. CASE mon = 11
    <3>1. yday \in 306..336 /\ (367 * mon) \div 12 = 336
      BY SMT, <2>2 DEF InMonth
    <3>2. gmt.tm_mday = yday - 305 /\ gmt.tm_mon = 1 
      BY SMT, <2>1, <2>2, <3>1
    <3> QED BY SMT, <1>1, <1>2, <1>3, <1>4, <2>1, <3>1, <3>2 DEF IsDayOf, before, months
  <2>3. CASE mon = 12
    <3>1. yday \in 337..365 /\ (367 * mon) \div 12 = 367
      BY SMT, <2>3 DEF InMonth
    <3>2. gmt.tm_mday = yday - 336 /\ gmt.tm_mon = 2 
      BY SMT, <2>1, <2>3, <3>1
    <3>3. leap \in 0..1 /\ (yday = 365 => leap = 1)
      BY SMT, <2>1
    <3> QED BY SMT, <1>1, <1>2, <1>3, <1>4, <2>1, <3>1, <3>2, <3>3 DEF IsDayOf, before, months
  <2> QED BY SMT, <1>7, <2>2, <2>3
<1>8. CASE mon \in 1..10
  <2>1. /\ gmt.tm_year = year /\ gmt.tm_mon = mon + 2
        /\ YearDays(year) = DaysBefore(gmt.tm_year) + 365 + leap
    BY SMT, <1>6, <1>8 DEF InMonth
  <2>2. gmt.tm_mday = yday + 31 - (367 * mon) \div 12
    BY SMT
  <2>3. /\ gmt.tm_mday \in 1..months[gmt.tm_mon]
        /\ before[gmt.tm_mon - 1] + gmt.tm_mday = yday + 60 + leap
    <3>1. leap \in 0..1
      BY SMT
    <3> HIDE DEF leap
    <3>2. CASE mon \in 1..3
      BY SMT, <1>2, <1>3, <2>1, <2>2, <3>1, <3>2 DEF InMonth
    <3>3. CASE mon \in 4..6
      BY SMT, <1>2, <1>3, <2>1, <2>2, <3>1, <3>3 DEF InMonth
    <3>4. CASE mon \in 7..10
      BY SMT, <1>2, <1>3, <2>1, <2>2, <3>1, <3>4 DEF InMonth
    <3> QED BY SMT, <1>8, <3>2, <3>3, <3>4
  <2>4. gmt.tm_mon \in 1..12
    BY SMT, <1>8, <2>1
  <2>5. DaysBefore(gmt.tm_year) - DaysBefore(1970) + before[gmt.tm_mon - 1] + gmt.tm_mday - 1 = day
    <3>1. leap \in 0..1 /\ before[gmt.tm_mon - 1] \in Int
      BY SMT, <1>2, <1>8, <2>1
    <3> HIDE DEF leap
    <3>2. gmt.tm_mday \in Int
      BY SMT, <2>2
    <3> QED BY SMT, <1>4, <1>6, <2>1, <2>3, <3>1, <3>2
  <2> QED BY SMT, <2>3, <2>4, <2>5 DEF IsDayOf, before, months
<1> QED BY SMT, <1>7, <1>8 DEF InMonth

\* The same of the fields that sgmtime() writes.
LEMMA FieldsOK ==
  ASSUME NEW t, t.day \in Nat, t.sec \in Nat, t.sec <= LastSec,
         NEW march, march[1] \in 0..365, march[2] \in Nat, 1969 <= march[2],
         t.day = YearDays(march[2]) + march[1] - 719468,
         march[1] = 365 => LeapYear(march[2] + 1)
  PROVE  IsDayOf(t.day, Fields(t, march)) /\ IsSecOf(t.sec, Fields(t, march))
<1> DEFINE gmt == Fields(t, march)
           mon == ((march[1] + 31) * 10) \div 306
<1>1. /\ gmt.tm_sec = (t.sec % 3600) % 60 /\ gmt.tm_min = (t.sec % 3600) \div 60 /\ gmt.tm_hour = t.sec \div 3600
      /\ gmt.tm_mday = march[1] - ((367 * mon) \div 12 - 30) + 1
      /\ gmt.tm_wday = (4 + t.day) % 7
      /\ gmt.tm_mon = (IF march[1] >= 306 THEN mon - 10 ELSE mon + 2)
      /\ gmt.tm_year = (IF march[1] >= 306 THEN march[2] + 1 ELSE march[2])
  BY SMT DEF Fields
<1> HIDE DEF gmt
<1>2. InMonth(march[1], mon) /\ mon \in Int
  BY SMT, FormulaMonth
<1> HIDE DEF mon
<1>3. IsDayOf(t.day, gmt)
  <2>1. Written(t.day, march[1], march[2], mon, gmt)
    BY SMT, <1>1, <1>2 DEF Written
  <2> QED BY <2>1, DateOf
<1>4. IsSecOf(t.sec, gmt)
  <2>1. t.sec <= 86399
    BY SMT DEF LastSec
  <2> DEFINE s == t.sec
  <2>2. gmt.tm_sec = (s % 3600) % 60 /\ gmt.tm_min = (s % 3600) \div 60 /\ gmt.tm_hour = s \div 3600 /\ s \in Nat
    BY SMT, <1>1
  <2> HIDE DEF s
  <2>3. gmt.tm_min \in 0..59 /\ gmt.tm_sec \in 0..59 /\ gmt.tm_hour * 3600 + gmt.tm_min * 60 + gmt.tm_sec = s
    BY SMT, <2>2
  <2> QED BY SMT, <2>3 DEF IsSecOf, s
<1> QED BY SMT, <1>3, <1>4 DEF gmt

\* sgmtime(), for every time.
LEMMA SgmtimeOK ==
  ASSUME NEW time, time \in Times
  PROVE  /\ IsDayOf(Truncate(time).day, Sgmtime(time))
         /\ IsSecOf(Truncate(time).sec, Sgmtime(time))
<1> DEFINE t == Truncate(time)
           days == t.day - (31 + 28) + 719527
           y == ((days + 2) * 400) \div (365 * 400 + 100 - 4 + 1)
           march == MarchDay(days, y)
<1>1. t.day \in Nat /\ t.day <= LastDay /\ t.sec \in Nat /\ t.sec <= LastSec
  <2>1. LastDay \in Nat /\ LastSec \in Nat
    BY SMT DEF LastDay, LastSec
  <2> QED BY SMT, <2>1 DEF Truncate, Times
<1>2. Sgmtime(time) = Fields(t, march)
  BY SMT DEF Sgmtime
<1> HIDE DEF t
<1>3. y = ((days + 2) * 400) \div 146097 /\ y \in Nat /\ days \in Nat /\ 719468 <= days /\ days <= 3652364
  BY SMT, <1>1 DEF LastDay
<1>4. days = t.day + 719468 /\ days \in Int
  BY SMT, <1>1
<1> HIDE DEF y
<1> HIDE DEF days
<1>5. /\ march[1] \in 0..365 /\ march[2] \in Nat /\ 1969 <= march[2]
      /\ days = YearDays(march[2]) + march[1]
      /\ march[1] = 365 => LeapYear(march[2] + 1)
  BY SMT, <1>3, MarchDayOf
<1> HIDE DEF march
<1>6. t.day = YearDays(march[2]) + march[1] - 719468
  <2>1. YearDays(march[2]) \in Int
    BY SMT, <1>5, YearDaysType
  <2> QED BY SMT, <1>1, <1>4, <1>5, <2>1
<1>7. IsDayOf(t.day, Fields(t, march)) /\ IsSecOf(t.sec, Fields(t, march))
  BY SMT, <1>1, <1>5, <1>6, FieldsOK
<1> QED BY <1>2, <1>7 DEF t

\* GmtOK: the date that stime_update() has sgmtime() compute is right for every
\* day from January 1, 1970 to December 31, 9999; it is that of the first
\* second of 1970 before, and of the last of 9999 behind.
THEOREM SpecGmtOK == Spec => []GmtOK
<1>1. EveryDay
  <2> SUFFICES ASSUME NEW day \in Days
               PROVE  LET sec == day % (LastSec + 1)
                          gmt == Sgmtime([day |-> day, sec |-> sec])
                      IN  /\ day \in 0..LastDay => IsDayOf(day, gmt) /\ IsSecOf(sec, gmt)
                          /\ day < 0 => IsDayOf(0, gmt) /\ IsSecOf(0, gmt)
                          /\ day > LastDay => IsDayOf(LastDay, gmt) /\ IsSecOf(LastSec, gmt)
    BY SMT DEF EveryDay
  <2>1. day \in Int /\ LastDay \in Nat /\ LastSec \in Nat
    BY SMT, TimeCacheAssumption DEF LastDay, LastSec
  <2> DEFINE sec == day % (LastSec + 1)
             time == [day |-> day, sec |-> sec]
  <2>2. sec \in 0..LastSec
    BY SMT, <2>1
  <2> HIDE DEF sec
  <2>3. time \in Times /\ time.day = day /\ time.sec = sec
    BY SMT, <2>1, <2>2 DEF Times
  <2> HIDE DEF time
  <2>4. IsDayOf(Truncate(time).day, Sgmtime(time)) /\ IsSecOf(Truncate(time).sec, Sgmtime(time))
    BY SMT, <2>3, SgmtimeOK
  <2>5. CASE day \in 0..LastDay
    <3>1. Truncate(time) = time
      BY SMT, <2>1, <2>3, <2>5 DEF Truncate
    <3> QED BY SMT, <2>1, <2>3, <2>4, <2>5, <3>1 DEF sec, time
  <2>6. CASE day < 0
    <3>1. Truncate(time).day = 0 /\ Truncate(time).sec = 0
      BY SMT, <2>1, <2>3, <2>6 DEF Truncate
    <3> QED BY SMT, <2>1, <2>4, <2>6, <3>1 DEF sec, time
  <2>7. CASE day > LastDay
    <3>1. Truncate(time).day = LastDay /\ Truncate(time).sec = LastSec
      BY SMT, <2>1, <2>3, <2>7 DEF Truncate
    <3> QED BY SMT, <2>1, <2>4, <2>7, <3>1 DEF sec, time
  <2> QED BY SMT, <2>1, <2>5, <2>6, <2>7
<1>2. GmtOK
  BY SMT, <1>1 DEF GmtOK
<1> QED BY SMT, <1>1, <1>2, PTL DEF GmtOK
=============================================================================
