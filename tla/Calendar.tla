------------------------------ MODULE Calendar ------------------------------
(***************************************************************************)
(* sgmtime() of times.c: Gauss' formula from a day number to a date.  Times *)
(* are the days since January 1, 1970 and the seconds of the day, into     *)
(* which sgmtime() divides a time_t; one before 1970 has a negative day.   *)
(***************************************************************************)
EXTENDS Integers

LastDay == 2932896   \* December 31, 9999
LastSec == 86399       \* of a day
Times == [day : Int, sec : 0..LastSec]

LeapYear(y) == y % 4 = 0 /\ (y % 100 # 0 \/ y % 400 = 0)

\* Negative times become 0, times behind the last day its last second.
Truncate(t) ==
  IF t.day < 0 THEN [day |-> 0, sec |-> 0]
  ELSE IF t.day > LastDay THEN [day |-> LastDay, sec |-> LastSec] ELSE t

\* Faulty variant: the year that the day belongs to is asked whether it is
\* leap, and not the one that begins on the next March 1.
MarchDayOfYearBefore(days, year) ==
  LET yday == days - (365 * year + year \div 4 - year \div 100 + year \div 400)
  IN  IF yday < 0 THEN <<365 + (IF LeapYear(year - 1) THEN 1 ELSE 0) + yday, year - 1>>
      ELSE <<yday, year>>

\* The days since March 1 of a year, and the year, which is that of the formula
\* or the one before.
MarchDay(days, year) ==
  LET yday == days - (365 * year + year \div 4 - year \div 100 + year \div 400)
  IN  IF yday < 0 THEN <<365 + (IF LeapYear(year) THEN 1 ELSE 0) + yday, year - 1>>
      ELSE <<yday, year>>

\* The fields of the date on the day of march, at the second of t.
Fields(t, march) ==
  LET yday == march[1]
      mon  == ((yday + 31) * 10) \div 306
  IN  [tm_sec |-> (t.sec % 3600) % 60, tm_min |-> (t.sec % 3600) \div 60, tm_hour |-> t.sec \div 3600,
       tm_mday |-> yday - ((367 * mon) \div 12 - 30) + 1,
       tm_wday |-> (4 + t.day) % 7,
       tm_mon |-> IF yday >= 306 THEN mon - 10 ELSE mon + 2,
       tm_year |-> IF yday >= 306 THEN march[2] + 1 ELSE march[2]]

Sgmtime(time) ==
  LET t    == Truncate(time)
      days == t.day - (31 + 28) + 719527
  IN  Fields(t, MarchDay(days, ((days + 2) * 400) \div (365 * 400 + 100 - 4 + 1)))
=============================================================================
