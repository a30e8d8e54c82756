------------------------------ MODULE TimeZone ------------------------------
(***************************************************************************)
(* base/Date.cpp and base/TimeZone.cpp: Julian day numbers, UTC times and   *)
(* the local times of a zone.  A time is a number of seconds since the      *)
(* epoch.  gmtime_r() and timegm() of the C library, which the code mixes   *)
(* with its own conversions, are defined by counting days; they are the     *)
(* reference for the code's arithmetic.                                     *)
(***************************************************************************)
EXTENDS Integers, Sequences

\* The division and remainder of C++, which round towards zero.
Quot(a, b) == IF a >= 0 THEN a \div b ELSE -((-a) \div b)
Rem(a, b) == a - b * Quot(a, b)

kSecondsPerDay == 24 * 60 * 60
-----------------------------------------------------------------------------
(* Date.                                                                   *)

getJulianDayNumber(year, month, day) ==
  LET a == (14 - month) \div 12
      y == year + 4800 - a
      m == month + 12 * a - 3
  IN  day + (153 * m + 2) \div 5 + y * 365 + y \div 4 - y \div 100 + y \div 400 - 32045

JulianCalendar(julianDayNumber) ==
  LET a == julianDayNumber + 32082
      d == (4 * a + 3) \div 1461
      e == a - ((1461 * d) \div 4)
      m == (5 * e + 2) \div 153
  IN  [day |-> e - ((153 * m + 2) \div 5) + 1,
       month |-> m + 3 - 12 * (m \div 10),
       year |-> d - 4800 + (m \div 10)]

getYearMonthDay(julianDayNumber) ==
  LET a == julianDayNumber + 32044
      b == (4 * a + 3) \div 146097
      c == a - ((b * 146097) \div 4)
      d == (4 * c + 3) \div 1461
      e == c - ((1461 * d) \div 4)
      m == (5 * e + 2) \div 153
  IN  [day |-> e - ((153 * m + 2) \div 5) + 1,
       month |-> m + 3 - 12 * (m \div 10),
       year |-> b * 100 + d - 4800 + (m \div 10)]

kJulianDayOf1970_01_01 == getJulianDayNumber(1970, 1, 1)

weekDay(julianDayNumber) == (julianDayNumber + 1) % 7
-----------------------------------------------------------------------------
(* UTC.                                                                    *)

fillHMS(seconds) ==
  LET minutes == seconds \div 60
  IN  [hour |-> minutes \div 60, min |-> minutes % 60, sec |-> seconds % 60]

\* A struct tm: the date, the time of day, and what follows from the date.
Tm(ymd, hms, wday, yday) ==
  [year |-> ymd.year, month |-> ymd.month, day |-> ymd.day,
   hour |-> hms.hour, min |-> hms.min, sec |-> hms.sec, wday |-> wday, yday |-> yday]

toUtcTime(secondsSinceEpoch) ==
  LET rest == Rem(secondsSinceEpoch, kSecondsPerDay)
      seconds == IF rest < 0 THEN rest + kSecondsPerDay ELSE rest
      days == Quot(secondsSinceEpoch, kSecondsPerDay) - (IF rest < 0 THEN 1 ELSE 0)
      date == days + kJulianDayOf1970_01_01
      ymd == getYearMonthDay(date)
  IN  Tm(ymd, fillHMS(seconds), weekDay(date), date - getJulianDayNumber(ymd.year, 1, 1))

fromUtcTime(tm) ==
  LET days == getJulianDayNumber(tm.year, tm.month, tm.day) - kJulianDayOf1970_01_01
  IN  days * kSecondsPerDay + tm.hour * 3600 + tm.min * 60 + tm.sec

\* The C library, by counting.  Years are those Date.h allows.
IsLeap(y) == y % 4 = 0 /\ (y % 100 # 0 \/ y % 400 = 0)
DaysBeforeYear(y) == 365 * (y - 1970) + ((y - 1969) \div 4) - ((y - 1901) \div 100) + ((y - 1601) \div 400)
DaysBeforeMonth(y, m) ==
  <<0, 31, 59, 90, 120, 151, 181, 212, 243, 273, 304, 334, 365>>[m]
    + (IF m > 2 /\ IsLeap(y) THEN 1 ELSE 0)

gmtime_r(t) ==
  LET day == t \div kSecondsPerDay
      y == CHOOSE y \in (1969 + day \div 366)..(1971 + day \div 365) :
             DaysBeforeYear(y) <= day /\ day < DaysBeforeYear(y + 1)
      yday == day - DaysBeforeYear(y)
      m == CHOOSE m \in 1..12 : DaysBeforeMonth(y, m) <= yday /\ yday < DaysBeforeMonth(y, m + 1)
  IN  Tm([year |-> y, month |-> m, day |-> yday - DaysBeforeMonth(y, m) + 1],
         fillHMS(t % kSecondsPerDay), (day + 4) % 7, yday)

timegm(tm) ==
  (DaysBeforeYear(tm.year) + DaysBeforeMonth(tm.year, tm.month) + tm.day - 1) * kSecondsPerDay
    + tm.hour * 3600 + tm.min * 60 + tm.sec
-----------------------------------------------------------------------------
(* Zones: data.localtimes holds offsets, data.transitions the times at      *)
(* which one of them begins, with that time in the new local time.          *)

\* The zone of a file with transitions <<time, index>> and types that ends after
\* the first n types: the types read so far are kept, and the zone counts as valid.
\* A file that is missing, has another head or ends before its types is n = 0: the
\* zone is valid and empty, and findLocaltime() takes the front() of an empty vector.
readTimeZoneFile(trans, types, n) ==
  [localtimes |-> SubSeq(types, 1, n),
   transitions |-> IF n < Len(types) THEN << >> ELSE [i \in DOMAIN trans |->
      [gmttime |-> trans[i][1], localtime |-> trans[i][1] + types[trans[i][2]].gmtOffset,
       localtimeIdx |-> trans[i][2]]]]

\* TimeZone(eastOfUtc, name).
fixedZone(eastOfUtc) ==
  [localtimes |-> <<[gmtOffset |-> eastOfUtc, isDst |-> FALSE]>>, transitions |-> << >>]

key(transition, gmt) == IF gmt THEN transition.gmttime ELSE transition.localtime

\* std::lower_bound over the transitions.
lower_bound(data, t, gmt) ==
  CHOOSE i \in 1..(Len(data.transitions) + 1) :
    /\ \A j \in 1..(i - 1) : key(data.transitions[j], gmt) < t
    /\ i <= Len(data.transitions) => key(data.transitions[i], gmt) >= t

findPrevious(data, t, gmt) ==
  LET n == Len(data.transitions)
      i == lower_bound(data, t, gmt)
  IN  IF i = 1 THEN data.localtimes[1]
      ELSE data.localtimes[data.transitions[i - 1].localtimeIdx]

findLocaltime(data, t, gmt) ==
  LET n == Len(data.transitions)
      i == lower_bound(data, t, gmt)
      before == IF key(data.transitions[i], gmt) = t THEN i ELSE i - 1
  IN  IF n = 0 \/ t < key(data.transitions[1], gmt) THEN data.localtimes[1]
      ELSE data.localtimes[data.transitions[IF i <= n THEN before ELSE n].localtimeIdx]

toLocalTime(data, seconds) ==
  LET local == findLocaltime(data, seconds, TRUE)
  IN  [tm |-> gmtime_r(seconds + local.gmtOffset), isDst |-> local.isDst]

fromLocalTime(data, localTm) ==
  LET seconds == timegm(localTm.tm)
      local == findLocaltime(data, seconds, FALSE)
      tryTm == toLocalTime(data, seconds - local.gmtOffset)
      repeated == /\ localTm.isDst /\ ~tryTm.isDst
                  /\ tryTm.tm.hour = localTm.tm.hour /\ tryTm.tm.min = localTm.tm.min
  IN  (IF repeated THEN seconds - 3600 ELSE seconds) - local.gmtOffset
=============================================================================
