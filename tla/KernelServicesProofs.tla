------------------------ MODULE KernelServicesProofs ------------------------
(***************************************************************************)
(* The date, for every instant of the CMOS clock and every time zone; the  *)
(* K&R heap, for every arena: it implements Allocator, refuses only what   *)
(* does not fit and reports what is free; the keyboard driver, for         *)
(* every ring: no key waits for a reader that sleeps, and the modifiers    *)
(* are followed exactly; the screen, for every size: it shows the line     *)
(* that the shell will run; and the linked list, for every number of       *)
(* nodes: it implements List, whose traversals never skip.                 *)
(***************************************************************************)
EXTENDS KernelServices, NaturalMinMax, FiniteSetTheorems, SequenceTheorems, TLAPS

-----------------------------------------------------------------------------
(* The calendar.  A day has a number, and the day before and the day after *)
(* have the numbers before and after.                                      *)

YearStart(y) == 365 * (y - 1) + (y - 1) \div 4 - (y - 1) \div 100 + (y - 1) \div 400

MonthStart(y, m) == (367 * m - 362) \div 12 +
                    (IF m <= 2 THEN 0 ELSE IF isLeapYear(y) THEN -1 ELSE -2)

LEMMA DayNumberIs ==
    ASSUME NEW t, t.year \in Int, t.month \in Int, t.day \in Int
    PROVE  DayNumber(t) = YearStart(t.year) + MonthStart(t.year, t.month) + t.day
BY DEF DayNumber, YearStart, MonthStart

LEMMA YearLength ==
    ASSUME NEW y \in Nat \ {0}
    PROVE  /\ YearStart(y) \in Int
           /\ YearStart(y + 1) = YearStart(y) + IF isLeapYear(y) THEN 366 ELSE 365
<1>1. /\ y \div 4 = (y - 1) \div 4 + IF y % 4 = 0 THEN 1 ELSE 0
      /\ (y - 1) \div 4 \in Int
  OBVIOUS
<1>2. /\ y \div 100 = (y - 1) \div 100 + IF y % 100 = 0 THEN 1 ELSE 0
      /\ (y - 1) \div 100 \in Int
  OBVIOUS
<1>3. /\ y \div 400 = (y - 1) \div 400 + IF y % 400 = 0 THEN 1 ELSE 0
      /\ (y - 1) \div 400 \in Int
  OBVIOUS
<1>4. /\ y % 400 = 0 => y % 100 = 0 /\ y % 4 = 0
      /\ y % 100 = 0 => y % 4 = 0
  OBVIOUS
<1> QED
  BY <1>1, <1>2, <1>3, <1>4 DEF YearStart, isLeapYear

LEMMA MonthLength ==
    ASSUME NEW y \in Nat \ {0}, NEW m \in 1 .. 12
    PROVE  /\ monthdays(y, m) \in 28 .. 31 /\ MonthStart(y, m) \in Int
           /\ m < 12 => MonthStart(y, m + 1) = MonthStart(y, m) + monthdays(y, m)
           /\ MonthStart(y, 1) = 0
           /\ MonthStart(y, 12) = (IF isLeapYear(y) THEN 366 ELSE 365) - 31
           /\ monthdays(y, 12) = 31
<1>1. isLeapYear(y) \in BOOLEAN
  BY DEF isLeapYear
<1>2. /\ (367 * 1 - 362) \div 12 = 0 /\ (367 * 2 - 362) \div 12 = 31
      /\ (367 * 3 - 362) \div 12 = 61 /\ (367 * 4 - 362) \div 12 = 92
      /\ (367 * 5 - 362) \div 12 = 122 /\ (367 * 6 - 362) \div 12 = 153
      /\ (367 * 7 - 362) \div 12 = 183 /\ (367 * 8 - 362) \div 12 = 214
      /\ (367 * 9 - 362) \div 12 = 245 /\ (367 * 10 - 362) \div 12 = 275
      /\ (367 * 11 - 362) \div 12 = 306 /\ (367 * 12 - 362) \div 12 = 336
  OBVIOUS
<1>3. \/ m = 1 \/ m = 2 \/ m = 3 \/ m = 4 \/ m = 5 \/ m = 6
      \/ m = 7 \/ m = 8 \/ m = 9 \/ m = 10 \/ m = 11 \/ m = 12
  OBVIOUS
<1>4. CASE m \in {1, 2, 3}
  BY <1>1, <1>2, <1>4 DEF MonthStart, monthdays
<1>5. CASE m \in {4, 5, 6}
  BY <1>1, <1>2, <1>5 DEF MonthStart, monthdays
<1>6. CASE m \in {7, 8, 9}
  BY <1>1, <1>2, <1>6 DEF MonthStart, monthdays
<1>7. CASE m \in {10, 11, 12}
  BY <1>1, <1>2, <1>7 DEF MonthStart, monthdays
<1> QED
  BY <1>3, <1>4, <1>5, <1>6, <1>7

\* A day of the calendar.
IsDay(t) ==
    /\ t.year \in Nat \ {0} /\ t.month \in 1 .. 12
    /\ t.day \in 1 .. monthdays(t.year, t.month)

\* From one day number to another by year, month and day.
LEMMA DayNumberOf ==
    ASSUME NEW y \in Nat \ {0}, NEW m \in 1 .. 12, NEW d \in Int
    PROVE  /\ DayNumber(Date(y, m, d)) = YearStart(y) + MonthStart(y, m) + d
           /\ DayNumber(Date(y, m, d)) \in Int
<1>1. /\ Date(y, m, d).year = y /\ Date(y, m, d).month = m /\ Date(y, m, d).day = d
  BY DEF Date
<1>2. YearStart(y) \in Int /\ MonthStart(y, m) \in Int
  BY YearLength, MonthLength
<1> QED
  BY <1>1, <1>2, DayNumberIs

LEMMA DayAfterExact ==
    ASSUME NEW t, IsDay(t)
    PROVE  IsDay(DayAfter(t)) /\ DayNumber(DayAfter(t)) = DayNumber(t) + 1
<1> DEFINE y == t.year
           m == t.month
           d == t.day
           later == DayAfter(t)
<1>1. /\ y \in Nat \ {0} /\ m \in 1 .. 12 /\ d \in 1 .. monthdays(y, m)
      /\ monthdays(y, m) \in 28 .. 31 /\ d \in Int
  BY MonthLength DEF IsDay
<1>2. /\ DayNumber(t) = YearStart(y) + MonthStart(y, m) + d
      /\ YearStart(y) \in Int /\ MonthStart(y, m) \in Int
  BY <1>1, DayNumberIs, YearLength, MonthLength
<1>3. CASE d # monthdays(y, m)
  <2>1. later = Date(y, m, d + 1) /\ d + 1 \in 1 .. monthdays(y, m)
    BY <1>1, <1>3 DEF DayAfter
  <2> QED
    BY <1>1, <1>2, <2>1, DayNumberOf DEF IsDay, Date
<1>4. CASE d = monthdays(y, m) /\ m = 12
  <2>1. later = Date(y + 1, 1, 1) /\ y + 1 \in Nat \ {0}
    BY <1>1, <1>4 DEF DayAfter
  <2>2. DayNumber(later) = YearStart(y + 1) + MonthStart(y + 1, 1) + 1
    <3>1. 1 \in 1 .. 12 /\ 1 \in Int
      OBVIOUS
    <3> QED
      BY <2>1, <3>1, DayNumberOf, Zenon
  <2>3. MonthStart(y + 1, 1) = 0 /\ d = 31 /\ monthdays(y + 1, 1) \in 28 .. 31
    BY <1>1, <1>4, <2>1, MonthLength
  <2>4. MonthStart(y, m) = (IF isLeapYear(y) THEN 366 ELSE 365) - 31
    BY <1>1, <1>4, MonthLength
  <2>5. DayNumber(later) = DayNumber(t) + 1
    BY <1>1, <1>2, <2>2, <2>3, <2>4, YearLength
  <2> QED
    BY <2>1, <2>3, <2>5 DEF IsDay, Date
<1>5. CASE d = monthdays(y, m) /\ m # 12
  <2>1. later = Date(y, m + 1, 1) /\ m + 1 \in 1 .. 12
    BY <1>1, <1>5 DEF DayAfter
  <2>2. DayNumber(later) = YearStart(y) + MonthStart(y, m + 1) + 1
    <3>1. 1 \in Int
      OBVIOUS
    <3> QED
      BY <1>1, <2>1, <3>1, DayNumberOf, Zenon
  <2>3. monthdays(y, m + 1) \in 28 .. 31 /\ MonthStart(y, m + 1) = MonthStart(y, m) + d
    BY <1>1, <1>5, <2>1, MonthLength
  <2> QED
    BY <1>1, <1>2, <2>1, <2>2, <2>3 DEF IsDay, Date
<1> QED
  BY <1>3, <1>4, <1>5

LEMMA DayBeforeExact ==
    ASSUME NEW t, IsDay(t), t.year > 1
    PROVE  IsDay(DayBefore(t)) /\ DayNumber(DayBefore(t)) = DayNumber(t) - 1
<1> DEFINE y == t.year
           m == t.month
           d == t.day
           last == DayBefore(t)
<1>1. /\ y \in Nat \ {0} /\ m \in 1 .. 12 /\ d \in 1 .. monthdays(y, m)
      /\ monthdays(y, m) \in 28 .. 31 /\ d \in Int
  BY MonthLength DEF IsDay
<1>2. /\ DayNumber(t) = YearStart(y) + MonthStart(y, m) + d
      /\ YearStart(y) \in Int /\ MonthStart(y, m) \in Int
  BY <1>1, DayNumberIs, YearLength, MonthLength
<1>3. CASE d > 1
  <2>1. last = Date(y, m, d - 1) /\ d - 1 \in 1 .. monthdays(y, m)
    BY <1>1, <1>3 DEF DayBefore
  <2> QED
    BY <1>1, <1>2, <2>1, DayNumberOf DEF IsDay, Date
<1>4. CASE d = 1 /\ m = 1
  <2>1. y - 1 \in Nat \ {0}
    BY <1>1
  <2>2. monthdays(y - 1, 12) = 31
    BY <1>1, <2>1, MonthLength
  <2>3. last = Date(y - 1, 12, 31)
    BY <1>1, <1>4, <2>2 DEF DayBefore
  <2>4. DayNumber(last) = YearStart(y - 1) + MonthStart(y - 1, 12) + 31
    <3>1. \A k \in 1 .. 12, e \in Int :
              DayNumber(Date(y - 1, k, e)) = YearStart(y - 1) + MonthStart(y - 1, k) + e
      BY <2>1, DayNumberOf
    <3>2. 12 \in 1 .. 12 /\ 31 \in Int
      OBVIOUS
    <3> QED
      BY <2>3, <3>1, <3>2, Zenon
  <2>5. /\ MonthStart(y - 1, 12) = (IF isLeapYear(y - 1) THEN 366 ELSE 365) - 31
        /\ MonthStart(y, 1) = 0
    BY <1>1, <2>1, MonthLength
  <2>6. /\ YearStart((y - 1) + 1) = YearStart(y - 1) + IF isLeapYear(y - 1) THEN 366 ELSE 365
        /\ YearStart(y - 1) \in Int /\ (y - 1) + 1 = y
    BY <1>1, <2>1, YearLength
  <2>7. DayNumber(last) = DayNumber(t) - 1
    BY <1>2, <1>4, <2>4, <2>5, <2>6
  <2> QED
    BY <2>1, <2>2, <2>3, <2>7 DEF IsDay, Date
<1>5. CASE d = 1 /\ m # 1
  <2>1. m - 1 \in 1 .. 12 /\ m - 1 < 12 /\ (m - 1) + 1 = m
    BY <1>1, <1>5
  <2>2. last = Date(y, m - 1, monthdays(y, m - 1))
    BY <1>1, <1>5 DEF DayBefore
  <2>3. /\ monthdays(y, m - 1) \in 28 .. 31 /\ MonthStart(y, m - 1) \in Int
        /\ MonthStart(y, m) = MonthStart(y, m - 1) + monthdays(y, m - 1)
    BY <1>1, <2>1, MonthLength
  <2>4. DayNumber(last) = YearStart(y) + MonthStart(y, m - 1) + monthdays(y, m - 1)
    <3>1. PICK n \in Int : n = monthdays(y, m - 1)
      BY <2>3
    <3>2. DayNumber(Date(y, m - 1, n)) = YearStart(y) + MonthStart(y, m - 1) + n
      BY <1>1, <2>1, DayNumberOf, Zenon
    <3> QED
      BY <2>2, <3>1, <3>2
  <2>5. DayNumber(last) = DayNumber(t) - 1
    BY <1>2, <1>5, <2>3, <2>4
  <2> QED
    BY <1>1, <2>1, <2>2, <2>3, <2>5 DEF IsDay, Date
<1> QED
  BY <1>1, <1>3, <1>4, <1>5

-----------------------------------------------------------------------------
(* The date that is made of the registers.                                 *)

\* An instant of the CMOS clock, in a year that has one before.
IsInstant(t) ==
    /\ IsDay(t) /\ t.year > 1
    /\ t.hours \in 0 .. 23 /\ t.mins \in 0 .. 59 /\ t.secs \in 0 .. 59

\* Time zones of less than a day, forward and back, whatever the sign of the minutes.
IsZone(tz) == tz.hours \in -23 .. 23 /\ tz.minutes \in -59 .. 59

\* Where a time zone moves the hours and the minutes.
LEMMA ZoneSums ==
    ASSUME NEW t, IsInstant(t), NEW tz, IsZone(tz), NEW r,
           r.hours = t.hours + tz.hours, r.mins = t.mins + tz.minutes
    PROVE  /\ r.hours \in -23 .. 46 /\ r.mins \in -59 .. 118
           /\ r.hours \in Int /\ r.mins \in Int
<1>1. ASSUME NEW a \in 0 .. 23, NEW b \in -23 .. 23
      PROVE  a + b \in -23 .. 46
  OBVIOUS
<1>2. ASSUME NEW a \in 0 .. 59, NEW b \in -59 .. 59
      PROVE  a + b \in -59 .. 118
  OBVIOUS
<1>3. t.hours \in 0 .. 23 /\ tz.hours \in -23 .. 23
  BY Zenon DEF IsInstant, IsZone
<1>4. t.mins \in 0 .. 59 /\ tz.minutes \in -59 .. 59
  BY Zenon DEF IsInstant, IsZone
<1>5. t.hours + tz.hours \in -23 .. 46 /\ t.mins + tz.minutes \in -59 .. 118
  <2>1. t.hours + tz.hours \in -23 .. 46
    BY <1>1, <1>3, Zenon
  <2>2. t.mins + tz.minutes \in -59 .. 118
    BY <1>2, <1>4, Zenon
  <2> QED
    BY <2>1, <2>2, Zenon
<1>6. r.hours \in -23 .. 46 /\ r.mins \in -59 .. 118
  BY <1>5, Zenon
<1>7. (\A x \in -23 .. 46 : x \in Int) /\ (\A x \in -59 .. 118 : x \in Int)
  OBVIOUS
<1> QED
  BY <1>6, <1>7, Zenon

\* Hours and minutes moved by the time zone are brought back into a day by
\* one day and one hour at most.
LEMMA DateMoved ==
    ASSUME NEW t, IsInstant(t), NEW tz, IsZone(tz), NEW r,
           r.hours = t.hours + tz.hours, r.mins = t.mins + tz.minutes,
           r.day = t.day, r.month = t.month, r.year = t.year, r.secs = t.secs
    PROVE  /\ IsDate(CurrentDateTime(r))
           /\ SecondsSince(t, CurrentDateTime(r)) = SecondsSince(t, t) + Offset(tz)
<1>0. /\ r.hours \in -23 .. 46 /\ r.mins \in -59 .. 118
      /\ r.hours \in Int /\ r.mins \in Int
  BY ZoneSums
<1> DEFINE h == r.hours + (IF r.mins < 0 THEN -1 ELSE IF r.mins >= 60 THEN 1 ELSE 0)
           date == IF h < 0 THEN DayBefore(r)
                   ELSE IF h >= 24 THEN DayAfter(r) ELSE Date(r.year, r.month, r.day)
           now == CurrentDateTime(r)
           shift == IF h < 0 THEN -1 ELSE IF h >= 24 THEN 1 ELSE 0
<1>1. /\ t.hours \in 0 .. 23 /\ t.mins \in 0 .. 59 /\ t.secs \in 0 .. 59
      /\ tz.hours \in -23 .. 23 /\ tz.minutes \in -59 .. 59
  BY DEF IsInstant, IsZone
<1>2. IsDay(r) /\ r.year > 1 /\ DayNumber(r) = DayNumber(t)
  BY DEF IsInstant, IsDay, DayNumber
<1>3. DayNumber(r) \in Int
  <2>1. r.year \in Nat \ {0} /\ r.month \in 1 .. 12 /\ r.day \in Int
    BY <1>2, MonthLength DEF IsDay
  <2>2. YearStart(r.year) \in Int /\ MonthStart(r.year, r.month) \in Int
    BY <2>1, YearLength, MonthLength
  <2> QED
    BY <2>1, <2>2, DayNumberIs
<1>4. IsDay(date) /\ DayNumber(date) = DayNumber(t) + shift
  <2>1. CASE h < 0
    BY <1>2, <1>3, <2>1, DayBeforeExact
  <2>2. CASE ~(h < 0) /\ h >= 24
    BY <1>2, <1>3, <2>2, DayAfterExact
  <2>3. CASE ~(h < 0) /\ ~(h >= 24)
    <3>1. date = Date(r.year, r.month, r.day)
      BY <2>3
    <3>2. IsDay(date) /\ DayNumber(date) = DayNumber(r)
      BY <1>2, <3>1 DEF IsDay, Date, DayNumber
    <3> QED
      BY <1>2, <1>3, <2>3, <3>2
  <2> QED
    BY <2>1, <2>2, <2>3
<1>5. /\ now.year = date.year /\ now.month = date.month /\ now.day = date.day
      /\ now.hours = (h + 24) % 24 /\ now.mins = (r.mins + 60) % 60 /\ now.secs = r.secs
  BY DEF CurrentDateTime
<1>6. DayNumber(now) = DayNumber(date)
  BY <1>5 DEF DayNumber
<1> HIDE DEF now, date
<1>7. /\ (h + 24) % 24 = h - 24 * shift
      /\ h - 24 * shift \in 0 .. 23
  <2>1. r.hours \in -23 .. 46 /\ r.mins \in Int
    BY <1>0
  <2>2. h \in -24 .. 47
    BY <2>1
  <2>3. ASSUME NEW x \in -24 .. 47
        PROVE  /\ x < 0 => (x + 24) % 24 = x + 24
               /\ x >= 24 => (x + 24) % 24 = x - 24
               /\ x \in 0 .. 23 => (x + 24) % 24 = x
    <3>1. CASE x < 0
      BY <3>1
    <3>2. CASE x >= 24
      BY <3>2
    <3>3. CASE x \in 0 .. 23
      BY <3>3
    <3> QED
      BY <3>1, <3>2, <3>3
  <2> HIDE DEF h
  <2> QED
    BY <2>2, <2>3
<1>8. /\ (r.mins + 60) % 60 \in 0 .. 59
      /\ (r.mins + 60) % 60 =
            r.mins + (IF r.mins < 0 THEN 60 ELSE IF r.mins >= 60 THEN -60 ELSE 0)
  <2>1. r.mins \in -59 .. 118
    BY <1>0
  <2>2. CASE r.mins < 0
    BY <2>1, <2>2
  <2>3. CASE r.mins \in 0 .. 59
    BY <2>3
  <2>4. CASE r.mins >= 60
    BY <2>1, <2>4
  <2> QED
    BY <2>1, <2>2, <2>3, <2>4
<1>9. IsDate(now)
  BY <1>4, <1>5, <1>7, <1>8 DEF IsDate, IsDay
<1>10. SecondsSince(t, now) = SecondsSince(t, t) + Offset(tz)
  <2> DEFINE dn == DayNumber(t)
             b == IF r.mins < 0 THEN -1 ELSE IF r.mins >= 60 THEN 1 ELSE 0
  <2>1. /\ DayNumber(now) - dn = shift /\ dn - dn = 0
        /\ now.hours = t.hours + tz.hours + b - 24 * shift
        /\ now.mins = (t.mins + tz.minutes) - 60 * b /\ now.secs = t.secs
    <3>1. DayNumber(now) - dn = shift /\ dn - dn = 0
      BY <1>2, <1>3, <1>4, <1>6
    <3>2. now.hours = t.hours + tz.hours + b - 24 * shift
      <4>1. now.hours = h - 24 * shift
        BY <1>5, <1>7
      <4>2. h = r.hours + b /\ r.hours = t.hours + tz.hours
        OBVIOUS
      <4>3. t.hours \in Int /\ tz.hours \in Int /\ b \in Int /\ shift \in Int
        BY <1>1
      <4> HIDE DEF h, b, shift
      <4> QED
        BY <4>1, <4>2, <4>3
    <3>3. now.mins = (t.mins + tz.minutes) - 60 * b /\ now.secs = t.secs
      <4>1. r.mins \in Int /\ r.mins = t.mins + tz.minutes
        BY <1>0
      <4>2. (r.mins + 60) % 60 = r.mins - 60 * b
        <5>1. CASE r.mins < 0
          BY <1>8, <4>1, <5>1
        <5>2. CASE r.mins >= 60
          BY <1>8, <4>1, <5>2
        <5>3. CASE ~(r.mins < 0) /\ ~(r.mins >= 60)
          BY <1>8, <4>1, <5>3
        <5> QED
          BY <5>1, <5>2, <5>3
      <4>3. now.mins = r.mins - 60 * b
        BY <1>5, <4>2, Zenon
      <4>4. now.secs = t.secs
        BY <1>5
      <4> HIDE DEF b
      <4> QED
        BY <4>1, <4>3, <4>4, Zenon
    <3> QED
      BY <3>1, <3>2, <3>3
  <2>2. b \in Int /\ shift \in Int
    OBVIOUS
  <2> HIDE DEF b, shift, h
  <2>3. /\ SecondsSince(t, now) = (((DayNumber(now) - dn) * 24 + now.hours) * 60 + now.mins) * 60 + now.secs
        /\ SecondsSince(t, t) = (((dn - dn) * 24 + t.hours) * 60 + t.mins) * 60 + t.secs
        /\ Offset(tz) = (tz.hours * 60 + tz.minutes) * 60
    BY DEF SecondsSince, Offset
  <2>4. PICK th, tm, ts, zh, zm \in Int :
           th = t.hours /\ tm = t.mins /\ ts = t.secs /\ zh = tz.hours /\ zm = tz.minutes
    <3>1. /\ t.hours \in Int /\ t.mins \in Int /\ t.secs \in Int
          /\ tz.hours \in Int /\ tz.minutes \in Int
      BY <1>1
    <3> QED
      BY <3>1, Zenon
  <2>5. /\ SecondsSince(t, now)
             = ((shift * 24 + (th + zh + b - 24 * shift)) * 60 + ((tm + zm) - 60 * b)) * 60 + ts
        /\ SecondsSince(t, t) = ((0 * 24 + th) * 60 + tm) * 60 + ts
        /\ Offset(tz) = (zh * 60 + zm) * 60
    BY <2>1, <2>3, <2>4, Zenon
  <2>6. ((shift * 24 + (th + zh + b - 24 * shift)) * 60 + ((tm + zm) - 60 * b)) * 60 + ts
           = (((0 * 24 + th) * 60 + tm) * 60 + ts) + (zh * 60 + zm) * 60
    BY <2>2, <2>4
  <2> QED
    BY <2>5, <2>6, Zenon
<1> QED
  BY <1>9, <1>10 DEF now

-----------------------------------------------------------------------------
(* The registers, read one by one.                                         *)

Instant == [year : Nat, month : Nat, day : Nat, hours : Nat, mins : Nat, secs : Nat]

\* The CMOS clock starts at an instant of the calendar, and time zones are of less
\* than a day.
RealDates ==
    /\ \A t \in Instants : t \in Instant /\ IsInstant(t)
    /\ \A tz \in TimeZones : IsZone(tz)

ClockInv ==
    /\ rtc \in Instant /\ IsInstant(rtc) /\ IsZone(timezone)
    /\ regs \in Seq(Int) /\ Len(regs) <= 6
    /\ undisturbed => \A i \in 1 .. Len(regs) : regs[i] = Moved(ReadOrder[i])

LEMMA OrderOfReading ==
    /\ Len(ReadOrder) = 6
    /\ ReadOrder[1] = "hours" /\ ReadOrder[2] = "mins" /\ ReadOrder[3] = "day"
    /\ ReadOrder[4] = "month" /\ ReadOrder[5] = "year" /\ ReadOrder[6] = "secs"
BY DEF ReadOrder

LEMMA MovedRegisters ==
    /\ Moved("hours") = rtc.hours + timezone.hours
    /\ Moved("mins") = rtc.mins + timezone.minutes
    /\ Moved("day") = rtc.day + 0 /\ Moved("month") = rtc.month + 0
    /\ Moved("year") = rtc.year + 0 /\ Moved("secs") = rtc.secs + 0
<1>1. Moved("hours") = rtc.hours + timezone.hours
  BY Zenon DEF Moved
<1>2. Moved("mins") = rtc.mins + timezone.minutes
  BY Zenon DEF Moved
<1>3. Moved("day") = rtc.day + 0
  BY Zenon DEF Moved
<1>4. Moved("month") = rtc.month + 0 
  BY Zenon DEF Moved
<1>5. Moved("year") = rtc.year + 0 
  BY Zenon DEF Moved
<1>6. Moved("secs") = rtc.secs + 0 
  BY Zenon DEF Moved
<1> QED
  BY <1>1, <1>2, <1>3, <1>4, <1>5, <1>6

\* The CMOS clock goes from one instant to the next.
LEMMA NextInstant ==
    ASSUME NEW t \in Instant, IsInstant(t)
    PROVE  NextSecond(t) \in Instant /\ IsInstant(NextSecond(t))
<1> DEFINE later == NextSecond(t)
<1>1. CASE t.secs < 59
  <2>1. NextSecond(t) = [t EXCEPT !.secs = @ + 1]
    BY <1>1 DEF NextSecond
  <2>2. /\ later.year = t.year /\ later.month = t.month /\ later.day = t.day
        /\ later.hours = t.hours /\ later.mins = t.mins /\ later.secs = t.secs + 1
        /\ later \in Instant
    BY <2>1 DEF Instant
  <2> QED
    BY <1>1, <2>2 DEF IsInstant, IsDay
<1>2. CASE ~(t.secs < 59) /\ t.mins < 59
  <2> DEFINE k == t.mins + 1
  <2>1. NextSecond(t) = [t EXCEPT !.secs = 0, !.mins = @ + 1]
    BY <1>2 DEF NextSecond
  <2>2. PICK a : a = [t EXCEPT !.secs = 0] /\ later = [a EXCEPT !.mins = k]
    BY <2>1, Zenon DEF Instant
  <2>3. k \in Nat
    BY DEF Instant
  <2> HIDE DEF later, k
  <2>4. /\ a.year = t.year /\ a.month = t.month /\ a.day = t.day
        /\ a.hours = t.hours /\ a.secs = 0 /\ a \in Instant
    BY <2>2 DEF Instant
  <2>5. /\ later.year = a.year /\ later.month = a.month /\ later.day = a.day
        /\ later.hours = a.hours /\ later.mins = k /\ later.secs = a.secs /\ later \in Instant
    BY <2>2, <2>3, <2>4 DEF Instant
  <2> QED
    BY <1>2, <2>4, <2>5 DEF IsInstant, IsDay, k, later
<1>3. CASE ~(t.secs < 59) /\ ~(t.mins < 59) /\ t.hours < 23
  <2> DEFINE k == t.hours + 1
  <2>1. NextSecond(t) = [t EXCEPT !.secs = 0, !.mins = 0, !.hours = @ + 1]
    BY <1>3 DEF NextSecond
  <2>2. PICK a, b : /\ a = [t EXCEPT !.secs = 0] /\ b = [a EXCEPT !.mins = 0]
                    /\ later = [b EXCEPT !.hours = k]
    BY <2>1, Zenon DEF Instant
  <2>3. k \in Nat
    BY DEF Instant
  <2> HIDE DEF later, k
  <2>4. /\ a.year = t.year /\ a.month = t.month /\ a.day = t.day
        /\ a.hours = t.hours /\ a.secs = 0 /\ a \in Instant
    BY <2>2 DEF Instant
  <2>5. /\ b.year = a.year /\ b.month = a.month /\ b.day = a.day
        /\ b.hours = a.hours /\ b.mins = 0 /\ b.secs = a.secs /\ b \in Instant
    BY <2>2, <2>4 DEF Instant
  <2>6. /\ later.year = b.year /\ later.month = b.month /\ later.day = b.day
        /\ later.hours = k /\ later.mins = b.mins /\ later.secs = b.secs /\ later \in Instant
    BY <2>2, <2>3, <2>5 DEF Instant
  <2> QED
    BY <1>3, <2>4, <2>5, <2>6 DEF IsInstant, IsDay, k, later
<1>4. CASE ~(t.secs < 59) /\ ~(t.mins < 59) /\ ~(t.hours < 23)
  <2> DEFINE d == DayAfter(t)
  <2>1. later = [year |-> d.year, month |-> d.month, day |-> d.day,
                hours |-> 0, mins |-> 0, secs |-> 0]
    BY <1>4, Zenon DEF NextSecond
  <2>2. d.year = t.year \/ d.year = t.year + 1
    BY DEF DayAfter, Date
  <2>3. IsDay(t) /\ t.year > 1
    BY DEF IsInstant
  <2>4. IsDay(d)
    BY <2>3, DayAfterExact
  <2> HIDE DEF d, later
  <2>5. /\ d.year \in Nat \ {0} /\ d.month \in 1 .. 12 /\ d.day \in 1 .. 31
        /\ d.day \in 1 .. monthdays(d.year, d.month) /\ d.year > 1
    <3>1. d.year \in Nat \ {0} /\ d.month \in 1 .. 12 /\ d.day \in 1 .. monthdays(d.year, d.month)
      BY <2>4 DEF IsDay
    <3>2. monthdays(d.year, d.month) \in 28 .. 31
      BY <3>1, MonthLength
    <3>3. t.year \in Nat
      BY DEF Instant
    <3> QED
      BY <2>2, <2>3, <3>1, <3>2, <3>3
  <2>6. /\ later.year = d.year /\ later.month = d.month /\ later.day = d.day
        /\ later.hours = 0 /\ later.mins = 0 /\ later.secs = 0
    BY <2>1
  <2>7. later \in Instant
    BY <2>1, <2>5 DEF Instant
  <2> QED
    BY <2>5, <2>6, <2>7 DEF IsInstant, IsDay, later
<1> QED
  BY <1>1, <1>2, <1>3, <1>4

LEMMA ClockInit0 ==
    ASSUME RealDates, Init PROVE ClockInv
BY DEF RealDates, Init, ClockInit, ClockInv, IsZone

\* Reading a register goes on with what was read before.
LEMMA ReadStep ==
    ASSUME ClockInv, GetCurrentDateTime PROVE ClockInv'
<1> DEFINE n == Len(regs)
           r == Moved(ReadOrder[n + 1])
<1>1. n \in Nat /\ n < 6
  BY OrderOfReading DEF ClockInv, GetCurrentDateTime
<1>2. r \in Int
  <2>1. /\ rtc.hours + timezone.hours \in Int /\ rtc.mins + timezone.minutes \in Int
        /\ rtc.day + 0 \in Int /\ rtc.month + 0 \in Int
        /\ rtc.year + 0 \in Int /\ rtc.secs + 0 \in Int
    <3>1. /\ rtc.hours \in Int /\ rtc.mins \in Int /\ rtc.day \in Int
          /\ rtc.month \in Int /\ rtc.year \in Int /\ rtc.secs \in Int
      BY DEF ClockInv, Instant
    <3>2. timezone.hours \in Int /\ timezone.minutes \in Int
      <4>1. IsZone(timezone)
        BY DEF ClockInv
      <4> QED
        BY <4>1 DEF IsZone
    <3> QED
      BY <3>1, <3>2
  <2>2. n + 1 \in {1, 2, 3, 4, 5, 6}
    BY <1>1
  <2> QED
    BY <2>1, <2>2, OrderOfReading, MovedRegisters
<1>3. regs' = Append(regs, r) /\ rtc' = rtc /\ timezone' = timezone
  BY DEF GetCurrentDateTime
<1>4. \A field : Moved(field)' = Moved(field)
  BY <1>3 DEF Moved
<1> HIDE DEF r
<1>5. /\ regs' \in Seq(Int) /\ Len(regs') = n + 1 /\ regs'[n + 1] = r
      /\ \A i \in 1 .. n : regs'[i] = regs[i]
  BY <1>1, <1>2, <1>3 DEF ClockInv
<1>6. undisturbed' => undisturbed \/ n = 0
  <2>1. undisturbed' => undisturbed \/ regs = <<>>
    BY Zenon DEF GetCurrentDateTime
  <2> QED
    BY <2>1
<1>7. ASSUME undisturbed', NEW i \in 1 .. n + 1
      PROVE  regs'[i] = Moved(ReadOrder[i])'
  <2>1. regs'[i] = Moved(ReadOrder[i])
    <3>1. CASE i = n + 1
      BY <1>5, <3>1 DEF r
    <3>2. CASE i \in 1 .. n
      <4>1. undisturbed
        BY <1>1, <1>6, <1>7, <3>2
      <4> QED
        BY <1>5, <3>2, <4>1 DEF ClockInv
    <3> QED
      BY <1>1, <3>1, <3>2
  <2> QED
    BY <1>4, <2>1
<1> QED
  BY <1>1, <1>3, <1>5, <1>7 DEF ClockInv

LEMMA ClockStep ==
    ASSUME RealDates, ClockInv, [Next]_vars PROVE ClockInv'
<1>1. ASSUME UNCHANGED <<rtc, timezone, regs, undisturbed>> PROVE ClockInv'
  BY <1>1 DEF ClockInv, Moved
<1>2. CASE GetCurrentDateTime
  BY <1>2, ReadStep
<1>3. CASE CallsAgain
  BY <1>3 DEF CallsAgain, ClockInv, Moved
<1>4. CASE SecondPasses
  BY <1>4, NextInstant DEF SecondPasses, ClockInv
<1>5. ASSUME NEW tz \in TimeZones, SetTimeZone(tz) PROVE ClockInv'
  BY <1>5 DEF SetTimeZone, ClockInv, RealDates
<1>6. CASE SleepNext
  BY <1>1, <1>6 DEF SleepNext, TimerInterrupt, Sleep, Yield, WakesUp, dateVars
<1>7. CASE UNCHANGED clockVars
  BY <1>1, <1>7 DEF clockVars, dateVars
<1>8. CASE Allocates \/ Frees
  BY <1>7, <1>8 DEF Allocates, Frees
<1>9. CASE UNCHANGED vars
  BY <1>7, <1>9 DEF vars
<1> QED
  BY <1>2, <1>3, <1>4, <1>5, <1>6, <1>7, <1>8, <1>9 DEF Next, DateNext

\* The record of the registers by their names.
LEMMA AnswerExact ==
    ASSUME ClockInv PROVE DateExact
<1> SUFFICES ASSUME Answered, undisturbed PROVE
       /\ IsDate(Answer)
       /\ SecondsSince(rtc, Answer) = SecondsSince(rtc, rtc) + Offset(timezone)
  BY DEF DateExact
<1> DEFINE place(field) == CHOOSE i \in 1 .. Len(ReadOrder) : ReadOrder[i] = field
           names == {ReadOrder[i] : i \in 1 .. Len(ReadOrder)}
           r == [field \in names |-> regs[place(field)]]
<1>1. Len(regs) = 6
  BY OrderOfReading DEF Answered
<1>2. \A i \in 1 .. 6 : regs[i] = Moved(ReadOrder[i])
  BY <1>1 DEF ClockInv
<1>3. /\ place("hours") = 1 /\ place("mins") = 2 /\ place("day") = 3
      /\ place("month") = 4 /\ place("year") = 5 /\ place("secs") = 6
  BY OrderOfReading
<1>4. {"hours", "mins", "day", "month", "year", "secs"} \subseteq names
  BY OrderOfReading
<1>5. Answer = CurrentDateTime(r)
  BY DEF Answer
<1> HIDE DEF place, names
<1>6. /\ r["hours"] = regs[1] /\ r["mins"] = regs[2] /\ r["day"] = regs[3]
      /\ r["month"] = regs[4] /\ r["year"] = regs[5] /\ r["secs"] = regs[6]
  BY <1>3, <1>4
<1> HIDE DEF r
<1>7. /\ r.hours = rtc.hours + timezone.hours /\ r.mins = rtc.mins + timezone.minutes
      /\ r.day = rtc.day + 0 /\ r.month = rtc.month + 0
      /\ r.year = rtc.year + 0 /\ r.secs = rtc.secs + 0
  BY <1>2, <1>6, OrderOfReading, MovedRegisters
<1>8. r.day = rtc.day /\ r.month = rtc.month /\ r.year = rtc.year /\ r.secs = rtc.secs
  BY <1>7 DEF ClockInv, Instant
<1> QED
  BY <1>5, <1>7, <1>8, DateMoved DEF ClockInv

\* Whatever the instant, leap years and the turns of centuries included, and whatever the
\* time zone, the date is the CMOS clock's moved by the time zone.
THEOREM DatesAreExact == ASSUME RealDates PROVE Spec => []DateExact
<1>1. Init => ClockInv
  BY ClockInit0
<1>2. ClockInv /\ [Next]_vars => ClockInv'
  BY ClockStep
<1>3. ClockInv => DateExact
  BY AnswerExact
<1> QED
  BY <1>1, <1>2, <1>3, PTL DEF Spec

-----------------------------------------------------------------------------
(* The K&R heap.  Its free blocks and the blocks that callers hold are     *)
(* extents of units.                                                       *)

\* The arena has room for a header.
RoomForAHeader == BLOCK_SIZE <= MEM_SIZE

Extent == [at : Nat, size : Nat \ {0}]

Stop(x) == x.at + x.size

Units(x) == x.at .. Stop(x) - 1

LEMMA ApartUnits ==
    ASSUME NEW x, NEW y, x.at \in Int, x.size \in Int, y.at \in Int, y.size \in Int,
           x.at + x.size < y.at
    PROVE  Units(x) \cap Units(y) = {} /\ Units(y) \cap Units(x) = {}
<1> SUFFICES ASSUME NEW u \in Units(x), u \in Units(y)
             PROVE  FALSE
  OBVIOUS
<1>1. u \in Int /\ u <= (x.at + x.size) - 1 /\ y.at <= u
  BY DEF Units, Stop
<1> QED
  BY <1>1

\* The units of a block that is held, its header's first.
Taken(b) == [at |-> b.at \div BLOCK_SIZE - 1, size |-> b.header]

\* In address order, and two free blocks never touch.
Ordered(list) == \A i, j \in DOMAIN list : i < j => Stop(list[i]) < list[j].at

FreeUnits(list) == UNION {Units(list[i]) : i \in DOMAIN list}

HeldOK(b) ==
    /\ b.len > 0 /\ b.header = NUnits(b.len)
    /\ Taken(b) \in Extent /\ Units(Taken(b)) \subseteq 0 .. KrUnits - 1
    /\ b.at = (Taken(b).at + 1) * BLOCK_SIZE

HeldApart == \A b, c \in used : b # c => Units(Taken(b)) \cap Units(Taken(c)) = {}

\* Every unit that nobody holds is in the list, and no other is.
KrInv ==
    /\ freep \in Seq(Extent) /\ Ordered(freep)
    /\ used \subseteq [at : Nat, len : Nat, header : Nat]
    /\ \A b \in used : HeldOK(b)
    /\ HeldApart
    /\ FreeUnits(freep) = (0 .. KrUnits - 1) \ UNION {Units(Taken(b)) : b \in used}

HeapInv == subject # "Buddy" =>
    KrInv /\ (subject # "K&R heap malloc" => used = {})

-----------------------------------------------------------------------------
\* Units in bytes and back.
LEMMA WholeUnits ==
    ASSUME NEW B \in Nat \ {0}, NEW k \in Nat
    PROVE  (k * B) \div B = k
<1>1. PICK x \in Nat : x = k * B
  OBVIOUS
<1>2. PICK q \in Int : q = x \div B /\ q * B <= x /\ x < (q + 1) * B
  BY <1>1
<1>3. q <= k
  BY <1>1, <1>2
<1>4. k <= q
  BY <1>1, <1>2
<1> QED
  BY <1>1, <1>2, <1>3, <1>4

\* The units of a request: the header's and enough for its bytes.
LEMMA EnoughUnits ==
    ASSUME NEW n \in Nat, n > 0
    PROVE  /\ NUnits(n) \in Nat /\ NUnits(n) >= 2
           /\ n <= (NUnits(n) - 1) * BLOCK_SIZE
           /\ NUnits(n) = (n - 1) \div BLOCK_SIZE + 2
<1> DEFINE B == BLOCK_SIZE
<1>1. B \in Nat \ {0}
  BY BlockAssumption
<1> HIDE DEF B
<1>2. PICK q \in Int : q = (n - 1) \div B /\ q * B <= n - 1 /\ n - 1 < (q + 1) * B
  BY <1>1
<1>3. q >= 0
  BY <1>1, <1>2
<1>4. PICK p \in Int : p = (n + B - 1) \div B /\ p * B <= n + B - 1 /\ n + B - 1 < (p + 1) * B
  BY <1>1
<1>5. p = q + 1
  <2>1. p * B <= n + (B - 1) /\ n + (B - 1) < (p + 1) * B
    BY <1>1, <1>4
  <2>2. p <= q + 1
    BY <1>1, <1>2, <2>1
  <2>3. p >= q + 1
    BY <1>1, <1>2, <2>1
  <2> QED
    BY <2>2, <2>3
<1>6. NUnits(n) = p + 1
  BY <1>4 DEF NUnits, B
<1>7. n <= p * B
  BY <1>1, <1>2, <1>5
<1> QED
  BY <1>2, <1>3, <1>5, <1>6, <1>7 DEF B

\* Extents that share no unit lie one before the other.
LEMMA OneBeforeTheOther ==
    ASSUME NEW x \in Extent, NEW y \in Extent, Units(x) \cap Units(y) = {}
    PROVE  Stop(x) <= y.at \/ Stop(y) <= x.at
<1> SUFFICES ASSUME Stop(x) > y.at, Stop(y) > x.at PROVE FALSE
  BY DEF Stop, Extent
<1>1. CASE x.at <= y.at
  <2>1. y.at \in Units(x) /\ y.at \in Units(y)
    BY <1>1 DEF Units, Stop, Extent
  <2> QED
    BY <2>1
<1>2. CASE x.at > y.at
  <2>1. x.at \in Units(x) /\ x.at \in Units(y)
    BY <1>2 DEF Units, Stop, Extent
  <2> QED
    BY <2>1
<1> QED
  BY <1>1, <1>2 DEF Extent

\* A part of a list of extents.
LEMMA PartOfList ==
    ASSUME NEW list \in Seq(Extent), Ordered(list),
           NEW m \in Int, NEW n \in Int, 1 <= m, n <= Len(list)
    PROVE  LET part == SubSeq(list, m, n) IN
           /\ part \in Seq(Extent) /\ Ordered(part)
           /\ \A p \in DOMAIN part : \E i \in m .. n : part[p] = list[i]
           /\ \A u : u \in FreeUnits(part) <=> \E i \in m .. n : u \in Units(list[i])
<1> DEFINE part == SubSeq(list, m, n)
<1>1. Len(list) \in Nat /\ DOMAIN list = 1 .. Len(list)
      /\ \A i \in 1 .. Len(list) : list[i] \in Extent
  BY LenProperties, ElementOfSeq
<1>2. \A i \in m .. n : list[i] \in Extent
  BY <1>1
<1>3. part \in Seq(Extent) /\ Len(part) = (IF m <= n THEN (n - m) + 1 ELSE 0)
      /\ \A p \in 1 .. (n - m) + 1 : part[p] = list[(m + p) - 1]
  BY <1>2, SubSeqProperties
<1>4. DOMAIN part = 1 .. Len(part)
  BY <1>3, LenProperties
<1>5. \A p \in DOMAIN part : (m + p) - 1 \in m .. n /\ part[p] = list[(m + p) - 1]
  BY <1>3, <1>4
<1>6. \A i \in m .. n : (i - m) + 1 \in DOMAIN part /\ part[(i - m) + 1] = list[i]
  BY <1>3, <1>4
<1> HIDE DEF part
<1>7. Ordered(part)
  <2> SUFFICES ASSUME NEW i \in DOMAIN part, NEW j \in DOMAIN part, i < j
               PROVE  Stop(part[i]) < part[j].at
    BY DEF Ordered
  <2>1. i \in Int /\ j \in Int
    BY <1>3, <1>4
  <2>2. PICK h, k \in m .. n : h = (m + i) - 1 /\ k = (m + j) - 1
                              /\ part[i] = list[h] /\ part[j] = list[k]
    BY <1>5
  <2>3. h < k /\ h \in DOMAIN list /\ k \in DOMAIN list
    BY <1>1, <2>1, <2>2
  <2> QED
    BY <2>2, <2>3 DEF Ordered
<1>8. \A u : u \in FreeUnits(part) <=> \E i \in m .. n : u \in Units(list[i])
  BY <1>5, <1>6 DEF FreeUnits
<1> QED
  BY <1>3, <1>5, <1>7, <1>8 DEF part

\* One list of extents after the other.
LEMMA ListAfterList ==
    ASSUME NEW a \in Seq(Extent), NEW b \in Seq(Extent), Ordered(a), Ordered(b),
           \A i \in DOMAIN a, j \in DOMAIN b : Stop(a[i]) < b[j].at
    PROVE  /\ a \o b \in Seq(Extent) /\ Ordered(a \o b)
           /\ FreeUnits(a \o b) = FreeUnits(a) \cup FreeUnits(b)
           /\ \A k \in DOMAIN (a \o b) : (\E i \in DOMAIN a : (a \o b)[k] = a[i])
                                        \/ \E j \in DOMAIN b : (a \o b)[k] = b[j]
<1> DEFINE c == a \o b
<1>1. c \in Seq(Extent) /\ Len(c) = Len(a) + Len(b)
      /\ \A i \in 1 .. Len(a) + Len(b) :
            c[i] = IF i <= Len(a) THEN a[i] ELSE b[i - Len(a)]
  BY ConcatProperties
<1>2. /\ Len(a) \in Nat /\ DOMAIN a = 1 .. Len(a)
      /\ Len(b) \in Nat /\ DOMAIN b = 1 .. Len(b)
      /\ DOMAIN c = 1 .. Len(a) + Len(b)
  BY <1>1, LenProperties
<1> HIDE DEF c
<1>3. \A i \in DOMAIN a : i \in DOMAIN c /\ c[i] = a[i]
  BY <1>1, <1>2
<1>4. \A j \in DOMAIN b : j + Len(a) \in DOMAIN c /\ c[j + Len(a)] = b[j]
  BY <1>1, <1>2
<1>5. \A k \in DOMAIN c : \/ k \in DOMAIN a /\ c[k] = a[k]
                          \/ k > Len(a) /\ k - Len(a) \in DOMAIN b /\ c[k] = b[k - Len(a)]
  BY <1>1, <1>2
<1>6. Ordered(c)
  <2> SUFFICES ASSUME NEW i \in DOMAIN c, NEW j \in DOMAIN c, i < j
               PROVE  Stop(c[i]) < c[j].at
    BY DEF Ordered
  <2>1. CASE i \in DOMAIN a /\ j \in DOMAIN a
    BY <1>3, <2>1 DEF Ordered
  <2>2. CASE i \in DOMAIN a /\ j \notin DOMAIN a
    BY <1>3, <1>5, <2>2
  <2>3. CASE i \notin DOMAIN a
    <3>1. i > Len(a) /\ j > Len(a)
      BY <1>2, <2>3
    <3>2. /\ i - Len(a) \in DOMAIN b /\ c[i] = b[i - Len(a)]
          /\ j - Len(a) \in DOMAIN b /\ c[j] = b[j - Len(a)]
      BY <1>2, <1>5, <3>1
    <3>3. i - Len(a) < j - Len(a)
      BY <1>2
    <3> QED
      BY <3>2, <3>3 DEF Ordered
  <2> QED
    BY <2>1, <2>2, <2>3
<1>7. FreeUnits(c) = FreeUnits(a) \cup FreeUnits(b)
  BY <1>3, <1>4, <1>5 DEF FreeUnits
<1> QED
  BY <1>1, <1>5, <1>6, <1>7 DEF c

\* Two blocks joined.
LEMMA JoinedBlocks ==
    ASSUME NEW low \in Extent, NEW high \in Extent, Stop(low) <= high.at
    PROVE  LET both == Joined(low, high) IN
           /\ both \in Seq(Extent) /\ Ordered(both)
           /\ 1 \in DOMAIN both /\ both[1].at = low.at
           /\ FreeUnits(both) = Units(low) \cup Units(high)
           /\ \A k \in DOMAIN both : low.at <= both[k].at /\ Stop(both[k]) <= Stop(high)
<1> DEFINE both == Joined(low, high)
<1>1. CASE Stop(low) = high.at
  <2> DEFINE one == [low EXCEPT !.size = @ + high.size]
  <2>1. both = <<one>>
    BY <1>1 DEF Joined, Stop
  <2>2. one \in Extent /\ one.at = low.at /\ one.size = low.size + high.size
    BY DEF Extent
  <2> HIDE DEF one
  <2>3. both \in Seq(Extent) /\ DOMAIN both = {1} /\ both[1] = one
    BY <2>1, <2>2
  <2>4. Units(one) = Units(low) \cup Units(high) /\ Stop(one) = Stop(high)
    BY <1>1, <2>2 DEF Units, Stop, Extent
  <2> HIDE DEF both
  <2>5. FreeUnits(both) = Units(one) /\ Ordered(both)
    BY <2>3 DEF FreeUnits, Ordered
  <2>6. \A k \in DOMAIN both : low.at <= both[k].at /\ Stop(both[k]) <= Stop(high)
    BY <2>2, <2>3, <2>4 DEF Extent, Stop
  <2> QED
    BY <2>2, <2>3, <2>4, <2>5, <2>6 DEF both
<1>2. CASE Stop(low) # high.at
  <2>1. both = <<low, high>>
    BY <1>2 DEF Joined, Stop
  <2>2. both \in Seq(Extent) /\ DOMAIN both = {1, 2} /\ both[1] = low /\ both[2] = high
    BY <2>1
  <2>3. Stop(low) < high.at /\ Stop(low) <= Stop(high) /\ low.at <= high.at
    BY <1>2 DEF Stop, Extent
  <2> HIDE DEF both
  <2>4. FreeUnits(both) = Units(low) \cup Units(high) /\ Ordered(both)
    BY <2>2, <2>3 DEF FreeUnits, Ordered
  <2>5. \A k \in DOMAIN both : low.at <= both[k].at /\ Stop(both[k]) <= Stop(high)
    BY <2>2, <2>3 DEF Extent, Stop
  <2> QED
    BY <2>2, <2>4, <2>5 DEF both
<1> QED
  BY <1>1, <1>2

\* memfree walks to the place that keeps the list in address order.
LEMMA PlaceInOrder ==
    ASSUME freep \in Seq(Extent), Ordered(freep), NEW e \in Extent,
           FreeUnits(freep) \cap Units(e) = {}
    PROVE  /\ StayBefore(e.at) \in 0 .. Len(freep)
           /\ \A j \in 1 .. StayBefore(e.at) : Stop(freep[j]) <= e.at
           /\ \A j \in StayBefore(e.at) + 1 .. Len(freep) : Stop(e) <= freep[j].at
<1> DEFINE n == Len(freep)
<1>1. n \in Nat /\ DOMAIN freep = 1 .. n /\ \A j \in 1 .. n : freep[j] \in Extent
  BY LenProperties, ElementOfSeq
<1>2. \A j \in 1 .. n : Stop(freep[j]) <= e.at \/ Stop(e) <= freep[j].at
  <2> TAKE j \in 1 .. n
  <2>1. freep[j] \in Extent /\ Units(freep[j]) \cap Units(e) = {}
    BY <1>1 DEF FreeUnits
  <2> QED
    BY <2>1, OneBeforeTheOther
<1>3. \A j, k \in 1 .. n : j < k => freep[j].at < freep[k].at
  <2> TAKE j, k \in 1 .. n
  <2>1. freep[j].at \in Nat /\ freep[k].at \in Nat /\ freep[j].size \in Nat
    BY <1>1 DEF Extent
  <2>2. j < k => freep[j].at + freep[j].size < freep[k].at
    BY <1>1 DEF Ordered, Stop
  <2> QED
    BY <2>1, <2>2
<1>4. \A j \in 1 .. n : /\ freep[j].at <= e.at => Stop(freep[j]) <= e.at
                        /\ freep[j].at >= e.at => Stop(e) <= freep[j].at
  BY <1>1, <1>2 DEF Extent, Stop
<1>5. e.at \in Nat /\ \A j \in 1 .. n : freep[j].at \in Nat
  BY <1>1 DEF Extent
<1> HIDE DEF n
<1>6. CASE freep = <<>> \/ e.at < freep[1].at
  <2>1. StayBefore(e.at) = 0
    BY <1>6 DEF StayBefore
  <2>2. \A j \in 1 .. n : e.at <= freep[j].at
    <3> TAKE j \in 1 .. n
    <3>1. 1 \in 1 .. n /\ freep # <<>>
      BY <1>1 DEF n
    <3>2. e.at < freep[1].at /\ (j = 1 \/ freep[1].at < freep[j].at)
      BY <1>1, <1>3, <1>6, <3>1
    <3> QED
      BY <1>5, <3>1, <3>2
  <2> QED
    BY <1>1, <1>4, <1>5, <2>1, <2>2 DEF n
<1>7. CASE ~(freep = <<>> \/ e.at < freep[1].at)
  <2> DEFINE S == {i \in DOMAIN freep : \A j \in 2 .. i : freep[j].at < e.at}
  <2>1. StayBefore(e.at) = Max(S)
    BY <1>7 DEF StayBefore
  <2>2. 1 \in 1 .. n
    BY <1>1, <1>7 DEF n
  <2>3. 1 \in S
    BY <1>1, <2>2
  <2>4. S \in SUBSET Nat /\ \A y \in S : y <= n
    BY <1>1
  <2> HIDE DEF S
  <2>5. Max(S) \in S /\ \A y \in S : Max(S) >= y
    BY <1>1, <2>3, <2>4, MaxProperties
  <2>6. PICK i : i = Max(S) /\ i \in 1 .. n /\ \A j \in 2 .. i : freep[j].at < e.at
    BY <1>1, <2>5 DEF S
  <2>7. freep[1].at <= e.at
    BY <1>5, <1>7, <2>2
  <2>8. \A j \in 1 .. i : freep[j].at <= e.at
    <3> TAKE j \in 1 .. i
    <3>1. j = 1 \/ j \in 2 .. i
      BY <2>6
    <3>2. j \in 1 .. n
      BY <1>1, <2>6
    <3> QED
      BY <1>5, <2>6, <2>7, <3>1, <3>2
  <2>9. \A j \in i + 1 .. n : freep[j].at >= e.at
    <3> TAKE j \in i + 1 .. n
    <3>1. i + 1 \in 1 .. n /\ i + 1 \notin S
      BY <1>1, <2>5, <2>6
    <3>2. PICK k \in 2 .. i + 1 : ~(freep[k].at < e.at)
      BY <1>1, <3>1 DEF S
    <3>3. k = i + 1
      BY <2>6, <3>2
    <3>4. freep[i + 1].at >= e.at
      BY <1>5, <3>1, <3>2, <3>3
    <3>5. j = i + 1 \/ (j \in 1 .. n /\ i + 1 < j)
      BY <1>1, <2>6
    <3>6. j = i + 1 \/ freep[i + 1].at < freep[j].at
      BY <1>3, <3>1, <3>5
    <3>7. j \in 1 .. n
      BY <1>1, <2>6
    <3> QED
      BY <1>5, <3>1, <3>4, <3>6, <3>7
  <2>10. \A j \in 1 .. i : j \in 1 .. n
    BY <1>1, <2>6
  <2>11. \A j \in i + 1 .. n : j \in 1 .. n
    BY <1>1, <2>6
  <2>12. StayBefore(e.at) = i
    BY <2>1, <2>6
  <2>13. i \in 0 .. n
    BY <1>1, <2>6
  <2> QED
    BY <1>4, <2>8, <2>9, <2>10, <2>11, <2>12, <2>13 DEF n
<1> QED
  BY <1>6, <1>7

\* A block put in its place, joined with the blocks that touch it.
LEMMA BlockBack ==
    ASSUME freep \in Seq(Extent), Ordered(freep), NEW e \in Extent,
           NEW i \in 0 .. Len(freep),
           \A j \in 1 .. i : Stop(freep[j]) <= e.at,
           \A j \in i + 1 .. Len(freep) : Stop(e) <= freep[j].at
    PROVE  LET list == InsertedAfter(i, e) IN
           /\ list \in Seq(Extent) /\ Ordered(list)
           /\ FreeUnits(list) = FreeUnits(freep) \cup Units(e)
<1> DEFINE n == Len(freep)
           upper == IF i < n THEN Joined(e, freep[i + 1]) ELSE <<e>>
           lower == IF i > 0 THEN Joined(freep[i], Head(upper)) \o Tail(upper) ELSE upper
           before == SubSeq(freep, 1, i - 1)
           after == SubSeq(freep, i + 2, n)
<1>1. n \in Nat /\ DOMAIN freep = 1 .. n /\ \A j \in 1 .. n : freep[j] \in Extent
  BY LenProperties, ElementOfSeq
<1>2. /\ upper \in Seq(Extent) /\ Ordered(upper)
      /\ 1 \in DOMAIN upper /\ upper[1].at = e.at
      /\ FreeUnits(upper) = Units(e) \cup (IF i < n THEN Units(freep[i + 1]) ELSE {})
      /\ \A k \in DOMAIN upper : /\ e.at <= upper[k].at
                                 /\ i < n => Stop(upper[k]) <= Stop(freep[i + 1])
  <2>1. CASE i < n
    <3>1. i + 1 \in 1 .. n /\ i + 1 \in i + 1 .. n
      BY <1>1, <2>1
    <3>2. freep[i + 1] \in Extent /\ Stop(e) <= freep[i + 1].at
      BY <1>1, <3>1
    <3>3. upper = Joined(e, freep[i + 1])
      BY <2>1
    <3> HIDE DEF upper
    <3> QED
      BY <2>1, <3>2, <3>3, JoinedBlocks
  <2>2. CASE ~(i < n)
    <3>1. upper = <<e>>
      BY <2>2
    <3> HIDE DEF upper
    <3>2. upper \in Seq(Extent) /\ DOMAIN upper = {1} /\ upper[1] = e
      BY <3>1
    <3>3. Ordered(upper) /\ FreeUnits(upper) = Units(e)
      BY <3>2 DEF Ordered, FreeUnits
    <3> QED
      BY <2>2, <3>2, <3>3 DEF Extent
  <2> QED
    BY <2>1, <2>2
<1> HIDE DEF n, upper
<1>3. /\ lower \in Seq(Extent) /\ Ordered(lower)
      /\ FreeUnits(lower) = FreeUnits(upper) \cup (IF i > 0 THEN Units(freep[i]) ELSE {})
      /\ \A k \in DOMAIN lower : /\ i > 0 => freep[i].at <= lower[k].at
                                 /\ i < n => Stop(lower[k]) <= Stop(freep[i + 1])
  <2>1. CASE i = 0
    <3>1. lower = upper
      BY <2>1
    <3> HIDE DEF lower
    <3> QED
      BY <1>2, <2>1, <3>1
  <2>2. CASE i > 0
    <3> DEFINE joined == Joined(freep[i], upper[1])
               above == SubSeq(upper, 2, Len(upper))
    <3>1. i \in 1 .. i /\ i \in 1 .. n
      BY <1>1, <2>2 DEF n
    <3>2. freep[i] \in Extent /\ Stop(freep[i]) <= e.at
      BY <1>1, <3>1
    <3>3. Len(upper) \in Nat /\ DOMAIN upper = 1 .. Len(upper)
          /\ \A k \in DOMAIN upper : upper[k] \in Extent
      BY <1>2, LenProperties, ElementOfSeq
    <3>4. upper # <<>> /\ Head(upper) = upper[1] /\ Tail(upper) = above
      <4>1. upper # <<>>
        BY <1>2, <3>3
      <4> QED
        BY <1>2, <4>1, TailIsSubSeq, HeadTailProperties
    <3>5. lower = joined \o above
      BY <2>2, <3>4
    <3>6. upper[1] \in Extent
      BY <1>2, <3>3
    <3>7. Stop(freep[i]) <= upper[1].at
      BY <1>2, <3>2
    <3>8. /\ joined \in Seq(Extent) /\ Ordered(joined)
          /\ FreeUnits(joined) = Units(freep[i]) \cup Units(upper[1])
          /\ \A k \in DOMAIN joined : /\ freep[i].at <= joined[k].at
                                      /\ Stop(joined[k]) <= Stop(upper[1])
      BY <3>2, <3>6, <3>7, JoinedBlocks
    <3> HIDE DEF joined
    <3>9. /\ above \in Seq(Extent) /\ Ordered(above)
          /\ \A p \in DOMAIN above : \E k \in 2 .. Len(upper) : above[p] = upper[k]
          /\ \A u : u \in FreeUnits(above) <=> \E k \in 2 .. Len(upper) : u \in Units(upper[k])
      <4>1. 2 \in Int /\ Len(upper) \in Int /\ 1 <= 2 /\ Len(upper) <= Len(upper)
        BY <3>3
      <4> QED
        BY <1>2, <4>1, PartOfList, Zenon
    <3> HIDE DEF above, lower
    <3>10. \A k \in 2 .. Len(upper) : k \in DOMAIN upper /\ Stop(upper[1]) < upper[k].at
      BY <1>2, <3>3 DEF Ordered
    <3>11. \A k \in DOMAIN joined : Stop(joined[k]) \in Int
      <4>1. \A k \in DOMAIN joined : joined[k] \in Extent
        BY <3>8, LenProperties, ElementOfSeq
      <4> QED
        BY <4>1 DEF Extent, Stop
    <3>12. \A k \in DOMAIN upper : Stop(upper[k]) \in Int /\ upper[k].at \in Int
      BY <3>3 DEF Extent, Stop
    <3>13. \A k \in DOMAIN joined, p \in DOMAIN above : Stop(joined[k]) < above[p].at
      <4> TAKE k \in DOMAIN joined, p \in DOMAIN above
      <4>1. PICK q \in 2 .. Len(upper) : above[p] = upper[q]
        BY <3>9
      <4>2. Stop(joined[k]) <= Stop(upper[1]) /\ Stop(upper[1]) < upper[q].at
        BY <3>8, <3>10
      <4> QED
        BY <1>2, <3>10, <3>11, <3>12, <4>1, <4>2
    <3>14. /\ lower \in Seq(Extent) /\ Ordered(lower)
           /\ FreeUnits(lower) = FreeUnits(joined) \cup FreeUnits(above)
           /\ \A k \in DOMAIN lower : (\E j \in DOMAIN joined : lower[k] = joined[j])
                                     \/ \E p \in DOMAIN above : lower[k] = above[p]
      <4>1. /\ joined \o above \in Seq(Extent) /\ Ordered(joined \o above)
            /\ FreeUnits(joined \o above) = FreeUnits(joined) \cup FreeUnits(above)
            /\ \A k \in DOMAIN (joined \o above) :
                  \/ \E j \in DOMAIN joined : (joined \o above)[k] = joined[j]
                  \/ \E p \in DOMAIN above : (joined \o above)[k] = above[p]
        BY <3>8, <3>9, <3>13, ListAfterList, Zenon
      <4> QED
        BY <3>5, <4>1
    <3>15. FreeUnits(upper) = Units(upper[1]) \cup FreeUnits(above)
      <4>1. \A k \in DOMAIN upper : k = 1 \/ k \in 2 .. Len(upper)
        BY <3>3
      <4>2. ASSUME NEW u
            PROVE  u \in FreeUnits(upper) <=> u \in Units(upper[1]) \/ u \in FreeUnits(above)
        <5>1. u \in FreeUnits(upper) <=> \E k \in DOMAIN upper : u \in Units(upper[k])
          BY DEF FreeUnits
        <5> QED
          BY <1>2, <3>9, <3>10, <4>1, <5>1
      <4> QED
        BY <4>2
    <3>16. \A k \in DOMAIN upper : freep[i].at <= upper[k].at
      <4>1. freep[i].at \in Int /\ e.at \in Int /\ freep[i].at <= Stop(freep[i])
            /\ Stop(freep[i]) \in Int
        BY <3>2 DEF Extent, Stop
      <4> QED
        BY <1>2, <3>2, <3>12, <4>1
    <3>17. i < n => \A k \in DOMAIN upper : Stop(upper[k]) <= Stop(freep[i + 1])
      BY <1>2
    <3>18. i < n => \A k \in DOMAIN joined : Stop(joined[k]) <= Stop(freep[i + 1])
      <4> HAVE i < n
      <4>1. freep[i + 1] \in Extent
        BY <1>1 DEF n
      <4>2. Stop(freep[i + 1]) \in Int
        BY <4>1 DEF Extent, Stop
      <4> QED
        BY <1>2, <3>8, <3>11, <3>12, <3>17, <4>2
    <3>19. \A k \in DOMAIN lower : /\ freep[i].at <= lower[k].at
                                   /\ i < n => Stop(lower[k]) <= Stop(freep[i + 1])
      <4> TAKE k \in DOMAIN lower
      <4>1. CASE \E j \in DOMAIN joined : lower[k] = joined[j]
        BY <3>8, <3>18, <4>1
      <4>2. CASE \E p \in DOMAIN above : lower[k] = above[p]
        <5>1. PICK q \in DOMAIN upper : lower[k] = upper[q]
          BY <3>9, <3>10, <4>2
        <5> QED
          BY <3>16, <3>17, <5>1
      <4> QED
        BY <3>14, <4>1, <4>2
    <3>20. FreeUnits(lower) = FreeUnits(upper) \cup Units(freep[i])
      BY <3>8, <3>14, <3>15
    <3> QED
      BY <2>2, <3>14, <3>19, <3>20
  <2>3. i = 0 \/ i > 0
    BY <1>1 DEF n
  <2> QED
    BY <2>1, <2>2, <2>3
<1> HIDE DEF lower
<1>4. /\ before \in Seq(Extent) /\ Ordered(before)
      /\ \A p \in DOMAIN before : \E j \in 1 .. i - 1 : before[p] = freep[j]
      /\ \A u : u \in FreeUnits(before) <=> \E j \in 1 .. i - 1 : u \in Units(freep[j])
  <2>1. 1 \in Int /\ i - 1 \in Int /\ 1 <= 1 /\ i - 1 <= Len(freep)
    BY <1>1 DEF n
  <2> QED
    BY <2>1, PartOfList, Zenon
<1>5. /\ after \in Seq(Extent) /\ Ordered(after)
      /\ \A p \in DOMAIN after : \E j \in i + 2 .. n : after[p] = freep[j]
      /\ \A u : u \in FreeUnits(after) <=> \E j \in i + 2 .. n : u \in Units(freep[j])
  <2>1. i + 2 \in Int /\ n \in Int /\ 1 <= i + 2 /\ n <= Len(freep)
    BY <1>1 DEF n
  <2> QED
    BY <2>1, PartOfList, Zenon
<1>6. InsertedAfter(i, e) = (before \o lower) \o after
  BY DEF InsertedAfter, lower, upper, n
<1> HIDE DEF before, after
<1>7. \A j \in 1 .. n : Stop(freep[j]) \in Int /\ freep[j].at \in Int
  BY <1>1 DEF Extent, Stop
<1>8. \A k \in DOMAIN lower : Stop(lower[k]) \in Int /\ lower[k].at \in Int
  <2>1. \A k \in DOMAIN lower : lower[k] \in Extent
    BY <1>3, LenProperties, ElementOfSeq
  <2> QED
    BY <2>1 DEF Extent, Stop
<1>9. /\ \A j \in 1 .. i - 1 : i > 0 /\ i \in 1 .. n /\ j \in 1 .. n /\ Stop(freep[j]) < freep[i].at
      /\ \A j \in i + 2 .. n : i < n /\ i + 1 \in 1 .. n /\ j \in 1 .. n
                              /\ Stop(freep[i + 1]) < freep[j].at
  BY <1>1 DEF Ordered, n
<1>10. \A p \in DOMAIN before, k \in DOMAIN lower : Stop(before[p]) < lower[k].at
  <2> TAKE p \in DOMAIN before, k \in DOMAIN lower
  <2>1. PICK j \in 1 .. i - 1 : before[p] = freep[j]
    BY <1>4
  <2>2. Stop(freep[j]) < freep[i].at /\ freep[i].at <= lower[k].at /\ j \in 1 .. n /\ i \in 1 .. n
    BY <1>3, <1>9
  <2> QED
    BY <1>7, <1>8, <2>1, <2>2
<1>11. /\ before \o lower \in Seq(Extent) /\ Ordered(before \o lower)
       /\ FreeUnits(before \o lower) = FreeUnits(before) \cup FreeUnits(lower)
       /\ \A k \in DOMAIN (before \o lower) :
             \/ \E p \in DOMAIN before : (before \o lower)[k] = before[p]
             \/ \E p \in DOMAIN lower : (before \o lower)[k] = lower[p]
  BY <1>3, <1>4, <1>10, ListAfterList
<1>12. \A k \in DOMAIN (before \o lower), q \in DOMAIN after :
          Stop((before \o lower)[k]) < after[q].at
  <2> TAKE k \in DOMAIN (before \o lower), q \in DOMAIN after
  <2>1. PICK j \in i + 2 .. n : after[q] = freep[j]
    BY <1>5
  <2>2. CASE \E p \in DOMAIN before : (before \o lower)[k] = before[p]
    <3>1. PICK h \in 1 .. i - 1 : (before \o lower)[k] = freep[h]
      BY <1>4, <2>2
    <3>2. h \in 1 .. n /\ j \in 1 .. n /\ h < j
      BY <1>1, <1>9
    <3> QED
      BY <1>1, <2>1, <3>1, <3>2 DEF Ordered
  <2>3. CASE \E p \in DOMAIN lower : (before \o lower)[k] = lower[p]
    BY <1>3, <1>7, <1>8, <1>9, <2>1, <2>3
  <2> QED
    BY <1>11, <2>2, <2>3
<1>13. /\ InsertedAfter(i, e) \in Seq(Extent) /\ Ordered(InsertedAfter(i, e))
       /\ FreeUnits(InsertedAfter(i, e)) = FreeUnits(before \o lower) \cup FreeUnits(after)
  BY <1>5, <1>6, <1>11, <1>12, ListAfterList
<1>14. ASSUME NEW u
       PROVE  u \in FreeUnits(InsertedAfter(i, e)) <=> u \in FreeUnits(freep) \cup Units(e)
  <2>1. u \in FreeUnits(InsertedAfter(i, e)) <=>
          \/ \E j \in 1 .. i - 1 : u \in Units(freep[j])
          \/ i > 0 /\ u \in Units(freep[i])
          \/ u \in Units(e)
          \/ i < n /\ u \in Units(freep[i + 1])
          \/ \E j \in i + 2 .. n : u \in Units(freep[j])
    BY <1>2, <1>3, <1>4, <1>5, <1>11, <1>13
  <2>2. \A j \in 1 .. n : j \in 1 .. i - 1 \/ (i > 0 /\ j = i) \/ (i < n /\ j = i + 1)
                         \/ j \in i + 2 .. n
    BY <1>1 DEF n
  <2>3. /\ \A j \in 1 .. i - 1 : j \in 1 .. n
        /\ i > 0 => i \in 1 .. n
        /\ i < n => i + 1 \in 1 .. n
        /\ \A j \in i + 2 .. n : j \in 1 .. n
    BY <1>1 DEF n
  <2>4. u \in FreeUnits(freep) <=> \E j \in 1 .. n : u \in Units(freep[j])
    BY <1>1 DEF FreeUnits
  <2> QED
    BY <2>1, <2>2, <2>3, <2>4
<1> QED
  BY <1>13, <1>14

\* The end of a free block taken away, or the whole of it.
LEMMA BlockOut ==
    ASSUME NEW list \in Seq(Extent), Ordered(list), NEW i \in DOMAIN list,
           NEW k \in Nat \ {0}, k <= list[i].size
    PROVE  LET rest == list[i].size - k
               shorter == IF rest = 0 THEN RemoveAt(list, i)
                                      ELSE [list EXCEPT ![i].size = rest]
           IN  /\ shorter \in Seq(Extent) /\ Ordered(shorter)
               /\ FreeUnits(shorter) =
                    FreeUnits(list) \ Units([at |-> list[i].at + rest, size |-> k])
<1> DEFINE n == Len(list)
           rest == list[i].size - k
           shorter == IF rest = 0 THEN RemoveAt(list, i) ELSE [list EXCEPT ![i].size = rest]
           t == [at |-> list[i].at + rest, size |-> k]
<1>1. n \in Nat /\ DOMAIN list = 1 .. n /\ \A j \in 1 .. n : list[j] \in Extent
  BY LenProperties, ElementOfSeq
<1>2. list[i].at \in Nat /\ list[i].size \in Nat \ {0} /\ rest \in Nat
  BY <1>1 DEF Extent
<1>3. t.at = list[i].at + rest /\ t.size = k
  OBVIOUS
<1>4. \A u : /\ u \in Units(list[i]) <=> u \in list[i].at .. (list[i].at + list[i].size) - 1
             /\ u \in Units(t) <=> u \in list[i].at + rest .. (list[i].at + list[i].size) - 1
  BY <1>2, <1>3 DEF Units, Stop
<1>5. \A j \in 1 .. n : j # i => Units(list[j]) \cap Units(list[i]) = {}
  <2> TAKE j \in 1 .. n
  <2>1. list[j].at \in Nat /\ list[j].size \in Nat
    BY <1>1 DEF Extent
  <2>2. j # i => j < i \/ i < j
    BY <1>1
  <2>3. /\ j < i => list[j].at + list[j].size < list[i].at
        /\ i < j => list[i].at + list[i].size < list[j].at
    BY <1>1 DEF Ordered, Stop
  <2> DEFINE x == list[j]
             y == list[i]
  <2>6. x.at \in Int /\ x.size \in Int /\ y.at \in Int /\ y.size \in Int
    BY <1>2, <2>1
  <2> HIDE DEF x, y
  <2>4. CASE j < i
    <3>1. x.at + x.size < y.at
      BY <2>3, <2>4 DEF x, y
    <3>2. Units(x) \cap Units(y) = {}
      BY <2>6, <3>1, ApartUnits, Zenon
    <3> QED
      BY <3>2 DEF x, y
  <2>5. CASE i < j
    <3>1. y.at + y.size < x.at
      BY <2>3, <2>5 DEF x, y
    <3>2. Units(x) \cap Units(y) = {}
      BY <2>6, <3>1, ApartUnits, Zenon
    <3> QED
      BY <3>2 DEF x, y
  <2> QED
    BY <2>2, <2>4, <2>5
<1>6. \A u : u \in FreeUnits(list) <=> \E j \in 1 .. n : u \in Units(list[j])
  BY <1>1 DEF FreeUnits
<1>7. CASE rest = 0
  <2> DEFINE before == SubSeq(list, 1, i - 1)
             after == SubSeq(list, i + 1, n)
  <2>1. shorter = before \o after
    BY <1>7 DEF RemoveAt
  <2>2. Units(t) = Units(list[i])
    <3> HIDE DEF t, rest
    <3>1. \A u : u \in Units(t) <=> u \in Units(list[i])
      BY <1>2, <1>4, <1>7
    <3>2. Units(t) \subseteq Int /\ Units(list[i]) \subseteq Int
      BY DEF Units
    <3> QED
      BY <3>1, <3>2
  <2>3. /\ before \in Seq(Extent) /\ Ordered(before)
        /\ \A p \in DOMAIN before : \E j \in 1 .. i - 1 : before[p] = list[j]
        /\ \A u : u \in FreeUnits(before) <=> \E j \in 1 .. i - 1 : u \in Units(list[j])
    <3>1. 1 \in Int /\ i - 1 \in Int /\ 1 <= 1 /\ i - 1 <= Len(list)
      BY <1>1
    <3> QED
      BY <3>1, PartOfList, Zenon
  <2>4. /\ after \in Seq(Extent) /\ Ordered(after)
        /\ \A p \in DOMAIN after : \E j \in i + 1 .. n : after[p] = list[j]
        /\ \A u : u \in FreeUnits(after) <=> \E j \in i + 1 .. n : u \in Units(list[j])
    <3>1. i + 1 \in Int /\ n \in Int /\ 1 <= i + 1 /\ n <= Len(list)
      BY <1>1
    <3> QED
      BY <3>1, PartOfList, Zenon
  <2> HIDE DEF before, after, shorter, t, n
  <2>5. \A p \in DOMAIN before, q \in DOMAIN after : Stop(before[p]) < after[q].at
    <3> TAKE p \in DOMAIN before, q \in DOMAIN after
    <3>1. PICK j \in 1 .. i - 1 : before[p] = list[j]
      BY <2>3
    <3>2. PICK h \in i + 1 .. n : after[q] = list[h]
      BY <2>4
    <3>3. j \in DOMAIN list /\ h \in DOMAIN list /\ j < h
      BY <1>1
    <3> QED
      BY <3>1, <3>2, <3>3 DEF Ordered
  <2>6. shorter \in Seq(Extent) /\ Ordered(shorter)
        /\ FreeUnits(shorter) = FreeUnits(before) \cup FreeUnits(after)
    <3>1. before \o after \in Seq(Extent) /\ Ordered(before \o after)
          /\ FreeUnits(before \o after) = FreeUnits(before) \cup FreeUnits(after)
      BY <2>3, <2>4, <2>5, ListAfterList, Zenon
    <3> QED
      BY <2>1, <3>1
  <2>7. \A j \in 1 .. n : j # i <=> (j \in 1 .. i - 1 \/ j \in i + 1 .. n)
    BY <1>1
  <2>8. (\A j \in 1 .. i - 1 : j \in 1 .. n) /\ (\A j \in i + 1 .. n : j \in 1 .. n)
    BY <1>1
  <2>9. ASSUME NEW u
        PROVE  u \in FreeUnits(shorter) <=> u \in FreeUnits(list) /\ u \notin Units(t)
    <3>1. u \in FreeUnits(shorter) <=> \E j \in 1 .. n : j # i /\ u \in Units(list[j])
      BY <2>3, <2>4, <2>6, <2>7, <2>8
    <3> QED
      BY <1>5, <1>6, <2>2, <3>1
  <2> QED
    BY <2>6, <2>9 DEF shorter, t
<1>8. CASE rest # 0
  <2> DEFINE firstPart == [list[i] EXCEPT !.size = rest]
  <2>1. shorter = [list EXCEPT ![i] = firstPart]
    BY <1>8
  <2>2. firstPart \in Extent /\ firstPart.at = list[i].at /\ firstPart.size = rest
    BY <1>1, <1>2, <1>8 DEF Extent
  <2> HIDE DEF firstPart, shorter, t, n, rest
  <2>3. i \in 1 .. Len(list)
    BY <1>1 DEF n
  <2>4. /\ shorter \in Seq(Extent) /\ Len(shorter) = Len(list)
        /\ \A j \in 1 .. n : shorter[j] = IF j = i THEN firstPart ELSE list[j]
    BY <2>1, <2>2, <2>3, ExceptSeq DEF n
  <2>5. DOMAIN shorter = 1 .. n
    BY <2>4, LenProperties DEF n
  <2>6. Stop(firstPart) <= Stop(list[i]) /\ Stop(firstPart) \in Int /\ Stop(list[i]) \in Int
    BY <1>2, <2>2 DEF Stop, rest
  <2>7. \A j \in 1 .. n : shorter[j].at = list[j].at /\ Stop(shorter[j]) <= Stop(list[j])
                          /\ Stop(shorter[j]) \in Int /\ Stop(list[j]) \in Int
                          /\ list[j].at \in Int
    <3> TAKE j \in 1 .. n
    <3>1. list[j] \in Extent
      BY <1>1
    <3>2. Stop(list[j]) \in Int /\ list[j].at \in Int
      BY <3>1 DEF Stop, Extent
    <3>3. CASE j = i
      BY <2>2, <2>4, <2>6, <3>2, <3>3
    <3>4. CASE j # i
      BY <2>4, <3>2, <3>4
    <3> QED
      BY <3>3, <3>4
  <2>8. Ordered(shorter)
    <3> SUFFICES ASSUME NEW g \in 1 .. n, NEW h \in 1 .. n, g < h
                 PROVE  Stop(shorter[g]) < shorter[h].at
      BY <2>5 DEF Ordered
    <3>1. Stop(list[g]) < list[h].at
      BY <1>1 DEF Ordered
    <3>2. /\ shorter[h].at = list[h].at /\ Stop(shorter[g]) <= Stop(list[g])
          /\ Stop(shorter[g]) \in Int /\ Stop(list[g]) \in Int /\ list[h].at \in Int
      BY <2>7, Zenon
    <3> QED
      BY <3>1, <3>2
  <2>9. \A u : u \in Units(firstPart) <=> u \in Units(list[i]) /\ u \notin Units(t)
    <3>1. \A u : u \in Units(firstPart) <=> u \in list[i].at .. (list[i].at + rest) - 1
      BY <2>2 DEF Units, Stop
    <3> DEFINE a == list[i].at
               z == list[i].size
    <3>2. z >= rest /\ a \in Int /\ z \in Int /\ rest \in Int
      BY <1>2 DEF rest
    <3>3. \A u : /\ u \in Units(list[i]) <=> u \in a .. (a + z) - 1
                 /\ u \in Units(t) <=> u \in a + rest .. (a + z) - 1
      BY <1>4, Zenon
    <3>4. \A u : u \in Units(firstPart) <=> u \in a .. (a + rest) - 1
      BY <3>1, Zenon
    <3> HIDE DEF a, z
    <3>5. rest >= 0
      BY <1>2 DEF rest
    <3>6. \A u : u \in a .. (a + rest) - 1
                   <=> u \in a .. (a + z) - 1 /\ u \notin a + rest .. (a + z) - 1
      BY <3>2, <3>5
    <3> QED
      BY <3>3, <3>4, <3>6, Zenon
  <2>10. \A u : u \in Units(t) => u \in Units(list[i])
    BY <1>2, <1>4
  <2>11. ASSUME NEW u
         PROVE  u \in FreeUnits(shorter) <=> u \in FreeUnits(list) /\ u \notin Units(t)
    <3>1. u \in FreeUnits(shorter) <=> \E j \in 1 .. n : u \in Units(shorter[j])
      BY <2>5 DEF FreeUnits
    <3>2. \A j \in 1 .. n : u \in Units(shorter[j]) <=> u \in Units(list[j]) /\ u \notin Units(t)
      BY <1>5, <2>4, <2>9, <2>10
    <3> QED
      BY <1>6, <3>1, <3>2
  <2> QED
    BY <2>4, <2>8, <2>11 DEF shorter, t, rest
<1> QED
  BY <1>7, <1>8

LEMMA ArenaUnits ==
    ASSUME RoomForAHeader
    PROVE  KrUnits \in Nat \ {0} /\ KrUnits * BLOCK_SIZE <= MEM_SIZE
<1> DEFINE B == BLOCK_SIZE
<1>1. B \in Nat \ {0} /\ MEM_SIZE \in Nat /\ B <= MEM_SIZE
  BY BlockAssumption, ArenaAssumption DEF RoomForAHeader
<1> HIDE DEF B
<1>2. PICK q \in Int : q = MEM_SIZE \div B /\ q * B <= MEM_SIZE /\ MEM_SIZE < (q + 1) * B
  BY <1>1
<1>3. q >= 1
  BY <1>1, <1>2
<1> QED
  BY <1>2, <1>3 DEF KrUnits, B

\* What memalloc hands out was free, and is all that is free no longer.
LEMMA HandedOut ==
    ASSUME KrInv, NEW n \in Requests, KrMemalloc(n)
    PROVE  \E b \in [at : Nat, len : Nat, header : Nat] :
             /\ used' = used \cup {b} /\ b.len = n /\ HeldOK(b)
             /\ Units(Taken(b)) \subseteq FreeUnits(freep)
             /\ freep' \in Seq(Extent) /\ Ordered(freep')
             /\ FreeUnits(freep') = FreeUnits(freep) \ Units(Taken(b))
<1> DEFINE i == Min(LongEnough(n))
           k == NUnits(n)
           rest == freep[i].size - k
           t == [at |-> freep[i].at + rest, size |-> k]
           b == [at |-> (freep[i].at + rest + 1) * BLOCK_SIZE, len |-> n, header |-> k]
<1>1. n \in Nat /\ n > 0 /\ BLOCK_SIZE \in Nat \ {0}
  BY RequestsAssumption, BlockAssumption DEF KrMemalloc
<1>2. k \in Nat /\ k >= 2
  BY <1>1, EnoughUnits
<1>3. DOMAIN freep = 1 .. Len(freep) /\ Len(freep) \in Nat
      /\ \A j \in DOMAIN freep : freep[j] \in Extent
  BY LenProperties, ElementOfSeq DEF KrInv
<1>4. i \in DOMAIN freep /\ freep[i].size >= k
  <2>1. LongEnough(n) \in SUBSET Nat /\ LongEnough(n) # {}
    BY <1>3 DEF LongEnough, KrMemalloc
  <2>2. i \in LongEnough(n)
    BY <2>1, MinProperties
  <2> QED
    BY <2>2 DEF LongEnough
<1>5. /\ freep' = IF rest = 0 THEN RemoveAt(freep, i) ELSE [freep EXCEPT ![i].size = rest]
      /\ used' = used \cup {b}
  BY DEF KrMemalloc, Hold
<1> HIDE DEF i, k
<1>6. freep[i].at \in Nat /\ freep[i].size \in Nat /\ rest \in Nat
  BY <1>2, <1>3, <1>4 DEF Extent
<1>7. PICK a \in Nat : a = freep[i].at + rest
  BY <1>6
<1>8. b.at = (a + 1) * BLOCK_SIZE /\ b.len = n /\ b.header = k
  BY <1>7
<1>9. (a + 1) * BLOCK_SIZE \in Nat
  BY <1>1, <1>7
<1>10. b \in [at : Nat, len : Nat, header : Nat]
  BY <1>1, <1>2, <1>7, <1>9
<1>11. b.at \div BLOCK_SIZE = a + 1
  <2>1. a + 1 \in Nat
    BY <1>7
  <2> QED
    BY <1>1, <1>8, <2>1, WholeUnits
<1>12. Taken(b) = t /\ t.at = a /\ t.size = k
  BY <1>7, <1>8, <1>11 DEF Taken
<1> HIDE DEF b
<1>13. /\ freep' \in Seq(Extent) /\ Ordered(freep')
       /\ FreeUnits(freep') = FreeUnits(freep) \ Units(t)
  <2>1. k \in Nat \ {0} /\ k <= freep[i].size
    BY <1>2, <1>3, <1>4 DEF Extent
  <2>2. freep \in Seq(Extent) /\ Ordered(freep)
    BY DEF KrInv
  <2> DEFINE shorter == IF rest = 0 THEN RemoveAt(freep, i) ELSE [freep EXCEPT ![i].size = rest]
  <2>3. /\ shorter \in Seq(Extent) /\ Ordered(shorter)
        /\ FreeUnits(shorter) = FreeUnits(freep) \ Units(t)
    BY <1>4, <2>1, <2>2, BlockOut, Zenon
  <2>4. freep' = shorter
    BY <1>5
  <2> QED
    BY <2>3, <2>4, Zenon
<1> HIDE DEF t, rest
<1>14. Units(t) \subseteq FreeUnits(freep)
  <2>1. Units(t) \subseteq Units(freep[i])
    BY <1>2, <1>4, <1>6, <1>7, <1>12 DEF Units, Stop, rest
  <2> QED
    BY <1>4, <2>1 DEF FreeUnits
<1>15. HeldOK(b)
  <2>1. Units(t) \subseteq 0 .. KrUnits - 1
    BY <1>14 DEF KrInv
  <2>2. t \in Extent
    BY <1>2, <1>7, <1>12 DEF t, Extent
  <2>3. b.len > 0 /\ b.header = NUnits(b.len)
    BY <1>1, <1>8 DEF k
  <2> QED
    BY <1>8, <1>12, <2>1, <2>2, <2>3 DEF HeldOK
<1> QED
  BY <1>5, <1>8, <1>10, <1>12, <1>13, <1>14, <1>15

LEMMA MemallocKeepsHeap ==
    ASSUME KrInv, NEW n \in Requests, KrMemalloc(n) PROVE KrInv'
<1>1. PICK b \in [at : Nat, len : Nat, header : Nat] :
        /\ used' = used \cup {b} /\ b.len = n /\ HeldOK(b)
        /\ Units(Taken(b)) \subseteq FreeUnits(freep)
        /\ freep' \in Seq(Extent) /\ Ordered(freep')
        /\ FreeUnits(freep') = FreeUnits(freep) \ Units(Taken(b))
  BY HandedOut
<1>2. \A c \in used : Units(Taken(c)) \cap Units(Taken(b)) = {}
  BY <1>1 DEF KrInv
<1>3. HeldApart'
  BY <1>1, <1>2 DEF KrInv, HeldApart
<1>4. FreeUnits(freep') = (0 .. KrUnits - 1) \ UNION {Units(Taken(c)) : c \in used'}
  BY <1>1 DEF KrInv
<1>5. used' \subseteq [at : Nat, len : Nat, header : Nat] /\ \A c \in used' : HeldOK(c)
  BY <1>1 DEF KrInv
<1> QED
  BY <1>1, <1>3, <1>4, <1>5 DEF KrInv

LEMMA MemfreeKeepsHeap ==
    ASSUME KrInv, NEW b \in used, KrMemfree(b) PROVE KrInv'
<1> DEFINE e == Taken(b)
<1>1. /\ freep' = InsertedAfter(StayBefore(e.at), e)
      /\ used' = used \ {b}
  BY DEF KrMemfree, LetGo, Taken
<1>2. e \in Extent /\ Units(e) \subseteq 0 .. KrUnits - 1
  BY DEF KrInv, HeldOK
<1>3. FreeUnits(freep) \cap Units(e) = {}
  BY DEF KrInv
<1> HIDE DEF e
<1>4. /\ StayBefore(e.at) \in 0 .. Len(freep)
      /\ \A j \in 1 .. StayBefore(e.at) : Stop(freep[j]) <= e.at
      /\ \A j \in StayBefore(e.at) + 1 .. Len(freep) : Stop(e) <= freep[j].at
  BY <1>2, <1>3, PlaceInOrder DEF KrInv
<1>5. /\ freep' \in Seq(Extent) /\ Ordered(freep')
      /\ FreeUnits(freep') = FreeUnits(freep) \cup Units(e)
  BY <1>1, <1>2, <1>4, BlockBack DEF KrInv
<1>6. HeldApart'
  BY <1>1 DEF KrInv, HeldApart
<1>7. \A c \in used' : Units(Taken(c)) \cap Units(e) = {}
  BY <1>1 DEF KrInv, HeldApart, e
<1>8. FreeUnits(freep') = (0 .. KrUnits - 1) \ UNION {Units(Taken(c)) : c \in used'}
  <2>1. UNION {Units(Taken(c)) : c \in used} = Units(e) \cup UNION {Units(Taken(c)) : c \in used'}
    BY <1>1 DEF e
  <2> DEFINE taken == UNION {Units(Taken(c)) : c \in used'}
  <2>2. FreeUnits(freep) = (0 .. KrUnits - 1) \ (Units(e) \cup taken)
    BY <2>1 DEF KrInv
  <2>3. taken \cap Units(e) = {}
    BY <1>7
  <2> HIDE DEF taken
  <2>4. FreeUnits(freep') = (0 .. KrUnits - 1) \ taken
    BY <1>2, <1>5, <2>2, <2>3
  <2> QED
    BY <2>4 DEF taken
<1>9. used' \subseteq [at : Nat, len : Nat, header : Nat] /\ \A c \in used' : HeldOK(c)
  BY <1>1 DEF KrInv
<1> QED
  BY <1>5, <1>6, <1>8, <1>9 DEF KrInv

-----------------------------------------------------------------------------
\* The heap of memInitialize.
LEMMA HeapInit ==
    ASSUME RoomForAHeader, Init PROVE HeapInv
<1> DEFINE all == [at |-> 0, size |-> KrUnits]
<1>1. used = {} /\ freep = <<all>>
  BY DEF Init, NoneHeld, KrInit
<1>2. KrUnits \in Nat \ {0}
  BY ArenaUnits
<1>3. all \in Extent /\ all.at = 0 /\ all.size = KrUnits
  BY <1>2 DEF Extent
<1> HIDE DEF all
<1>4. freep \in Seq(Extent) /\ DOMAIN freep = {1} /\ freep[1] = all
  BY <1>1, <1>3
<1>5. Ordered(freep)
  BY <1>4 DEF Ordered
<1>6. FreeUnits(freep) = 0 .. KrUnits - 1
  <2>1. FreeUnits(freep) = Units(all)
    BY <1>4 DEF FreeUnits
  <2>2. Units(all) = 0 .. KrUnits - 1
    BY <1>2, <1>3 DEF Units, Stop
  <2> QED
    BY <2>1, <2>2
<1> QED
  BY <1>1, <1>4, <1>5, <1>6 DEF HeapInv, KrInv, HeldApart

\* Memory that is not touched.
LEMMA HeapUntouched ==
    ASSUME HeapInv, UNCHANGED <<subject, used, freep>> PROVE HeapInv'
BY DEF HeapInv, KrInv, HeldApart

LEMMA HeapStep ==
    ASSUME HeapInv, [Next]_vars PROVE HeapInv'
<1>1. CASE UNCHANGED <<subject, used, freep>>
  BY <1>1, HeapUntouched
<1>2. CASE Allocates
  <2>1. PICK n \in Requests :
          CASE subject = "Buddy" -> BuddyMemalloc(n) /\ UNCHANGED freep
            [] subject = "K&R heap malloc" -> KrMemalloc(n) /\ UNCHANGED buddyVars
            [] OTHER -> FALSE
    BY <1>2, Zenon DEF Allocates
  <2>2. subject' = subject
    BY <1>2 DEF Allocates
  <2>3. subject # "Buddy" => subject = "K&R heap malloc" /\ KrMemalloc(n)
    BY <2>1, Zenon
  <2>4. subject # "Buddy" => KrInv'
    BY <2>3, MemallocKeepsHeap DEF HeapInv
  <2> QED
    BY <2>2, <2>3, <2>4 DEF HeapInv
<1>3. CASE Frees
  <2>1. PICK b \in used :
          IF subject = "Buddy" THEN BuddyMemfree(b) /\ UNCHANGED freep
                               ELSE KrMemfree(b) /\ UNCHANGED buddyVars
    BY <1>3, Zenon DEF Frees
  <2>2. subject' = subject
    BY <1>3 DEF Frees
  <2>3. subject # "Buddy" => KrMemfree(b)
    BY <2>1, Zenon
  <2>4. subject # "Buddy" => KrInv'
    BY <2>3, MemfreeKeepsHeap DEF HeapInv
  <2> QED
    BY <2>1, <2>2, <2>4 DEF HeapInv
<1>4. CASE subject = "ddlADT" /\ ddlNext
           /\ UNCHANGED <<subject, memoryVars, clockVars, terminalVars>>
  BY <1>1, <1>4 DEF memoryVars
<1>5. CASE subject = "clock" /\ (SleepNext \/ DateNext)
           /\ UNCHANGED <<subject, memoryVars, ddlVars, terminalVars>>
  BY <1>1, <1>5 DEF memoryVars
<1>6. CASE subject = "terminal" /\ TerminalNext
           /\ UNCHANGED <<subject, memoryVars, ddlVars, clockVars>>
  BY <1>1, <1>6 DEF memoryVars
<1>7. CASE UNCHANGED vars
  BY <1>1, <1>7 DEF vars, memoryVars
<1> QED
  BY <1>2, <1>3, <1>4, <1>5, <1>6, <1>7 DEF Next

-----------------------------------------------------------------------------
\* The bytes of a block lie in its units, behind the header.
LEMMA BytesInUnits ==
    ASSUME NEW b \in [at : Nat, len : Nat, header : Nat], HeldOK(b)
    PROVE  /\ Taken(b).at * BLOCK_SIZE <= b.at
           /\ b.at + b.len <= Stop(Taken(b)) * BLOCK_SIZE
<1> DEFINE B == BLOCK_SIZE
           k == NUnits(b.len)
<1>1. B \in Nat \ {0} /\ b.len \in Nat /\ b.len > 0
  BY BlockAssumption DEF HeldOK
<1>2. k \in Nat /\ k >= 2 /\ b.len <= (k - 1) * B
  BY <1>1, EnoughUnits
<1>3. PICK a \in Nat : a = Taken(b).at
  BY DEF HeldOK, Extent
<1>4. b.at = (a + 1) * B /\ Stop(Taken(b)) = a + k
  BY <1>3 DEF HeldOK, Stop, Taken
<1> HIDE DEF B, k
<1>5. (a + 1) * B + (k - 1) * B = (a + k) * B
  BY <1>1, <1>2
<1>6. a * B <= (a + 1) * B
  BY <1>1
<1>7. /\ (a + 1) * B \in Int /\ (k - 1) * B \in Int
  BY <1>1, <1>2
<1> QED
  BY <1>1, <1>2, <1>3, <1>4, <1>5, <1>6, <1>7 DEF B

LEMMA BytesApart ==
    ASSUME NEW b \in [at : Nat, len : Nat, header : Nat], HeldOK(b),
           NEW c \in [at : Nat, len : Nat, header : Nat], HeldOK(c),
           Units(Taken(b)) \cap Units(Taken(c)) = {}
    PROVE  b.at + b.len <= c.at \/ c.at + c.len <= b.at
<1>1. Taken(b) \in Extent /\ Taken(c) \in Extent
  BY DEF HeldOK
<1>2. \A x, y \in Nat : x <= y => x * BLOCK_SIZE <= y * BLOCK_SIZE
  BY BlockAssumption
<1>3. PICK x1, y1 \in Nat : x1 = Stop(Taken(b)) /\ y1 = Taken(b).at
  BY <1>1 DEF Extent, Stop
<1>4. PICK x2, y2 \in Nat : x2 = Stop(Taken(c)) /\ y2 = Taken(c).at
  BY <1>1 DEF Extent, Stop
<1>5. /\ y1 * BLOCK_SIZE <= b.at /\ b.at + b.len <= x1 * BLOCK_SIZE
      /\ y2 * BLOCK_SIZE <= c.at /\ c.at + c.len <= x2 * BLOCK_SIZE
  BY <1>3, <1>4, BytesInUnits
<1>6. x1 <= y2 \/ x2 <= y1
  BY <1>1, <1>3, <1>4, OneBeforeTheOther
<1>7. x1 * BLOCK_SIZE <= y2 * BLOCK_SIZE \/ x2 * BLOCK_SIZE <= y1 * BLOCK_SIZE
  BY <1>2, <1>6
<1>8. /\ x1 * BLOCK_SIZE \in Int /\ y1 * BLOCK_SIZE \in Int
      /\ x2 * BLOCK_SIZE \in Int /\ y2 * BLOCK_SIZE \in Int
  BY BlockAssumption
<1> QED
  BY <1>5, <1>7, <1>8

HeldBlocks == {[at |-> b.at, len |-> b.len] : b \in used}

LEMMA AllocatorStart ==
    ASSUME Init PROVE Blocks!Init
BY DEF Init, NoneHeld, Blocks!Init

\* memalloc is an Allocate of the specification.
LEMMA MemallocAllocates ==
    ASSUME RoomForAHeader, KrInv, NEW n \in Requests, KrMemalloc(n)
    PROVE  Blocks!Allocate(n)
<1>1. PICK b \in [at : Nat, len : Nat, header : Nat] :
        /\ used' = used \cup {b} /\ b.len = n /\ HeldOK(b)
        /\ Units(Taken(b)) \subseteq FreeUnits(freep)
  BY HandedOut
<1> DEFINE new == [at |-> b.at, len |-> n]
<1>2. n \in Nat /\ n > 0 /\ MEM_SIZE \in Nat
  BY RequestsAssumption, ArenaAssumption DEF KrMemalloc
<1>3. new.at \in 0 .. MEM_SIZE - n
  <2>1. b.at + n <= Stop(Taken(b)) * BLOCK_SIZE
    BY <1>1, BytesInUnits
  <2>2. PICK x \in Nat : x = Stop(Taken(b)) /\ x <= KrUnits
    <3>1. Taken(b) \in Extent /\ KrUnits \in Nat
      BY <1>1, ArenaUnits DEF HeldOK
    <3>2. Stop(Taken(b)) - 1 \in Units(Taken(b)) /\ Stop(Taken(b)) \in Nat
      BY <3>1 DEF Extent, Stop, Units
    <3>3. Stop(Taken(b)) - 1 \in 0 .. KrUnits - 1
      BY <1>1, <3>2 DEF HeldOK
    <3> QED
      BY <3>1, <3>2, <3>3
  <2>3. x * BLOCK_SIZE <= KrUnits * BLOCK_SIZE /\ KrUnits * BLOCK_SIZE <= MEM_SIZE
    BY <2>2, ArenaUnits, BlockAssumption
  <2>4. x * BLOCK_SIZE \in Int /\ KrUnits * BLOCK_SIZE \in Int
    BY ArenaUnits, BlockAssumption
  <2> QED
    BY <1>2, <2>1, <2>2, <2>3, <2>4
<1>4. \A other \in HeldBlocks : Blocks!Bytes(new) \cap Blocks!Bytes(other) = {}
  <2> TAKE other \in HeldBlocks
  <2>1. PICK c \in used : other = [at |-> c.at, len |-> c.len]
    BY DEF HeldBlocks
  <2>2. c \in [at : Nat, len : Nat, header : Nat] /\ HeldOK(c)
        /\ Units(Taken(b)) \cap Units(Taken(c)) = {}
    BY <1>1 DEF KrInv
  <2>3. b.at + b.len <= c.at \/ c.at + c.len <= b.at
    BY <1>1, <2>2, BytesApart
  <2>4. /\ Blocks!Bytes(new) = b.at .. (b.at + n) - 1
        /\ Blocks!Bytes(other) = c.at .. (c.at + c.len) - 1
    BY <1>2, <2>1, <2>2 DEF Blocks!Bytes
  <2> QED
    BY <1>1, <1>2, <2>2, <2>3, <2>4
<1>5. HeldBlocks' = HeldBlocks \cup {new}
  BY <1>1 DEF HeldBlocks
<1> QED
  BY <1>2, <1>3, <1>4, <1>5 DEF Blocks!Allocate, HeldBlocks

\* memfree is a Release: no other block that is held looks the same.
LEMMA MemfreeReleases ==
    ASSUME KrInv, NEW b \in used, KrMemfree(b)
    PROVE  \E h \in HeldBlocks : HeldBlocks' = HeldBlocks \ {h}
<1> DEFINE h == [at |-> b.at, len |-> b.len]
<1>1. used' = used \ {b}
  BY DEF KrMemfree, LetGo
<1>2. ASSUME NEW c \in used, c # b PROVE [at |-> c.at, len |-> c.len] # h
  <2> SUFFICES ASSUME c.at = b.at PROVE FALSE
    BY Zenon
  <2>1. Taken(b) \in Extent /\ Taken(c) \in Extent /\ Taken(b).at = Taken(c).at
    BY DEF KrInv, HeldOK, Taken
  <2>2. Taken(b).at \in Units(Taken(b)) /\ Taken(b).at \in Units(Taken(c))
    BY <2>1 DEF Extent, Units, Stop
  <2> QED
    BY <1>2, <2>2 DEF KrInv, HeldApart
<1>3. h \in HeldBlocks /\ HeldBlocks' = HeldBlocks \ {h}
  BY <1>1, <1>2 DEF HeldBlocks
<1> QED
  BY <1>3

LEMMA HeapStepImplements ==
    ASSUME RoomForAHeader, HeapInv, subject # "Buddy", [Next]_vars
    PROVE  [Blocks!Next]_HeldBlocks
<1>1. CASE UNCHANGED used
  BY <1>1 DEF HeldBlocks
<1>2. CASE Allocates
  <2>1. PICK n \in Requests :
          CASE subject = "Buddy" -> BuddyMemalloc(n) /\ UNCHANGED freep
            [] subject = "K&R heap malloc" -> KrMemalloc(n) /\ UNCHANGED buddyVars
            [] OTHER -> FALSE
    BY <1>2, Zenon DEF Allocates
  <2>2. KrMemalloc(n)
    BY <2>1, Zenon
  <2>3. Blocks!Allocate(n)
    BY <2>2, MemallocAllocates DEF HeapInv
  <2> QED
    BY <2>3 DEF Blocks!Next
<1>3. CASE Frees
  <2>1. PICK b \in used : KrMemfree(b)
    BY <1>3, Zenon DEF Frees
  <2>2. \E h \in HeldBlocks : HeldBlocks' = HeldBlocks \ {h}
    BY <2>1, MemfreeReleases DEF HeapInv
  <2> QED
    BY <2>2 DEF Blocks!Next, Blocks!Release, HeldBlocks
<1>4. CASE subject = "ddlADT" /\ ddlNext
           /\ UNCHANGED <<subject, memoryVars, clockVars, terminalVars>>
  BY <1>1, <1>4 DEF memoryVars
<1>5. CASE subject = "clock" /\ (SleepNext \/ DateNext)
           /\ UNCHANGED <<subject, memoryVars, ddlVars, terminalVars>>
  BY <1>1, <1>5 DEF memoryVars
<1>6. CASE subject = "terminal" /\ TerminalNext
           /\ UNCHANGED <<subject, memoryVars, ddlVars, clockVars>>
  BY <1>1, <1>6 DEF memoryVars
<1>7. CASE UNCHANGED vars
  BY <1>1, <1>7 DEF vars, memoryVars
<1> QED
  BY <1>2, <1>3, <1>4, <1>5, <1>6, <1>7 DEF Next

LEMMA SubjectStays ==
    ASSUME [Next]_vars PROVE subject' = subject
BY DEF Next, vars, Allocates, Frees

\* Every block the K&R heap hands out lies in the arena, is as long as was asked for and
\* shares no byte with another that is held, for every arena, header and order of calls.
THEOREM HeapIsAllocator ==
    ASSUME RoomForAHeader PROVE Spec /\ subject # "Buddy" => ImplementsAllocator
<1>1. Init /\ subject # "Buddy" => HeapInv /\ subject # "Buddy"
  BY HeapInit
<1>2. HeapInv /\ subject # "Buddy" /\ [Next]_vars => (HeapInv /\ subject # "Buddy")'
  BY HeapStep, SubjectStays
<1>3. HeapInv /\ subject # "Buddy" /\ [Next]_vars => [Blocks!Next]_HeldBlocks
  BY HeapStepImplements
<1>4. Init => Blocks!Init
  BY AllocatorStart
<1> QED
  BY <1>1, <1>2, <1>3, <1>4, PTL DEF Spec, ImplementsAllocator, Blocks!Spec, HeldBlocks

-----------------------------------------------------------------------------
\* Units that follow one another and are all free are in one free block.
LEMMA InOneBlock ==
    ASSUME NEW list \in Seq(Extent), Ordered(list), NEW low \in Nat, NEW k \in Nat \ {0},
           low .. (low + k) - 1 \subseteq FreeUnits(list)
    PROVE  \E i \in DOMAIN list : list[i].size >= k
<1>1. \A j \in DOMAIN list : list[j] \in Extent
  BY LenProperties, ElementOfSeq
<1>2. DOMAIN list \subseteq Int
  BY LenProperties
<1>3. PICK i \in DOMAIN list : low \in Units(list[i])
  <2>1. low \in FreeUnits(list)
    OBVIOUS
  <2> QED
    BY <2>1 DEF FreeUnits
<1>4. list[i].at \in Nat /\ list[i].size \in Nat
  BY <1>1 DEF Extent
<1>5. list[i].at <= low /\ low < list[i].at + list[i].size
  BY <1>3, <1>4 DEF Units, Stop
<1>6. ASSUME list[i].size < k PROVE FALSE
  <2> DEFINE u == list[i].at + list[i].size
  <2>1. u \in FreeUnits(list)
    BY <1>4, <1>5, <1>6
  <2>2. PICK j \in DOMAIN list : u \in Units(list[j])
    BY <2>1 DEF FreeUnits
  <2>3. list[j].at \in Nat /\ list[j].size \in Nat
    BY <1>1 DEF Extent
  <2>4. list[j].at <= u /\ u < list[j].at + list[j].size
    BY <1>4, <2>2, <2>3 DEF Units, Stop
  <2>5. /\ i < j => list[i].at + list[i].size < list[j].at
        /\ j < i => list[j].at + list[j].size < list[i].at
    BY DEF Ordered, Stop
  <2>6. i < j \/ j < i \/ i = j
    BY <1>2
  <2> QED
    BY <1>4, <2>3, <2>4, <2>5, <2>6
<1> QED
  BY <1>4, <1>6

\* The units that no caller holds are the units of the free list.
LEMMA UnusedIsFree ==
    ASSUME KrInv PROVE KrUnused = FreeUnits(freep)
<1>1. \A b \in used : KrUnitsOf(b) = Units(Taken(b))
  <2> TAKE b \in used
  <2>1. b.len \in Nat /\ b.len > 0 /\ b.header = NUnits(b.len)
    BY DEF KrInv, HeldOK
  <2>2. PICK q, k, a \in Nat : q = (b.len - 1) \div BLOCK_SIZE /\ k = NUnits(b.len) /\ k = q + 2
                             /\ a = Taken(b).at
    <3>1. NUnits(b.len) \in Nat /\ NUnits(b.len) >= 2
          /\ NUnits(b.len) = (b.len - 1) \div BLOCK_SIZE + 2
      BY <2>1, EnoughUnits
    <3>2. (b.len - 1) \div BLOCK_SIZE \in Int
      BY <2>1, BlockAssumption
    <3>3. Taken(b).at \in Nat
      BY DEF KrInv, HeldOK, Extent
    <3> QED
      BY <3>1, <3>2, <3>3
  <2>3. PICK d \in Int : d = b.at \div BLOCK_SIZE
    <3>1. b.at \in Nat
      BY DEF KrInv
    <3> QED
      BY <3>1, BlockAssumption
  <2>4. a = d - 1
    BY <2>2, <2>3 DEF Taken
  <2>5. KrUnitsOf(b) = d - 1 .. d + q
    BY <2>2, <2>3 DEF KrUnitsOf
  <2>6. Units(Taken(b)) = a .. (a + k) - 1
    BY <2>1, <2>2 DEF Units, Stop, Taken
  <2> QED
    BY <2>2, <2>4, <2>5, <2>6
<1> QED
  BY <1>1 DEF KrUnused, KrInv

LEMMA RefusesRightly ==
    ASSUME KrInv, NEW n \in Requests \ {0}, KrCouldHold(n)
    PROVE  LongEnough(n) # {}
<1>2. KrUnused = FreeUnits(freep)
  BY UnusedIsFree
<1>3. n \in Nat /\ n > 0
  BY RequestsAssumption
<1>4. NUnits(n) \in Nat \ {0}
  BY <1>3, EnoughUnits
<1>5. PICK low \in KrUnused : low .. low + NUnits(n) - 1 \subseteq KrUnused
  BY DEF KrCouldHold
<1>6. low \in Nat /\ (low + NUnits(n)) - 1 = low + NUnits(n) - 1
  BY <1>4 DEF KrUnused
<1>7. \E i \in DOMAIN freep : freep[i].size >= NUnits(n)
  BY <1>2, <1>4, <1>5, <1>6, InOneBlock DEF KrInv
<1> QED
  BY <1>7 DEF LongEnough

\* The K&R heap refuses a request only when no units that follow one another, and that
\* nobody holds, are enough for it: first fit over a list that joins what touches.
THEOREM HeapRefusesOnlyWhenFull ==
    ASSUME RoomForAHeader PROVE Spec => [](subject # "Buddy" => RefusesOnlyWhenFull)
<1>1. Init => HeapInv
  BY HeapInit
<1>2. HeapInv /\ [Next]_vars => HeapInv'
  BY HeapStep
<1>3. HeapInv => (subject # "Buddy" => RefusesOnlyWhenFull)
  <2>1. subject # "Buddy" /\ HeapInv => KrInv
    BY DEF HeapInv
  <2> QED
    BY <2>1, RefusesRightly, Zenon DEF RefusesOnlyWhenFull
<1> QED
  BY <1>1, <1>2, <1>3, PTL DEF Spec

\* What getMemInfo counts, block by block.
LEMMA FreeSum ==
    ASSUME freep \in Seq(Extent)
    PROVE  \E sum \in [0 .. Len(freep) -> Nat] :
             /\ sum[0] = 0
             /\ \A i \in 1 .. Len(freep) : sum[i] = sum[i - 1] + freep[i].size
             /\ KrFreeBlocks = sum[Len(freep)]
<1> DEFINE n == Len(freep)
           step == [i \in 1 .. n |-> [v \in Nat |-> v + freep[i].size]]
           Turn(it) == [T \in SUBSET DOMAIN freep |->
                          IF T = {} THEN 0 ELSE it[T \ {Max(T)}] + freep[Max(T)].size]
           g == CHOOSE it : it = Turn(it)
<1>1. n \in Nat /\ DOMAIN freep = 1 .. n
  BY LenProperties
<1>2. \A i \in 1 .. n : freep[i].size \in Nat
  <2> TAKE i \in 1 .. n
  <2>1. freep[i] \in Extent
    BY ElementOfSeq
  <2> QED
    BY <2>1 DEF Extent
<1> HIDE DEF n
<1>3. step \in [1 .. n -> [Nat -> Nat]]
  BY <1>2
<1>4. \E it : Folding(it, n, Nat, 0, step)
  <2> HIDE DEF step
  <2> QED
    BY <1>1, <1>3, FoldExists
<1>5. \A T \in SUBSET (1 .. n) : T # {} => Max(T) \in 1 .. n
  BY <1>1, MaxOfFirst
<1>6. \E it : it = Turn(it)
  <2>1. PICK it : Folding(it, n, Nat, 0, step)
    BY <1>4
  <2>2. it \in [SUBSET (1 .. n) -> Nat]
    BY <2>1 DEF Folding
  <2>3. \A T \in SUBSET (1 .. n) :
          it[T] = IF T = {} THEN 0 ELSE it[T \ {Max(T)}] + freep[Max(T)].size
    BY <1>5, <2>1, <2>2 DEF Folding
  <2>4. it = Turn(it)
    BY <1>1, <2>2, <2>3
  <2> QED
    BY <2>4
<1>7. g = Turn(g)
  <2> HIDE DEF Turn
  <2> QED
    BY <1>6, Zenon
<1>8. KrFreeBlocks = g[DOMAIN freep]
  BY Zenon DEF KrFreeBlocks, FoldLeft, MapThenFoldSet
<1> HIDE DEF g
<1>9. \A T \in SUBSET (1 .. n) :
          g[T] = IF T = {} THEN 0 ELSE g[T \ {Max(T)}] + freep[Max(T)].size
  BY <1>1, <1>7
<1>10. Stepping(g, n, Nat, 0, step)
  BY <1>5, <1>9 DEF Stepping
<1>11. Turns(g, n, Nat, 0, step)
  <2> HIDE DEF step
  <2> QED
    BY <1>1, <1>3, <1>10, FoldChain
<1> DEFINE sum == [i \in 0 .. n |-> g[1 .. i]]
<1>12. sum \in [0 .. n -> Nat] /\ sum[0] = 0 /\ KrFreeBlocks = sum[n]
  BY <1>1, <1>8, <1>11 DEF Turns
<1>13. ASSUME NEW i \in 1 .. n PROVE sum[i] = sum[i - 1] + freep[i].size
  <2>1. i \in 0 .. n /\ i - 1 \in 0 .. n
    BY <1>1
  <2>2. g[1 .. i - 1] \in Nat /\ g[1 .. i] = step[i][g[1 .. i - 1]]
    BY <1>11, <2>1 DEF Turns
  <2> QED
    BY <2>1, <2>2
<1> HIDE DEF sum
<1> QED
  BY <1>12, <1>13 DEF n

\* Sizes of intervals and of sets that have nothing in common.
LEMMA SizeOfInterval ==
    ASSUME NEW a \in Int, NEW z \in Int, z >= 0
    PROVE  IsFiniteSet(a .. (a + z) - 1) /\ Cardinality(a .. (a + z) - 1) = z
<1>1. PICK b \in Int : b = (a + z) - 1
  OBVIOUS
<1>2. IsFiniteSet(a .. b) /\ Cardinality(a .. b) = IF a > b THEN 0 ELSE b - a + 1
  BY FS_Interval
<1>3. (a > b => z = 0) /\ b - a + 1 = z
  BY <1>1
<1> QED
  BY <1>1, <1>2, <1>3

LEMMA SizeOfBoth ==
    ASSUME NEW A, NEW B, IsFiniteSet(A), IsFiniteSet(B), A \cap B = {}
    PROVE  IsFiniteSet(A \cup B) /\ Cardinality(A \cup B) = Cardinality(A) + Cardinality(B)
<1>1. /\ IsFiniteSet(A \cup B)
      /\ Cardinality(A \cup B) = Cardinality(A) + Cardinality(B) - Cardinality(A \cap B)
  BY FS_Union
<1>2. Cardinality(A \cap B) = 0
  BY FS_EmptySet
<1>3. Cardinality(A) \in Nat /\ Cardinality(B) \in Nat
  BY FS_CardinalityType
<1> QED
  BY <1>1, <1>2, <1>3

\* Ordered extents have as many units as their sizes say.
LEMMA UnitsCounted ==
    ASSUME freep \in Seq(Extent), Ordered(freep)
    PROVE  Cardinality(FreeUnits(freep)) = KrFreeBlocks
<1> DEFINE n == Len(freep)
           F(i) == UNION {Units(freep[j]) : j \in 1 .. i}
<1>1. n \in Nat /\ DOMAIN freep = 1 .. n
  BY LenProperties
<1>2. \A i \in 1 .. n : freep[i].at \in Nat /\ freep[i].size \in Nat /\ freep[i].size > 0
  <2> TAKE i \in 1 .. n
  <2>1. freep[i] \in Extent
    BY ElementOfSeq
  <2> QED
    BY <2>1 DEF Extent
<1>3. PICK sum \in [0 .. n -> Nat] :
         /\ sum[0] = 0
         /\ \A i \in 1 .. n : sum[i] = sum[i - 1] + freep[i].size
         /\ KrFreeBlocks = sum[n]
  BY FreeSum
<1> DEFINE S == {i \in 0 .. n : IsFiniteSet(F(i)) /\ Cardinality(F(i)) = sum[i]}
<1> HIDE DEF n
<1>4. 0 \in S
  <2>1. F(0) = {}
    OBVIOUS
  <2> QED
    <3>1. IsFiniteSet(F(0)) /\ Cardinality(F(0)) = 0
      BY <2>1, FS_EmptySet
    <3> HIDE DEF F
    <3>2. 0 \in 0 .. n
      BY <1>1
    <3>3. sum[0] = 0
      BY <1>3
    <3> QED
      BY <3>1, <3>2, <3>3
<1>5. ASSUME NEW i \in 0 .. n - 1, i \in S PROVE i + 1 \in S
  <2> DEFINE k == i + 1
  <2>1. /\ k \in 1 .. n /\ k \in 0 .. n /\ i = k - 1
        /\ 1 .. k = (1 .. i) \cup {k}
    <3>1. k \in 1 .. n /\ k \in 0 .. n /\ i = k - 1 /\ k \in Int /\ i \in Int
      BY <1>1
    <3>2. 1 .. k = (1 .. i) \cup {k}
      <4> HIDE DEF k, S
      <4> QED
        BY <3>1
    <3> QED
      BY <3>1, <3>2
  <2> HIDE DEF k
  <2>2. F(k) = F(i) \cup Units(freep[k])
    BY <2>1
  <2>3. F(i) \cap Units(freep[k]) = {}
    <3> SUFFICES ASSUME NEW j \in 1 .. i, NEW u \in Units(freep[j]), u \in Units(freep[k])
                 PROVE  FALSE
      OBVIOUS
    <3>1. j \in 1 .. n /\ j < k
      BY <1>1, <2>1
    <3>2. Stop(freep[j]) < freep[k].at
      BY <1>1, <2>1, <3>1 DEF Ordered
    <3>3. /\ freep[j].at \in Int /\ freep[j].size \in Int
          /\ freep[k].at \in Int /\ freep[k].size \in Int
      BY <1>2, <2>1, <3>1
    <3>4. Units(freep[j]) \cap Units(freep[k]) = {}
      BY <3>2, <3>3, ApartUnits DEF Stop
    <3> QED
      BY <3>4
  <2>4. /\ IsFiniteSet(Units(freep[k])) /\ Cardinality(Units(freep[k])) = freep[k].size
    <3>1. PICK a, z \in Int : a = freep[k].at /\ z = freep[k].size /\ z > 0
      BY <1>2, <2>1
    <3>2. Units(freep[k]) = a .. (a + z) - 1
      BY <3>1 DEF Units, Stop
    <3>3. IsFiniteSet(a .. (a + z) - 1) /\ Cardinality(a .. (a + z) - 1) = z
      <4>1. a \in Int /\ z \in Int /\ z >= 0
        BY <3>1
      <4> QED
        BY <4>1, SizeOfInterval, Zenon
    <3> QED
      BY <3>1, <3>2, <3>3
  <2>5. IsFiniteSet(F(i)) /\ Cardinality(F(i)) = sum[i]
    BY <1>5
  <2> HIDE DEF F
  <2>6. /\ IsFiniteSet(F(k))
        /\ Cardinality(F(k)) = Cardinality(F(i)) + Cardinality(Units(freep[k]))
    <3>1. PICK A, B : A = F(i) /\ B = Units(freep[k])
      OBVIOUS
    <3>2. IsFiniteSet(A) /\ IsFiniteSet(B) /\ A \cap B = {}
      BY <2>3, <2>4, <2>5, <3>1
    <3>3. IsFiniteSet(A \cup B) /\ Cardinality(A \cup B) = Cardinality(A) + Cardinality(B)
      BY <3>2, SizeOfBoth
    <3> QED
      BY <2>2, <3>1, <3>3
  <2>8. sum[k] = sum[i] + freep[k].size
    BY <1>3, <2>1
  <2>9. sum[i] \in Nat /\ freep[k].size \in Nat
    BY <1>1, <1>2, <1>3, <2>1
  <2>10. Cardinality(F(k)) = sum[k]
    BY <2>4, <2>5, <2>6, <2>8, <2>9
  <2> QED
    BY <2>1, <2>6, <2>10 DEF k
<1>6. S = 0 .. n
  <2>1. S \in SUBSET (0 .. n)
    OBVIOUS
  <2> HIDE DEF S
  <2> QED
    BY <1>1, <1>4, <1>5, <2>1, UpTo
<1>7. Cardinality(F(n)) = sum[n]
  BY <1>1, <1>6
<1>8. F(n) = FreeUnits(freep)
  BY <1>1 DEF FreeUnits
<1> QED
  BY <1>3, <1>7, <1>8

\* The free memory the K&R heap reports is what its callers do not hold, for every arena and
\* whatever was allocated and freed.
THEOREM HeapReportsExact ==
    ASSUME RoomForAHeader PROVE Spec => [](subject # "Buddy" => ReportsExact)
<1>1. Init => HeapInv
  BY HeapInit
<1>2. HeapInv /\ [Next]_vars => HeapInv'
  BY HeapStep
<1>3. HeapInv => (subject # "Buddy" => ReportsExact)
  <2>1. subject # "Buddy" /\ HeapInv => KrInv
    BY DEF HeapInv
  <2>2. KrInv => KrFreeBlocks = Cardinality(KrUnused)
    <3>1. KrInv => KrUnused = FreeUnits(freep)
      BY UnusedIsFree
    <3>2. KrInv => KrFreeBlocks = Cardinality(FreeUnits(freep))
      BY UnitsCounted DEF KrInv
    <3> QED
      BY <3>1, <3>2
  <2> QED
    BY <2>1, <2>2, Zenon DEF ReportsExact
<1> QED
  BY <1>1, <1>2, <1>3, PTL DEF Spec

-----------------------------------------------------------------------------
(* The keyboard.  The loops of its two readers are folds over the events   *)
(* of the ring: what they do is shown turn by turn.                        *)

Char == {BS, NL, NUL, SPACE, NONE, "D", "d"}

\* What readPrintables keeps over its turns.
Reading == [chars : Seq(Char), used : Nat, shifted : BOOLEAN, ctrld : BOOLEAN,
            over : BOOLEAN, count : Nat]

LEMMA PrintableType ==
    ASSUME NEW key, NEW shift PROVE Printable(key, shift) \in Char
BY DEF Printable, Char

\* One turn: over is over, and otherwise one event is used and every modifier toggles.
LEMMA OneTurn ==
    ASSUME NEW acc \in Reading, NEW e
    PROVE  LET t == TakeEvent(acc, e) IN
           /\ t \in Reading /\ t.count = acc.count
           /\ acc.over => t = acc
           /\ ~acc.over => /\ t.used = acc.used + 1
                           /\ t.chars = acc.chars \/ \E c \in Char : t.chars = Append(acc.chars, c)
                           /\ t.over => t.chars # <<>>
                           /\ e.key # VK_CAPITAL =>
                                /\ t.shifted = IF e.key \in {VK_LSHIFT, VK_RSHIFT}
                                               THEN ~acc.shifted ELSE acc.shifted
                                /\ t.ctrld = IF e.key \in {VK_LCONTROL, VK_RCONTROL}
                                             THEN ~acc.ctrld ELSE acc.ctrld
<1> DEFINE n == [acc EXCEPT !.used = @ + 1]
           char == IF acc.ctrld /\ e.key = VK_D THEN NUL ELSE Printable(e.key, acc.shifted)
           t == TakeEvent(acc, e)
<1>1. char \in Char
  BY PrintableType DEF Char
<1>2. n \in Reading /\ n.used = acc.used + 1 /\ n.chars = acc.chars /\ n.shifted = acc.shifted
      /\ n.ctrld = acc.ctrld /\ n.over = acc.over /\ n.count = acc.count
  BY DEF Reading
<1> DEFINE shift == e.key \in {VK_LSHIFT, VK_RSHIFT}
           caps == e.key = VK_CAPITAL /\ e.pressed
           control == e.key \in {VK_LCONTROL, VK_RCONTROL}
           prints == e.key > 0 /\ e.pressed /\ char # NONE
           ends == char \in {NUL, NL} \/ Len(acc.chars) + 1 = acc.count
<1>3. shift \/ caps \/ control => char = NONE
  BY DEF Printable, VK_BACK, VK_RETURN, VK_LCONTROL, VK_RCONTROL, VK_D, VK_LSHIFT,
         VK_RSHIFT, VK_SPACE, VK_CAPITAL
<1>4. ~(shift /\ caps) /\ ~(shift /\ control) /\ ~(caps /\ control)
  BY DEF VK_LCONTROL, VK_RCONTROL, VK_LSHIFT, VK_RSHIFT, VK_CAPITAL
<1>5. shift \/ caps \/ control => ~prints
  BY <1>3
<1>6. t = IF acc.over THEN acc ELSE
        CASE shift -> [n EXCEPT !.shifted = ~@]
          [] caps -> [n EXCEPT !.shifted = ~@]
          [] control -> [n EXCEPT !.ctrld = ~@]
          [] prints -> [n EXCEPT !.chars = Append(@, char), !.over = ends]
          [] OTHER -> n
  BY Zenon DEF TakeEvent
<1>7. e.key # VK_CAPITAL => ~caps
  OBVIOUS
<1>8. ends \in BOOLEAN
  OBVIOUS
<1>9. /\ t \in Reading /\ t.count = acc.count
      /\ acc.over => t = acc
      /\ ~acc.over => /\ t.used = acc.used + 1
                      /\ t.chars = acc.chars \/ \E c \in Char : t.chars = Append(acc.chars, c)
                      /\ t.over => t.chars # <<>>
                      /\ ~caps => /\ t.shifted = IF shift THEN ~acc.shifted ELSE acc.shifted
                                  /\ t.ctrld = IF control THEN ~acc.ctrld ELSE acc.ctrld
  <2> HIDE DEF n, char, t, shift, caps, control, prints, ends
  <2>1. CASE acc.over
    BY <1>6, <2>1
  <2>2. CASE ~acc.over /\ shift
    <3>1. t = [n EXCEPT !.shifted = ~@]
      BY <1>4, <1>5, <1>6, <2>2
    <3> QED
      BY <1>2, <1>4, <2>2, <3>1 DEF Reading
  <2>3. CASE ~acc.over /\ caps
    <3>1. t = [n EXCEPT !.shifted = ~@]
      BY <1>4, <1>5, <1>6, <2>3
    <3> QED
      BY <1>2, <2>3, <3>1 DEF Reading
  <2>4. CASE ~acc.over /\ control
    <3>1. t = [n EXCEPT !.ctrld = ~@]
      BY <1>4, <1>5, <1>6, <2>4
    <3> QED
      BY <1>2, <1>4, <2>4, <3>1 DEF Reading
  <2>5. CASE ~acc.over /\ ~shift /\ ~caps /\ ~control /\ prints
    <3>1. t = [n EXCEPT !.chars = Append(@, char), !.over = ends]
      BY <1>6, <2>5
    <3>2. n.chars \in Seq(Char) /\ Append(n.chars, char) \in Seq(Char)
          /\ Append(n.chars, char) # <<>>
      BY <1>1, <1>2 DEF Reading
    <3> QED
      BY <1>1, <1>2, <1>8, <2>5, <3>1, <3>2 DEF Reading
  <2>6. CASE ~acc.over /\ ~shift /\ ~caps /\ ~control /\ ~prints
    <3>1. t = n
      BY <1>6, <2>6
    <3> QED
      BY <1>2, <2>6, <3>1
  <2> QED
    BY <2>1, <2>2, <2>3, <2>4, <2>5, <2>6
<1> QED
  BY <1>7, <1>9, Zenon

\* readPrintables turn by turn.
ReadTurns(turn, count) ==
    /\ turn \in [0 .. unread -> Reading]
    /\ turn[0] = [chars |-> <<>>, used |-> 0, shifted |-> shifted, ctrld |-> ctrld,
                  over |-> count = 0, count |-> count]
    /\ \A i \in 1 .. unread : turn[i] = TakeEvent(turn[i - 1], Unread[i])
    /\ readPrintables(count) = turn[unread]

LEMMA ReadsInTurns ==
    ASSUME NEW count \in Nat, unread \in Nat, shifted \in BOOLEAN, ctrld \in BOOLEAN
    PROVE  \E turn : ReadTurns(turn, count)
<1> DEFINE n == unread
           base == [chars |-> <<>>, used |-> 0, shifted |-> shifted, ctrld |-> ctrld,
                    over |-> count = 0, count |-> count]
           step == [i \in 1 .. n |-> [v \in Reading |-> TakeEvent(v, Unread[i])]]
           Turn(it) == [T \in SUBSET DOMAIN Unread |->
                          IF T = {} THEN base
                          ELSE TakeEvent(it[T \ {Max(T)}], Unread[Max(T)])]
           g == CHOOSE it : it = Turn(it)
<1>1. n \in Nat /\ DOMAIN Unread = 1 .. n
  BY DEF Unread
<1>2. \A v \in Reading : \A e : TakeEvent(v, e) \in Reading
  BY OneTurn
<1>3. base \in Reading
  BY DEF Reading
<1>4. step \in [1 .. n -> [Reading -> Reading]]
  <2> HIDE DEF n
  <2>1. \A i \in 1 .. n : [v \in Reading |-> TakeEvent(v, Unread[i])] \in [Reading -> Reading]
    BY <1>2, Zenon
  <2> QED
    BY <2>1, Zenon
<1> HIDE DEF n
<1>5. PICK V : V = Reading
  OBVIOUS
<1>6. \E it : Folding(it, n, V, base, step)
  <2> HIDE DEF step, base
  <2> QED
    BY <1>1, <1>3, <1>4, <1>5, FoldExists
<1>7. \A T \in SUBSET (1 .. n) : T # {} => Max(T) \in 1 .. n
  BY <1>1, MaxOfFirst
<1>8. \A i \in 1 .. n : \A v \in V : step[i][v] = TakeEvent(v, Unread[i])
  BY <1>5, Zenon
<1>9. \E it : it = Turn(it)
  <2>1. PICK it : Folding(it, n, V, base, step)
    BY <1>6
  <2> HIDE DEF step, base
  <2>2. it \in [SUBSET (1 .. n) -> V]
    BY <2>1 DEF Folding
  <2>3. \A T \in SUBSET (1 .. n) :
          it[T] = IF T = {} THEN base ELSE TakeEvent(it[T \ {Max(T)}], Unread[Max(T)])
    <3> TAKE T \in SUBSET (1 .. n)
    <3>1. it[T] = IF T = {} THEN base ELSE step[Max(T)][it[T \ {Max(T)}]]
      BY <2>1, Zenon DEF Folding
    <3>2. it[T \ {Max(T)}] \in V
      BY <2>2
    <3>3. T # {} => step[Max(T)][it[T \ {Max(T)}]] = TakeEvent(it[T \ {Max(T)}], Unread[Max(T)])
      BY <1>7, <1>8, <3>2, Zenon
    <3> QED
      BY <3>1, <3>3, Zenon
  <2>4. it = Turn(it)
    BY <1>1, <2>2, <2>3, Zenon
  <2> QED
    BY <2>4
<1>10. g = Turn(g)
  <2> HIDE DEF Turn
  <2> QED
    BY <1>9, Zenon
<1>11. readPrintables(count) = g[DOMAIN Unread]
  BY Zenon DEF readPrintables, FoldLeft, MapThenFoldSet
<1> HIDE DEF g, base
<1>12. \A T \in SUBSET (1 .. n) :
          g[T] = IF T = {} THEN base ELSE TakeEvent(g[T \ {Max(T)}], Unread[Max(T)])
  BY <1>1, <1>10, Zenon
<1>13. Stepping(g, n, V, base, step)
  <2>1. g[{}] = base
    BY <1>12
  <2>2. ASSUME NEW T \in SUBSET (1 .. n), T # {}, g[T \ {Max(T)}] \in V
        PROVE  g[T] = step[Max(T)][g[T \ {Max(T)}]]
    <3>1. Max(T) \in 1 .. n
      BY <1>7, <2>2
    <3>2. step[Max(T)][g[T \ {Max(T)}]] = TakeEvent(g[T \ {Max(T)}], Unread[Max(T)])
      BY <1>8, <2>2, <3>1, Zenon
    <3> QED
      BY <1>12, <2>2, <3>2, Zenon
  <2> QED
    BY <2>1, <2>2 DEF Stepping
<1>14. Turns(g, n, V, base, step)
  <2> HIDE DEF step
  <2> QED
    BY <1>1, <1>3, <1>4, <1>5, <1>13, FoldChain
<1> DEFINE turn == [i \in 0 .. n |-> g[1 .. i]]
<1>15. turn \in [0 .. n -> Reading] /\ turn[0] = base /\ readPrintables(count) = turn[n]
  <2>1. \A i \in 0 .. n : g[1 .. i] \in Reading
    BY <1>5, <1>14 DEF Turns
  <2>2. 0 \in 0 .. n /\ n \in 0 .. n
    BY <1>1
  <2>3. g[1 .. 0] = base
    BY <1>14 DEF Turns
  <2> QED
    BY <1>1, <1>11, <2>1, <2>2, <2>3, Zenon
<1>16. ASSUME NEW i \in 1 .. n PROVE turn[i] = TakeEvent(turn[i - 1], Unread[i])
  <2>1. i \in 0 .. n /\ i - 1 \in 0 .. n
    BY <1>1
  <2>2. g[1 .. i - 1] \in V /\ g[1 .. i] = step[i][g[1 .. i - 1]]
    BY <1>14, <2>1, Zenon DEF Turns
  <2>3. g[1 .. i] = TakeEvent(g[1 .. i - 1], Unread[i])
    BY <1>8, <2>2, Zenon
  <2> QED
    BY <2>1, <2>3, Zenon
<1> HIDE DEF turn
<1>17. ReadTurns(turn, count)
  BY <1>15, <1>16, Zenon DEF ReadTurns, n, base
<1> QED
  BY <1>17

\* The ring and what the driver remembers.
Strike(e) == e.pressed \in BOOLEAN

RingOK ==
    /\ unread \in Nat /\ at \in 0 .. BUFFER_DIM - 1
    /\ ring = [i \in 0 .. BUFFER_DIM - 1 |-> ring[i]]
    /\ \A i \in 0 .. BUFFER_DIM - 1 : Strike(ring[i])
    /\ shifted \in BOOLEAN /\ ctrld \in BOOLEAN

LEMMA PlaceInRing ==
    ASSUME NEW k \in Nat PROVE k % BUFFER_DIM \in 0 .. BUFFER_DIM - 1
BY RingAssumption

LEMMA UnreadStruck ==
    ASSUME RingOK PROVE \A i \in 1 .. unread : Strike(Unread[i])
<1> TAKE i \in 1 .. unread
<1>1. at + i - 1 \in Nat
  BY DEF RingOK
<1>2. (at + i - 1) % BUFFER_DIM \in 0 .. BUFFER_DIM - 1
  BY <1>1, PlaceInRing
<1>3. Unread[i] = ring[(at + i - 1) % BUFFER_DIM]
  BY DEF Unread
<1> QED
  BY <1>2, <1>3, Zenon DEF RingOK

\* cleanBuffer turn by turn: every modifier is set.
Following == [shifted : BOOLEAN, ctrld : BOOLEAN]

Cleaned == FoldLeft(CleanEvent, [shifted |-> shifted, ctrld |-> ctrld], Unread)

CleanTurns(turn) ==
    /\ turn \in [0 .. unread -> Following]
    /\ turn[0] = [shifted |-> shifted, ctrld |-> ctrld]
    /\ \A i \in 1 .. unread : turn[i] = CleanEvent(turn[i - 1], Unread[i])
    /\ Cleaned = turn[unread]

LEMMA OneClean ==
    ASSUME NEW acc \in Following, NEW e, Strike(e)
    PROVE  LET t == CleanEvent(acc, e) IN
           /\ t \in Following
           /\ e.key # VK_CAPITAL =>
                /\ t.shifted = IF e.key \in {VK_LSHIFT, VK_RSHIFT} THEN e.pressed ELSE acc.shifted
                /\ t.ctrld = IF e.key \in {VK_LCONTROL, VK_RCONTROL} THEN e.pressed ELSE acc.ctrld
<1> DEFINE shift == e.key \in {VK_LSHIFT, VK_RSHIFT}
           caps == e.key = VK_CAPITAL /\ e.pressed
           control == e.key \in {VK_LCONTROL, VK_RCONTROL}
           t == CleanEvent(acc, e)
<1>1. e.pressed \in BOOLEAN
  BY DEF Strike
<1>2. ~(shift /\ caps) /\ ~(shift /\ control) /\ ~(caps /\ control)
  BY DEF VK_LCONTROL, VK_RCONTROL, VK_LSHIFT, VK_RSHIFT, VK_CAPITAL
<1>3. t = CASE shift -> [acc EXCEPT !.shifted = e.pressed]
            [] caps -> [acc EXCEPT !.shifted = ~@]
            [] control -> [acc EXCEPT !.ctrld = e.pressed]
            [] OTHER -> acc
  BY Zenon DEF CleanEvent
<1>4. e.key # VK_CAPITAL => ~caps
  OBVIOUS
<1>5. /\ t \in Following
      /\ ~caps => /\ t.shifted = IF shift THEN e.pressed ELSE acc.shifted
                  /\ t.ctrld = IF control THEN e.pressed ELSE acc.ctrld
  <2> HIDE DEF t, shift, caps, control
  <2>1. CASE shift
    BY <1>1, <1>2, <1>3, <2>1 DEF Following
  <2>2. CASE caps
    BY <1>1, <1>2, <1>3, <2>2 DEF Following
  <2>3. CASE control
    BY <1>1, <1>2, <1>3, <2>3 DEF Following
  <2>4. CASE ~shift /\ ~caps /\ ~control
    BY <1>3, <2>4
  <2> QED
    BY <2>1, <2>2, <2>3, <2>4
<1> QED
  BY <1>4, <1>5, Zenon

LEMMA CleansInTurns ==
    ASSUME RingOK PROVE \E turn : CleanTurns(turn)
<1> DEFINE n == unread
           base == [shifted |-> shifted, ctrld |-> ctrld]
           step == [i \in 1 .. n |-> [v \in Following |-> CleanEvent(v, Unread[i])]]
           Turn(it) == [T \in SUBSET DOMAIN Unread |->
                          IF T = {} THEN base
                          ELSE CleanEvent(it[T \ {Max(T)}], Unread[Max(T)])]
           g == CHOOSE it : it = Turn(it)
<1>1. n \in Nat /\ DOMAIN Unread = 1 .. n
  BY DEF Unread, RingOK
<1>2. \A v \in Following : \A i \in 1 .. n : CleanEvent(v, Unread[i]) \in Following
  BY UnreadStruck, OneClean
<1>3. base \in Following
  BY DEF Following, RingOK
<1>4. step \in [1 .. n -> [Following -> Following]]
  <2> HIDE DEF n
  <2>1. \A i \in 1 .. n : [v \in Following |-> CleanEvent(v, Unread[i])] \in [Following -> Following]
    BY <1>2, Zenon
  <2> QED
    BY <2>1, Zenon
<1> HIDE DEF n
<1>5. PICK V : V = Following
  OBVIOUS
<1>6. \E it : Folding(it, n, V, base, step)
  <2> HIDE DEF step, base
  <2> QED
    BY <1>1, <1>3, <1>4, <1>5, FoldExists
<1>7. \A T \in SUBSET (1 .. n) : T # {} => Max(T) \in 1 .. n
  BY <1>1, MaxOfFirst
<1>8. \A i \in 1 .. n : \A v \in V : step[i][v] = CleanEvent(v, Unread[i])
  BY <1>5, Zenon
<1>9. \E it : it = Turn(it)
  <2>1. PICK it : Folding(it, n, V, base, step)
    BY <1>6
  <2> HIDE DEF step, base
  <2>2. it \in [SUBSET (1 .. n) -> V]
    BY <2>1 DEF Folding
  <2>3. \A T \in SUBSET (1 .. n) :
          it[T] = IF T = {} THEN base ELSE CleanEvent(it[T \ {Max(T)}], Unread[Max(T)])
    <3> TAKE T \in SUBSET (1 .. n)
    <3>1. it[T] = IF T = {} THEN base ELSE step[Max(T)][it[T \ {Max(T)}]]
      BY <2>1, Zenon DEF Folding
    <3>2. it[T \ {Max(T)}] \in V
      BY <2>2
    <3>3. T # {} => step[Max(T)][it[T \ {Max(T)}]] = CleanEvent(it[T \ {Max(T)}], Unread[Max(T)])
      BY <1>7, <1>8, <3>2, Zenon
    <3> QED
      BY <3>1, <3>3, Zenon
  <2>4. it = Turn(it)
    BY <1>1, <2>2, <2>3, Zenon
  <2> QED
    BY <2>4
<1>10. g = Turn(g)
  <2> HIDE DEF Turn
  <2> QED
    BY <1>9, Zenon
<1>11. Cleaned = g[DOMAIN Unread]
  BY Zenon DEF Cleaned, FoldLeft, MapThenFoldSet
<1> HIDE DEF g, base
<1>12. \A T \in SUBSET (1 .. n) :
          g[T] = IF T = {} THEN base ELSE CleanEvent(g[T \ {Max(T)}], Unread[Max(T)])
  BY <1>1, <1>10, Zenon
<1>13. Stepping(g, n, V, base, step)
  <2>1. g[{}] = base
    BY <1>12
  <2>2. ASSUME NEW T \in SUBSET (1 .. n), T # {}, g[T \ {Max(T)}] \in V
        PROVE  g[T] = step[Max(T)][g[T \ {Max(T)}]]
    <3>1. Max(T) \in 1 .. n
      BY <1>7, <2>2
    <3>2. step[Max(T)][g[T \ {Max(T)}]] = CleanEvent(g[T \ {Max(T)}], Unread[Max(T)])
      BY <1>8, <2>2, <3>1, Zenon
    <3> QED
      BY <1>12, <2>2, <3>2, Zenon
  <2> QED
    BY <2>1, <2>2 DEF Stepping
<1>14. Turns(g, n, V, base, step)
  <2> HIDE DEF step
  <2> QED
    BY <1>1, <1>3, <1>4, <1>5, <1>13, FoldChain
<1> DEFINE turn == [i \in 0 .. n |-> g[1 .. i]]
<1>15. turn \in [0 .. n -> Following] /\ turn[0] = base /\ Cleaned = turn[n]
  <2>1. \A i \in 0 .. n : g[1 .. i] \in Following
    BY <1>5, <1>14 DEF Turns
  <2>2. 0 \in 0 .. n /\ n \in 0 .. n
    BY <1>1
  <2>3. g[1 .. 0] = base
    BY <1>14 DEF Turns
  <2> QED
    BY <1>1, <1>11, <2>1, <2>2, <2>3, Zenon
<1>16. ASSUME NEW i \in 1 .. n PROVE turn[i] = CleanEvent(turn[i - 1], Unread[i])
  <2>1. i \in 0 .. n /\ i - 1 \in 0 .. n
    BY <1>1
  <2>2. g[1 .. i - 1] \in V /\ g[1 .. i] = step[i][g[1 .. i - 1]]
    BY <1>14, <2>1, Zenon DEF Turns
  <2>3. g[1 .. i] = CleanEvent(g[1 .. i - 1], Unread[i])
    BY <1>8, <2>2, Zenon
  <2> QED
    BY <2>1, <2>3, Zenon
<1> HIDE DEF turn
<1>17. CleanTurns(turn)
  BY <1>15, <1>16, Zenon DEF CleanTurns, n, base
<1> QED
  BY <1>17

\* A reader that sleeps has nothing to read; the rest says that the ring is one.
WaitInv == RingOK /\ NoKeyWaits

LEMMA EventStruck == ASSUME NEW x PROVE Strike(Event(x))
BY DEF Event, Strike

LEMMA StrikeKeepsRing ==
    ASSUME RingOK, NEW key, NEW down, KeyInterrupt(key, down) PROVE RingOK'
<1> DEFINE e == Event(ScanCode(key, down))
           k == (at + unread) % BUFFER_DIM
<1>1. Strike(e)
  BY EventStruck
<1>2. /\ ring' = [ring EXCEPT ![k] = e] /\ unread' = unread + 1
      /\ UNCHANGED <<at, shifted, ctrld>>
  BY DEF KeyInterrupt
<1> HIDE DEF e, k
<1>3. ring' = [i \in 0 .. BUFFER_DIM - 1 |-> IF i = k THEN e ELSE ring[i]]
  BY <1>2 DEF RingOK
<1>4. \A i \in 0 .. BUFFER_DIM - 1 : ring'[i] = IF i = k THEN e ELSE ring[i]
  BY <1>3
<1>5. ring' = [i \in 0 .. BUFFER_DIM - 1 |-> ring'[i]]
  BY <1>3, <1>4
<1>6. \A i \in 0 .. BUFFER_DIM - 1 : Strike(ring'[i])
  BY <1>1, <1>4, Zenon DEF RingOK
<1> QED
  BY <1>2, <1>5, <1>6 DEF RingOK

\* Events that are taken from the ring leave the others where they are.
LEMMA TakenFromRing ==
    ASSUME RingOK, NEW gone \in 0 .. unread,
           ring' = Blanked(gone), at' = (at + gone) % BUFFER_DIM, unread' = unread - gone
    PROVE  /\ unread' \in Nat /\ at' \in 0 .. BUFFER_DIM - 1
           /\ ring' = [i \in 0 .. BUFFER_DIM - 1 |-> ring'[i]]
           /\ \A i \in 0 .. BUFFER_DIM - 1 : Strike(ring'[i])
           /\ \A i \in 1 .. unread' : Unread'[i] = Unread[gone + i]
<1>1. ring' = [i \in 0 .. BUFFER_DIM - 1 |-> IF i \in StillToRead(gone) THEN ring[i] ELSE NoEvent]
  BY DEF Blanked, RingOK
<1>2. \A i \in 0 .. BUFFER_DIM - 1 :
        ring'[i] = IF i \in StillToRead(gone) THEN ring[i] ELSE NoEvent
  BY <1>1
<1>3. ring' = [i \in 0 .. BUFFER_DIM - 1 |-> ring'[i]]
  BY <1>1, <1>2
<1>4. Strike(NoEvent)
  BY DEF Strike, NoEvent
<1>5. \A i \in 0 .. BUFFER_DIM - 1 : Strike(ring'[i])
  BY <1>2, <1>4, Zenon DEF RingOK
<1>6. unread' \in Nat /\ at' \in 0 .. BUFFER_DIM - 1 /\ unread' = unread - gone
  <2>1. at + gone \in Nat
    BY DEF RingOK
  <2> QED
    BY <2>1, PlaceInRing DEF RingOK
<1>7. ASSUME NEW i \in 1 .. unread' PROVE Unread'[i] = Unread[gone + i]
  <2>1. PICK k \in Nat : k = gone + i
    BY <1>6 DEF RingOK
  <2>2. k \in gone + 1 .. unread /\ k \in 1 .. unread
    BY <1>6, <2>1 DEF RingOK
  <2> DEFINE place == (at + k - 1) % BUFFER_DIM
  <2>3. (at' + i - 1) % BUFFER_DIM = place
    <3>1. BUFFER_DIM \in Nat /\ BUFFER_DIM > 0
      BY RingAssumption
    <3>2. PICK a \in Nat, j \in Nat : a = at + gone /\ j = i - 1
      BY <1>6 DEF RingOK
    <3>3. ((a % BUFFER_DIM) + j) % BUFFER_DIM = (a + j) % BUFFER_DIM
      BY <3>1, RemainderFirst
    <3>4. a + j = at + k - 1
      BY <2>1, <3>2 DEF RingOK
    <3>5. at' = a % BUFFER_DIM
      BY <3>2
    <3>6. at' + i - 1 = (a % BUFFER_DIM) + j
      BY <1>6, <3>2, <3>5
    <3> QED
      BY <3>3, <3>4, <3>6
  <2>4. place \in 0 .. BUFFER_DIM - 1
    <3>1. at + k - 1 \in Nat
      BY <2>2 DEF RingOK
    <3> QED
      BY <3>1, PlaceInRing
  <2>5. place \in StillToRead(gone)
    BY <2>2 DEF StillToRead
  <2>6. Unread'[i] = ring'[place]
    BY <2>3 DEF Unread
  <2>7. Unread[k] = ring[place]
    BY <2>2 DEF Unread
  <2> QED
    BY <1>2, <2>1, <2>4, <2>5, <2>6, <2>7
<1> QED
  BY <1>3, <1>5, <1>6, <1>7

\* What readPrintables uses it has read, and it uses everything when it returns nothing.
LEMMA ReadsAll ==
    ASSUME RingOK, NEW count \in Nat \ {0}, NEW turn, ReadTurns(turn, count)
    PROVE  \A i \in 0 .. unread :
             /\ turn[i] \in Reading /\ turn[i].used \in 0 .. i
             /\ turn[i].over => turn[i].chars # <<>>
             /\ ~turn[i].over => turn[i].used = i
<1> DEFINE OK(i) == /\ turn[i].used \in 0 .. i
                    /\ turn[i].over => turn[i].chars # <<>>
                    /\ ~turn[i].over => turn[i].used = i
           S == {i \in 0 .. unread : OK(i)}
<1>1. unread \in Nat
  BY DEF RingOK
<1>2. \A i \in 0 .. unread : turn[i] \in Reading
  BY DEF ReadTurns
<1>3. 0 \in S
  <2>1. PICK none \in BOOLEAN : none = (count = 0)
    OBVIOUS
  <2>2. turn[0] = [chars |-> <<>>, used |-> 0, shifted |-> shifted, ctrld |-> ctrld,
                   over |-> none, count |-> count]
    BY <2>1, Zenon DEF ReadTurns
  <2>3. turn[0].used = 0 /\ turn[0].over = none
    BY <2>2
  <2>4. ~none
    BY <2>1
  <2> QED
    BY <1>1, <2>3, <2>4
<1>4. ASSUME NEW i \in 0 .. unread - 1, i \in S PROVE i + 1 \in S
  <2>1. i + 1 \in 1 .. unread /\ (i + 1) - 1 = i /\ i \in 0 .. unread /\ i + 1 \in 0 .. unread
    BY <1>1
  <2> DEFINE a == turn[i]
             t == turn[i + 1]
             e == Unread[i + 1]
  <2>2. t = TakeEvent(a, e) /\ a \in Reading
    BY <1>2, <2>1 DEF ReadTurns
  <2> HIDE DEF a, t, e
  <2>3. /\ a.over => t = a
        /\ ~a.over => t.used = a.used + 1 /\ (t.over => t.chars # <<>>)
    BY <2>2, OneTurn
  <2>4. a.used \in 0 .. i /\ (a.over => a.chars # <<>>) /\ (~a.over => a.used = i)
    BY <1>4 DEF a
  <2>5. t.used \in 0 .. i + 1 /\ (t.over => t.chars # <<>>) /\ (~t.over => t.used = i + 1)
    <3>1. i \in Nat
      BY <2>1
    <3>2. CASE a.over
      BY <2>3, <2>4, <3>1, <3>2
    <3>3. CASE ~a.over
      BY <2>3, <2>4, <3>1, <3>3
    <3> QED
      BY <3>2, <3>3
  <2> QED
    BY <2>1, <2>5 DEF t
<1>5. S = 0 .. unread
  <2>1. S \in SUBSET (0 .. unread)
    OBVIOUS
  <2> HIDE DEF S
  <2> QED
    BY <1>1, <1>3, <1>4, <2>1, UpTo
<1> QED
  BY <1>2, <1>5

\* A cleaned ring.
LEMMA CleanKeepsRing ==
    ASSUME RingOK, cleanBuffer PROVE RingOK' /\ unread' = 0
<1>1. PICK turn : CleanTurns(turn)
  BY CleansInTurns
<1>2. Cleaned \in Following
  BY <1>1 DEF CleanTurns, RingOK
<1>3. /\ ring' = Blanked(unread) /\ at' = (at + unread) % BUFFER_DIM
      /\ unread' = 0 /\ shifted' = Cleaned.shifted /\ ctrld' = Cleaned.ctrld
  BY DEF cleanBuffer, Cleaned
<1>4. unread \in 0 .. unread /\ unread - unread = 0
  BY DEF RingOK
<1>5. /\ unread' \in Nat /\ at' \in 0 .. BUFFER_DIM - 1
      /\ ring' = [i \in 0 .. BUFFER_DIM - 1 |-> ring'[i]]
      /\ \A i \in 0 .. BUFFER_DIM - 1 : Strike(ring'[i])
  BY <1>3, <1>4, TakenFromRing
<1>6. shifted' \in BOOLEAN /\ ctrld' \in BOOLEAN
  BY <1>2, <1>3 DEF Following
<1> QED
  BY <1>3, <1>5, <1>6 DEF RingOK

\* A read that returns nothing leaves nothing.
LEMMA ReadKeepsRing ==
    ASSUME RingOK, TakesFromRing(readPrintables(1))
    PROVE  RingOK' /\ (readPrintables(1).chars = <<>> => unread' = 0)
<1> DEFINE got == readPrintables(1)
<1>1. PICK turn : ReadTurns(turn, 1)
  BY ReadsInTurns DEF RingOK
<1>2. /\ got = turn[unread] /\ unread \in 0 .. unread
  BY <1>1 DEF ReadTurns, RingOK
<1>3. /\ got \in Reading /\ got.used \in 0 .. unread
      /\ got.over => got.chars # <<>>
      /\ ~got.over => got.used = unread
  BY <1>1, <1>2, ReadsAll
<1>4. /\ ring' = Blanked(got.used) /\ at' = (at + got.used) % BUFFER_DIM
      /\ unread' = unread - got.used /\ shifted' = got.shifted /\ ctrld' = got.ctrld
  BY DEF TakesFromRing
<1> HIDE DEF got
<1>5. /\ unread' \in Nat /\ at' \in 0 .. BUFFER_DIM - 1
      /\ ring' = [i \in 0 .. BUFFER_DIM - 1 |-> ring'[i]]
      /\ \A i \in 0 .. BUFFER_DIM - 1 : Strike(ring'[i])
  BY <1>3, <1>4, TakenFromRing
<1>6. shifted' \in BOOLEAN /\ ctrld' \in BOOLEAN
  BY <1>3, <1>4 DEF Reading
<1>7. RingOK'
  BY <1>5, <1>6 DEF RingOK
<1>8. got.chars = <<>> => unread' = 0
  BY <1>3, <1>4 DEF RingOK
<1> QED
  BY <1>7, <1>8 DEF got

LEMMA WaitStart == ASSUME Init PROVE WaitInv
<1>1. /\ ring = [i \in 0 .. BUFFER_DIM - 1 |-> NoEvent] /\ at = 0 /\ unread = 0
      /\ shifted = FALSE /\ ctrld = FALSE /\ pc = "prompt"
  BY DEF Init, TerminalInit, KeyboardInit
<1>2. ring = [i \in 0 .. BUFFER_DIM - 1 |-> ring[i]]
      /\ \A i \in 0 .. BUFFER_DIM - 1 : Strike(ring[i])
  BY <1>1 DEF Strike, NoEvent
<1>3. unread \in Nat /\ at \in 0 .. BUFFER_DIM - 1 /\ shifted \in BOOLEAN /\ ctrld \in BOOLEAN
  <2>1. at = 0 /\ unread = 0
    BY <1>1
  <2>2. at \in 0 .. BUFFER_DIM - 1 /\ unread \in Nat
    BY <2>1, RingAssumption
  <2>3. shifted \in BOOLEAN /\ ctrld \in BOOLEAN
    BY <1>1, Zenon
  <2> QED
    BY <2>2, <2>3
<1>5. RingOK
  BY <1>2, <1>3, Zenon DEF RingOK
<1>4. pc # "asleep"
  BY <1>1
<1> QED
  BY <1>4, <1>5 DEF WaitInv, NoKeyWaits

LEMMA WaitStep == ASSUME WaitInv, [Next]_vars PROVE WaitInv'
<1>1. ASSUME UNCHANGED <<ring, at, unread, shifted, ctrld>>, pc' = pc \/ pc' # "asleep"
      PROVE  WaitInv'
  BY <1>1 DEF WaitInv, RingOK, NoKeyWaits
<1>2. ASSUME UNCHANGED terminalVars PROVE WaitInv'
  BY <1>1, <1>2 DEF terminalVars, kbVars
<1>3. ASSUME NEW key \in keys, NEW down \in BOOLEAN, KeyStruck(key, down) PROVE WaitInv'
  <2>1. RingOK'
    BY <1>3, StrikeKeepsRing DEF WaitInv, KeyStruck
  <2>2. pc' # "asleep"
    BY <1>3 DEF KeyStruck, WokenBy
  <2> QED
    BY <2>1, <2>2 DEF WaitInv, NoKeyWaits
<1>4. ASSUME Cleans PROVE WaitInv'
  BY <1>4, CleanKeepsRing DEF Cleans, WaitInv, NoKeyWaits
<1>5. ASSUME Reads PROVE WaitInv'
  <2>1. /\ TakesFromRing(readPrintables(1))
        /\ readPrintables(1).chars # <<>> => pc' = "echo"
    BY <1>5 DEF Reads
  <2>2. RingOK' /\ (readPrintables(1).chars = <<>> => unread' = 0)
    BY <2>1, ReadKeepsRing DEF WaitInv
  <2> QED
    BY <2>1, <2>2 DEF WaitInv, NoKeyWaits
<1>6. ASSUME TerminalNext PROVE WaitInv'
  <2>1. CASE Prefixed
    BY <1>1, <2>1 DEF Prefixed, PrefixInterrupt, shellVars
  <2>2. CASE Prompts
    BY <1>1, <2>2 DEF Prompts, kbVars
  <2>3. CASE SetsBase
    BY <1>1, <2>3 DEF SetsBase, kbVars
  <2>4. CASE MakesRoom
    <3>1. UNCHANGED kbVars /\ (pc' = pc \/ pc' = "run")
      BY <2>4, Zenon DEF MakesRoom
    <3> QED
      BY <1>1, <3>1 DEF kbVars
  <2>5. CASE Echoes
    <3>1. UNCHANGED kbVars /\ (pc' = "read" \/ pc' = "run")
      BY <2>5, Zenon DEF Echoes
    <3> QED
      BY <1>1, <3>1 DEF kbVars
  <2>6. CASE Runs
    <3>1. UNCHANGED kbVars /\ pc' = "prompt"
      BY <2>6, Zenon DEF Runs
    <3> QED
      BY <1>1, <3>1 DEF kbVars
  <2> QED
    BY <1>3, <1>4, <1>5, <1>6, <2>1, <2>2, <2>3, <2>4, <2>5, <2>6 DEF TerminalNext
<1>7. CASE UNCHANGED vars
  BY <1>2, <1>7 DEF vars
<1>8. CASE Allocates
  BY <1>2, <1>8 DEF Allocates
<1>9. CASE Frees
  BY <1>2, <1>9 DEF Frees
<1> QED
  BY <1>2, <1>6, <1>7, <1>8, <1>9 DEF Next

\* Nobody sleeps for STDIN while an event waits, whatever keys are struck and however small the
\* ring: the check for a character and the sleep are one system call, a call that returns nothing
\* has used every event, and every key wakes.
THEOREM NoKeyWaitsHolds == Spec => []NoKeyWaits
<1>1. Init => WaitInv
  BY WaitStart
<1>2. WaitInv /\ [Next]_vars => WaitInv'
  BY WaitStep
<1>3. WaitInv => NoKeyWaits
  BY DEF WaitInv
<1> QED
  BY <1>1, <1>2, <1>3, PTL DEF Spec

-----------------------------------------------------------------------------
(* Shift and control.                                                      *)

\* The keys are scan codes; caps lock, which shares the flag of the shifts, is not struck.
ScanCodes == \A set \in KeySets : set \subseteq (-127 .. 127) \ {0} /\ VK_CAPITAL \notin set

\* The flag of a kind of modifier, in the driver and in the record that a reader goes on with.
Flag(M) == IF M = Shifts THEN shifted ELSE ctrld
FlagIn(M, flags) == IF M = Shifts THEN flags.shifted ELSE flags.ctrld

\* What a flag has been, or will be, after each of the n events that wait: it is the flag now,
\* changes with every event of one of its keys, and ends as the keys are.
Levels(level, n, events, M, flag, down) ==
    /\ level \in [0 .. n -> BOOLEAN]
    /\ level[0] = flag /\ level[n] = down
    /\ \A i \in 1 .. n : events[i].key \in M =>
         level[i] = events[i].pressed /\ level[i] = ~level[i - 1]
    /\ \A i \in 1 .. n : events[i].key \notin M => level[i] = level[i - 1]

InStep(M) == M \notin outOfStep =>
    /\ unread <= BUFFER_DIM
    /\ \E level : Levels(level, unread, Unread, M, Flag(M), Down(M))

FollowInv ==
    /\ RingOK
    /\ keys \in KeySets /\ held \subseteq keys
    /\ \A i \in 0 .. BUFFER_DIM - 1 : ring[i].key # VK_CAPITAL
    /\ \A M \in Kinds : InStep(M)

LEMMA KindsAre ==
    /\ Kinds = {Shifts, Controls} /\ Shifts # Controls
    /\ Shifts = {VK_LSHIFT, VK_RSHIFT} /\ Controls = {VK_LCONTROL, VK_RCONTROL}
<1>1. VK_LSHIFT \in Shifts /\ VK_LSHIFT \notin Controls
  BY DEF Shifts, Controls, VK_LSHIFT, VK_LCONTROL, VK_RCONTROL
<1>2. Shifts # Controls
  BY <1>1
<1> QED
  BY <1>2, Zenon DEF Kinds, Shifts, Controls

\* The handler understands the codes of a key.
LEMMA EventIs ==
    ASSUME NEW key \in (-127 .. 127) \ {0}, specialKey = (key < 0), NEW down \in BOOLEAN
    PROVE  Event(ScanCode(key, down)) = [key |-> key, pressed |-> down]
<1> DEFINE a == IF key < 0 THEN -key ELSE key
           s == a + (IF down THEN 0 ELSE 128)
           code == IF specialKey THEN -s ELSE s
<1>1. ScanCode(key, down) = s
  BY DEF ScanCode
<1>2. a \in 1 .. 127 /\ (key < 0 => key = -a) /\ (~(key < 0) => key = a)
  OBVIOUS
<1>3. Event(s) = CASE code > 128  -> [key |-> code - 128, pressed |-> FALSE]
                   [] code < -128 -> [key |-> code + 128, pressed |-> FALSE]
                   [] OTHER       -> [key |-> code, pressed |-> TRUE]
  BY Zenon DEF Event
<1>4. s = IF down THEN a ELSE a + 128
  BY <1>2
<1>5. code = IF key < 0 THEN -s ELSE s
  BY Zenon
<1> HIDE DEF a, s, code
<1>6. CASE down
  <2>1. s = a
    BY <1>4, <1>6
  <2>2. code = key /\ ~(code > 128) /\ ~(code < -128)
    BY <1>2, <1>5, <2>1
  <2> QED
    BY <1>1, <1>3, <1>6, <2>2
<1>7. CASE ~down
  <2>1. s = a + 128
    BY <1>4, <1>7
  <2>2. CASE key < 0
    <3>1. code = key - 128 /\ ~(code > 128) /\ code < -128 /\ code + 128 = key
      BY <1>2, <1>5, <2>1, <2>2
    <3> QED
      BY <1>1, <1>3, <1>7, <3>1
  <2>3. CASE ~(key < 0)
    <3>1. code = key + 128 /\ code > 128 /\ ~(code < -128) /\ code - 128 = key
      BY <1>2, <1>5, <2>1, <2>3
    <3> QED
      BY <1>1, <1>3, <1>7, <3>1
  <2> QED
    BY <2>2, <2>3
<1> QED
  BY <1>6, <1>7

\* A key that is struck adds its event and leaves the others.
LEMMA OneEventMore ==
    ASSUME RingOK, unread + 1 <= BUFFER_DIM, NEW key \in (-127 .. 127) \ {0},
           NEW down \in BOOLEAN, KeyInterrupt(key, down)
    PROVE  /\ unread' = unread + 1
           /\ Unread'[unread + 1] = [key |-> key, pressed |-> down]
           /\ \A i \in 1 .. unread : Unread'[i] = Unread[i]
<1> DEFINE e == Event(ScanCode(key, down))
           k == (at + unread) % BUFFER_DIM
<1>1. /\ ring' = [ring EXCEPT ![k] = e] /\ unread' = unread + 1 /\ at' = at
      /\ specialKey = (key < 0)
  BY DEF KeyInterrupt
<1>2. e = [key |-> key, pressed |-> down]
  BY <1>1, EventIs
<1> HIDE DEF e
<1>3. /\ BUFFER_DIM \in Nat /\ BUFFER_DIM > 0
      /\ unread \in Nat /\ at \in Nat
  BY RingAssumption DEF RingOK
<1>4. \A i \in 0 .. BUFFER_DIM - 1 : ring'[i] = IF i = k THEN e ELSE ring[i]
  BY <1>1 DEF RingOK
<1>5. k \in 0 .. BUFFER_DIM - 1
  <2>1. at + unread \in Nat
    BY <1>3
  <2> QED
    BY <2>1, PlaceInRing
<1>6. Unread'[unread + 1] = e
  <2>1. unread + 1 \in 1 .. unread' /\ at + (unread + 1) - 1 = at + unread
    BY <1>1, <1>3
  <2>2. Unread'[unread + 1] = ring'[k]
    BY <1>1, <2>1 DEF Unread
  <2> QED
    BY <1>4, <1>5, <2>2
<1>7. ASSUME NEW i \in 1 .. unread PROVE Unread'[i] = Unread[i]
  <2>1. PICK a \in Nat, b \in Nat : a = at + i - 1 /\ b = at + unread
    BY <1>3
  <2>2. a < b /\ b - a < BUFFER_DIM
    BY <1>3, <2>1
  <2>3. a % BUFFER_DIM # b % BUFFER_DIM
    BY <1>3, <2>2, OwnRemainders
  <2>4. a % BUFFER_DIM \in 0 .. BUFFER_DIM - 1
    BY PlaceInRing
  <2>5. a % BUFFER_DIM # k
    BY <2>1, <2>3
  <2>6. i \in 1 .. unread'
    BY <1>1, <1>3
  <2>7. Unread'[i] = ring'[a % BUFFER_DIM] /\ Unread[i] = ring[a % BUFFER_DIM]
    BY <1>1, <2>1, <2>6 DEF Unread
  <2> HIDE DEF k
  <2> QED
    BY <1>4, <2>4, <2>5, <2>7
<1> QED
  BY <1>1, <1>2, <1>6, <1>7

\* One event more.
OneMore(n, old, new, M, down, downNow) ==
    /\ \A i \in 1 .. n : new[i] = old[i]
    /\ new[n + 1].key \in M => new[n + 1].pressed = downNow /\ downNow = ~down
    /\ new[n + 1].key \notin M => downNow = down

LEMMA LevelMore ==
    ASSUME NEW n \in Nat, NEW old, NEW new, NEW M, NEW flag, NEW down \in BOOLEAN,
           NEW level, Levels(level, n, old, M, flag, down),
           NEW downNow \in BOOLEAN, OneMore(n, old, new, M, down, downNow)
    PROVE  \E longer : Levels(longer, n + 1, new, M, flag, downNow)
<1> USE DEF OneMore
<1> DEFINE k == n + 1
           longer == [i \in 0 .. k |-> IF i = k THEN downNow ELSE level[i]]
<1>1. k \in Nat /\ k - 1 = n /\ 0 \in 0 .. k /\ k \in 0 .. k /\ k # 0
      /\ \A i \in 0 .. k : i = k \/ i \in 0 .. n
  OBVIOUS
<1>2. \A i \in 0 .. n : level[i] \in BOOLEAN
  BY DEF Levels
<1> HIDE DEF k
<1>3. longer \in [0 .. k -> BOOLEAN]
  BY <1>1, <1>2
<1>4. longer[0] = flag /\ longer[k] = downNow
  BY <1>1 DEF Levels
<1>5. ASSUME NEW i \in 1 .. k
      PROVE  /\ new[i].key \in M => longer[i] = new[i].pressed /\ longer[i] = ~longer[i - 1]
             /\ new[i].key \notin M => longer[i] = longer[i - 1]
  <2>1. i \in 0 .. k /\ i - 1 \in 0 .. k /\ i - 1 # k /\ (i = k \/ i \in 1 .. n)
    BY <1>1
  <2>2. longer[i - 1] = level[i - 1]
    BY <2>1
  <2>3. CASE i = k
    <3>1. longer[i] = downNow /\ longer[i - 1] = down
      BY <1>1, <2>1, <2>2, <2>3 DEF Levels
    <3> HIDE DEF longer
    <3> QED
      BY <2>3, <3>1, Zenon DEF k
  <2>4. CASE i # k
    <3>1. longer[i] = level[i] /\ new[i] = old[i]
      BY <2>1, <2>4
    <3>2. i \in 1 .. n
      BY <2>1, <2>4
    <3> HIDE DEF longer
    <3> QED
      BY <2>2, <3>1, <3>2, Zenon DEF Levels
  <2> QED
    BY <2>3, <2>4
<1> HIDE DEF longer
<1>6. Levels(longer, k, new, M, flag, downNow)
  BY <1>3, <1>4, <1>5, Zenon DEF Levels
<1> QED
  BY <1>6 DEF k

\* Some events less.
LEMMA LevelLess ==
    ASSUME NEW n \in Nat, NEW old, NEW new, NEW M, NEW flag, NEW down,
           NEW level, Levels(level, n, old, M, flag, down),
           NEW gone \in 0 .. n, \A i \in 1 .. n - gone : new[i] = old[gone + i]
    PROVE  \E shorter : Levels(shorter, n - gone, new, M, level[gone], down)
<1> DEFINE k == n - gone
           shorter == [i \in 0 .. k |-> level[gone + i]]
<1>1. k \in Nat /\ gone + k = n /\ gone + 0 = gone /\ 0 \in 0 .. k /\ k \in 0 .. k
      /\ \A i \in 0 .. k : gone + i \in 0 .. n
  OBVIOUS
<1>2. \A i \in 0 .. n : level[i] \in BOOLEAN
  BY DEF Levels
<1> HIDE DEF k
<1>3. shorter \in [0 .. k -> BOOLEAN]
  BY <1>1, <1>2
<1>4. shorter[0] = level[gone] /\ shorter[k] = down
  BY <1>1 DEF Levels
<1>5. ASSUME NEW i \in 1 .. k
      PROVE  /\ new[i].key \in M => shorter[i] = new[i].pressed /\ shorter[i] = ~shorter[i - 1]
             /\ new[i].key \notin M => shorter[i] = shorter[i - 1]
  <2>1. i \in 0 .. k /\ i - 1 \in 0 .. k /\ gone + i \in 1 .. n /\ gone + (i - 1) = (gone + i) - 1
    BY <1>1
  <2>2. shorter[i] = level[gone + i] /\ shorter[i - 1] = level[(gone + i) - 1]
    BY <2>1
  <2>3. new[i] = old[gone + i]
    BY DEF k
  <2> HIDE DEF shorter
  <2> QED
    BY <2>1, <2>2, <2>3, Zenon DEF Levels
<1> HIDE DEF shorter
<1>6. Levels(shorter, k, new, M, level[gone], down)
  BY <1>3, <1>4, <1>5, Zenon DEF Levels
<1> QED
  BY <1>6 DEF k

\* One turn of a reader, and one kind of modifier.
LEMMA ReadFlag ==
    ASSUME NEW acc \in Reading, ~acc.over, NEW e, e.key # VK_CAPITAL, NEW M \in Kinds
    PROVE  FlagIn(M, TakeEvent(acc, e)) =
             IF e.key \in M THEN ~FlagIn(M, acc) ELSE FlagIn(M, acc)
<1> DEFINE t == TakeEvent(acc, e)
<1>1. /\ t.shifted = IF e.key \in Shifts THEN ~acc.shifted ELSE acc.shifted
      /\ t.ctrld = IF e.key \in Controls THEN ~acc.ctrld ELSE acc.ctrld
  BY OneTurn, KindsAre
<1> HIDE DEF t
<1>2. CASE M = Shifts
  BY <1>1, <1>2, Zenon DEF FlagIn, t
<1>3. CASE M = Controls
  BY <1>1, <1>3, KindsAre, Zenon DEF FlagIn, t
<1> QED
  BY <1>2, <1>3, KindsAre

LEMMA CleanFlag ==
    ASSUME NEW acc \in Following, NEW e, Strike(e), e.key # VK_CAPITAL, NEW M \in Kinds
    PROVE  FlagIn(M, CleanEvent(acc, e)) =
             IF e.key \in M THEN e.pressed ELSE FlagIn(M, acc)
<1> DEFINE t == CleanEvent(acc, e)
<1>1. /\ t.shifted = IF e.key \in Shifts THEN e.pressed ELSE acc.shifted
      /\ t.ctrld = IF e.key \in Controls THEN e.pressed ELSE acc.ctrld
  BY OneClean, KindsAre
<1> HIDE DEF t
<1>2. CASE M = Shifts
  BY <1>1, <1>2, Zenon DEF FlagIn, t
<1>3. CASE M = Controls
  BY <1>1, <1>3, KindsAre, Zenon DEF FlagIn, t
<1> QED
  BY <1>2, <1>3, KindsAre

\* readPrintables toggles: after each turn it is where the events have brought the flag.
LEMMA ReadFollows ==
    ASSUME RingOK, \A i \in 1 .. unread : Unread[i].key # VK_CAPITAL,
           NEW turn, ReadTurns(turn, 1), NEW M \in Kinds,
           NEW level, Levels(level, unread, Unread, M, Flag(M), Down(M))
    PROVE  \A i \in 0 .. unread : FlagIn(M, turn[i]) = level[turn[i].used]
<1> DEFINE S == {i \in 0 .. unread : FlagIn(M, turn[i]) = level[turn[i].used]}
<1>1. unread \in Nat
  BY DEF RingOK
<1>2. \A i \in 0 .. unread : /\ turn[i] \in Reading /\ turn[i].used \in 0 .. i
                             /\ ~turn[i].over => turn[i].used = i
  <2>1. 1 \in Nat \ {0}
    OBVIOUS
  <2> QED
    BY <2>1, ReadsAll
<1>3. 0 \in S
  <2>1. turn[0].used = 0 /\ turn[0].shifted = shifted /\ turn[0].ctrld = ctrld
    BY DEF ReadTurns
  <2>2. FlagIn(M, turn[0]) = Flag(M)
    BY <2>1 DEF FlagIn, Flag
  <2>3. 0 \in 0 .. unread /\ level[0] = Flag(M)
    BY <1>1 DEF Levels
  <2> QED
    BY <2>1, <2>2, <2>3
<1>4. ASSUME NEW i \in 0 .. unread - 1, i \in S PROVE i + 1 \in S
  <2>1. i + 1 \in 1 .. unread /\ (i + 1) - 1 = i /\ i \in 0 .. unread /\ i + 1 \in 0 .. unread
    BY <1>1
  <2> DEFINE a == turn[i]
             t == turn[i + 1]
             e == Unread[i + 1]
  <2>2. t = TakeEvent(a, e) /\ a \in Reading /\ e.key # VK_CAPITAL
    BY <1>2, <2>1 DEF ReadTurns
  <2>3. FlagIn(M, a) = level[a.used] /\ (~a.over => a.used = i)
    BY <1>2, <1>4, <2>1
  <2>4. /\ e.key \in M => level[i + 1] = ~level[i]
        /\ e.key \notin M => level[i + 1] = level[i]
    <3>1. PICK k : k = i + 1
      OBVIOUS
    <3>2. k \in 1 .. unread /\ k - 1 = i
      BY <2>1, <3>1
    <3>3. /\ Unread[k].key \in M => level[k] = ~level[k - 1]
          /\ Unread[k].key \notin M => level[k] = level[k - 1]
      BY <3>2, Zenon DEF Levels
    <3> QED
      BY <3>1, <3>2, <3>3
  <2> HIDE DEF a, t, e
  <2>5. /\ a.over => t = a
        /\ ~a.over => t.used = a.used + 1
    BY <2>2, OneTurn
  <2>6. FlagIn(M, t) = level[t.used]
    <3>1. CASE a.over
      BY <2>3, <2>5, <3>1
    <3>2. CASE ~a.over
      <4>1. a.used = i /\ t.used = i + 1
        BY <2>3, <2>5, <3>2
      <4>2. FlagIn(M, t) = IF e.key \in M THEN ~level[i] ELSE level[i]
        BY <2>2, <2>3, <3>2, <4>1, ReadFlag
      <4> QED
        BY <2>4, <4>1, <4>2, Zenon
    <3> QED
      BY <3>1, <3>2
  <2> QED
    BY <2>1, <2>6 DEF t
<1>5. S = 0 .. unread
  <2>1. S \in SUBSET (0 .. unread)
    OBVIOUS
  <2> HIDE DEF S
  <2> QED
    BY <1>1, <1>3, <1>4, <2>1, UpTo
<1> QED
  BY <1>5

\* cleanBuffer sets: so is it, event by event.
LEMMA CleanFollows ==
    ASSUME RingOK, \A i \in 1 .. unread : Unread[i].key # VK_CAPITAL,
           NEW turn, CleanTurns(turn), NEW M \in Kinds,
           NEW level, Levels(level, unread, Unread, M, Flag(M), Down(M))
    PROVE  \A i \in 0 .. unread : FlagIn(M, turn[i]) = level[i]
<1> DEFINE S == {i \in 0 .. unread : FlagIn(M, turn[i]) = level[i]}
<1>1. unread \in Nat
  BY DEF RingOK
<1>2. 0 \in S
  <2>1. turn[0].shifted = shifted /\ turn[0].ctrld = ctrld
    BY DEF CleanTurns
  <2>2. FlagIn(M, turn[0]) = Flag(M)
    BY <2>1 DEF FlagIn, Flag
  <2>3. 0 \in 0 .. unread /\ level[0] = Flag(M)
    BY <1>1 DEF Levels
  <2> QED
    BY <2>2, <2>3
<1>3. ASSUME NEW i \in 0 .. unread - 1, i \in S PROVE i + 1 \in S
  <2>1. i + 1 \in 1 .. unread /\ (i + 1) - 1 = i /\ i \in 0 .. unread /\ i + 1 \in 0 .. unread
    BY <1>1
  <2> DEFINE a == turn[i]
             t == turn[i + 1]
             e == Unread[i + 1]
  <2>2. t = CleanEvent(a, e) /\ a \in Following /\ e.key # VK_CAPITAL /\ Strike(e)
    BY <2>1, UnreadStruck DEF CleanTurns
  <2>3. FlagIn(M, a) = level[i]
    BY <1>3
  <2>4. /\ e.key \in M => level[i + 1] = e.pressed
        /\ e.key \notin M => level[i + 1] = level[i]
    <3>1. PICK k : k = i + 1
      OBVIOUS
    <3>2. k \in 1 .. unread /\ k - 1 = i
      BY <2>1, <3>1
    <3>3. /\ Unread[k].key \in M => level[k] = Unread[k].pressed
          /\ Unread[k].key \notin M => level[k] = level[k - 1]
      BY <3>2, Zenon DEF Levels
    <3> QED
      BY <3>1, <3>2, <3>3
  <2> HIDE DEF a, t, e
  <2>5. FlagIn(M, t) = IF e.key \in M THEN e.pressed ELSE FlagIn(M, a)
    BY <2>2, CleanFlag
  <2>6. FlagIn(M, t) = level[i + 1]
    BY <2>3, <2>4, <2>5, Zenon
  <2> QED
    BY <2>1, <2>6 DEF t
<1>4. S = 0 .. unread
  <2>1. S \in SUBSET (0 .. unread)
    OBVIOUS
  <2> HIDE DEF S
  <2> QED
    BY <1>1, <1>2, <1>3, <2>1, UpTo
<1> QED
  BY <1>4

\* And whatever the flag was, cleanBuffer leaves it as the last event of its kind says.
LEMMA CleanTells ==
    ASSUME RingOK, \A i \in 1 .. unread : Unread[i].key # VK_CAPITAL,
           NEW turn, CleanTurns(turn), NEW M \in Kinds, Told(M)
    PROVE  FlagIn(M, turn[unread]) = Down(M)
<1>1. unread \in Nat
  BY DEF RingOK
<1>2. PICK last \in 1 .. unread : /\ Unread[last].key \in M /\ Unread[last].pressed = Down(M)
                                  /\ \A j \in last + 1 .. unread : Unread[j].key \notin M
  BY DEF Told
<1> DEFINE S == {i \in 0 .. unread : i >= last => FlagIn(M, turn[i]) = Down(M)}
<1>3. 0 \in S
  BY <1>1
<1>4. ASSUME NEW i \in 0 .. unread - 1, i \in S PROVE i + 1 \in S
  <2>1. i + 1 \in 1 .. unread /\ (i + 1) - 1 = i /\ i \in 0 .. unread /\ i + 1 \in 0 .. unread
    BY <1>1
  <2> DEFINE a == turn[i]
             t == turn[i + 1]
             e == Unread[i + 1]
  <2>2. t = CleanEvent(a, e) /\ a \in Following /\ e.key # VK_CAPITAL /\ Strike(e)
    BY <2>1, UnreadStruck DEF CleanTurns
  <2>3. i >= last => FlagIn(M, a) = Down(M)
    BY <1>4
  <2>4. /\ i + 1 = last => e.key \in M /\ e.pressed = Down(M)
        /\ i >= last => e.key \notin M
    BY <1>2, <2>1
  <2>5. i + 1 >= last => i + 1 = last \/ i >= last
    BY <2>1
  <2> HIDE DEF a, t, e
  <2>6. FlagIn(M, t) = IF e.key \in M THEN e.pressed ELSE FlagIn(M, a)
    BY <2>2, CleanFlag
  <2>7. ASSUME i + 1 = last PROVE FlagIn(M, t) = Down(M)
    <3>1. e.key \in M /\ e.pressed = Down(M)
      BY <2>4, <2>7
    <3> QED
      BY <2>6, <3>1, Zenon
  <2>8. ASSUME i >= last PROVE FlagIn(M, t) = Down(M)
    <3>1. e.key \notin M
      BY <2>4, <2>8
    <3>2. FlagIn(M, a) = Down(M)
      BY <2>3, <2>8
    <3> QED
      BY <2>6, <3>1, <3>2, Zenon
  <2> QED
    BY <2>1, <2>5, <2>7, <2>8 DEF t
<1>5. S = 0 .. unread
  <2>1. S \in SUBSET (0 .. unread)
    OBVIOUS
  <2> HIDE DEF S
  <2> QED
    BY <1>1, <1>3, <1>4, <2>1, UpTo
<1> QED
  BY <1>1, <1>5

\* Without events the flag is as the keys are.
LEMMA NoEventWaits ==
    ASSUME NEW M, NEW events, NEW flag \in BOOLEAN
    PROVE  \E level : Levels(level, 0, events, M, flag, flag)
<1> DEFINE level == [i \in 0 .. 0 |-> flag]
<1>1. level \in [0 .. 0 -> BOOLEAN] /\ level[0] = flag
  OBVIOUS
<1> HIDE DEF level
<1>2. 1 .. 0 = {}
  OBVIOUS
<1>3. Levels(level, 0, events, M, flag, flag)
  BY <1>1, <1>2, Zenon DEF Levels
<1> QED
  BY <1>3

LEMMA FollowStart == ASSUME Init PROVE FollowInv
<1>1. RingOK
  BY WaitStart DEF WaitInv
<1>2. /\ unread = 0 /\ shifted = FALSE /\ ctrld = FALSE /\ held = {} /\ keys \in KeySets
      /\ ring = [i \in 0 .. BUFFER_DIM - 1 |-> NoEvent]
  BY DEF Init, TerminalInit, KeyboardInit
<1>3. ASSUME NEW M \in Kinds PROVE InStep(M)
  <2>1. Down(M) = FALSE /\ Flag(M) = FALSE
    BY <1>2 DEF Down, Flag
  <2>2. \E level : Levels(level, 0, Unread, M, FALSE, FALSE)
    BY NoEventWaits
  <2>3. unread <= BUFFER_DIM
    BY <1>2, RingAssumption
  <2> QED
    BY <1>2, <2>1, <2>2, <2>3 DEF InStep
<1>4. \A i \in 0 .. BUFFER_DIM - 1 : ring[i].key # VK_CAPITAL
  BY <1>2 DEF NoEvent, VK_CAPITAL
<1> QED
  BY <1>1, <1>2, <1>3, <1>4 DEF FollowInv

\* The flag of one kind of key when a key is struck and it is not misleading.
LEMMA StrikeFollowed ==
    ASSUME RingOK, unread + 1 <= BUFFER_DIM, NEW key \in (-127 .. 127) \ {0},
           NEW down \in BOOLEAN, KeyInterrupt(key, down),
           NEW M, key \in M => Down(M)' # Down(M),
           NEW flag, NEW level, Levels(level, unread, Unread, M, flag, Down(M))
    PROVE  \E longer : Levels(longer, unread', Unread', M, flag, Down(M)')
<1>1. /\ unread' = unread + 1
      /\ Unread'[unread + 1] = [key |-> key, pressed |-> down]
      /\ \A i \in 1 .. unread : Unread'[i] = Unread[i]
  BY OneEventMore
<1>2. /\ held' = IF down THEN held \cup {key} ELSE held \ {key}
      /\ ~down => key \in held
  BY Zenon DEF KeyInterrupt, CanMove
<1>a. PICK n \in Nat : n = unread
  BY DEF RingOK
<1>b. PICK old, new : old = Unread /\ new = Unread'
  OBVIOUS
<1>c. PICK was \in BOOLEAN : was = Down(M)
  BY Zenon DEF Down
<1>d. PICK is \in BOOLEAN : is = Down(M)'
  BY Zenon DEF Down
<1>3. n = unread /\ old = Unread /\ new = Unread' /\ was = Down(M) /\ is = Down(M)'
  BY <1>a, <1>b, <1>c, <1>d
<1>4. new[n + 1].key = key /\ new[n + 1].pressed = down
  BY <1>1, <1>3
<1>5. key \in M => is = down /\ is = ~was
  <2>1. key \in M /\ down => is
    BY <1>2, <1>3 DEF Down
  <2>2. key \in M /\ ~down => was
    BY <1>2, <1>3 DEF Down
  <2>3. key \in M => is # was
    BY <1>3
  <2> QED
    BY <2>1, <2>2, <2>3, Zenon
<1>6. key \notin M => is = was
  BY <1>2, <1>3 DEF Down
<1>7. \A i \in 1 .. n : new[i] = old[i]
  BY <1>1, <1>3
<1>8. Levels(level, n, old, M, flag, was)
  BY <1>3
<1>9. /\ new[n + 1].key \in M => new[n + 1].pressed = is /\ is = ~was
      /\ new[n + 1].key \notin M => is = was
  BY <1>4, <1>5, <1>6, Zenon
<1>10. \E longer : Levels(longer, n + 1, new, M, flag, is)
  <2>1. OneMore(n, old, new, M, was, is)
    BY <1>7, <1>9, Zenon DEF OneMore
  <2> QED
    BY <1>8, <2>1, LevelMore
<1> QED
  BY <1>1, <1>3, <1>10

LEMMA StrikeFollows ==
    ASSUME ScanCodes, FollowInv, NEW key \in keys, NEW down \in BOOLEAN, KeyInterrupt(key, down)
    PROVE  FollowInv'
<1>1. RingOK /\ RingOK'
  BY StrikeKeepsRing DEF FollowInv
<1>2. keys \in KeySets /\ key \in (-127 .. 127) \ {0} /\ key # VK_CAPITAL
  BY DEF FollowInv, ScanCodes
<1>3. /\ keys' = keys /\ shifted' = shifted /\ ctrld' = ctrld
      /\ held' = IF down THEN held \cup {key} ELSE held \ {key}
      /\ outOfStep' = IF unread >= BUFFER_DIM THEN Kinds ELSE outOfStep \cup Misleads(key)
      /\ ring' = [ring EXCEPT ![(at + unread) % BUFFER_DIM] = Event(ScanCode(key, down))]
      /\ specialKey = (key < 0)
  BY Zenon DEF KeyInterrupt
<1>4. held \subseteq keys /\ held' \subseteq keys'
  BY <1>3 DEF FollowInv
<1>5. \A i \in 0 .. BUFFER_DIM - 1 : ring'[i].key # VK_CAPITAL
  <2> TAKE i \in 0 .. BUFFER_DIM - 1
  <2>1. Event(ScanCode(key, down)) = [key |-> key, pressed |-> down]
    BY <1>2, <1>3, EventIs
  <2>2. Event(ScanCode(key, down)).key = key
    BY <2>1
  <2>3. ring'[i] = Event(ScanCode(key, down)) \/ ring'[i] = ring[i]
    BY <1>1, <1>3 DEF RingOK
  <2>4. ring[i].key # VK_CAPITAL
    BY DEF FollowInv
  <2> QED
    BY <1>2, <2>2, <2>3, <2>4
<1>6. ASSUME NEW M \in Kinds PROVE InStep(M)'
  <2> SUFFICES ASSUME M \notin outOfStep'
               PROVE  /\ unread' <= BUFFER_DIM
                      /\ \E level : Levels(level, unread', Unread', M, Flag(M)', Down(M)')
    BY Zenon DEF InStep
  <2>1. ~(unread >= BUFFER_DIM) /\ M \notin outOfStep /\ M \notin Misleads(key)
    BY <1>3, Zenon
  <2>2. unread + 1 <= BUFFER_DIM
    <3>1. unread \in Nat /\ BUFFER_DIM \in Nat
      BY <1>1, RingAssumption DEF RingOK
    <3> QED
      BY <2>1, <3>1
  <2>3. key \in M => Down(M)' # Down(M)
    BY <2>1, Zenon DEF Misleads
  <2>4. PICK level : Levels(level, unread, Unread, M, Flag(M), Down(M))
    BY <2>1 DEF FollowInv, InStep
  <2>5. \E longer : Levels(longer, unread', Unread', M, Flag(M), Down(M)')
    BY <1>1, <1>2, <2>2, <2>3, <2>4, StrikeFollowed
  <2>6. Flag(M)' = Flag(M)
    BY <1>3 DEF Flag
  <2>7. unread' = unread + 1
    BY DEF KeyInterrupt
  <2> QED
    BY <2>2, <2>5, <2>6, <2>7
<1> QED
  BY <1>1, <1>2, <1>3, <1>4, <1>5, <1>6 DEF FollowInv

\* The flag of one kind of key when some events are taken from the ring.
LEMMA TakenFollowed ==
    ASSUME RingOK, NEW gone \in 0 .. unread, unread' = unread - gone,
           \A i \in 1 .. unread' : Unread'[i] = Unread[gone + i],
           NEW M, Down(M)' = Down(M),
           NEW flag, NEW level, Levels(level, unread, Unread, M, flag, Down(M)),
           NEW flagNow, flagNow = level[gone]
    PROVE  \E shorter : Levels(shorter, unread', Unread', M, flagNow, Down(M)')
<1>1. PICK n \in Nat : n = unread
  BY DEF RingOK
<1>2. PICK old, new, down : old = Unread /\ new = Unread' /\ down = Down(M)
  OBVIOUS
<1>3. /\ Levels(level, n, old, M, flag, down) /\ gone \in 0 .. n
      /\ \A i \in 1 .. n - gone : new[i] = old[gone + i]
  BY <1>1, <1>2
<1>4. \E shorter : Levels(shorter, n - gone, new, M, level[gone], down)
  BY <1>3, LevelLess
<1> QED
  BY <1>1, <1>2, <1>4

\* What is known of the keys of the events in the ring.
LEMMA KnownKeys ==
    ASSUME FollowInv
    PROVE  \A i \in 1 .. unread : Unread[i].key # VK_CAPITAL
<1> TAKE i \in 1 .. unread
<1>1. at + i - 1 \in Nat
  BY DEF FollowInv, RingOK
<1>2. (at + i - 1) % BUFFER_DIM \in 0 .. BUFFER_DIM - 1
  BY <1>1, PlaceInRing
<1>3. Unread[i] = ring[(at + i - 1) % BUFFER_DIM]
  BY DEF Unread
<1> QED
  BY <1>2, <1>3 DEF FollowInv

\* Events are taken from the ring: a kind is in step because it was and the reader has
\* followed it, or because the ring is empty and the flag is right.
LEMMA TakenFollows ==
    ASSUME FollowInv, RingOK', NEW gone \in 0 .. unread,
           ring' = Blanked(gone), at' = (at + gone) % BUFFER_DIM, unread' = unread - gone,
           UNCHANGED <<keys, held>>,
           \A M \in Kinds : M \notin outOfStep' =>
             \/ M \notin outOfStep
                /\ \A level : Levels(level, unread, Unread, M, Flag(M), Down(M))
                              => Flag(M)' = level[gone]
             \/ unread' = 0 /\ Flag(M)' = Down(M)
    PROVE  FollowInv'
<1>1. RingOK /\ unread \in Nat
  BY DEF FollowInv, RingOK
<1>2. \A i \in 1 .. unread' : Unread'[i] = Unread[gone + i]
  BY <1>1, TakenFromRing
<1>3. \A i \in 0 .. BUFFER_DIM - 1 : ring'[i].key # VK_CAPITAL
  <2> TAKE i \in 0 .. BUFFER_DIM - 1
  <2>1. ring'[i] = ring[i] \/ ring'[i] = NoEvent
    BY <1>1 DEF Blanked, RingOK
  <2>2. NoEvent.key # VK_CAPITAL
    BY DEF NoEvent, VK_CAPITAL
  <2> QED
    BY <2>1, <2>2 DEF FollowInv
<1>4. ASSUME NEW M \in Kinds PROVE InStep(M)'
  <2> SUFFICES ASSUME M \notin outOfStep'
               PROVE  /\ unread' <= BUFFER_DIM
                      /\ \E level : Levels(level, unread', Unread', M, Flag(M)', Down(M)')
    BY Zenon DEF InStep
  <2>1. Down(M)' = Down(M)
    BY DEF Down
  <2>2. CASE M \notin outOfStep
             /\ \A level : Levels(level, unread, Unread, M, Flag(M), Down(M))
                           => Flag(M)' = level[gone]
    <3>1. PICK level : Levels(level, unread, Unread, M, Flag(M), Down(M))
      BY <2>2 DEF FollowInv, InStep
    <3>2. Flag(M)' = level[gone]
      BY <2>2, <3>1
    <3>3. PICK now : now = Flag(M)'
      OBVIOUS
    <3>4. now = level[gone]
      BY <3>2, <3>3
    <3>5. \E shorter : Levels(shorter, unread', Unread', M, now, Down(M)')
      BY <1>1, <1>2, <2>1, <3>1, <3>4, TakenFollowed
    <3>6. unread <= BUFFER_DIM
      BY <2>2 DEF FollowInv, InStep
    <3>7. unread' <= BUFFER_DIM
      BY <1>1, <3>6, RingAssumption
    <3> QED
      BY <3>3, <3>5, <3>7
  <2>3. CASE unread' = 0 /\ Flag(M)' = Down(M)
    <3>1. PICK now \in BOOLEAN : now = Down(M)
      BY Zenon DEF Down
    <3>2. \E level : Levels(level, 0, Unread', M, now, now)
      BY NoEventWaits
    <3>3. unread' <= BUFFER_DIM
      BY <2>3, RingAssumption
    <3> QED
      BY <2>1, <2>3, <3>1, <3>2, <3>3
  <2> QED
    BY <2>2, <2>3
<1> QED
  BY <1>3, <1>4 DEF FollowInv

LEMMA CleanKeepsFollow ==
    ASSUME FollowInv, cleanBuffer PROVE FollowInv'
<1>1. RingOK /\ RingOK'
  BY CleanKeepsRing DEF FollowInv
<1>2. PICK turn : CleanTurns(turn)
  BY <1>1, CleansInTurns
<1>3. /\ ring' = Blanked(unread) /\ at' = (at + unread) % BUFFER_DIM
      /\ unread' = 0 /\ shifted' = Cleaned.shifted /\ ctrld' = Cleaned.ctrld
      /\ outOfStep' = {kind \in outOfStep : ~Told(kind)}
      /\ UNCHANGED <<keys, held>>
  BY DEF cleanBuffer, Cleaned, userVars
<1>4. unread \in 0 .. unread /\ unread - unread = 0
  BY <1>1 DEF RingOK
<1>5. \A M : Flag(M)' = FlagIn(M, turn[unread])
  <2>1. Cleaned = turn[unread]
    BY <1>2 DEF CleanTurns
  <2> QED
    BY <1>3, <2>1 DEF Flag, FlagIn
<1>6. \A i \in 1 .. unread : Unread[i].key # VK_CAPITAL
  BY KnownKeys
<1>7. PICK gone \in 0 .. unread : gone = unread
  BY <1>4
<1>8. ASSUME NEW M \in Kinds, M \notin outOfStep'
      PROVE  \/ M \notin outOfStep
                /\ \A level : Levels(level, unread, Unread, M, Flag(M), Down(M))
                              => Flag(M)' = level[gone]
             \/ unread' = 0 /\ Flag(M)' = Down(M)
  <2>1. CASE M \notin outOfStep
    <3>1. ASSUME NEW level, Levels(level, unread, Unread, M, Flag(M), Down(M))
          PROVE  Flag(M)' = level[gone]
      <4>1. \A i \in 0 .. unread : FlagIn(M, turn[i]) = level[i]
        BY <1>1, <1>2, <1>6, <3>1, CleanFollows
      <4> QED
        BY <1>4, <1>5, <1>7, <4>1
    <3> QED
      BY <2>1, <3>1
  <2>2. CASE Told(M)
    <3>1. FlagIn(M, turn[unread]) = Down(M)
      BY <1>1, <1>2, <1>6, <2>2, CleanTells
    <3> QED
      BY <1>3, <1>5, <3>1
  <2> QED
    BY <1>3, <1>8, <2>1, <2>2
<1>9. ring' = Blanked(gone) /\ at' = (at + gone) % BUFFER_DIM /\ unread' = unread - gone
  BY <1>3, <1>4, <1>7
<1> QED
  BY <1>1, <1>3, <1>8, <1>9, TakenFollows

LEMMA ReadKeepsFollow ==
    ASSUME FollowInv, TakesFromRing(readPrintables(1)) PROVE FollowInv'
<1> DEFINE got == readPrintables(1)
<1>1. RingOK /\ RingOK'
  BY ReadKeepsRing DEF FollowInv
<1>2. PICK turn : ReadTurns(turn, 1)
  BY <1>1, ReadsInTurns DEF RingOK
<1>3. got = turn[unread] /\ unread \in 0 .. unread
  BY <1>1, <1>2 DEF ReadTurns, RingOK
<1>4. got.used \in 0 .. unread
  <2>1. 1 \in Nat \ {0}
    OBVIOUS
  <2> QED
    BY <1>1, <1>2, <1>3, <2>1, ReadsAll
<1>5. /\ ring' = Blanked(got.used) /\ at' = (at + got.used) % BUFFER_DIM
      /\ unread' = unread - got.used /\ shifted' = got.shifted /\ ctrld' = got.ctrld
      /\ UNCHANGED <<keys, held>> /\ outOfStep' = outOfStep
  BY DEF TakesFromRing, userVars
<1> HIDE DEF got
<1>6. PICK gone \in 0 .. unread : gone = got.used
  BY <1>4
<1>7. ASSUME NEW M \in Kinds, M \notin outOfStep',
             NEW level, Levels(level, unread, Unread, M, Flag(M), Down(M))
      PROVE  Flag(M)' = level[gone]
  <2>1. \A i \in 1 .. unread : Unread[i].key # VK_CAPITAL
    BY KnownKeys
  <2>2. \A i \in 0 .. unread : FlagIn(M, turn[i]) = level[turn[i].used]
    BY <1>1, <1>2, <1>7, <2>1, ReadFollows
  <2>3. Flag(M)' = FlagIn(M, got)
    BY <1>5 DEF Flag, FlagIn
  <2> QED
    BY <1>3, <1>6, <2>2, <2>3
<1>8. ring' = Blanked(gone) /\ at' = (at + gone) % BUFFER_DIM /\ unread' = unread - gone
  BY <1>5, <1>6
<1> QED
  BY <1>1, <1>5, <1>7, <1>8, TakenFollows

LEMMA FollowStep == ASSUME ScanCodes, FollowInv, [Next]_vars PROVE FollowInv'
<1>1. ASSUME UNCHANGED <<ring, at, unread, shifted, ctrld, userVars, outOfStep>>
      PROVE  FollowInv'
  BY <1>1 DEF FollowInv, RingOK, InStep, Flag, Down, Unread, userVars
<1>2. ASSUME UNCHANGED terminalVars PROVE FollowInv'
  BY <1>1, <1>2 DEF terminalVars, kbVars
<1>3. ASSUME NEW key \in keys, NEW down \in BOOLEAN, KeyStruck(key, down) PROVE FollowInv'
  BY <1>3, StrikeFollows DEF KeyStruck
<1>4. ASSUME Cleans PROVE FollowInv'
  BY <1>4, CleanKeepsFollow DEF Cleans
<1>5. ASSUME Reads PROVE FollowInv'
  BY <1>5, ReadKeepsFollow DEF Reads
<1>6. ASSUME TerminalNext PROVE FollowInv'
  <2>1. CASE Prefixed
    BY <1>1, <2>1 DEF Prefixed, PrefixInterrupt
  <2>2. CASE Prompts
    BY <1>1, <2>2 DEF Prompts, kbVars
  <2>3. CASE SetsBase
    BY <1>1, <2>3 DEF SetsBase, kbVars
  <2>4. CASE MakesRoom
    BY <1>1, <2>4 DEF MakesRoom, kbVars
  <2>5. CASE Echoes
    BY <1>1, <2>5 DEF Echoes, kbVars
  <2>6. CASE Runs
    BY <1>1, <2>6 DEF Runs, kbVars
  <2> QED
    BY <1>3, <1>4, <1>5, <1>6, <2>1, <2>2, <2>3, <2>4, <2>5, <2>6 DEF TerminalNext
<1>7. CASE UNCHANGED vars
  BY <1>2, <1>7 DEF vars
<1>8. CASE Allocates
  BY <1>2, <1>8 DEF Allocates
<1>9. CASE Frees
  BY <1>2, <1>9 DEF Frees
<1> QED
  BY <1>2, <1>6, <1>7, <1>8, <1>9 DEF Next

\* Whenever no event waits, the driver's flags say which modifiers are down, for any keys struck in
\* any order, read and cleaned in any mixture: a reader that toggles and one that sets agree on
\* every event of a kind whose events alternate.  A kind of which a key has repeated, two keys were
\* down or an event was lost is out of step, until cleanBuffer meets a last event of it that is
\* true; from there on the flag is followed again.
THEOREM ModifiersFollowKeys == ASSUME ScanCodes PROVE Spec => []ModifiersExact
<1>1. Init => FollowInv
  BY FollowStart
<1>2. FollowInv /\ [Next]_vars => FollowInv'
  BY FollowStep
<1>3. FollowInv => ModifiersExact
  <2>1. ASSUME FollowInv, unread = 0, NEW M \in Kinds, M \notin outOfStep
        PROVE  Flag(M) = Down(M)
    <3>1. PICK level : Levels(level, unread, Unread, M, Flag(M), Down(M))
      BY <2>1 DEF FollowInv, InStep
    <3> QED
      BY <2>1, <3>1, Zenon DEF Levels
  <2>2. Flag(Shifts) = shifted /\ Flag(Controls) = ctrld
    BY KindsAre DEF Flag
  <2> QED
    BY <2>1, <2>2, KindsAre DEF ModifiersExact
<1> QED
  BY <1>1, <1>2, <1>3, PTL DEF Spec

-----------------------------------------------------------------------------
(* The screen and the line that is typed on it, for every size of both.    *)
(* The text stands behind the base of the screen point by point (Shows),   *)
(* and every character that is echoed does to it what removeBackspaces     *)
(* would do to the line (Seen, Typed).                                     *)

\* What a cell may show.
Glyph == Char \cup {" ", "0", ">", "!"}

Cells == [char : Glyph, bg : Int, ch : Int, special : SUBSET {"bg", "ch"}]

\* Only the end of a line takes the cursor below the last row, to its beginning.
Screens == {s \in [bg : Int, ch : Int, row : 0 .. HEIGHT, column : 0 .. WIDTH,
                   baseRow : 0 .. HEIGHT, baseColumn : 0 .. WIDTH,
                   cell : [Row -> [Column -> Cells]]] :
              s.row = HEIGHT => s.column = 0}

\* The next character will find its place.
Roomy(s) == s.row < HEIGHT /\ s.column < WIDTH

\* The sizes of the grid, and the characters of the prompts.
LEMMA SizesAre ==
    /\ WIDTH \in Nat \ {0} /\ HEIGHT \in Nat /\ HEIGHT >= 2
    /\ Row = 0 .. HEIGHT - 1 /\ Column = 0 .. WIDTH - 1
BY ScreenAssumption DEF Row, Column

LEMMA GlyphIs == " " \in Glyph /\ "0" \in Glyph /\ ">" \in Glyph /\ "!" \in Glyph /\ Char \subseteq Glyph
BY DEF Glyph

\* A blank cell.
LEMMA BlankIs == ASSUME NEW s \in Screens, NEW g \in Glyph
                 PROVE  Blank(s, g) \in Cells /\ Blank(s, g).char = g
BY DEF Blank, Cell, Plain, Cells, Screens

\* A row that goes below the last one comes back with scrollUp, and only the base with it.
LEMMA ScrolledIs ==
    ASSUME NEW s \in Screens, s.row = HEIGHT
    PROVE  LET t == scrollUp(s, 1) IN
           /\ t \in Screens /\ t.row = HEIGHT - 1 /\ t.column = 0
           /\ t.baseRow = IF s.baseRow >= 1 THEN s.baseRow - 1 ELSE 0
           /\ t.baseColumn = IF s.baseRow >= 1 THEN s.baseColumn ELSE 0
           /\ \A r \in Row, c \in Column : r < HEIGHT - 1 => t.cell[r][c] = s.cell[r + 1][c]
<1> DEFINE rows == [r \in Row |-> IF r < HEIGHT - 1 THEN s.cell[r + 1]
                                  ELSE [c \in Column |-> Blank(s, "0")]]
           baseRow == IF s.baseRow >= 1 THEN s.baseRow - 1 ELSE 0
           baseColumn == IF s.baseRow >= 1 THEN s.baseColumn ELSE 0
           t == scrollUp(s, 1)
<1>1. /\ s \in [bg : Int, ch : Int, row : 0 .. HEIGHT, column : 0 .. WIDTH,
                baseRow : 0 .. HEIGHT, baseColumn : 0 .. WIDTH, cell : [Row -> [Column -> Cells]]]
      /\ WIDTH \in Nat \ {0} /\ HEIGHT \in Nat /\ HEIGHT >= 2
      /\ Row = 0 .. HEIGHT - 1 /\ Column = 0 .. WIDTH - 1
  BY SizesAre DEF Screens
<1>2. rows \in [Row -> [Column -> Cells]]
  <2>1. Blank(s, "0") \in Cells
    BY BlankIs, GlyphIs
  <2>2. PICK blank \in Cells : blank = Blank(s, "0")
    BY <2>1
  <2>3. [c \in Column |-> blank] \in [Column -> Cells]
    OBVIOUS
  <2>4. ASSUME NEW r \in Row, r < HEIGHT - 1 PROVE s.cell[r + 1] \in [Column -> Cells]
    <3>1. r + 1 \in Row
      BY <1>1, <2>4
    <3> QED
      BY <1>1, <3>1
  <2> QED
    BY <2>2, <2>3, <2>4
<1>3. \A r \in Row, c \in Column : r < HEIGHT - 1 => rows[r][c] = s.cell[r + 1][c]
  OBVIOUS
<1>4. baseRow \in 0 .. HEIGHT /\ baseColumn \in 0 .. WIDTH
  BY <1>1
<1>5. t = [s EXCEPT !.cell = rows, !.row = HEIGHT - 1, !.column = 0,
                    !.baseRow = IF @ >= 1 THEN @ - 1 ELSE 0,
                    !.baseColumn = IF s.baseRow >= 1 THEN @ ELSE 0]
  BY Zenon DEF scrollUp
<1>6. t = [bg |-> s.bg, ch |-> s.ch, row |-> HEIGHT - 1, column |-> 0, baseRow |-> baseRow,
           baseColumn |-> baseColumn, cell |-> rows]
  <2> HIDE DEF rows, t
  <2> QED
    BY <1>1, <1>5
<1> HIDE DEF rows, baseRow, baseColumn, t
<1>7. /\ t.row = HEIGHT - 1 /\ t.column = 0 /\ t.baseRow = baseRow /\ t.baseColumn = baseColumn
      /\ t.cell = rows /\ t.bg \in Int /\ t.ch \in Int
  BY <1>1, <1>6
<1>8. t \in Screens
  <2>1. HEIGHT - 1 \in 0 .. HEIGHT /\ 0 \in 0 .. WIDTH
    BY <1>1
  <2>2. t \in [bg : Int, ch : Int, row : 0 .. HEIGHT, column : 0 .. WIDTH,
               baseRow : 0 .. HEIGHT, baseColumn : 0 .. WIDTH, cell : [Row -> [Column -> Cells]]]
    BY <1>1, <1>2, <1>4, <1>6, <2>1
  <2> QED
    BY <1>7, <2>2 DEF Screens
<1> QED
  BY <1>3, <1>7, <1>8 DEF baseRow, baseColumn, t

\* What printChar does before it looks at the character.
Scrolled(s) == LET w == Wrapped(s) IN IF w.row >= HEIGHT THEN scrollUp(w, 1) ELSE w

\* A cursor that stands behind the last column goes to the row below, where it points to the same place.
LEMMA WrappedIs ==
    ASSUME NEW s \in Screens
    PROVE  LET w == Wrapped(s) IN
           /\ w \in Screens /\ w.column < WIDTH
           /\ w.baseRow = s.baseRow /\ w.baseColumn = s.baseColumn /\ w.cell = s.cell
           /\ w.row = IF s.column >= WIDTH THEN s.row + 1 ELSE s.row
           /\ w.column = IF s.column >= WIDTH THEN 0 ELSE s.column
<1>1. /\ s \in [bg : Int, ch : Int, row : 0 .. HEIGHT, column : 0 .. WIDTH,
                baseRow : 0 .. HEIGHT, baseColumn : 0 .. WIDTH, cell : [Row -> [Column -> Cells]]]
      /\ s.row = HEIGHT => s.column = 0
      /\ WIDTH \in Nat \ {0} /\ HEIGHT \in Nat /\ HEIGHT >= 2
  BY SizesAre DEF Screens
<1>2. CASE s.column >= WIDTH
  <2>1. PICK w : w = [s EXCEPT !.column = 0, !.row = @ + 1]
    OBVIOUS
  <2>2. w = Wrapped(s)
    BY <1>2, <2>1 DEF Wrapped
  <2>3. s.row + 1 \in 0 .. HEIGHT /\ 0 \in 0 .. WIDTH
    BY <1>1, <1>2
  <2>4. /\ w \in [bg : Int, ch : Int, row : 0 .. HEIGHT, column : 0 .. WIDTH,
                baseRow : 0 .. HEIGHT, baseColumn : 0 .. WIDTH, cell : [Row -> [Column -> Cells]]]
        /\ w.row = s.row + 1 /\ w.column = 0
        /\ w.baseRow = s.baseRow /\ w.baseColumn = s.baseColumn /\ w.cell = s.cell
    BY <1>1, <2>1, <2>3
  <2>5. w \in Screens /\ w.column < WIDTH
    BY <1>1, <2>4 DEF Screens
  <2> QED
    BY <1>2, <2>2, <2>4, <2>5
<1>3. CASE ~(s.column >= WIDTH)
  <2>1. Wrapped(s) = s
    BY <1>3 DEF Wrapped
  <2>2. s.column < WIDTH
    BY <1>1, <1>3
  <2> QED
    BY <1>3, <2>1, <2>2
<1> QED
  BY <1>2, <1>3

\* Whatever the screen, the next character then finds its place.
LEMMA ScrolledRoomy ==
    ASSUME NEW s \in Screens
    PROVE  Scrolled(s) \in Screens /\ Roomy(Scrolled(s))
<1>1. PICK w : w = Wrapped(s)
  OBVIOUS
<1>2. w \in Screens /\ w.column < WIDTH
  BY <1>1, WrappedIs
<1>3. w.row \in 0 .. HEIGHT /\ HEIGHT \in Nat /\ WIDTH \in Nat \ {0}
  BY <1>2, SizesAre DEF Screens
<1>4. Scrolled(s) = IF w.row >= HEIGHT THEN scrollUp(w, 1) ELSE w
  BY <1>1 DEF Scrolled
<1>5. CASE w.row >= HEIGHT
  <2>1. w.row = HEIGHT
    BY <1>3, <1>5
  <2>2. PICK t : t = scrollUp(w, 1)
    OBVIOUS
  <2>3. t \in Screens /\ t.row = HEIGHT - 1 /\ t.column = 0
    BY <1>2, <2>1, <2>2, ScrolledIs
  <2> QED
    BY <1>3, <1>4, <1>5, <2>2, <2>3 DEF Roomy
<1>6. CASE ~(w.row >= HEIGHT)
  BY <1>2, <1>3, <1>4, <1>6 DEF Roomy
<1> QED
  BY <1>5, <1>6

\* A point has one row and one column.
LEMMA OnePoint ==
    ASSUME NEW r \in Row, NEW c \in Column, NEW p \in Row, NEW q \in Column,
           PointTo(r, c) = PointTo(p, q)
    PROVE  r = p /\ c = q
<1>1. PICK w \in Nat \ {0} : w = WIDTH
  BY SizesAre
<1>2. r \in Nat /\ p \in Nat /\ c \in 0 .. w - 1 /\ q \in 0 .. w - 1
  BY <1>1, SizesAre
<1>3. r * w + c = p * w + q
  BY <1>1 DEF PointTo
<1>4. ASSUME NEW a \in Nat, NEW b \in Nat, a < b PROVE a * w + w <= b * w
  <2>1. PICK d \in Nat : b = (a + d) + 1
    <3>1. b - a - 1 \in Nat /\ b = (a + (b - a - 1)) + 1
      BY <1>4
    <3> QED
      BY <3>1
  <2>2. b * w = (a * w + d * w) + w /\ d * w \in Nat /\ a * w \in Nat
    BY <2>1
  <2> QED
    BY <2>2
<1>5. r * w \in Nat /\ p * w \in Nat
  BY <1>2
<1>6. ~(r < p)
  <2> SUFFICES ASSUME r < p PROVE FALSE
    OBVIOUS
  <2>1. r * w + w <= p * w
    BY <1>2, <1>4
  <2> QED
    BY <1>1, <1>2, <1>3, <1>5, <2>1
<1>7. ~(p < r)
  <2> SUFFICES ASSUME p < r PROVE FALSE
    OBVIOUS
  <2>1. p * w + w <= r * w
    BY <1>2, <1>4
  <2> QED
    BY <1>1, <1>2, <1>3, <1>5, <2>1
<1>8. r = p
  BY <1>2, <1>6, <1>7
<1> QED
  BY <1>2, <1>3, <1>5, <1>8

\* A character that is printed takes the place of the cursor, and no other.
LEMMA WrittenIs ==
    ASSUME NEW s \in Screens, Roomy(s), NEW char \in Glyph, NEW format \in [bg : Int, ch : Int]
    PROVE  LET t == Written(s, char, format) IN
           /\ t \in Screens /\ t.row = s.row /\ t.column = s.column + 1
           /\ t.baseRow = s.baseRow /\ t.baseColumn = s.baseColumn
           /\ s.row \in Row /\ s.column \in Column
           /\ t.cell[s.row][s.column].char = char
           /\ \A r \in Row, c \in Column :
                r # s.row \/ c # s.column => t.cell[r][c] = s.cell[r][c]
<1> DEFINE new == Cell(char, IF format.bg = DEFAULT THEN s.bg ELSE format.bg,
                             IF format.ch = DEFAULT THEN s.ch ELSE format.ch, Asked(format))
           t == Written(s, char, format)
<1>1. /\ s \in [bg : Int, ch : Int, row : 0 .. HEIGHT, column : 0 .. WIDTH,
                baseRow : 0 .. HEIGHT, baseColumn : 0 .. WIDTH, cell : [Row -> [Column -> Cells]]]
      /\ s.row < HEIGHT /\ s.column < WIDTH
      /\ WIDTH \in Nat \ {0} /\ HEIGHT \in Nat /\ HEIGHT >= 2
      /\ Row = 0 .. HEIGHT - 1 /\ Column = 0 .. WIDTH - 1
  BY SizesAre DEF Screens, Roomy
<1>2. new \in Cells /\ new.char = char
  <2>1. Asked(format) \in SUBSET {"bg", "ch"}
    BY DEF Asked
  <2> QED
    BY <1>1, <2>1 DEF Cell, Cells
<1>3. t = [s EXCEPT !.cell[s.row][s.column] = new, !.column = @ + 1]
  BY Zenon DEF Written
<1>4. PICK r \in Row, c \in Column : r = s.row /\ c = s.column
  BY <1>1
<1> DEFINE rows == [s.cell EXCEPT ![r][c] = new]
<1> HIDE DEF new
<1>5. /\ rows \in [Row -> [Column -> Cells]] /\ rows[r][c] = new
      /\ \A p \in Row, q \in Column : p # r \/ q # c => rows[p][q] = s.cell[p][q]
  <2>1. s.cell \in [Row -> [Column -> Cells]]
    BY <1>1
  <2> QED
    BY <1>2, <2>1
<1>6. t = [s EXCEPT !.cell = rows, !.column = c + 1]
  <2> HIDE DEF t
  <2> QED
    BY <1>1, <1>3, <1>4
<1> HIDE DEF rows, t
<1>7. c + 1 \in 0 .. WIDTH
  BY <1>1, <1>4
<1>8. /\ t \in [bg : Int, ch : Int, row : 0 .. HEIGHT, column : 0 .. WIDTH,
                baseRow : 0 .. HEIGHT, baseColumn : 0 .. WIDTH, cell : [Row -> [Column -> Cells]]]
      /\ t.row = r /\ t.column = c + 1 /\ t.cell = rows
      /\ t.baseRow = s.baseRow /\ t.baseColumn = s.baseColumn
  BY <1>1, <1>4, <1>5, <1>6, <1>7
<1>9. t \in Screens
  BY <1>1, <1>4, <1>8, SMTT(30) DEF Screens
<1> QED
  BY <1>2, <1>4, <1>5, <1>8, <1>9 DEF t

\* The end of a line.
LEMMA NewLineIs ==
    ASSUME NEW s \in Screens, Roomy(s) PROVE newLine(s) \in Screens
<1> DEFINE t == newLine(s)
<1>1. /\ s \in [bg : Int, ch : Int, row : 0 .. HEIGHT, column : 0 .. WIDTH,
                baseRow : 0 .. HEIGHT, baseColumn : 0 .. WIDTH, cell : [Row -> [Column -> Cells]]]
      /\ s.row < HEIGHT /\ s.column < WIDTH
      /\ WIDTH \in Nat \ {0} /\ HEIGHT \in Nat /\ HEIGHT >= 2
      /\ Row = 0 .. HEIGHT - 1 /\ Column = 0 .. WIDTH - 1
  BY SizesAre DEF Screens, Roomy
<1>2. PICK blank \in Cells : blank = Blank(s, " ")
  BY BlankIs, GlyphIs
<1>3. t = [s EXCEPT !.cell[s.row] = [c \in Column |-> IF c < s.column THEN @[c] ELSE blank],
                    !.column = 0, !.row = @ + 1]
  BY <1>2, Zenon DEF newLine
<1>4. PICK r \in Row : r = s.row
  BY <1>1
<1> DEFINE cells == [c \in Column |-> IF c < s.column THEN s.cell[r][c] ELSE blank]
           rows == [s.cell EXCEPT ![r] = cells]
<1>5. cells \in [Column -> Cells]
  BY <1>1
<1>6. rows \in [Row -> [Column -> Cells]]
  <2> HIDE DEF cells
  <2> QED
    BY <1>1, <1>5
<1>7. t = [s EXCEPT !.cell = rows, !.column = 0, !.row = r + 1]
  <2> HIDE DEF t
  <2> QED
    BY <1>1, <1>3, <1>4
<1> HIDE DEF rows, t
<1>8. r + 1 \in 0 .. HEIGHT /\ 0 \in 0 .. WIDTH
  BY <1>1, <1>4
<1>9. /\ t \in [bg : Int, ch : Int, row : 0 .. HEIGHT, column : 0 .. WIDTH,
                baseRow : 0 .. HEIGHT, baseColumn : 0 .. WIDTH, cell : [Row -> [Column -> Cells]]]
      /\ t.column = 0
  BY <1>1, <1>6, <1>7, <1>8
<1> QED
  BY <1>9 DEF Screens, t

\* Backspace: nothing at the base, and before it one place is blanked, which the cursor takes.
Spaces(s, row) == Max({c \in Column : s.cell[row][c].char # " "} \cup {0})

\* The last place of a row that is not a space: its last one, when a letter stands there.
LEMMA SpacesIs ==
    ASSUME NEW s \in Screens, NEW row \in Row
    PROVE  /\ Spaces(s, row) \in Column
           /\ s.cell[row][WIDTH - 1].char # " " => Spaces(s, row) = WIDTH - 1
<1> DEFINE A == {c \in Column : s.cell[row][c].char # " "}
           S == A \cup {0}
<1>1. WIDTH \in Nat \ {0} /\ Column = 0 .. WIDTH - 1
  BY SizesAre
<1>2. PICK w \in Nat : w = WIDTH - 1
  BY <1>1
<1>3. A \subseteq Column /\ (s.cell[row][w].char # " " /\ w \in Column => w \in A)
  OBVIOUS
<1> HIDE DEF A
<1>4. Column = 0 .. w /\ w \in Column /\ 0 \in Column
  BY <1>1, <1>2
<1>5. S \in SUBSET Nat /\ S # {} /\ S \subseteq Column /\ \A c \in S : c <= w
  <2>1. S \subseteq Column /\ 0 \in S
    BY <1>3, <1>4
  <2> HIDE DEF S
  <2>2. \A c \in Column : c \in Nat /\ c <= w
    BY <1>4
  <2> QED
    BY <2>1, <2>2
<1>6. PICK m : m = Max(S) /\ m \in S /\ \A c \in S : m >= c
  <2> HIDE DEF S
  <2> QED
    BY <1>2, <1>5, MaxProperties
<1>7. m \in Column /\ m <= w
  BY <1>5, <1>6
<1>8. w \in S => m = w
  <2> HIDE DEF S
  <2>1. w \in S => m >= w
    BY <1>6
  <2>2. m \in Nat
    BY <1>4, <1>7
  <2> QED
    BY <1>2, <1>7, <2>1, <2>2
<1>9. s.cell[row][w].char # " " => w \in S
  BY <1>3, <1>4
<1> QED
  BY <1>2, <1>6, <1>7, <1>8, <1>9 DEF Spaces, A

\* What backspace does behind the base.
LEMMA ErasedIs ==
    ASSUME NEW s \in Screens, Roomy(s), Cursor(s) > Base(s)
    PROVE  LET t == backspace(s) IN
           /\ t \in Screens /\ Roomy(t) /\ t.row \in Row /\ t.column \in Column
           /\ t.baseRow = s.baseRow /\ t.baseColumn = s.baseColumn
           /\ IF s.column > 0 THEN t.row = s.row /\ t.column = s.column - 1
              ELSE s.row > 0 /\ t.row = s.row - 1 /\ t.column = Spaces(s, s.row - 1)
           /\ \A r \in Row, c \in Column :
                r # t.row \/ c # t.column => t.cell[r][c] = s.cell[r][c]
<1> DEFINE b == Behind(s)
           t == backspace(s)
<1>1. /\ s \in [bg : Int, ch : Int, row : 0 .. HEIGHT, column : 0 .. WIDTH,
                baseRow : 0 .. HEIGHT, baseColumn : 0 .. WIDTH, cell : [Row -> [Column -> Cells]]]
      /\ s.row < HEIGHT /\ s.column < WIDTH
      /\ WIDTH \in Nat \ {0} /\ HEIGHT \in Nat /\ HEIGHT >= 2
      /\ Row = 0 .. HEIGHT - 1 /\ Column = 0 .. WIDTH - 1
  BY SizesAre DEF Screens, Roomy
<1>2. s.column > 0 \/ s.row > 0
  <2> SUFFICES ASSUME s.column = 0, s.row = 0 PROVE FALSE
    BY <1>1
  <2>1. Cursor(s) = 0
    BY <1>1 DEF Cursor, PointTo
  <2>2. s.baseRow * WIDTH \in Nat /\ s.baseColumn \in Nat
    BY <1>1
  <2>3. Base(s) \in Nat
    BY <2>2 DEF Base, PointTo
  <2> QED
    BY <2>1, <2>3
<1>3. \E r \in Row, c \in Column :
        /\ b = [s EXCEPT !.row = r, !.column = c]
        /\ IF s.column > 0 THEN r = s.row /\ c = s.column - 1
           ELSE s.row > 0 /\ r = s.row - 1 /\ c = Spaces(s, s.row - 1)
  <2>1. CASE s.column > 0
    <3>1. b = [s EXCEPT !.column = @ - 1]
      BY <2>1 DEF Behind
    <3>2. s.row \in Row /\ s.column - 1 \in Column
      BY <1>1, <2>1
    <3>3. b = [s EXCEPT !.row = s.row, !.column = s.column - 1]
      <4> HIDE DEF b
      <4> QED
        BY <1>1, <3>1
    <3> HIDE DEF b
    <3> QED
      BY <2>1, <3>2, <3>3
  <2>2. CASE ~(s.column > 0)
    <3>1. s.row - 1 \in Row /\ s.row > 0
      BY <1>1, <1>2, <2>2
    <3>2. Spaces(s, s.row - 1) \in Column
      BY <3>1, SpacesIs
    <3>3. b = [s EXCEPT !.row = @ - 1, !.column = Spaces(s, s.row - 1)]
      BY <2>2, Zenon DEF Behind, Spaces
    <3>4. b = [s EXCEPT !.row = s.row - 1, !.column = Spaces(s, s.row - 1)]
      <4> HIDE DEF b
      <4> QED
        BY <1>1, <3>3
    <3> HIDE DEF b
    <3> QED
      BY <2>2, <3>1, <3>2, <3>4
  <2> QED
    BY <2>1, <2>2
<1>4. PICK r \in Row, c \in Column :
        /\ b = [s EXCEPT !.row = r, !.column = c]
        /\ IF s.column > 0 THEN r = s.row /\ c = s.column - 1
           ELSE s.row > 0 /\ r = s.row - 1 /\ c = Spaces(s, s.row - 1)
  BY <1>3
<1>5. ~(Cursor(s) <= Base(s))
  <2>1. s.row * WIDTH \in Nat /\ s.baseRow * WIDTH \in Nat
    BY <1>1
  <2>2. Cursor(s) \in Nat /\ Base(s) \in Nat
    BY <1>1, <2>1, SMTT(30) DEF Cursor, Base, PointTo
  <2> QED
    BY <2>2
<1>6. t = [b EXCEPT !.cell[b.row][b.column] = Blank(b, " ")]
  BY <1>5, Zenon DEF backspace
<1> HIDE DEF b, t
<1>7. r \in 0 .. HEIGHT /\ c \in 0 .. WIDTH /\ r < HEIGHT /\ c < WIDTH
  BY <1>1
<1>8. /\ b \in [bg : Int, ch : Int, row : 0 .. HEIGHT, column : 0 .. WIDTH,
                baseRow : 0 .. HEIGHT, baseColumn : 0 .. WIDTH, cell : [Row -> [Column -> Cells]]]
      /\ b.row = r /\ b.column = c /\ b.cell = s.cell
      /\ b.baseRow = s.baseRow /\ b.baseColumn = s.baseColumn
  BY <1>1, <1>4, <1>7
<1>9. b \in Screens
  BY <1>7, <1>8 DEF Screens
<1>10. PICK blank \in Cells : blank = Blank(b, " ")
  BY <1>9, BlankIs, GlyphIs
<1> DEFINE rows == [s.cell EXCEPT ![r][c] = blank]
<1>11. /\ rows \in [Row -> [Column -> Cells]]
       /\ \A p \in Row, q \in Column : p # r \/ q # c => rows[p][q] = s.cell[p][q]
  <2>1. s.cell \in [Row -> [Column -> Cells]]
    BY <1>1
  <2> QED
    BY <2>1
<1>12. t = [b EXCEPT !.cell = rows]
  BY <1>6, <1>8, <1>10
<1> HIDE DEF rows
<1>13. /\ t \in [bg : Int, ch : Int, row : 0 .. HEIGHT, column : 0 .. WIDTH,
                baseRow : 0 .. HEIGHT, baseColumn : 0 .. WIDTH, cell : [Row -> [Column -> Cells]]]
       /\ t.row = r /\ t.column = c /\ t.cell = rows
       /\ t.baseRow = s.baseRow /\ t.baseColumn = s.baseColumn
  BY <1>8, <1>11, <1>12
<1>14. t \in Screens /\ Roomy(t)
  BY <1>7, <1>13 DEF Screens, Roomy
<1> QED
  BY <1>4, <1>11, <1>13, <1>14 DEF t

\* printChar: room first, and then the character.
LEMMA PrintCharIs ==
    ASSUME NEW s, NEW char, NEW format
    PROVE  printChar(s, char, format) =
             CASE char = NL -> newLine(Scrolled(s))
               [] char = BS -> backspace(Scrolled(s))
               [] OTHER -> Written(Scrolled(s), char, format)
BY Zenon DEF printChar, Scrolled, NL, BS

Format == [bg : Int, ch : Int]

\* Every character leaves a screen.
LEMMA PrintCharKeeps ==
    ASSUME NEW s \in Screens, NEW char \in Glyph, NEW format \in Format
    PROVE  printChar(s, char, format) \in Screens
<1>1. PICK t \in Screens : t = Scrolled(s) /\ Roomy(t)
  BY ScrolledRoomy
<1>2. newLine(t) \in Screens
  BY <1>1, NewLineIs
<1>3. backspace(t) \in Screens
  <2>1. CASE Cursor(t) > Base(t)
    BY <1>1, <2>1, ErasedIs
  <2>2. CASE ~(Cursor(t) > Base(t))
    <3>1. Cursor(t) <= Base(t)
      <4>1. /\ t.row \in Nat /\ t.baseRow \in Nat /\ t.column \in Nat /\ t.baseColumn \in Nat
            /\ WIDTH \in Nat
        BY SizesAre DEF Screens
      <4>2. t.row * WIDTH \in Nat /\ t.baseRow * WIDTH \in Nat
        BY <4>1
      <4>3. Cursor(t) \in Nat /\ Base(t) \in Nat
        BY <4>1, <4>2 DEF Cursor, Base, PointTo
      <4> QED
        BY <2>2, <4>3
    <3> QED
      BY <1>1, <3>1 DEF backspace
  <2> QED
    BY <2>1, <2>2
<1>4. Written(t, char, format) \in Screens
  BY <1>1, WrittenIs DEF Format
<1>5. NL # BS
  BY DEF NL, BS
<1> QED
  BY <1>1, <1>2, <1>3, <1>4, <1>5, PrintCharIs

\* So do the other operations.
LEMMA OthersKeep ==
    ASSUME NEW s \in Screens
    PROVE  /\ setBackspaceBase(s) \in Screens /\ clearScreen(s) \in Screens
           /\ \A bg, ch : changeColor(s, bg, ch) \in Screens
<1>1. /\ s \in [bg : Int, ch : Int, row : 0 .. HEIGHT, column : 0 .. WIDTH,
                baseRow : 0 .. HEIGHT, baseColumn : 0 .. WIDTH, cell : [Row -> [Column -> Cells]]]
      /\ s.row = HEIGHT => s.column = 0
      /\ 0 \in 0 .. HEIGHT /\ 0 \in 0 .. WIDTH
  BY SizesAre DEF Screens
<1>2. setBackspaceBase(s) \in Screens
  BY <1>1 DEF setBackspaceBase, Screens
<1>3. clearScreen(s) \in Screens
  <2>1. PICK blank \in Cells : blank = Blank(s, " ")
    BY BlankIs, GlyphIs
  <2>2. PICK rows : rows = [r \in Row |-> [c \in Column |-> blank]]
    OBVIOUS
  <2>3. rows \in [Row -> [Column -> Cells]]
    BY <2>2
  <2>4. PICK t : t = clearScreen(s)
    OBVIOUS
  <2>5. t = [s EXCEPT !.cell = rows, !.row = 0, !.column = 0, !.baseRow = 0, !.baseColumn = 0]
    BY <2>1, <2>2, <2>4, Zenon DEF clearScreen
  <2>6. t \in [bg : Int, ch : Int, row : 0 .. HEIGHT, column : 0 .. WIDTH,
               baseRow : 0 .. HEIGHT, baseColumn : 0 .. WIDTH, cell : [Row -> [Column -> Cells]]]
        /\ t.column = 0
    BY <1>1, <2>3, <2>5
  <2> QED
    BY <2>4, <2>6 DEF Screens
<1>4. ASSUME NEW bg, NEW ch PROVE changeColor(s, bg, ch) \in Screens
  <2> DEFINE rows == [r \in Row |-> [c \in Column |-> Recolored(s.cell[r][c], bg, ch)]]
  <2>1. CASE {bg, ch} \subseteq Color
    <3>1. bg \in Int /\ ch \in Int
      BY <2>1 DEF Color, BLACK, WHITE
    <3>2. ASSUME NEW cell \in Cells PROVE Recolored(cell, bg, ch) \in Cells
      <4>1. PICK b \in Int : b = IF "bg" \in cell.special THEN cell.bg ELSE bg
        BY <3>1 DEF Cells
      <4>2. PICK h \in Int : h = IF "ch" \in cell.special THEN cell.ch ELSE ch
        BY <3>1 DEF Cells
      <4>3. Recolored(cell, bg, ch) = [cell EXCEPT !.bg = IF "bg" \in cell.special THEN @ ELSE bg,
                                                   !.ch = IF "ch" \in cell.special THEN @ ELSE ch]
        BY Zenon DEF Recolored
      <4>4. PICK new : new = Recolored(cell, bg, ch)
        OBVIOUS
      <4>5. new = [cell EXCEPT !.bg = b, !.ch = h]
        BY <4>1, <4>2, <4>3, <4>4 DEF Cells
      <4>6. new \in Cells
        BY <4>1, <4>2, <4>5 DEF Cells
      <4> QED
        BY <4>4, <4>6
    <3>3. rows \in [Row -> [Column -> Cells]]
      <4>1. \A r \in Row, c \in Column : s.cell[r][c] \in Cells
        BY <1>1
      <4> QED
        BY <3>2, <4>1
    <3>4. PICK t : t = changeColor(s, bg, ch)
      OBVIOUS
    <3>5. t = [s EXCEPT !.bg = bg, !.ch = ch, !.cell = rows]
      BY <2>1, <3>4, Zenon DEF changeColor
    <3> HIDE DEF rows
    <3>6. /\ t \in [bg : Int, ch : Int, row : 0 .. HEIGHT, column : 0 .. WIDTH,
                    baseRow : 0 .. HEIGHT, baseColumn : 0 .. WIDTH, cell : [Row -> [Column -> Cells]]]
          /\ t.row = s.row /\ t.column = s.column
      BY <1>1, <3>1, <3>3, <3>5
    <3> QED
      BY <1>1, <3>4, <3>6 DEF Screens
  <2>2. CASE ~({bg, ch} \subseteq Color)
    BY <2>2, Zenon DEF changeColor
  <2> QED
    BY <2>1, <2>2
<1> QED
  BY <1>2, <1>3, <1>4

\* The screen at the start is one.
LEMMA ClearedIs == ClearedScreen \in Screens
<1>1. /\ 0 \in 0 .. HEIGHT /\ 0 \in 0 .. WIDTH /\ BLACK \in Int /\ L_GRAY \in Int
  BY SizesAre DEF BLACK, L_GRAY
<1>2. PICK blank \in Cells : blank = Cell(" ", BLACK, L_GRAY, Plain)
  BY <1>1, GlyphIs DEF Cell, Plain, Cells
<1>3. PICK rows : rows = [r \in Row |-> [c \in Column |-> blank]]
  OBVIOUS
<1>4. rows \in [Row -> [Column -> Cells]]
  BY <1>3
<1>5. PICK t : t = ClearedScreen
  OBVIOUS
<1>6. t = [bg |-> BLACK, ch |-> L_GRAY, row |-> 0, column |-> 0, baseRow |-> 0, baseColumn |-> 0,
           cell |-> rows]
  BY <1>2, <1>3, <1>5, Zenon DEF ClearedScreen
<1>7. /\ t \in [bg : Int, ch : Int, row : 0 .. HEIGHT, column : 0 .. WIDTH,
                baseRow : 0 .. HEIGHT, baseColumn : 0 .. WIDTH, cell : [Row -> [Column -> Cells]]]
      /\ t.column = 0
  BY <1>1, <1>4, <1>6
<1> QED
  BY <1>5, <1>7 DEF Screens

\* A whole line fits on the rows that a scroll leaves: otherwise its beginning scrolls away
\* before its end is typed.
RoomForALine == LINE_DIM - 2 <= WIDTH * (HEIGHT - 1)

\* What stands on the screen and is told from a blank.
Letters == Char \ {BS, NL, NUL, SPACE}

\* The text stands behind the base, one character at a point, and the cursor behind the text.
Shows(s, text) ==
    /\ text \in Seq(Letters)
    /\ Cursor(s) = Base(s) + Len(text)
    /\ \A r \in Row, c \in Column : \A i \in 1 .. Len(text) :
         PointTo(r, c) = Base(s) + (i - 1) => s.cell[r][c].char = text[i]

\* A letter is not a space: backspace will not skip it.
LEMMA LetterIs == ASSUME NEW c \in Letters PROVE c \in Glyph /\ c # " " /\ c # BS /\ c # NL
BY DEF Letters, Char, Glyph, BS, NL, NUL, SPACE, NONE

\* The points of the cursor and of the base, as numbers.
LEMMA PointsAre ==
    ASSUME NEW s \in Screens
    PROVE  /\ s.row \in Nat /\ s.column \in Nat /\ s.baseRow \in Nat /\ s.baseColumn \in Nat
           /\ s.row <= HEIGHT /\ s.column <= WIDTH /\ s.baseColumn <= WIDTH
           /\ s.row = HEIGHT => s.column = 0
           /\ Cursor(s) = s.row * WIDTH + s.column /\ Cursor(s) \in Nat
           /\ Base(s) = s.baseRow * WIDTH + s.baseColumn /\ Base(s) \in Nat
<1>1. /\ s.row \in Nat /\ s.column \in Nat /\ s.baseRow \in Nat /\ s.baseColumn \in Nat
      /\ s.row <= HEIGHT /\ s.column <= WIDTH /\ s.baseColumn <= WIDTH
      /\ s.row = HEIGHT => s.column = 0
      /\ WIDTH \in Nat
  BY SizesAre DEF Screens
<1>2. s.row * WIDTH \in Nat /\ s.baseRow * WIDTH \in Nat
  BY <1>1
<1> QED
  BY <1>1, <1>2 DEF Cursor, Base, PointTo

\* A text stays behind its base when the cursor wraps.
LEMMA WrappedShows ==
    ASSUME NEW s \in Screens, NEW text, Shows(s, text)
    PROVE  Shows(Wrapped(s), text)
<1>1. PICK t \in Screens :
        /\ t = Wrapped(s)
        /\ t.baseRow = s.baseRow /\ t.baseColumn = s.baseColumn /\ t.cell = s.cell
        /\ t.row = IF s.column >= WIDTH THEN s.row + 1 ELSE s.row
        /\ t.column = IF s.column >= WIDTH THEN 0 ELSE s.column
  BY WrappedIs
<1>2. Base(t) = Base(s)
  BY <1>1 DEF Base
<1>3. Cursor(t) = Cursor(s)
  <2>1. PICK w \in Nat : w = WIDTH
    BY SizesAre
  <2>2. /\ Cursor(s) = s.row * w + s.column /\ Cursor(t) = t.row * w + t.column
        /\ s.row \in Nat /\ s.column \in Nat /\ s.column <= w
    BY <2>1, PointsAre
  <2>3. (s.row + 1) * w = s.row * w + w
    BY <2>1, <2>2
  <2> QED
    BY <1>1, <2>1, <2>2, <2>3
<1>4. Shows(t, text)
  BY <1>1, <1>2, <1>3 DEF Shows
<1> QED
  BY <1>1, <1>4

\* It stays when the screen scrolls, with its base: a base on the top row, which cannot follow, was behind
\* its last column, or the text would be too long.
LEMMA ScrollShows ==
    ASSUME RoomForALine, NEW s \in Screens, s.row = HEIGHT, NEW text, Shows(s, text),
           Len(text) <= LINE_DIM - 2
    PROVE  Shows(scrollUp(s, 1), text)
<1>1. PICK t \in Screens :
        /\ t = scrollUp(s, 1)
        /\ t.row = HEIGHT - 1 /\ t.column = 0
        /\ t.baseRow = IF s.baseRow >= 1 THEN s.baseRow - 1 ELSE 0
        /\ t.baseColumn = IF s.baseRow >= 1 THEN s.baseColumn ELSE 0
        /\ \A r \in Row, c \in Column : r < HEIGHT - 1 => t.cell[r][c] = s.cell[r + 1][c]
  BY ScrolledIs
<1>2. PICK w \in Nat \ {0}, h \in Nat : w = WIDTH /\ h + 1 = HEIGHT /\ h = HEIGHT - 1
  <2>1. HEIGHT - 1 \in Nat /\ (HEIGHT - 1) + 1 = HEIGHT
    BY SizesAre
  <2> QED
    BY <2>1, SizesAre
<1>3. PICK n \in Nat : n = Len(text)
  BY DEF Shows
<1>4. /\ Cursor(s) = (h + 1) * w /\ Cursor(t) = h * w
      /\ (h + 1) * w = h * w + w /\ h * w \in Nat
  <2>1. /\ Cursor(s) = s.row * w + s.column /\ Cursor(t) = t.row * w + t.column
        /\ s.row = h + 1 /\ s.column = 0 /\ t.row = h /\ t.column = 0
    BY <1>1, <1>2, PointsAre
  <2>2. (h + 1) * w = h * w + w /\ h * w \in Nat
    BY <1>2
  <2> QED
    BY <2>1, <2>2
<1>5. n <= w * h /\ w * h = h * w
  <2>1. n <= LINE_DIM - 2 /\ LINE_DIM - 2 <= w * h /\ LINE_DIM \in Nat
    BY <1>2, <1>3, LineAssumption DEF RoomForALine
  <2>2. w * h \in Nat /\ w * h = h * w
    BY <1>2
  <2> QED
    BY <1>3, <2>1, <2>2
<1>6. Base(s) = Base(t) + w
  <2>1. /\ Base(s) = s.baseRow * w + s.baseColumn /\ Base(t) = t.baseRow * w + t.baseColumn
        /\ s.baseRow \in Nat /\ s.baseColumn \in Nat /\ s.baseColumn <= w
        /\ Base(s) \in Nat /\ Cursor(s) = Base(s) + n
    BY <1>2, <1>3, PointsAre DEF Shows
  <2>2. CASE s.baseRow >= 1
    <3>1. PICK b \in Nat : s.baseRow = b + 1 /\ t.baseRow = b
      <4>1. s.baseRow - 1 \in Nat /\ s.baseRow = (s.baseRow - 1) + 1
        BY <2>1, <2>2
      <4> QED
        BY <1>1, <2>2, <4>1
    <3>2. (b + 1) * w = b * w + w /\ b * w \in Nat
      BY <1>2
    <3>3. t.baseColumn = s.baseColumn
      BY <1>1, <2>2
    <3> QED
      BY <2>1, <3>1, <3>2, <3>3
  <2>3. CASE ~(s.baseRow >= 1)
    <3>0. s.baseRow = 0
      BY <2>1, <2>3
    <3>1. s.baseRow = 0 /\ t.baseRow = 0 /\ t.baseColumn = 0
      BY <1>1, <2>3, <3>0
    <3>2. 0 * w = 0
      BY <1>2
    <3>3. Base(s) = s.baseColumn /\ Base(t) = 0
      BY <2>1, <3>1, <3>2
    <3> QED
      BY <1>3, <1>4, <1>5, <2>1, <3>3, SMTT(30)
  <2> QED
    BY <2>2, <2>3
<1>7. Base(t) \in Nat /\ Base(s) \in Nat
  BY PointsAre
<1>8. Cursor(t) = Base(t) + n
  <2>1. Cursor(s) = Base(s) + n
    BY <1>3 DEF Shows
  <2> QED
    BY <1>2, <1>3, <1>4, <1>6, <1>7, <2>1, SMTT(30)
<1>9. ASSUME NEW r \in Row, NEW c \in Column, NEW i \in 1 .. n,
             PointTo(r, c) = Base(t) + (i - 1)
      PROVE  t.cell[r][c].char = text[i]
  <2>1. r \in 0 .. h /\ c \in Nat
    BY <1>2, SizesAre
  <2>2. PointTo(r, c) = r * w + c /\ PointTo(r + 1, c) = (r + 1) * w + c
        /\ (r + 1) * w = r * w + w /\ r * w \in Nat
    BY <1>2, <2>1 DEF PointTo
  <2>3. r < h
    <3> SUFFICES ASSUME r = h PROVE FALSE
      BY <2>1
    <3>1. r * w = h * w
      OBVIOUS
    <3> QED
      BY <1>3, <1>4, <1>7, <1>8, <1>9, <2>1, <2>2, <3>1
  <2>4. r + 1 \in Row /\ r < HEIGHT - 1
    BY <1>2, <2>1, <2>3, SizesAre
  <2>5. PointTo(r + 1, c) = Base(s) + (i - 1)
    <3>1. PICK p \in Nat, x \in Nat, y \in Nat :
            /\ p = r * w /\ x = PointTo(r, c) /\ y = PointTo(r + 1, c)
            /\ x = p + c /\ y = (p + w) + c
      BY <1>2, <2>1, <2>2
    <3>2. PICK b \in Nat, j \in Int : b = Base(t) /\ j = i - 1
      BY <1>7
    <3>3. Base(s) = b + w /\ x = b + j
      BY <1>6, <1>9, <3>1, <3>2
    <3>4. y = (b + w) + j
      <4>1. PICK d \in Nat : d = c
        BY <2>1
      <4>2. x = p + d /\ y = (p + w) + d /\ x = b + j
        BY <3>1, <3>3, <4>1
      <4> HIDE <1>9
      <4>3. (p + w) + d = (p + d) + w /\ (b + j) + w = (b + w) + j
        OBVIOUS
      <4>4. y = x + w /\ (b + w) + j = x + w
        BY <4>2, <4>3
      <4> QED
        BY <4>4
    <3> QED
      BY <3>1, <3>2, <3>3, <3>4
  <2>6. s.cell[r + 1][c].char = text[i]
    BY <1>3, <2>4, <2>5 DEF Shows
  <2> QED
    BY <1>1, <2>4, <2>6
<1>10. Shows(t, text)
  BY <1>3, <1>8, <1>9 DEF Shows
<1> QED
  BY <1>1, <1>10

\* It stays when room is made for the next character.
LEMMA ScrolledShows ==
    ASSUME RoomForALine, NEW s \in Screens, NEW text, Shows(s, text), Len(text) <= LINE_DIM - 2
    PROVE  Shows(Scrolled(s), text)
<1>1. PICK w \in Screens : w = Wrapped(s) /\ Shows(w, text)
  BY WrappedIs, WrappedShows
<1>2. Scrolled(s) = IF w.row >= HEIGHT THEN scrollUp(w, 1) ELSE w
  BY <1>1 DEF Scrolled
<1>3. CASE w.row >= HEIGHT
  <2>1. w.row = HEIGHT
    BY <1>3, PointsAre, SizesAre
  <2>2. Shows(scrollUp(w, 1), text)
    BY <1>1, <2>1, ScrollShows
  <2> QED
    BY <1>2, <1>3, <2>2
<1>4. CASE ~(w.row >= HEIGHT)
  BY <1>1, <1>2, <1>4
<1> QED
  BY <1>3, <1>4

\* A letter is appended.
LEMMA WrittenShows ==
    ASSUME NEW s \in Screens, Roomy(s), NEW text, Shows(s, text), NEW char \in Letters,
           NEW format \in Format
    PROVE  LET t == Written(s, char, format) IN
           Shows(t, Append(text, char)) /\ t.row < HEIGHT
<1>1. char \in Glyph
  BY LetterIs
<1>2. PICK t \in Screens :
        /\ t = Written(s, char, format)
        /\ t.row = s.row /\ t.column = s.column + 1
        /\ t.baseRow = s.baseRow /\ t.baseColumn = s.baseColumn
        /\ s.row \in Row /\ s.column \in Column
        /\ t.cell[s.row][s.column].char = char
        /\ \A r \in Row, c \in Column : r # s.row \/ c # s.column => t.cell[r][c] = s.cell[r][c]
  BY <1>1, WrittenIs DEF Format
<1>3. PICK n \in Nat : n = Len(text)
  BY DEF Shows
<1>4. /\ text \in Seq(Letters) /\ Append(text, char) \in Seq(Letters)
      /\ Len(Append(text, char)) = n + 1
      /\ Append(text, char)[n + 1] = char
      /\ \A i \in 1 .. n : Append(text, char)[i] = text[i]
  BY <1>3 DEF Shows
<1>5. PICK b \in Nat : b = Base(s) /\ b = Base(t)
  BY <1>2, PointsAre DEF Base
<1>6. Cursor(s) = b + n /\ Cursor(t) = b + (n + 1)
  <2>1. Cursor(s) = b + n
    BY <1>3, <1>5 DEF Shows
  <2>2. PICK p \in Nat : p = s.row * WIDTH
    BY PointsAre, SizesAre
  <2>3. Cursor(s) = p + s.column /\ Cursor(t) = p + (s.column + 1) /\ s.column \in Nat
    BY <1>2, <2>2, PointsAre
  <2> QED
    BY <2>1, <2>3
<1>7. ASSUME NEW r \in Row, NEW c \in Column, NEW i \in 1 .. n + 1,
             PointTo(r, c) = Base(t) + (i - 1)
      PROVE  t.cell[r][c].char = Append(text, char)[i]
  <2>1. Cursor(s) = PointTo(s.row, s.column)
    BY DEF Cursor
  <2>2. CASE i = n + 1
    <3>1. PointTo(r, c) = PointTo(s.row, s.column)
      BY <1>5, <1>6, <1>7, <2>1, <2>2
    <3>2. r = s.row /\ c = s.column
      BY <1>2, <3>1, OnePoint
    <3> QED
      BY <1>2, <1>4, <2>2, <3>2
  <2>3. CASE i # n + 1
    <3>1. i \in 1 .. n
      BY <2>3
    <3>2. PointTo(r, c) # PointTo(s.row, s.column)
      BY <1>5, <1>6, <1>7, <2>1, <3>1
    <3>3. r # s.row \/ c # s.column
      BY <3>2
    <3>4. t.cell[r][c] = s.cell[r][c]
      BY <1>2, <3>3
    <3>5. s.cell[r][c].char = text[i]
      BY <1>3, <1>5, <1>7, <3>1 DEF Shows
    <3> QED
      BY <1>4, <3>1, <3>4, <3>5
  <2> QED
    BY <2>2, <2>3
<1>8. Shows(t, Append(text, char))
  BY <1>4, <1>5, <1>6, <1>7 DEF Shows
<1> QED
  BY <1>2, <1>8 DEF Roomy

\* A character is rubbed out, wherever the line is broken.
LEMMA ErasedShows ==
    ASSUME NEW s \in Screens, Roomy(s), NEW text, Shows(s, text)
    PROVE  /\ Shows(backspace(s), IF text = <<>> THEN text ELSE Front(text))
           /\ backspace(s).row < HEIGHT
<1>1. PICK n \in Nat : n = Len(text)
  BY DEF Shows
<1>2. PICK b \in Nat : b = Base(s) /\ Cursor(s) = b + n
  BY <1>1, PointsAre DEF Shows
<1>3. CASE text = <<>>
  <2>1. n = 0
    BY <1>1, <1>3
  <2>2. Cursor(s) <= Base(s)
    BY <1>2, <2>1
  <2>3. backspace(s) = s
    BY <2>2 DEF backspace
  <2> QED
    BY <1>3, <2>3 DEF Roomy
<1>4. CASE text # <<>>
  <2>1. text \in Seq(Letters) /\ n # 0
    BY <1>1, <1>4 DEF Shows
  <2>2. Cursor(s) > Base(s)
    BY <1>2, <2>1
  <2>3. PICK t \in Screens :
          /\ t = backspace(s) /\ Roomy(t) /\ t.row \in Row /\ t.column \in Column
          /\ t.baseRow = s.baseRow /\ t.baseColumn = s.baseColumn
          /\ IF s.column > 0 THEN t.row = s.row /\ t.column = s.column - 1
             ELSE s.row > 0 /\ t.row = s.row - 1 /\ t.column = Spaces(s, s.row - 1)
          /\ \A r \in Row, c \in Column : r # t.row \/ c # t.column => t.cell[r][c] = s.cell[r][c]
    BY <2>2, ErasedIs
  <2>4. b = Base(t)
    BY <1>2, <2>3 DEF Base
  <2>5. PICK m \in Nat : n = m + 1
    <3>1. n - 1 \in Nat /\ n = (n - 1) + 1
      BY <2>1
    <3> QED
      BY <3>1
  <2>6. PICK f \in Seq(Letters) :
          f = Front(text) /\ Len(f) = m /\ \A i \in 1 .. m : f[i] = text[i]
    <3>1. Front(text) = [i \in 1 .. m |-> text[i]]
      BY <1>1, <2>1, <2>5 DEF Front
    <3>2. \A i \in 1 .. m : text[i] \in Letters
      <4>1. \A i \in 1 .. m : i \in 1 .. Len(text)
        BY <1>1, <2>5
      <4> QED
        BY <2>1, <4>1
    <3> QED
      BY <3>1, <3>2
  <2>7. Cursor(t) = b + m
    <3>1. PICK w \in Nat \ {0} : w = WIDTH
      BY SizesAre
    <3>2. /\ Cursor(s) = s.row * w + s.column /\ Cursor(t) = t.row * w + t.column
          /\ s.row \in Nat /\ s.column \in Nat /\ t.row \in Nat /\ t.column \in Nat
      BY <3>1, PointsAre
    <3>3. s.row * w \in Nat /\ t.row * w \in Nat
      BY <3>1, <3>2, SMTT(30)
    <3>4. CASE s.column > 0
      <4>1. t.row = s.row /\ t.column = s.column - 1
        BY <2>3, <3>4
      <4>2. t.row * w = s.row * w
        BY <4>1
      <4> QED
        <5>1. PICK x \in Nat, k \in Nat : x = s.row * w /\ x = t.row * w /\ k = t.column
          BY <3>2, <3>3, <4>2
        <5>2. Cursor(s) = x + (k + 1) /\ Cursor(t) = x + k
          <6>1. s.column = k + 1
            BY <3>2, <4>1, <5>1
          <6> QED
            BY <3>2, <5>1, <6>1
        <5>3. x + (k + 1) = b + (m + 1)
          BY <1>2, <2>5, <5>2
        <5>4. x + k = b + m
          BY <5>3
        <5> QED
          BY <5>2, <5>4
    <3>5. CASE ~(s.column > 0)
      <4>1. s.column = 0
        BY <3>2, <3>5
      <4>2. s.row > 0 /\ t.row = s.row - 1 /\ t.column = Spaces(s, s.row - 1)
        BY <2>3, <3>5
      <4>3. s.row = t.row + 1 /\ s.row * w = t.row * w + w
        <5>1. s.row = t.row + 1
          BY <3>2, <4>2
        <5>2. (t.row + 1) * w = t.row * w + w
          BY <3>1, <3>2
        <5> QED
          BY <5>1, <5>2
      <4>4. s.row - 1 \in Row /\ WIDTH - 1 \in Column
        BY <2>3, <4>2, SizesAre
      <4>5. PointTo(s.row - 1, WIDTH - 1) = Base(s) + (n - 1)
        <5>1. PointTo(s.row - 1, WIDTH - 1) = t.row * w + (w - 1)
          BY <3>1, <4>2 DEF PointTo
        <5>2. t.row * w + w = b + n
          BY <1>2, <3>2, <3>3, <4>1, <4>3
        <5> QED
          BY <1>2, <3>1, <3>3, <5>1, <5>2, SMTT(30)
      <4>6. s.cell[s.row - 1][WIDTH - 1].char = text[n]
        BY <1>1, <2>1, <4>4, <4>5 DEF Shows
      <4>7. text[n] \in Letters
        BY <1>1, <2>1
      <4>8. s.cell[s.row - 1][WIDTH - 1].char # " "
        BY <4>6, <4>7, LetterIs
      <4>9. t.column = WIDTH - 1
        BY <4>2, <4>4, <4>8, SpacesIs
      <4> HIDE <1>4
      <4> QED
        <5>1. PICK x \in Nat : x = t.row * w /\ s.row * w = x + w
          BY <3>3, <4>3
        <5>2. Cursor(s) = x + w /\ Cursor(t) = x + (w - 1)
          BY <3>1, <3>2, <4>1, <4>9, <5>1
        <5>3. x + w = b + (m + 1)
          BY <1>2, <2>5, <5>2
        <5>4. x + (w - 1) = b + m
          BY <5>3
        <5> QED
          BY <5>2, <5>4
    <3> QED
      BY <3>4, <3>5
  <2>8. ASSUME NEW r \in Row, NEW c \in Column, NEW i \in 1 .. m,
               PointTo(r, c) = Base(t) + (i - 1)
        PROVE  t.cell[r][c].char = f[i]
    <3>1. Cursor(t) = PointTo(t.row, t.column)
      BY DEF Cursor
    <3>2. PointTo(r, c) # PointTo(t.row, t.column)
      BY <2>4, <2>7, <2>8, <3>1
    <3>3. t.cell[r][c] = s.cell[r][c]
      BY <2>3, <3>2
    <3>4. i \in 1 .. Len(text) /\ PointTo(r, c) = Base(s) + (i - 1)
      BY <1>1, <1>2, <2>4, <2>5, <2>8
    <3>5. s.cell[r][c].char = text[i]
      BY <3>4 DEF Shows
    <3> QED
      BY <2>6, <3>3, <3>5
  <2>9. Shows(t, f)
    BY <2>4, <2>6, <2>7, <2>8 DEF Shows
  <2> QED
    BY <1>4, <2>3, <2>6, <2>9 DEF Roomy
<1> QED
  BY <1>3, <1>4

\* What stands between the base and the cursor is that text.
LEMMA ShownText ==
    ASSUME NEW s \in Screens, s.row < HEIGHT, NEW text, Shows(s, text)
    PROVE  TextAfterBase(s) = text
<1>1. PICK n \in Nat : n = Len(text)
  BY DEF Shows
<1>2. PICK b \in Nat : b = Base(s) /\ Cursor(s) = b + n
  BY <1>1, PointsAre DEF Shows
<1>3. PICK w \in Nat \ {0}, h \in Nat : w = WIDTH /\ h = HEIGHT
  BY SizesAre
<1>4. ASSUME NEW i \in 1 .. n
      PROVE  s.cell[(b + i - 1) \div w][(b + i - 1) % w].char = text[i]
  <2>1. PICK p \in Nat : p = b + i - 1 /\ p = b + (i - 1) /\ p < b + n
    <3>1. b + i - 1 \in Nat /\ b + i - 1 = b + (i - 1) /\ b + i - 1 < b + n
      OBVIOUS
    <3> QED
      BY <3>1
  <2>2. PICK r \in Nat, c \in Nat : r = p \div w /\ c = p % w /\ c < w /\ p = w * r + c
    <3>1. p \div w \in Nat /\ p % w \in 0 .. w - 1 /\ p = w * (p \div w) + (p % w)
      OBVIOUS
    <3> QED
      BY <3>1
  <2>3. w * r = r * w /\ r * w \in Nat
    OBVIOUS
  <2>4. r < h
    <3> SUFFICES ASSUME ~(r < h) PROVE FALSE
      OBVIOUS
    <3>1. PICK d \in Nat : r = h + d
      <4>1. r - h \in Nat /\ r = h + (r - h)
        BY <1>3
      <4> QED
        BY <4>1
    <3>2. r * w = h * w + d * w /\ d * w \in Nat /\ h * w \in Nat
      BY <3>1
    <3>3. s.row \in Nat /\ s.column \in Nat /\ s.column <= w /\ s.row < h
          /\ Cursor(s) = s.row * w + s.column
      BY <1>3, PointsAre
    <3>4. PICK e \in Nat : h = s.row + 1 + e
      <4>1. h - s.row - 1 \in Nat /\ h = s.row + 1 + (h - s.row - 1)
        BY <3>3
      <4> QED
        BY <4>1
    <3>5. h * w = s.row * w + w + e * w /\ e * w \in Nat /\ s.row * w \in Nat
      BY <3>3, <3>4
    <3>6. PICK x, y, z, u \in Nat : x = r * w /\ y = s.row * w /\ z = d * w /\ u = e * w
      BY <2>3, <3>2, <3>5
    <3>7. x = (y + w + u) + z
      BY <3>2, <3>5, <3>6
    <3>8. PICK k \in Nat : k = s.column /\ k <= w /\ b + n = y + k
      BY <1>2, <3>3, <3>6
    <3>9. p = x + c
      BY <2>2, <2>3, <3>6
    <3> QED
      BY <2>1, <3>7, <3>8, <3>9
  <2>5. r \in Row /\ c \in Column
    BY <1>3, <2>2, <2>4, SizesAre
  <2>6. PointTo(r, c) = Base(s) + (i - 1)
    BY <1>2, <1>3, <2>1, <2>2, <2>3 DEF PointTo
  <2> QED
    BY <1>1, <2>1, <2>2, <2>5, <2>6 DEF Shows
<1>5. TextAfterBase(s) = [i \in 1 .. Cursor(s) - Base(s) |->
                            s.cell[(Base(s) + i - 1) \div WIDTH][(Base(s) + i - 1) % WIDTH].char]
  BY Zenon DEF TextAfterBase
<1>6. Cursor(s) - Base(s) = n
  BY <1>2
<1>7. TextAfterBase(s) = [i \in 1 .. n |-> s.cell[(b + i - 1) \div w][(b + i - 1) % w].char]
  BY <1>2, <1>3, <1>5, <1>6
<1>8. text = [i \in 1 .. n |-> text[i]]
  BY <1>1 DEF Shows
<1> QED
  BY <1>4, <1>7, <1>8, Zenon

(* Three loops over a string, each a fold that is shown turn by turn.      *)

\* printToScreen: one printChar after the other.
PrintTurns(turn, n, s, string, format) ==
    /\ turn \in [0 .. n -> Screens] /\ turn[0] = s
    /\ \A i \in 1 .. n : turn[i] = printChar(turn[i - 1], string[i], format)
    /\ printToScreen(s, string, format) = turn[n]

LEMMA PrintsInTurns ==
    ASSUME NEW n \in Nat, NEW string, DOMAIN string = 1 .. n, \A i \in 1 .. n : string[i] \in Glyph,
           NEW s \in Screens, NEW format \in Format
    PROVE  \E turn : PrintTurns(turn, n, s, string, format)
<1> DEFINE step == [i \in 1 .. n |-> [v \in Screens |-> printChar(v, string[i], format)]]
           Turn(it) == [T \in SUBSET DOMAIN string |->
                          IF T = {} THEN s
                          ELSE printChar(it[T \ {Max(T)}], string[Max(T)], format)]
           g == CHOOSE it : it = Turn(it)
<1>1. \A v \in Screens : \A c \in Glyph : printChar(v, c, format) \in Screens
  BY PrintCharKeeps
<1>2. s \in Screens
  OBVIOUS
<1>3. step \in [1 .. n -> [Screens -> Screens]]
  <2>1. \A i \in 1 .. n : [v \in Screens |-> printChar(v, string[i], format)] \in [Screens -> Screens]
    BY <1>1, Zenon
  <2> QED
    BY <2>1, Zenon
<1>4. PICK V : V = Screens
  OBVIOUS
<1>5. \E it : Folding(it, n, V, s, step)
  <2> HIDE DEF step
  <2> QED
    BY <1>2, <1>3, <1>4, FoldExists
<1>6. \A T \in SUBSET (1 .. n) : T # {} => Max(T) \in 1 .. n
  BY MaxOfFirst
<1>7. \A i \in 1 .. n : \A v \in V : step[i][v] = printChar(v, string[i], format)
  BY <1>4, Zenon
<1>8. \E it : it = Turn(it)
  <2>1. PICK it : Folding(it, n, V, s, step)
    BY <1>5
  <2> HIDE DEF step
  <2>2. it \in [SUBSET (1 .. n) -> V]
    BY <2>1 DEF Folding
  <2>3. \A T \in SUBSET (1 .. n) :
          it[T] = IF T = {} THEN s ELSE printChar(it[T \ {Max(T)}], string[Max(T)], format)
    <3> TAKE T \in SUBSET (1 .. n)
    <3>1. it[T] = IF T = {} THEN s ELSE step[Max(T)][it[T \ {Max(T)}]]
      BY <2>1, Zenon DEF Folding
    <3>2. it[T \ {Max(T)}] \in V
      BY <2>2
    <3>3. T # {} => step[Max(T)][it[T \ {Max(T)}]] = printChar(it[T \ {Max(T)}], string[Max(T)], format)
      BY <1>6, <1>7, <3>2, Zenon
    <3> QED
      BY <3>1, <3>3, Zenon
  <2>4. it = Turn(it)
    BY <2>2, <2>3, Zenon
  <2> QED
    BY <2>4
<1>9. g = Turn(g)
  <2> HIDE DEF Turn
  <2> QED
    BY <1>8, Zenon
<1>10. printToScreen(s, string, format) = g[DOMAIN string]
  BY Zenon DEF printToScreen, FoldLeft, MapThenFoldSet
<1> HIDE DEF g
<1>11. \A T \in SUBSET (1 .. n) :
         g[T] = IF T = {} THEN s ELSE printChar(g[T \ {Max(T)}], string[Max(T)], format)
  BY <1>9, Zenon
<1>12. Stepping(g, n, V, s, step)
  <2>1. g[{}] = s
    BY <1>11
  <2>2. ASSUME NEW T \in SUBSET (1 .. n), T # {}, g[T \ {Max(T)}] \in V
        PROVE  g[T] = step[Max(T)][g[T \ {Max(T)}]]
    <3>1. Max(T) \in 1 .. n
      BY <1>6, <2>2
    <3>2. step[Max(T)][g[T \ {Max(T)}]] = printChar(g[T \ {Max(T)}], string[Max(T)], format)
      BY <1>7, <2>2, <3>1, Zenon
    <3> QED
      BY <1>11, <2>2, <3>2, Zenon
  <2> QED
    BY <2>1, <2>2 DEF Stepping
<1>13. Turns(g, n, V, s, step)
  <2> HIDE DEF step
  <2> QED
    BY <1>2, <1>3, <1>4, <1>12, FoldChain
<1> DEFINE turn == [i \in 0 .. n |-> g[1 .. i]]
<1>14. turn \in [0 .. n -> Screens] /\ turn[0] = s /\ printToScreen(s, string, format) = turn[n]
  <2>1. \A i \in 0 .. n : g[1 .. i] \in Screens
    BY <1>4, <1>13 DEF Turns
  <2>2. 0 \in 0 .. n /\ n \in 0 .. n
    OBVIOUS
  <2>3. g[1 .. 0] = s
    BY <1>13 DEF Turns
  <2> QED
    BY <1>10, <2>1, <2>2, <2>3, Zenon
<1>15. ASSUME NEW i \in 1 .. n PROVE turn[i] = printChar(turn[i - 1], string[i], format)
  <2>1. i \in 0 .. n /\ i - 1 \in 0 .. n
    OBVIOUS
  <2>2. g[1 .. i - 1] \in V /\ g[1 .. i] = step[i][g[1 .. i - 1]]
    BY <1>13, <2>1, Zenon DEF Turns
  <2>3. g[1 .. i] = printChar(g[1 .. i - 1], string[i], format)
    BY <1>7, <2>2, Zenon
  <2> QED
    BY <2>1, <2>3, Zenon
<1> HIDE DEF turn
<1>16. PrintTurns(turn, n, s, string, format)
  BY <1>14, <1>15, Zenon DEF PrintTurns
<1> QED
  BY <1>16

\* A character more, or one rubbed out.
LEMMA RubbedKeeps ==
    ASSUME NEW text \in Seq(Char), NEW char \in Char
    PROVE  /\ Rubbed(text, char) \in Seq(Char)
           /\ Len(Rubbed(text, char)) <= Len(text) + 1
<1>1. CASE char # BS
  BY <1>1 DEF Rubbed
<1>2. CASE char = BS /\ text = <<>>
  BY <1>2 DEF Rubbed
<1>3. CASE char = BS /\ text # <<>>
  <2>1. PICK m \in Nat : Len(text) = m + 1
    <3>1. Len(text) - 1 \in Nat /\ Len(text) = (Len(text) - 1) + 1
      BY <1>3
    <3> QED
      BY <3>1
  <2>2. Front(text) = [i \in 1 .. m |-> text[i]]
    BY <2>1 DEF Front
  <2>3. \A i \in 1 .. m : i \in 1 .. Len(text)
    BY <2>1
  <2>4. \A i \in 1 .. m : text[i] \in Char
    BY <2>3
  <2>5. Front(text) \in Seq(Char) /\ Len(Front(text)) = m
    BY <2>2, <2>4
  <2>6. Rubbed(text, char) = Front(text)
    BY <1>3 DEF Rubbed
  <2> QED
    BY <2>1, <2>5, <2>6
<1> QED
  BY <1>1, <1>2, <1>3

\* removeBackspaces: one character after the other.
RubTurns(turn, n, string) ==
    /\ turn \in [0 .. n -> Seq(Char)] /\ turn[0] = <<>>
    /\ \A i \in 1 .. n : turn[i] = Rubbed(turn[i - 1], string[i])
    /\ Remaining(string) = turn[n]

LEMMA RubsInTurns ==
    ASSUME NEW n \in Nat, NEW string, DOMAIN string = 1 .. n, \A i \in 1 .. n : string[i] \in Char,
           TRUE
    PROVE  \E turn : RubTurns(turn, n, string)
<1> DEFINE step == [i \in 1 .. n |-> [v \in Seq(Char) |-> Rubbed(v, string[i])]]
           Turn(it) == [T \in SUBSET DOMAIN string |->
                          IF T = {} THEN <<>>
                          ELSE Rubbed(it[T \ {Max(T)}], string[Max(T)])]
           g == CHOOSE it : it = Turn(it)
<1>1. \A v \in Seq(Char) : \A c \in Char : Rubbed(v, c) \in Seq(Char)
  BY RubbedKeeps
<1>2. <<>> \in Seq(Char)
  OBVIOUS
<1>3. step \in [1 .. n -> [Seq(Char) -> Seq(Char)]]
  <2>1. \A i \in 1 .. n : [v \in Seq(Char) |-> Rubbed(v, string[i])] \in [Seq(Char) -> Seq(Char)]
    BY <1>1, Zenon
  <2> QED
    BY <2>1, Zenon
<1>4. PICK V : V = Seq(Char)
  OBVIOUS
<1>5. \E it : Folding(it, n, V, <<>>, step)
  <2> HIDE DEF step
  <2> QED
    BY <1>2, <1>3, <1>4, FoldExists
<1>6. \A T \in SUBSET (1 .. n) : T # {} => Max(T) \in 1 .. n
  BY MaxOfFirst
<1>7. \A i \in 1 .. n : \A v \in V : step[i][v] = Rubbed(v, string[i])
  BY <1>4, Zenon
<1>8. \E it : it = Turn(it)
  <2>1. PICK it : Folding(it, n, V, <<>>, step)
    BY <1>5
  <2> HIDE DEF step
  <2>2. it \in [SUBSET (1 .. n) -> V]
    BY <2>1 DEF Folding
  <2>3. \A T \in SUBSET (1 .. n) :
          it[T] = IF T = {} THEN <<>> ELSE Rubbed(it[T \ {Max(T)}], string[Max(T)])
    <3> TAKE T \in SUBSET (1 .. n)
    <3>1. it[T] = IF T = {} THEN <<>> ELSE step[Max(T)][it[T \ {Max(T)}]]
      BY <2>1, Zenon DEF Folding
    <3>2. it[T \ {Max(T)}] \in V
      BY <2>2
    <3>3. T # {} => step[Max(T)][it[T \ {Max(T)}]] = Rubbed(it[T \ {Max(T)}], string[Max(T)])
      BY <1>6, <1>7, <3>2, Zenon
    <3> QED
      BY <3>1, <3>3, Zenon
  <2>4. it = Turn(it)
    BY <2>2, <2>3, Zenon
  <2> QED
    BY <2>4
<1>9. g = Turn(g)
  <2> HIDE DEF Turn
  <2> QED
    BY <1>8, Zenon
<1>10. Remaining(string) = g[DOMAIN string]
  BY Zenon DEF Remaining, FoldLeft, MapThenFoldSet
<1> HIDE DEF g
<1>11. \A T \in SUBSET (1 .. n) :
         g[T] = IF T = {} THEN <<>> ELSE Rubbed(g[T \ {Max(T)}], string[Max(T)])
  BY <1>9, Zenon
<1>12. Stepping(g, n, V, <<>>, step)
  <2>1. g[{}] = <<>>
    BY <1>11
  <2>2. ASSUME NEW T \in SUBSET (1 .. n), T # {}, g[T \ {Max(T)}] \in V
        PROVE  g[T] = step[Max(T)][g[T \ {Max(T)}]]
    <3>1. Max(T) \in 1 .. n
      BY <1>6, <2>2
    <3>2. step[Max(T)][g[T \ {Max(T)}]] = Rubbed(g[T \ {Max(T)}], string[Max(T)])
      BY <1>7, <2>2, <3>1, Zenon
    <3> QED
      BY <1>11, <2>2, <3>2, Zenon
  <2> QED
    BY <2>1, <2>2 DEF Stepping
<1>13. Turns(g, n, V, <<>>, step)
  <2> HIDE DEF step
  <2> QED
    BY <1>2, <1>3, <1>4, <1>12, FoldChain
<1> DEFINE turn == [i \in 0 .. n |-> g[1 .. i]]
<1>14. turn \in [0 .. n -> Seq(Char)] /\ turn[0] = <<>> /\ Remaining(string) = turn[n]
  <2>1. \A i \in 0 .. n : g[1 .. i] \in Seq(Char)
    BY <1>4, <1>13 DEF Turns
  <2>2. 0 \in 0 .. n /\ n \in 0 .. n
    OBVIOUS
  <2>3. g[1 .. 0] = <<>>
    BY <1>13 DEF Turns
  <2> QED
    BY <1>10, <2>1, <2>2, <2>3, Zenon
<1>15. ASSUME NEW i \in 1 .. n PROVE turn[i] = Rubbed(turn[i - 1], string[i])
  <2>1. i \in 0 .. n /\ i - 1 \in 0 .. n
    OBVIOUS
  <2>2. g[1 .. i - 1] \in V /\ g[1 .. i] = step[i][g[1 .. i - 1]]
    BY <1>13, <2>1, Zenon DEF Turns
  <2>3. g[1 .. i] = Rubbed(g[1 .. i - 1], string[i])
    BY <1>7, <2>2, Zenon
  <2> QED
    BY <2>1, <2>3, Zenon
<1> HIDE DEF turn
<1>16. RubTurns(turn, n, string)
  BY <1>14, <1>15, Zenon DEF RubTurns
<1> QED
  BY <1>16

\* A string leaves a screen; of one character, the screen of printChar.
LEMMA PrintKeeps ==
    ASSUME NEW n \in Nat, NEW string, DOMAIN string = 1 .. n, \A i \in 1 .. n : string[i] \in Glyph,
           NEW s \in Screens, NEW format \in Format
    PROVE  /\ printToScreen(s, string, format) \in Screens
           /\ n = 0 => printToScreen(s, string, format) = s
           /\ n = 1 => printToScreen(s, string, format) = printChar(s, string[1], format)
<1>1. PICK turn : PrintTurns(turn, n, s, string, format)
  BY PrintsInTurns
<1>2. /\ turn \in [0 .. n -> Screens] /\ turn[0] = s
      /\ \A i \in 1 .. n : turn[i] = printChar(turn[i - 1], string[i], format)
      /\ printToScreen(s, string, format) = turn[n]
  BY <1>1 DEF PrintTurns
<1>3. n \in 0 .. n /\ (n = 1 => 1 \in 1 .. n /\ 1 - 1 = 0)
  OBVIOUS
<1> QED
  BY <1>2, <1>3

\* What remains of a string is not longer.
LEMMA RemainingIs ==
    ASSUME NEW n \in Nat, NEW string, DOMAIN string = 1 .. n, \A i \in 1 .. n : string[i] \in Char
    PROVE  Remaining(string) \in Seq(Char) /\ Len(Remaining(string)) \in 0 .. n
<1>1. PICK turn : RubTurns(turn, n, string)
  BY RubsInTurns
<1>2. /\ turn \in [0 .. n -> Seq(Char)] /\ turn[0] = <<>>
      /\ \A i \in 1 .. n : turn[i] = Rubbed(turn[i - 1], string[i])
      /\ Remaining(string) = turn[n]
  BY <1>1 DEF RubTurns
<1> DEFINE S == {i \in 0 .. n : Len(turn[i]) <= i}
<1>3. 0 \in S
  BY <1>2
<1>4. ASSUME NEW m \in 0 .. n - 1, m \in S PROVE m + 1 \in S
  <2>1. m + 1 \in 1 .. n /\ m + 1 \in 0 .. n /\ m \in 0 .. n /\ (m + 1) - 1 = m
    OBVIOUS
  <2>2. turn[m + 1] = Rubbed(turn[m], string[m + 1]) /\ turn[m] \in Seq(Char)
        /\ string[m + 1] \in Char
    BY <1>2, <2>1
  <2>3. Len(turn[m + 1]) <= Len(turn[m]) + 1 /\ turn[m + 1] \in Seq(Char)
    BY <1>2, <2>1, <2>2, RubbedKeeps
  <2>4. Len(turn[m + 1]) <= m + 1
    <3>1. Len(turn[m]) <= m /\ Len(turn[m]) \in Nat /\ Len(turn[m + 1]) \in Nat
      BY <1>4, <2>2, <2>3
    <3> QED
      BY <2>3, <3>1
  <2> QED
    BY <2>1, <2>4
<1>5. S = 0 .. n
  <2>1. S \in SUBSET (0 .. n)
    OBVIOUS
  <2> HIDE DEF S
  <2> QED
    BY <1>3, <1>4, <2>1, UpTo
<1>6. n \in 0 .. n
  OBVIOUS
<1>7. Remaining(string) \in Seq(Char) /\ Len(Remaining(string)) <= n
  BY <1>2, <1>5, <1>6
<1> QED
  BY <1>7

\* What remains of a string, from any record of its turns.
LEMMA RemainingFrom ==
    ASSUME NEW n \in Nat, NEW string, DOMAIN string = 1 .. n, \A i \in 1 .. n : string[i] \in Char,
           NEW turn, DOMAIN turn = 0 .. n, turn[0] = <<>>,
           \A i \in 1 .. n : turn[i] = Rubbed(turn[i - 1], string[i])
    PROVE  Remaining(string) = turn[n]
<1>1. PICK other : RubTurns(other, n, string)
  BY RubsInTurns
<1>2. /\ other[0] = <<>>
      /\ \A i \in 1 .. n : other[i] = Rubbed(other[i - 1], string[i])
      /\ Remaining(string) = other[n]
  BY <1>1, Zenon DEF RubTurns
<1> DEFINE S == {i \in 0 .. n : other[i] = turn[i]}
<1>3. 0 \in S
  BY <1>2
<1>4. ASSUME NEW m \in 0 .. n - 1, m \in S PROVE m + 1 \in S
  <2>1. m + 1 \in 1 .. n /\ m + 1 \in 0 .. n /\ (m + 1) - 1 = m
    OBVIOUS
  <2>2. other[m + 1] = Rubbed(other[m], string[m + 1]) /\ turn[m + 1] = Rubbed(turn[m], string[m + 1])
    BY <1>2, <2>1
  <2> QED
    BY <1>4, <2>1, <2>2
<1>5. S = 0 .. n
  <2>1. S \in SUBSET (0 .. n)
    OBVIOUS
  <2> HIDE DEF S
  <2> QED
    BY <1>3, <1>4, <2>1, UpTo
<1>6. n \in 0 .. n
  OBVIOUS
<1> QED
  BY <1>2, <1>5, <1>6

\* The buffer of the shell: its last place ends it.
Buffer(b) == b \in [0 .. LINE_DIM - 1 -> Char] /\ b[LINE_DIM - 1] = NUL

\* A string ends at the first NUL from its place on.
LEMMA StringAtIs ==
    ASSUME NEW b, Buffer(b), NEW from \in 0 .. LINE_DIM - 1
    PROVE  \E e \in from .. LINE_DIM - 1 :
             /\ b[e] = NUL /\ \A i \in from .. e - 1 : b[i] # NUL
             /\ StringAt(b, from) = [i \in 1 .. e - from |-> b[from + i - 1]]
<1> DEFINE Ends(e) == (e = LINE_DIM \/ b[e] = NUL) /\ \A i \in from .. e - 1 : b[i] # NUL
           end == CHOOSE e \in from .. LINE_DIM : Ends(e)
           S == {e \in from .. LINE_DIM : b[e] = NUL}
<1>1. LINE_DIM \in Nat /\ LINE_DIM >= 2 /\ from \in Nat
  BY LineAssumption
<1>2. LINE_DIM - 1 \in S
  BY <1>1 DEF Buffer
<1>3. PICK x \in S : \A y \in S : x <= y
  <2>1. S \in SUBSET Nat
    BY <1>1
  <2> HIDE DEF S
  <2> QED
    BY <1>2, <2>1, LeastNatural
<1>4. x \in from .. LINE_DIM /\ b[x] = NUL /\ x \in Nat
  BY <1>1, <1>3
<1>5. ASSUME NEW i \in from .. x - 1 PROVE b[i] # NUL
  <2>1. i \in from .. LINE_DIM /\ ~(x <= i)
    BY <1>1, <1>4
  <2>2. i \notin S
    BY <1>3, <2>1
  <2> QED
    BY <2>1, <2>2
<1>6. Ends(x)
  BY <1>4, <1>5
<1>7. end \in from .. LINE_DIM /\ Ends(end)
  <2> HIDE DEF Ends
  <2> QED
    BY <1>4, <1>6
<1>8. StringAt(b, from) = [i \in 1 .. end - from |-> b[from + i - 1]]
  BY Zenon DEF StringAt
<1> HIDE DEF end
<1>9. end # LINE_DIM
  <2> SUFFICES ASSUME end = LINE_DIM PROVE FALSE
    OBVIOUS
  <2>1. LINE_DIM - 1 \in from .. end - 1
    BY <1>1
  <2>2. b[LINE_DIM - 1] # NUL
    BY <1>7, <2>1
  <2> QED
    BY <2>2 DEF Buffer
<1>10. end \in from .. LINE_DIM - 1
  <2> HIDE DEF Ends
  <2> QED
    BY <1>1, <1>7, <1>9
<1> QED
  BY <1>7, <1>8, <1>9, <1>10

\* Its characters are those of the buffer.
LEMMA StringType ==
    ASSUME NEW b, Buffer(b), NEW from \in 0 .. LINE_DIM - 1
    PROVE  \E n \in 0 .. LINE_DIM - 1 :
             /\ DOMAIN StringAt(b, from) = 1 .. n
             /\ \A i \in 1 .. n : StringAt(b, from)[i] \in Char
<1>1. PICK e \in from .. LINE_DIM - 1 :
             StringAt(b, from) = [i \in 1 .. e - from |-> b[from + i - 1]]
  BY StringAtIs, ZenonT(30)
<1>2. LINE_DIM \in Nat
  BY LineAssumption
<1>3. e - from \in 0 .. LINE_DIM - 1
  BY <1>2
<1>4. \A i \in 1 .. e - from : from + i - 1 \in 0 .. LINE_DIM - 1
  BY <1>2
<1>5. \A i \in 1 .. e - from : StringAt(b, from)[i] \in Char
  BY <1>1, <1>4 DEF Buffer
<1> QED
  BY <1>1, <1>3, <1>5

\* removeBackspaces leaves a buffer.
LEMMA CleanedBuffer ==
    ASSUME NEW b, Buffer(b)
    PROVE  /\ Buffer(removeBackspaces(b))
           /\ Len(Remaining(StringAt(b, 0))) \in 0 .. LINE_DIM - 1
<1>1. LINE_DIM \in Nat /\ LINE_DIM >= 2 /\ 0 \in 0 .. LINE_DIM - 1
  BY LineAssumption
<1>2. PICK n \in 0 .. LINE_DIM - 1 :
             /\ DOMAIN StringAt(b, 0) = 1 .. n
             /\ \A i \in 1 .. n : StringAt(b, 0)[i] \in Char
  BY <1>1, StringType
<1>3. PICK text : text = Remaining(StringAt(b, 0))
  OBVIOUS
<1>4. text \in Seq(Char) /\ Len(text) \in 0 .. n
  <2>1. n \in Nat
    OBVIOUS
  <2> QED
    BY <1>2, <1>3, <2>1, RemainingIs
<1>5. PICK l \in 0 .. LINE_DIM - 1 : l = Len(text)
  BY <1>1, <1>4
<1>6. DOMAIN b = 0 .. LINE_DIM - 1
  BY DEF Buffer
<1>7. removeBackspaces(b) = [i \in 0 .. LINE_DIM - 1 |-> CASE i < l -> text[i + 1]
                                                         [] i = l -> NUL
                                                         [] OTHER -> b[i]]
  <2>1. removeBackspaces(b) = [i \in DOMAIN b |-> CASE i < Len(text) -> text[i + 1]
                                                    [] i = Len(text) -> NUL
                                                    [] OTHER -> b[i]]
    <3> DEFINE rest == Remaining(StringAt(b, 0))
    <3>1. removeBackspaces(b) = [i \in DOMAIN b |-> CASE i < Len(rest) -> rest[i + 1]
                                                      [] i = Len(rest) -> NUL
                                                      [] OTHER -> b[i]]
      BY DEF removeBackspaces
    <3>2. text = rest
      BY <1>3
    <3> HIDE DEF rest
    <3> QED
      BY <3>1, <3>2
  <2> QED
    BY <1>5, <1>6, <2>1
<1>8. ASSUME NEW i \in 0 .. LINE_DIM - 1
      PROVE  (CASE i < l -> text[i + 1] [] i = l -> NUL [] OTHER -> b[i]) \in Char
  <2>1. CASE i < l
    <3>1. i + 1 \in 1 .. Len(text)
      BY <1>1, <1>5, <2>1
    <3>2. text[i + 1] \in Char /\ i # l
      BY <1>1, <1>4, <2>1, <3>1
    <3> QED
      BY <2>1, <3>2
  <2>2. CASE i = l
    <3>1. ~(i < l) /\ NUL \in Char
      BY <1>1, <2>2 DEF Char
    <3> QED
      BY <2>2, <3>1
  <2>3. CASE ~(i < l) /\ i # l
    BY <2>3 DEF Buffer
  <2> QED
    BY <2>1, <2>2, <2>3
<1>9. PICK f : f = removeBackspaces(b)
  OBVIOUS
<1>10. f \in [0 .. LINE_DIM - 1 -> Char]
  BY <1>7, <1>8, <1>9
<1>11. f[LINE_DIM - 1] = NUL
  <2>1. LINE_DIM - 1 \in 0 .. LINE_DIM - 1 /\ ~(LINE_DIM - 1 < l)
    BY <1>1
  <2> QED
    BY <1>7, <1>9, <2>1 DEF Buffer
<1> QED
  BY <1>3, <1>5, <1>9, <1>10, <1>11 DEF Buffer

\* What the user sees of the first n characters of the buffer, turn by turn.
Seen(turn, b, n) ==
    /\ turn \in [0 .. n -> Seq(Letters)] /\ turn[0] = <<>>
    /\ \A i \in 1 .. n : turn[i] = Rubbed(turn[i - 1], b[i - 1])
    /\ Len(turn[n]) <= n

\* There is no space among them, and no control-D.
Visible(b, n) == \A i \in 0 .. n - 1 : b[i] \notin {NUL, SPACE}

\* They stand on the screen, and nothing was typed from place m of the buffer on.
Typed(s, b, n, m) ==
    /\ s.row < HEIGHT
    /\ \A i \in m .. LINE_DIM - 1 : b[i] = NUL
    /\ \E turn : Seen(turn, b, n) /\ Shows(s, turn[n])

TermInv ==
    /\ screen \in Screens /\ Buffer(line) /\ index \in 0 .. LINE_DIM - 1
    /\ pc = "echo" => index < LINE_DIM - 1
    /\ pc \in {"clean", "base"} => screen.row < HEIGHT /\ index = 0 /\ line = EmptyLine
    /\ pc \in {"read", "asleep"} /\ ~cleaned /\ Visible(line, index)
         => Typed(screen, line, index, index)
    /\ pc = "echo" /\ ~cleaned /\ Visible(line, index) => Typed(screen, line, index, index + 1)

\* The buffer of a new line.
LEMMA EmptyIs == Buffer(EmptyLine) /\ \A i \in 0 .. LINE_DIM - 1 : EmptyLine[i] = NUL
<1>1. LINE_DIM - 1 \in 0 .. LINE_DIM - 1
  BY LineAssumption
<1> QED
  BY <1>1 DEF Buffer, EmptyLine, Char

\* A prompt has been set: nothing is typed yet.
LEMMA NothingTyped ==
    ASSUME NEW s \in Screens, s.row < HEIGHT
    PROVE  Typed(setBackspaceBase(s), EmptyLine, 0, 0)
<1>1. PICK t \in Screens : t = setBackspaceBase(s)
  BY OthersKeep
<1>2. s \in [bg : Int, ch : Int, row : 0 .. HEIGHT, column : 0 .. WIDTH,
             baseRow : 0 .. HEIGHT, baseColumn : 0 .. WIDTH, cell : [Row -> [Column -> Cells]]]
  BY DEF Screens
<1>3. t.row = s.row /\ t.column = s.column /\ t.baseRow = s.row /\ t.baseColumn = s.column
  BY <1>1, <1>2 DEF setBackspaceBase
<1>4. Shows(t, <<>>)
  <2>1. Cursor(t) = Base(t) + 0
    <3>1. Cursor(t) = Base(t)
      BY <1>3 DEF Cursor, Base
    <3> QED
      BY <3>1, PointsAre
  <2>2. <<>> \in Seq(Letters) /\ Len(<<>>) = 0 /\ 1 .. 0 = {}
    OBVIOUS
  <2> QED
    BY <2>1, <2>2 DEF Shows
<1> DEFINE turn == [i \in 0 .. 0 |-> <<>>]
<1>5. Seen(turn, EmptyLine, 0) /\ turn[0] = <<>>
  <2>1. 0 \in 0 .. 0 /\ 1 .. 0 = {} /\ Len(<<>>) <= 0 /\ <<>> \in Seq(Letters)
    OBVIOUS
  <2> QED
    BY <2>1 DEF Seen
<1> HIDE DEF turn
<1>6. Shows(t, turn[0])
  BY <1>4, <1>5
<1> QED
  BY <1>1, <1>3, <1>5, <1>6, EmptyIs DEF Typed

\* A character that is read goes to a place of the buffer that the screen does not show yet.
LEMMA ReadTyped ==
    ASSUME NEW s, NEW b, Buffer(b), NEW n \in 0 .. LINE_DIM - 2, Typed(s, b, n, n),
           NEW char \in Char
    PROVE  Typed(s, [b EXCEPT ![n] = char], n, n + 1)
<1>1. PICK turn : Seen(turn, b, n) /\ Shows(s, turn[n])
  BY DEF Typed
<1>2. PICK l \in Nat : l = LINE_DIM /\ l >= 2
  BY LineAssumption
<1>3. PICK f : f = [b EXCEPT ![n] = char]
  OBVIOUS
<1>4. n \in 0 .. l - 2 /\ DOMAIN b = 0 .. l - 1
  BY <1>2 DEF Buffer
<1>5. \A i \in 0 .. l - 1 : i # n => f[i] = b[i]
  BY <1>3, <1>4
<1>6. \A i \in n + 1 .. LINE_DIM - 1 : f[i] = NUL
  <2>1. \A i \in n + 1 .. l - 1 : i \in n .. l - 1 /\ i # n /\ i \in 0 .. l - 1
    BY <1>2, <1>4
  <2> QED
    BY <1>2, <1>5, <2>1 DEF Typed
<1>7. Seen(turn, f, n)
  <2>1. \A i \in 1 .. n : i - 1 \in 0 .. l - 1 /\ i - 1 # n
    BY <1>2, <1>4
  <2>2. \A i \in 1 .. n : f[i - 1] = b[i - 1]
    BY <1>5, <2>1
  <2> QED
    BY <1>1, <2>2 DEF Seen
<1> QED
  BY <1>1, <1>3, <1>6, <1>7 DEF Typed

\* A character in a buffer leaves the last place alone.
LEMMA BufferSet ==
    ASSUME NEW b, Buffer(b), NEW n \in 0 .. LINE_DIM - 1, NEW char \in Char,
           n # LINE_DIM - 1 \/ char = NUL
    PROVE  Buffer([b EXCEPT ![n] = char])
<1>1. PICK l \in 0 .. LINE_DIM - 1 : l = LINE_DIM - 1
  BY LineAssumption
<1>2. PICK f : f = [b EXCEPT ![n] = char]
  OBVIOUS
<1>3. f \in [0 .. LINE_DIM - 1 -> Char]
  BY <1>2 DEF Buffer
<1>4. f[l] = NUL
  BY <1>1, <1>2 DEF Buffer
<1> QED
  BY <1>1, <1>2, <1>3, <1>4 DEF Buffer

\* What is printed of the buffer from place n on, when nothing comes after that place.
LEMMA EchoIs ==
    ASSUME NEW b, Buffer(b), NEW n \in 0 .. LINE_DIM - 2,
           \A i \in n + 1 .. LINE_DIM - 1 : b[i] = NUL
    PROVE  /\ b[n] = NUL => DOMAIN StringAt(b, n) = 1 .. 0
           /\ b[n] # NUL => DOMAIN StringAt(b, n) = 1 .. 1 /\ StringAt(b, n)[1] = b[n]
<1>1. PICK l \in Nat : l = LINE_DIM /\ l >= 2
  BY LineAssumption
<1>2. n \in Nat /\ n \in 0 .. LINE_DIM - 1 /\ n <= l - 2
  BY <1>1
<1>3. PICK e \in n .. LINE_DIM - 1 :
             /\ b[e] = NUL /\ \A i \in n .. e - 1 : b[i] # NUL
             /\ StringAt(b, n) = [i \in 1 .. e - n |-> b[n + i - 1]]
  BY <1>2, StringAtIs
<1>4. e \in Nat /\ e >= n
  BY <1>1, <1>2
<1>5. CASE b[n] = NUL
  <2>1. e = n
    <3> SUFFICES ASSUME e # n PROVE FALSE
      OBVIOUS
    <3>1. n \in n .. e - 1
      BY <1>2, <1>4
    <3> QED
      BY <1>3, <1>5, <3>1
  <2>2. e - n = 0
    BY <1>2, <2>1
  <2> QED
    BY <1>3, <1>5, <2>2
<1>6. CASE b[n] # NUL
  <2>1. e = n + 1
    <3>1. e # n
      BY <1>3, <1>6
    <3>2. ~(e > n + 1)
      <4> SUFFICES ASSUME e > n + 1 PROVE FALSE
        OBVIOUS
      <4>1. n + 1 \in n .. e - 1 /\ n + 1 \in n + 1 .. LINE_DIM - 1
        BY <1>1, <1>2, <1>4
      <4> QED
        BY <1>3, <4>1
    <3> QED
      BY <1>2, <1>4, <3>1, <3>2
  <2>2. e - n = 1 /\ n + 1 - 1 = n /\ 1 \in 1 .. 1
    BY <1>2, <2>1
  <2> QED
    BY <1>3, <1>6, <2>2
<1> QED
  BY <1>5, <1>6

\* The formats that the shell prints with.
LEMMA StandardIs == Standard \in Format /\ promptColor \in Format /\ ErrorFormat \in Format
BY DEF Standard, promptColor, ErrorFormat, Format, DEFAULT, L_RED, RED, WHITE

\* The echo of the character that was read: what is typed is shown again.
LEMMA EchoTyped ==
    ASSUME RoomForALine, NEW s \in Screens, NEW b, Buffer(b), NEW n \in 0 .. LINE_DIM - 2,
           Typed(s, b, n, n + 1), b[n] \notin {NL, NUL, SPACE}
    PROVE  Typed(printToScreen(s, StringAt(b, n), Standard), b, n + 1, n + 1)
<1>1. PICK turn : Seen(turn, b, n) /\ Shows(s, turn[n])
  BY DEF Typed
<1>2. s.row < HEIGHT /\ \A i \in n + 1 .. LINE_DIM - 1 : b[i] = NUL
  BY DEF Typed
<1>3. n \in Nat /\ LINE_DIM \in Nat /\ n \in 0 .. n /\ n \in 0 .. LINE_DIM - 1
  BY LineAssumption
<1>4. PICK text \in Seq(Letters) : text = turn[n] /\ Shows(s, text) /\ Len(text) <= n
  BY <1>1, <1>3 DEF Seen
<1>5. Len(text) <= LINE_DIM - 2
  BY <1>3, <1>4
<1>6. PICK char \in Char : char = b[n] /\ char # NL /\ char # NUL /\ char # SPACE
  BY <1>3 DEF Buffer
<1>7. PICK t : t = printToScreen(s, StringAt(b, n), Standard)
  OBVIOUS
<1>8. PICK p \in Screens : p = Scrolled(s) /\ Roomy(p) /\ Shows(p, text)
  BY <1>4, <1>5, ScrolledRoomy, ScrolledShows
<1>9. t = printChar(s, char, Standard)
  <2>1. DOMAIN StringAt(b, n) = 1 .. 1 /\ StringAt(b, n)[1] = char
    BY <1>2, <1>6, EchoIs
  <2>2. \A i \in 1 .. 1 : i = 1
    OBVIOUS
  <2>3. 1 \in Nat /\ \A i \in 1 .. 1 : StringAt(b, n)[i] \in Glyph
    BY <1>6, <2>1, <2>2, GlyphIs
  <2> QED
    <3>1. PICK string : string = StringAt(b, n)
      OBVIOUS
    <3>2. DOMAIN string = 1 .. 1 /\ (\A i \in 1 .. 1 : string[i] \in Glyph) /\ string[1] = char
      BY <2>1, <2>3, <3>1
    <3>3. PICK k \in Nat : k = 1
      OBVIOUS
    <3>4. DOMAIN string = 1 .. k /\ (\A i \in 1 .. k : string[i] \in Glyph) /\ Standard \in Format
      BY <3>2, <3>3, StandardIs
    <3>5. k = 1 => printToScreen(s, string, Standard) = printChar(s, string[1], Standard)
      BY <3>4, PrintKeeps, ZenonT(30)
    <3> QED
      BY <1>7, <3>1, <3>2, <3>3, <3>5
<1>10. t = CASE char = NL -> newLine(p)
             [] char = BS -> backspace(p)
             [] OTHER -> Written(p, char, Standard)
  BY <1>8, <1>9, PrintCharIs
<1>11. /\ t.row < HEIGHT /\ Shows(t, Rubbed(text, char))
       /\ Rubbed(text, char) \in Seq(Letters) /\ Len(Rubbed(text, char)) <= n + 1
  <2>1. CASE char = BS
    <3>1. t = backspace(p)
      BY <1>6, <1>10, <2>1
    <3>2. Rubbed(text, char) = IF text = <<>> THEN text ELSE Front(text)
      BY <2>1 DEF Rubbed
    <3>3. Shows(t, Rubbed(text, char)) /\ t.row < HEIGHT
      BY <1>8, <3>1, <3>2, ErasedShows
    <3>4. Len(Rubbed(text, char)) <= n + 1
      <4>1. Letters \subseteq Char
        BY DEF Letters
      <4>2. text \in Seq(Char)
        BY <4>1
      <4>3. Len(Rubbed(text, char)) <= Len(text) + 1
        BY <4>2, RubbedKeeps
      <4>4. PICK l \in Nat : l = Len(Rubbed(text, char))
        BY <3>3 DEF Shows
      <4> QED
        BY <1>3, <1>4, <4>3, <4>4
    <3> QED
      BY <3>3, <3>4 DEF Shows
  <2>2. CASE char # BS
    <3>1. t = Written(p, char, Standard)
      BY <1>6, <1>10, <2>2
    <3>2. char \in Letters
      BY <1>6, <2>2 DEF Letters
    <3>3. Rubbed(text, char) = Append(text, char)
      BY <2>2 DEF Rubbed
    <3>4. Shows(t, Append(text, char)) /\ t.row < HEIGHT
      BY <1>8, <3>1, <3>2, WrittenShows, StandardIs
    <3>5. Append(text, char) \in Seq(Letters) /\ Len(Append(text, char)) = Len(text) + 1
      BY <3>2
    <3>6. Len(text) + 1 <= n + 1
      BY <1>3, <1>4
    <3> QED
      BY <3>3, <3>4, <3>5, <3>6
  <2> QED
    BY <2>1, <2>2
<1> DEFINE new == Rubbed(text, char)
           more == [i \in 0 .. n + 1 |-> IF i <= n THEN turn[i] ELSE new]
<1>12. Seen(more, b, n + 1) /\ more[n + 1] = new
  <2>1. turn \in [0 .. n -> Seq(Letters)] /\ turn[0] = <<>>
        /\ \A i \in 1 .. n : turn[i] = Rubbed(turn[i - 1], b[i - 1])
    BY <1>1 DEF Seen
  <2>2. new \in Seq(Letters) /\ Len(new) <= n + 1
    BY <1>11
  <2>3. n + 1 \in 0 .. n + 1 /\ ~(n + 1 <= n) /\ 0 \in 0 .. n + 1 /\ 0 <= n /\ 0 \in 0 .. n
    BY <1>3
  <2>4. new = Rubbed(turn[n], b[n])
    BY <1>4, <1>6
  <2> HIDE DEF new
  <2>5. more \in [0 .. n + 1 -> Seq(Letters)]
    <3>1. \A i \in 0 .. n + 1 : i <= n => i \in 0 .. n
      BY <1>3
    <3> QED
      BY <2>1, <2>2, <3>1
  <2>6. more[0] = <<>> /\ more[n + 1] = new
    BY <2>1, <2>3
  <2>7. ASSUME NEW i \in 1 .. n + 1 PROVE more[i] = Rubbed(more[i - 1], b[i - 1])
    <3>1. CASE i <= n
      <4>1. i \in 1 .. n /\ i \in 0 .. n + 1 /\ i - 1 \in 0 .. n + 1 /\ i - 1 <= n
        BY <1>3, <3>1
      <4>2. more[i] = turn[i] /\ more[i - 1] = turn[i - 1]
        BY <3>1, <4>1
      <4> QED
        BY <2>1, <4>1, <4>2
    <3>2. CASE ~(i <= n)
      <4>1. i = n + 1 /\ i - 1 = n /\ n \in 0 .. n + 1 /\ n <= n
        BY <1>3, <3>2
      <4>2. more[n] = turn[n]
        BY <4>1
      <4> QED
        BY <2>4, <2>6, <4>1, <4>2
    <3> QED
      BY <3>1, <3>2
  <2> HIDE DEF more
  <2> QED
    BY <2>2, <2>5, <2>6, <2>7 DEF Seen
<1> HIDE DEF more
<1>13. Shows(t, more[n + 1])
  BY <1>11, <1>12
<1> QED
  BY <1>2, <1>7, <1>11, <1>12, <1>13 DEF Typed

\* The property, of a line that is typed.
LEMMA TypedShown ==
    ASSUME NEW s \in Screens, NEW b, Buffer(b), NEW n \in 0 .. LINE_DIM - 1,
           Typed(s, b, n, n), Visible(b, n)
    PROVE  TextAfterBase(s) = Remaining(StringAt(b, 0))
<1>1. PICK turn : Seen(turn, b, n) /\ Shows(s, turn[n])
  BY DEF Typed
<1>2. TextAfterBase(s) = turn[n]
  BY <1>1, ShownText DEF Typed
<1>3. LINE_DIM \in Nat /\ n \in Nat /\ 0 \in 0 .. LINE_DIM - 1
  BY LineAssumption
<1>4. PICK e \in 0 .. LINE_DIM - 1 :
             /\ b[e] = NUL /\ \A i \in 0 .. e - 1 : b[i] # NUL
             /\ StringAt(b, 0) = [i \in 1 .. e - 0 |-> b[0 + i - 1]]
  BY <1>3, StringAtIs, ZenonT(30)
<1>5. e = n
  <2>1. ~(e < n)
    <3>1. e < n => e \in 0 .. n - 1
      BY <1>3
    <3> QED
      BY <1>4, <3>1 DEF Visible
  <2>2. ~(n < e)
    <3>1. n < e => n \in 0 .. e - 1
      BY <1>3
    <3>2. n \in n .. LINE_DIM - 1
      BY <1>3
    <3>3. b[n] = NUL
      BY <3>2 DEF Typed
    <3> QED
      BY <1>4, <3>1, <3>3
  <2> QED
    BY <1>3, <2>1, <2>2
<1>6. PICK string : string = StringAt(b, 0)
  OBVIOUS
<1>7. DOMAIN string = 1 .. n /\ \A i \in 1 .. n : string[i] = b[i - 1]
  <2>1. e - 0 = n /\ \A i \in 1 .. n : 0 + i - 1 = i - 1
    BY <1>3, <1>5
  <2> QED
    BY <1>4, <1>6, <2>1
<1>8. \A i \in 1 .. n : string[i] \in Char
  <2>1. \A i \in 1 .. n : i - 1 \in 0 .. LINE_DIM - 1
    BY <1>3
  <2> QED
    BY <1>7, <2>1 DEF Buffer
<1>9. DOMAIN turn = 0 .. n /\ turn[0] = <<>>
      /\ \A i \in 1 .. n : turn[i] = Rubbed(turn[i - 1], string[i])
  BY <1>1, <1>7 DEF Seen
<1>10. Remaining(string) = turn[n]
  BY <1>3, <1>7, <1>8, <1>9, RemainingFrom, ZenonT(30)
<1> QED
  BY <1>2, <1>6, <1>10

\* readPrintables returns characters.
LEMMA CharsRead == ASSUME RingOK PROVE readPrintables(1).chars \in Seq(Char)
<1>1. PICK turn : ReadTurns(turn, 1)
  BY ReadsInTurns DEF RingOK
<1>2. unread \in 0 .. unread
  BY DEF RingOK
<1>3. readPrintables(1) \in Reading
  BY <1>1, <1>2 DEF ReadTurns
<1> QED
  BY <1>3 DEF Reading

\* The prompt and the answers of a command.
LEMMA OneGlyph ==
    ASSUME NEW s \in Screens, NEW char \in Glyph, NEW format \in Format
    PROVE  /\ printToScreen(s, <<char>>, format) \in Screens
           /\ char # NL /\ char # BS => printToScreen(s, <<char>>, format).row < HEIGHT
<1>1. PICK string : string = <<char>>
  OBVIOUS
<1>2. PICK k \in Nat : k = 1
  OBVIOUS
<1>3. DOMAIN string = 1 .. k /\ (\A i \in 1 .. k : string[i] \in Glyph) /\ string[1] = char
  BY <1>1, <1>2
<1>4. /\ printToScreen(s, string, format) \in Screens
      /\ k = 1 => printToScreen(s, string, format) = printChar(s, string[1], format)
  BY <1>3, PrintKeeps
<1>5. PICK p \in Screens : p = Scrolled(s) /\ Roomy(p)
  BY ScrolledRoomy
<1>6. ASSUME char # NL, char # BS PROVE printChar(s, char, format).row < HEIGHT
  <2>1. printChar(s, char, format) = Written(p, char, format)
    BY <1>5, <1>6, PrintCharIs
  <2>2. Written(p, char, format).row = p.row
    BY <1>5, WrittenIs DEF Format
  <2> QED
    BY <1>5, <2>1, <2>2 DEF Roomy
<1> QED
  BY <1>1, <1>2, <1>3, <1>4, <1>6

\* A message of two.
LEMMA TwoGlyphs ==
    ASSUME NEW s \in Screens, NEW char \in Glyph, NEW other \in Glyph, NEW format \in Format
    PROVE  printToScreen(s, <<char, other>>, format) \in Screens
<1>1. PICK string : string = <<char, other>>
  OBVIOUS
<1>2. PICK k \in Nat : k = 2
  OBVIOUS
<1>3. DOMAIN string = 1 .. k /\ \A i \in 1 .. k : string[i] \in Glyph
  BY <1>1, <1>2
<1>4. printToScreen(s, string, format) \in Screens
  BY <1>3, PrintKeeps
<1> QED
  BY <1>1, <1>4

\* The invariant, from the start and over every step.
LEMMA TermStart == ASSUME Init PROVE TermInv
<1>1. screen = ClearedScreen /\ pc = "prompt" /\ line = EmptyLine /\ index = 0
  BY DEF Init, TerminalInit
<1>2. screen \in Screens /\ Buffer(line) /\ index \in 0 .. LINE_DIM - 1
  BY <1>1, ClearedIs, EmptyIs, LineAssumption
<1>3. pc \notin {"clean", "base", "read", "asleep", "echo"}
  BY <1>1
<1> QED
  BY <1>2, <1>3 DEF TermInv

LEMMA TermUntouched ==
    ASSUME TermInv, UNCHANGED <<screen, line, index, cleaned>>,
           pc' = pc \/ (pc = "asleep" /\ pc' = "read")
    PROVE  TermInv'
<1>1. CASE pc' = pc
  BY <1>1 DEF TermInv, Buffer, Typed, Seen, Visible
<1>2. CASE pc = "asleep" /\ pc' = "read"
  BY <1>2 DEF TermInv, Buffer, Typed, Seen, Visible
<1> QED
  BY <1>1, <1>2

LEMMA PromptsStep == ASSUME TermInv, Prompts PROVE TermInv'
<1>1. /\ screen' = printToScreen(screen, <<">">>, promptColor) /\ pc' = "clean"
      /\ line' = EmptyLine /\ index' = 0
  BY DEF Prompts
<1>2. ">" \in Glyph /\ ">" # NL /\ ">" # BS
  BY GlyphIs DEF NL, BS
<1>3. screen' \in Screens /\ screen'.row < HEIGHT
  BY <1>1, <1>2, OneGlyph, StandardIs DEF TermInv
<1>4. Buffer(line)' /\ 0 \in 0 .. LINE_DIM - 1 /\ (line = EmptyLine)'
  BY <1>1, EmptyIs, LineAssumption DEF Buffer, EmptyLine
<1> QED
  BY <1>1, <1>3, <1>4 DEF TermInv

LEMMA CleansStep == ASSUME TermInv, Cleans PROVE TermInv'
<1>1. UNCHANGED <<screen, line, index, cleaned>> /\ pc = "clean" /\ pc' = "base"
  BY DEF Cleans
<1>2. screen.row < HEIGHT /\ index = 0 /\ line = EmptyLine
  BY <1>1 DEF TermInv
<1>3. (screen.row < HEIGHT /\ index = 0 /\ line = EmptyLine)'
  BY <1>1, <1>2 DEF EmptyLine
<1>4. (screen \in Screens /\ Buffer(line) /\ index \in 0 .. LINE_DIM - 1)'
  BY <1>1 DEF TermInv, Buffer
<1> QED
  BY <1>1, <1>3, <1>4 DEF TermInv

LEMMA SetsBaseStep == ASSUME TermInv, SetsBase PROVE TermInv'
<1>1. /\ pc = "base" /\ pc' = "read" /\ screen' = setBackspaceBase(screen)
      /\ line' = line /\ index' = index /\ cleaned' = cleaned
  BY DEF SetsBase
<1>2. screen \in Screens /\ screen.row < HEIGHT /\ index = 0 /\ line = EmptyLine
  BY <1>1 DEF TermInv
<1>3. Typed(screen', line', index', index')
  BY <1>1, <1>2, NothingTyped
<1>4. screen' \in Screens
  BY <1>1, <1>2, OthersKeep
<1>5. Buffer(line') /\ index' \in 0 .. LINE_DIM - 1
  BY <1>1 DEF TermInv
<1> QED
  BY <1>1, <1>3, <1>4, <1>5 DEF TermInv

LEMMA ReadsStep == ASSUME RingOK, TermInv, Reads PROVE TermInv'
<1>1. PICK chars \in Seq(Char) : chars = readPrintables(1).chars
  BY CharsRead
<1>2. /\ pc = "read" /\ index < LINE_DIM - 1
      /\ IF chars = <<>> THEN pc' = "asleep" /\ line' = line
         ELSE pc' = "echo" /\ line' = [line EXCEPT ![index] = chars[1]]
      /\ screen' = screen /\ index' = index /\ cleaned' = cleaned
  BY <1>1 DEF Reads
<1>3. /\ screen \in Screens /\ Buffer(line) /\ index \in 0 .. LINE_DIM - 1
      /\ ~cleaned /\ Visible(line, index) => Typed(screen, line, index, index)
  BY <1>2 DEF TermInv
<1>4. CASE chars = <<>>
  <2>1. pc' = "asleep" /\ line' = line
    BY <1>2, <1>4
  <2>2. /\ screen' \in Screens /\ Buffer(line') /\ index' \in 0 .. LINE_DIM - 1
        /\ ~cleaned' /\ Visible(line', index') => Typed(screen', line', index', index')
    BY <1>2, <1>3, <2>1
  <2> QED
    BY <2>1, <2>2 DEF TermInv
<1>5. CASE chars # <<>>
  <2>1. PICK char \in Char : char = chars[1]
    BY <1>5
  <2>2. pc' = "echo" /\ line' = [line EXCEPT ![index] = char]
    BY <1>2, <1>5, <2>1
  <2>3. index \in 0 .. LINE_DIM - 2 /\ index # LINE_DIM - 1
    BY <1>2, <1>3, LineAssumption
  <2>4. Buffer(line')
    BY <1>3, <2>2, <2>3, BufferSet
  <2>5. ~cleaned /\ Visible(line', index) => Typed(screen, line', index, index + 1)
    <3>1. Visible(line', index) => Visible(line, index)
      <4>1. \A i \in 0 .. index - 1 : i \in 0 .. LINE_DIM - 1 /\ i # index
        BY <2>3, LineAssumption
      <4>2. \A i \in 0 .. index - 1 : line'[i] = line[i]
        BY <1>3, <2>2, <4>1 DEF Buffer
      <4> QED
        BY <4>2 DEF Visible
    <3> QED
      BY <1>3, <2>2, <2>3, <3>1, ReadTyped
  <2>6. /\ screen' \in Screens /\ index' \in 0 .. LINE_DIM - 1 /\ index' < LINE_DIM - 1
        /\ ~cleaned' /\ Visible(line', index') => Typed(screen', line', index', index' + 1)
    BY <1>2, <1>3, <2>5
  <2> QED
    BY <2>2, <2>4, <2>6 DEF TermInv
<1> QED
  BY <1>4, <1>5

LEMMA MakesRoomStep == ASSUME TermInv, MakesRoom PROVE TermInv'
<1>1. PICK length : length = Len(Remaining(StringAt(line, 0)))
  OBVIOUS
<1>2. /\ pc = "read" /\ line' = removeBackspaces(line) /\ index' = length /\ cleaned' = TRUE
      /\ IF length = LINE_DIM - 1
         THEN screen' = printToScreen(screen, <<NL>>, Standard) /\ pc' = "run"
         ELSE screen' = screen /\ pc' = pc
  BY <1>1, Zenon DEF MakesRoom
<1>3. Buffer(line') /\ index' \in 0 .. LINE_DIM - 1
  BY <1>1, <1>2, CleanedBuffer DEF TermInv
<1>4. screen' \in Screens
  <2>1. NL \in Glyph
    BY GlyphIs DEF Char
  <2>2. printToScreen(screen, <<NL>>, Standard) \in Screens
    BY <2>1, OneGlyph, StandardIs DEF TermInv
  <2> QED
    BY <1>2, <2>2 DEF TermInv
<1>5. pc' \in {"read", "run"} /\ cleaned'
  BY <1>2
<1> QED
  BY <1>3, <1>4, <1>5 DEF TermInv

LEMMA EchoesStep == ASSUME RoomForALine, TermInv, Echoes PROVE TermInv'
<1>1. /\ pc = "echo" /\ screen' = printToScreen(screen, StringAt(line, index), Standard)
      /\ index' = index + 1 /\ cleaned' = cleaned
      /\ IF line[index] = NL
         THEN pc' = "run" /\ line' = removeBackspaces([line EXCEPT ![index] = NUL])
         ELSE pc' = "read" /\ line' = line
  BY DEF Echoes
<1>2. /\ screen \in Screens /\ Buffer(line) /\ index \in 0 .. LINE_DIM - 1
      /\ index < LINE_DIM - 1
      /\ ~cleaned /\ Visible(line, index) => Typed(screen, line, index, index + 1)
  BY <1>1 DEF TermInv
<1>3. index \in 0 .. LINE_DIM - 2 /\ index' \in 0 .. LINE_DIM - 1
  BY <1>1, <1>2, LineAssumption
<1>4. screen' \in Screens
  <2>1. PICK string : string = StringAt(line, index)
    OBVIOUS
  <2>2. PICK n \in 0 .. LINE_DIM - 1 :
               DOMAIN string = 1 .. n /\ \A i \in 1 .. n : string[i] \in Char
    BY <1>2, <2>1, StringType
  <2>3. n \in Nat
    BY LineAssumption
  <2>4. Char \subseteq Glyph
    BY GlyphIs
  <2>5. \A i \in 1 .. n : string[i] \in Glyph
    BY <2>2, <2>4
  <2> QED
    BY <1>1, <1>2, <2>1, <2>2, <2>3, <2>5, PrintKeeps, StandardIs
<1>5. CASE line[index] = NL
  <2>1. PICK b : b = [line EXCEPT ![index] = NUL]
    OBVIOUS
  <2>2. Buffer(b)
    <3>1. NUL \in Char
      BY DEF Char
    <3> QED
      BY <1>2, <2>1, <3>1, BufferSet
  <2>3. Buffer(line') /\ pc' = "run"
    BY <1>1, <1>5, <2>1, <2>2, CleanedBuffer
  <2> QED
    BY <1>3, <1>4, <2>3 DEF TermInv
<1>6. CASE line[index] # NL
  <2>1. pc' = "read" /\ line' = line
    BY <1>1, <1>6
  <2>2. ~cleaned' /\ Visible(line', index') => Typed(screen', line', index', index')
    <3>1. Visible(line, index + 1) => Visible(line, index) /\ line[index] \notin {NUL, SPACE}
      <4>1. index \in 0 .. (index + 1) - 1 /\ \A i \in 0 .. index - 1 : i \in 0 .. (index + 1) - 1
        BY <1>3, LineAssumption
      <4> QED
        BY <4>1 DEF Visible
    <3> QED
      BY <1>1, <1>2, <1>3, <1>6, <2>1, <3>1, EchoTyped
  <2> QED
    BY <1>2, <1>3, <1>4, <2>1, <2>2 DEF TermInv
<1> QED
  BY <1>5, <1>6

LEMMA RunsStep == ASSUME TermInv, Runs PROVE TermInv'
<1>1. /\ screen' \in {screen, printToScreen(screen, <<"!", NL>>, ErrorFormat), clearScreen(screen)}
                     \cup {changeColor(screen, c[1], c[2]) : c \in Colors}
      /\ pc' = "prompt" /\ line' = line /\ index' = index
  BY DEF Runs
<1>2. screen \in Screens /\ Buffer(line) /\ index \in 0 .. LINE_DIM - 1
  BY DEF TermInv
<1>3. NL \in Glyph /\ "!" \in Glyph
  BY GlyphIs DEF Char
<1>4. printToScreen(screen, <<"!", NL>>, ErrorFormat) \in Screens
  BY <1>2, <1>3, TwoGlyphs, StandardIs
<1>5. screen' \in Screens
  BY <1>1, <1>2, <1>4, OthersKeep
<1>6. pc' \notin {"clean", "base", "read", "asleep", "echo"}
  BY <1>1
<1>7. Buffer(line') /\ index' \in 0 .. LINE_DIM - 1
  BY <1>1, <1>2
<1> QED
  BY <1>5, <1>6, <1>7 DEF TermInv

LEMMA TermStep == ASSUME RoomForALine, RingOK, TermInv, [Next]_vars PROVE TermInv'
<1>1. ASSUME UNCHANGED terminalVars PROVE TermInv'
  BY <1>1, TermUntouched DEF terminalVars
<1>2. ASSUME NEW key \in keys, NEW down \in BOOLEAN, KeyStruck(key, down) PROVE TermInv'
  <2>1. UNCHANGED <<screen, line, index, cleaned>> /\ pc' = IF pc = "asleep" THEN "read" ELSE pc
    BY <1>2 DEF KeyStruck, WokenBy
  <2> QED
    BY <2>1, TermUntouched
<1>3. ASSUME TerminalNext PROVE TermInv'
  <2>1. CASE Prefixed
    <3>1. UNCHANGED <<screen, line, index, cleaned>> /\ pc' = pc
      BY <2>1 DEF Prefixed, shellVars
    <3> QED
      BY <3>1, TermUntouched
  <2> QED
    BY <1>2, <1>3, <2>1, PromptsStep, CleansStep, SetsBaseStep, ReadsStep, MakesRoomStep, EchoesStep,
       RunsStep DEF TerminalNext
<1>4. CASE UNCHANGED vars
  BY <1>1, <1>4 DEF vars
<1>5. CASE Allocates
  BY <1>1, <1>5 DEF Allocates
<1>6. CASE Frees
  BY <1>1, <1>6 DEF Frees
<1> QED
  BY <1>1, <1>3, <1>4, <1>5, <1>6 DEF Next

\* What the user sees behind the prompt is what the shell will make of the line: whatever else than
\* spaces and control-D is typed and rubbed out, wherever the line wraps and however often the screen
\* scrolls under it, as long as a whole line fits on the rows that a scroll leaves.
THEOREM ScreenFollowsLine == ASSUME RoomForALine PROVE Spec => []ScreenShowsLine
<1>1. Init => WaitInv /\ TermInv
  BY WaitStart, TermStart
<1>2. WaitInv /\ TermInv /\ [Next]_vars => (WaitInv /\ TermInv)'
  <2> SUFFICES ASSUME WaitInv, TermInv, [Next]_vars PROVE WaitInv' /\ TermInv'
    OBVIOUS
  <2>1. RingOK
    BY DEF WaitInv
  <2> QED
    BY <2>1, WaitStep, TermStep
<1>3. TermInv => ScreenShowsLine
  <2> SUFFICES ASSUME TermInv, pc \in {"read", "asleep"}, ~cleaned, Visible(line, index)
               PROVE  TextAfterBase(screen) = Remaining(StringAt(line, 0))
    BY Zenon DEF ScreenShowsLine, Visible
  <2>1. /\ screen \in Screens /\ Buffer(line) /\ index \in 0 .. LINE_DIM - 1
        /\ Typed(screen, line, index, index)
    BY DEF TermInv
  <2> QED
    BY <2>1, TypedShown
<1> QED
  BY <1>1, <1>2, <1>3, PTL DEF Spec

-----------------------------------------------------------------------------
(* The doubly linked list, for any number of nodes.                        *)

\* From and Elems, of any nodes.
FromIn(nodes, n) ==
    LET nth[i \in 0 .. MaxNode] ==
            IF i = 0 THEN n
            ELSE IF nth[i - 1] = 0 THEN 0 ELSE nodes[nth[i - 1]].next
        length == CHOOSE l \in 0 .. MaxNode : nth[l] = 0 /\ \A k \in 0 .. l - 1 : nth[k] # 0
    IN  [i \in 1 .. length |-> nth[i - 1]]

ElemsIn(nodes, s) == [i \in DOMAIN s |-> nodes[s[i]].elem]

LEMMA FromIs == ASSUME NEW n PROVE From(n) = FromIn(node, n)
BY Zenon DEF From, FromIn

LEMMA FromNext == ASSUME NEW n PROVE From(n)' = FromIn(node', n)
BY Zenon DEF From, FromIn

\* The i-th of n nodes, and NULL before the first and behind the last.
At(s, n, i) == IF i \in 1 .. n THEN s[i] ELSE 0

\* The n nodes that are linked from p on.
Chain(nodes, s, n, p) ==
    /\ n \in 0 .. MaxNode /\ s \in [1 .. n -> Node]
    /\ p = At(s, n, 1)
    /\ \A i \in 1 .. n : nodes[s[i]].next = At(s, n, i + 1)

LEMMA Readout ==
    ASSUME NEW nodes, NEW s, NEW n, NEW p, Chain(nodes, s, n, p)
    PROVE  FromIn(nodes, p) = s
<1> DEFINE Turn(f) == [i \in 0 .. MaxNode |->
                          IF i = 0 THEN p ELSE IF f[i - 1] = 0 THEN 0 ELSE nodes[f[i - 1]].next]
           nth == CHOOSE f : f = Turn(f)
           Ends(l) == nth[l] = 0 /\ \A k \in 0 .. l - 1 : nth[k] # 0
           length == CHOOSE l \in 0 .. MaxNode : Ends(l)
           w == [i \in 0 .. MaxNode |-> IF i < n THEN s[i + 1] ELSE 0]
<1>1. FromIn(nodes, p) = [i \in 1 .. length |-> nth[i - 1]]
  BY Zenon DEF FromIn
<1>2. /\ MaxNode \in Nat /\ n \in 0 .. MaxNode /\ s \in [1 .. n -> Node]
      /\ p = At(s, n, 1)
      /\ \A i \in 1 .. n : nodes[s[i]].next = At(s, n, i + 1)
      /\ \A i \in 1 .. n : s[i] # 0
  BY NodesAssumption DEF Chain, Node
<1>3. ASSUME NEW i \in 1 .. MaxNode
      PROVE  w[i] = IF w[i - 1] = 0 THEN 0 ELSE nodes[w[i - 1]].next
  <2>1. i \in 0 .. MaxNode /\ i - 1 \in 0 .. MaxNode /\ (i - 1) + 1 = i
        /\ (i - 1 < n <=> i \in 1 .. n) /\ (i < n <=> i + 1 \in 1 .. n)
    BY <1>2
  <2>2. w[i] = (IF i < n THEN s[i + 1] ELSE 0)
        /\ w[i - 1] = (IF i - 1 < n THEN s[i] ELSE 0)
    BY <2>1
  <2>3. CASE i \in 1 .. n
    <3>1. w[i - 1] = s[i] /\ s[i] # 0 /\ nodes[s[i]].next = At(s, n, i + 1)
      BY <1>2, <2>1, <2>2, <2>3
    <3>2. At(s, n, i + 1) = IF i < n THEN s[i + 1] ELSE 0
      BY <2>1 DEF At
    <3> QED
      BY <2>2, <3>1, <3>2
  <2>4. CASE i \notin 1 .. n
    <3>1. w[i - 1] = 0
      BY <2>1, <2>2, <2>4
    <3>2. ~(i < n)
      BY <1>2, <2>4
    <3> QED
      BY <2>2, <3>1, <3>2
  <2> QED
    BY <2>3, <2>4
<1>4. 0 \in 0 .. MaxNode /\ w[0] = p
  <2>1. 0 \in 0 .. MaxNode /\ (0 < n <=> 1 \in 1 .. n) /\ 0 + 1 = 1
    BY <1>2
  <2> QED
    BY <1>2, <2>1 DEF At
<1>5. w = Turn(w)
  <2>1. \A i \in 0 .. MaxNode : i = 0 \/ i \in 1 .. MaxNode
    BY <1>2
  <2>2. \A i \in 0 .. MaxNode :
          w[i] = IF i = 0 THEN p ELSE IF w[i - 1] = 0 THEN 0 ELSE nodes[w[i - 1]].next
    BY <1>3, <1>4, <2>1
  <2>3. w = [i \in 0 .. MaxNode |-> w[i]]
    OBVIOUS
  <2> HIDE DEF w
  <2> QED
    BY <2>2, <2>3
<1> HIDE DEF w
<1>6. nth = Turn(nth)
  <2> HIDE DEF Turn
  <2> QED
    BY <1>5, Zenon
<1> HIDE DEF nth
<1>7. \A i \in 0 .. MaxNode : nth[i] = w[i]
  <2> DEFINE S == {i \in 0 .. MaxNode : nth[i] = w[i]}
  <2>1. 0 \in S
    BY <1>4, <1>6
  <2>2. ASSUME NEW i \in 0 .. MaxNode - 1, i \in S PROVE i + 1 \in S
    <3>1. i + 1 \in 1 .. MaxNode /\ (i + 1) - 1 = i /\ i + 1 \in 0 .. MaxNode /\ i + 1 # 0
      BY <1>2
    <3>2. w[i + 1] = IF w[i] = 0 THEN 0 ELSE nodes[w[i]].next
      BY <1>3, <3>1
    <3>3. nth[i + 1] = IF nth[i] = 0 THEN 0 ELSE nodes[nth[i]].next
      BY <1>6, <3>1
    <3> QED
      BY <2>2, <3>1, <3>2, <3>3
  <2>3. S = 0 .. MaxNode
    <3>1. S \in SUBSET (0 .. MaxNode)
      OBVIOUS
    <3> HIDE DEF S
    <3> QED
      BY <1>2, <2>1, <2>2, <3>1, UpTo
  <2> QED
    BY <2>3
<1>8. \A i \in 0 .. MaxNode : w[i] = IF i < n THEN s[i + 1] ELSE 0
  BY DEF w
<1>9. \A l \in 0 .. MaxNode : Ends(l) <=> l = n
  <2> TAKE l \in 0 .. MaxNode
  <2>1. \A i \in 0 .. MaxNode : nth[i] = 0 <=> ~(i < n)
    <3> TAKE i \in 0 .. MaxNode
    <3>1. i < n => i + 1 \in 1 .. n
      BY <1>2
    <3> QED
      BY <1>2, <1>7, <1>8, <3>1
  <2>2. \A k \in 0 .. l - 1 : k \in 0 .. MaxNode
    BY <1>2
  <2>3. CASE l < n
    BY <1>2, <2>1, <2>3
  <2>4. CASE l > n
    <3>1. n \in 0 .. l - 1 /\ ~(n < n)
      BY <1>2, <2>4
    <3>2. nth[n] = 0
      BY <1>2, <2>1, <3>1
    <3> QED
      BY <1>2, <2>4, <3>1, <3>2
  <2>5. CASE l = n
    <3>1. \A k \in 0 .. l - 1 : k < n
      BY <1>2, <2>5
    <3> QED
      BY <1>2, <2>1, <2>2, <2>5, <3>1
  <2> QED
    BY <1>2, <2>3, <2>4, <2>5
<1>10. length = n
  <2> HIDE DEF Ends
  <2> QED
    BY <1>2, <1>9, Zenon
<1>11. \A i \in 1 .. n : nth[i - 1] = s[i]
  <2> TAKE i \in 1 .. n
  <2>1. i - 1 \in 0 .. MaxNode /\ i - 1 < n /\ (i - 1) + 1 = i
    BY <1>2
  <2> QED
    BY <1>7, <1>8, <2>1
<1>12. s = [i \in 1 .. n |-> nth[i - 1]]
  BY <1>2, <1>11
<1> QED
  BY <1>1, <1>10, <1>12

LEMMA SequenceOf ==
    ASSUME NEW V, NEW n \in Nat, NEW f \in [1 .. n -> V]
    PROVE  f \in Seq(V) /\ Len(f) = n /\ DOMAIN f = 1 .. n
<1>1. f \in Seq(V)
  OBVIOUS
<1>2. Len(f) \in Nat /\ DOMAIN f = 1 .. Len(f) /\ DOMAIN f = 1 .. n
  BY <1>1, LenProperties
<1> QED
  BY <1>1, <1>2

LEMMA ConsIs ==
    ASSUME NEW V, NEW n \in Nat, NEW f \in [1 .. n -> V], NEW e \in V,
           NEW g \in [1 .. n + 1 -> V], g[1] = e, \A i \in 1 .. n : g[i + 1] = f[i]
    PROVE  g = <<e>> \o f
<1>1. f \in Seq(V) /\ Len(f) = n
  BY SequenceOf
<1>2. g \in Seq(V) /\ Len(g) = n + 1
  BY SequenceOf, n + 1 \in Nat
<1>3. <<e>> \in Seq(V) /\ Len(<<e>>) = 1 /\ <<e>>[1] = e
  OBVIOUS
<1>4. <<e>> \o f \in Seq(V) /\ Len(<<e>> \o f) = n + 1
      /\ \A i \in 1 .. n + 1 : (<<e>> \o f)[i] = IF i = 1 THEN e ELSE f[i - 1]
  BY <1>1, <1>3
<1>5. ASSUME NEW i \in 1 .. n + 1 PROVE g[i] = (<<e>> \o f)[i]
  <2>1. CASE i = 1
    BY <1>4, <2>1
  <2>2. CASE i # 1
    <3>1. i - 1 \in 1 .. n /\ (i - 1) + 1 = i
      BY <2>2
    <3>2. g[i] = f[i - 1]
      BY <3>1
    <3> QED
      BY <1>4, <2>2, <3>2
  <2> QED
    BY <2>1, <2>2
<1> QED
  BY <1>2, <1>4, <1>5, SeqEqual

LEMMA TailIs ==
    ASSUME NEW V, NEW n \in Nat \ {0}, NEW f \in [1 .. n -> V],
           NEW g \in [1 .. n - 1 -> V], \A i \in 1 .. n - 1 : g[i] = f[i + 1]
    PROVE  f # <<>> /\ Head(f) = f[1] /\ g = Tail(f)
<1>1. f \in Seq(V) /\ Len(f) = n
  BY SequenceOf
<1>2. g \in Seq(V) /\ Len(g) = n - 1
  BY SequenceOf
<1>3. f # <<>> /\ Head(f) = f[1]
  BY <1>1
<1>4. Tail(f) \in Seq(V) /\ Len(Tail(f)) = n - 1
      /\ \A i \in 1 .. n - 1 : Tail(f)[i] = f[i + 1]
  BY <1>1, <1>3, HeadTailProperties
<1> QED
  BY <1>2, <1>3, <1>4, SeqEqual

\* g is f without its k-th element.
Without(f, k, g, n, V) ==
    /\ n \in Nat \ {0} /\ k \in 1 .. n
    /\ f \in [1 .. n -> V] /\ g \in [1 .. n - 1 -> V]
    /\ \A i \in 1 .. n - 1 : g[i] = IF i < k THEN f[i] ELSE f[i + 1]

LEMMA RemovedIs ==
    ASSUME NEW V, NEW n, NEW f, NEW k, NEW g, Without(f, k, g, n, V)
    PROVE  g = RemoveAt(f, k)
<1> USE DEF Without
<1>1. f \in Seq(V) /\ Len(f) = n
  BY SequenceOf
<1>2. g \in Seq(V) /\ Len(g) = n - 1
  BY SequenceOf
<1>3. PICK a : a = SubSeq(f, 1, k - 1)
  OBVIOUS
<1>4. PICK b : b = SubSeq(f, k + 1, n)
  OBVIOUS
<1>5. a \in Seq(V) /\ Len(a) = k - 1 /\ \A i \in 1 .. k - 1 : a[i] = f[i]
  BY <1>1, <1>3, SubSeqProperties
<1>6. b \in Seq(V) /\ Len(b) = n - k /\ \A i \in 1 .. n - k : b[i] = f[k + i]
  <2>1. \A i \in k + 1 .. n : i \in 1 .. n
    OBVIOUS
  <2>2. b \in Seq(V)
    BY <1>1, <1>4, <2>1, SubSeqProperties
  <2>3. Len(b) = n - k
    BY <1>1, <1>4, SubSeqProperties
  <2>4. \A i \in 1 .. n - k : b[i] = f[k + i]
    BY <1>1, <1>4, <2>1, <2>3, SubSeqProperties
  <2> QED
    BY <2>2, <2>3, <2>4
<1>7. /\ a \o b \in Seq(V) /\ Len(a \o b) = n - 1
      /\ \A i \in 1 .. n - 1 : (a \o b)[i] = IF i < k THEN a[i] ELSE b[i - (k - 1)]
  <2>1. PICK x, y \in Nat : x = Len(a) /\ y = Len(b) /\ x = k - 1 /\ y = n - k
    BY <1>5, <1>6
  <2>2. a \o b \in Seq(V) /\ Len(a \o b) = x + y
    <3>1. a \in Seq(V) /\ b \in Seq(V)
      BY <1>5, <1>6
    <3>2. a \o b \in Seq(V)
      BY <3>1, ConcatProperties
    <3>3. Len(a \o b) = Len(a) + Len(b)
      BY <3>1, ConcatProperties
    <3> QED
      BY <2>1, <3>2, <3>3
  <2>3. \A i \in 1 .. x + y : (a \o b)[i] = IF i <= x THEN a[i] ELSE b[i - x]
    BY <1>5, <1>6, <2>1, ConcatProperties
  <2>4. x + y = n - 1 /\ \A i \in 1 .. n - 1 : i <= x <=> i < k
    BY <2>1
  <2> QED
    BY <2>1, <2>2, <2>3, <2>4
<1>8. ASSUME NEW i \in 1 .. n - 1 PROVE g[i] = (a \o b)[i]
  <2>1. CASE i < k
    <3>1. i \in 1 .. k - 1
      BY <2>1
    <3> QED
      BY <1>5, <1>7, <2>1, <3>1
  <2>2. CASE ~(i < k)
    <3>1. i - (k - 1) \in 1 .. n - k /\ k + (i - (k - 1)) = i + 1
      BY <2>2
    <3> QED
      BY <1>6, <1>7, <2>2, <3>1
  <2> QED
    BY <2>1, <2>2
<1>9. g = a \o b
  BY <1>2, <1>7, <1>8, SeqEqual
<1> QED
  BY <1>1, <1>3, <1>4, <1>9 DEF RemoveAt

Contents == Elems(From(first))
Ahead == Elems(From(current))

LEMMA Shown ==
    ASSUME NEW s, NEW n, Chain(node, s, n, first)
    PROVE  Contents = [i \in 1 .. n |-> node[s[i]].elem]
<1>1. From(first) = s
  BY FromIs, Readout
<1>2. DOMAIN s = 1 .. n
  BY DEF Chain
<1> QED
  BY <1>1, <1>2 DEF Contents, Elems

LEMMA ShownAhead ==
    ASSUME NEW s, NEW n, Chain(node, s, n, current)
    PROVE  Ahead = [i \in 1 .. n |-> node[s[i]].elem]
<1>1. From(current) = s
  BY FromIs, Readout
<1>2. DOMAIN s = 1 .. n
  BY DEF Chain
<1> QED
  BY <1>1, <1>2 DEF Ahead, Elems

LEMMA ShownNext ==
    ASSUME NEW s, NEW n, Chain(node', s, n, first')
    PROVE  Contents' = [i \in 1 .. n |-> node'[s[i]].elem]
<1>1. From(first)' = FromIn(node', first')
  BY Zenon DEF From, FromIn
<1>2. From(first)' = s
  BY <1>1, Readout
<1>3. DOMAIN s = 1 .. n
  BY DEF Chain
<1> QED
  BY <1>2, <1>3 DEF Contents, Elems

LEMMA ShownAheadNext ==
    ASSUME NEW s, NEW n, Chain(node', s, n, current')
    PROVE  Ahead' = [i \in 1 .. n |-> node'[s[i]].elem]
<1>1. From(current)' = FromIn(node', current')
  BY Zenon DEF From, FromIn
<1>2. From(current)' = s
  BY <1>1, Readout
<1>3. DOMAIN s = 1 .. n
  BY DEF Chain
<1> QED
  BY <1>2, <1>3 DEF Ahead, Elems

NodeRecord == [elem : Elem \cup {0}, next : 0 .. MaxNode, prev : -1 .. MaxNode]

\* s is a list: its n nodes, linked in both directions, no node twice.
Linked(nodes, s, n, p) ==
    /\ Chain(nodes, s, n, p)
    /\ \A i \in 1 .. n : nodes[s[i]].prev = At(s, n, i - 1)
    /\ \A i, j \in 1 .. n : s[i] = s[j] => i = j

Listed(s, n) == Linked(node, s, n, first)

\* A loop stands behind the k nodes it has visited.
StandsAt(s, n, k) ==
    /\ current = At(s, n, k + 1)
    /\ walking = "visited" => k >= 1 /\ toRemove = s[k] /\ found = node[s[k]].elem

Standing(s, n) == walking # "outside" => \E k \in 0 .. n : StandsAt(s, n, k)

\* Outside of a loop the cursor is what some loop has left, maybe in a list that was lost.
Loose(nodes, c, m, p) == Chain(nodes, c, m, p) /\ \A i \in 1 .. m : nodes[c[i]].prev # -1

Left(c, m) == Loose(node, c, m, current)

ListInv ==
    /\ node \in [Node -> NodeRecord]
    /\ \E n \in 0 .. MaxNode : \E s \in [1 .. n -> Node] : Listed(s, n) /\ Standing(s, n)
    /\ \E m \in 0 .. MaxNode : \E c \in [1 .. m -> Node] : Left(c, m)

LEMMA ListStart == ASSUME newList PROVE ListInv
<1>1. MaxNode \in Nat
  BY NodesAssumption
<1>2. node \in [Node -> NodeRecord]
  <2>1. FreeNode \in NodeRecord
    BY <1>1 DEF FreeNode, NodeRecord
  <2> QED
    BY <2>1, Zenon DEF newList
<1>3. PICK n \in 0 .. MaxNode : n = 0
  BY <1>1
<1>4. PICK s \in [1 .. n -> Node] : TRUE
  <2>1. [i \in 1 .. n |-> i] \in [1 .. n -> Node]
    BY <1>3
  <2> QED
    BY <2>1
<1>5. 1 .. n = {} /\ first = 0 /\ current = 0 /\ walking = "outside"
  BY <1>3 DEF newList
<1>6. Chain(node, s, n, 0)
  BY <1>5 DEF Chain, At
<1>7. Listed(s, n) /\ Standing(s, n) /\ Left(s, n)
  BY <1>5, <1>6 DEF Listed, Linked, Standing, Left, Loose
<1> QED
  BY <1>2, <1>7, Zenon DEF ListInv

\* What a loop still has to visit is a chain too.
LEMMA Suffix ==
    ASSUME NEW nodes, NEW s, NEW n, NEW p, Linked(nodes, s, n, p), NEW k \in 0 .. n,
           NEW place, place = At(s, n, k + 1)
    PROVE  LET c == [i \in 1 .. n - k |-> s[k + i]]
           IN  n - k \in 0 .. MaxNode /\ c \in [1 .. n - k -> Node] /\ Loose(nodes, c, n - k, place)
<1> DEFINE m == n - k
           c == [i \in 1 .. m |-> s[k + i]]
<1>1. /\ MaxNode \in Nat /\ n \in 0 .. MaxNode /\ s \in [1 .. n -> Node]
      /\ \A i \in 1 .. n : nodes[s[i]].next = At(s, n, i + 1)
      /\ \A i \in 1 .. n : nodes[s[i]].prev = At(s, n, i - 1)
  BY NodesAssumption DEF Linked, Chain
<1>2. m \in 0 .. MaxNode /\ k + m = n /\ \A i \in 1 .. m : k + i \in 1 .. n
  BY <1>1
<1> HIDE DEF m
<1>3. c \in [1 .. m -> Node]
  BY <1>1, <1>2
<1>4. \A i \in 1 .. m : c[i] = s[k + i]
  OBVIOUS
<1>5. \A i \in 1 .. m + 1 : At(c, m, i) = At(s, n, k + i)
  <2> TAKE i \in 1 .. m + 1
  <2>1. i \in 1 .. m <=> k + i \in 1 .. n
    BY <1>1, <1>2
  <2> HIDE DEF c
  <2> QED
    BY <1>4, <2>1 DEF At
<1> HIDE DEF c
<1>6. place = At(c, m, 1)
  <2>1. 1 \in 1 .. m + 1
    BY <1>2
  <2> QED
    BY <1>5, <2>1
<1>7. ASSUME NEW i \in 1 .. m
      PROVE  nodes[c[i]].next = At(c, m, i + 1) /\ nodes[c[i]].prev # -1
  <2>1. k + i \in 1 .. n /\ i + 1 \in 1 .. m + 1 /\ k + (i + 1) = (k + i) + 1
    BY <1>1, <1>2
  <2>2. nodes[c[i]].next = At(s, n, (k + i) + 1) /\ nodes[c[i]].prev = At(s, n, (k + i) - 1)
    BY <1>1, <1>4, <2>1
  <2>3. At(c, m, i + 1) = At(s, n, k + (i + 1))
    BY <1>5, <2>1
  <2>4. At(s, n, (k + i) - 1) \in Node \cup {0}
    BY <1>1 DEF At
  <2>5. -1 \notin Node \cup {0}
    BY DEF Node
  <2> QED
    BY <2>1, <2>2, <2>3, <2>4, <2>5
<1>8. Loose(nodes, c, m, place)
  BY <1>2, <1>3, <1>6, <1>7 DEF Loose, Chain
<1> QED
  BY <1>2, <1>3, <1>8 DEF m, c

\* Contents and what is ahead, as sequences of elements.
LEMMA ContentsAre ==
    ASSUME ListInv, NEW n, NEW s, Listed(s, n)
    PROVE  /\ n \in Nat /\ Contents = [i \in 1 .. n |-> node[s[i]].elem]
           /\ Contents \in [1 .. n -> Elem \cup {0}]
<1>1. n \in 0 .. MaxNode /\ s \in [1 .. n -> Node] /\ Chain(node, s, n, first)
  BY DEF Listed, Linked, Chain
<1>2. Contents = [i \in 1 .. n |-> node[s[i]].elem]
  BY <1>1, Shown
<1>3. \A i \in 1 .. n : node[s[i]].elem \in Elem \cup {0}
  <2> TAKE i \in 1 .. n
  <2>1. node[s[i]] \in NodeRecord
    BY <1>1 DEF ListInv
  <2> QED
    BY <2>1 DEF NodeRecord
<1> QED
  BY <1>1, <1>2, <1>3, NodesAssumption

LEMMA AheadIs ==
    ASSUME ListInv, NEW m, NEW c, Left(c, m)
    PROVE  /\ m \in Nat /\ Ahead = [i \in 1 .. m |-> node[c[i]].elem]
           /\ Ahead \in [1 .. m -> Elem \cup {0}]
<1>1. m \in 0 .. MaxNode /\ c \in [1 .. m -> Node] /\ Chain(node, c, m, current)
  BY DEF Left, Loose, Chain
<1>2. Ahead = [i \in 1 .. m |-> node[c[i]].elem]
  BY <1>1, ShownAhead
<1>3. \A i \in 1 .. m : node[c[i]].elem \in Elem \cup {0}
  <2> TAKE i \in 1 .. m
  <2>1. node[c[i]] \in NodeRecord
    BY <1>1 DEF ListInv
  <2> QED
    BY <2>1 DEF NodeRecord
<1> QED
  BY <1>1, <1>2, <1>3, NodesAssumption

\* One pointer is written.
LEMMA PutPrev ==
    ASSUME MaxNode \in Nat, NEW nodes \in [Node -> NodeRecord], NEW p, NEW v \in 0 .. MaxNode,
           NEW m \in Node
    PROVE  LET r == Put(p, "prev", v, nodes)[m] IN
           /\ r \in NodeRecord /\ r.elem = nodes[m].elem /\ r.next = nodes[m].next
           /\ r.prev = IF m = p THEN v ELSE nodes[m].prev
<1>1. nodes[m] \in NodeRecord
  OBVIOUS
<1>2. PICK r : r = nodes[m]
  OBVIOUS
<1> DEFINE q == [r EXCEPT !["prev"] = v]
<1>3. Put(p, "prev", v, nodes)[m] = IF m = p THEN q ELSE r
  BY <1>2 DEF Put
<1>4. q \in NodeRecord /\ q.elem = r.elem /\ q.next = r.next /\ q.prev = v
  BY <1>1, <1>2 DEF NodeRecord
<1> QED
  BY <1>1, <1>2, <1>3, <1>4

LEMMA PutNext ==
    ASSUME MaxNode \in Nat, NEW nodes \in [Node -> NodeRecord], NEW p, NEW v \in 0 .. MaxNode,
           NEW m \in Node
    PROVE  LET r == Put(p, "next", v, nodes)[m] IN
           /\ r \in NodeRecord /\ r.elem = nodes[m].elem /\ r.prev = nodes[m].prev
           /\ r.next = IF m = p THEN v ELSE nodes[m].next
<1>1. nodes[m] \in NodeRecord
  OBVIOUS
<1>2. PICK r : r = nodes[m]
  OBVIOUS
<1> DEFINE q == [r EXCEPT !["next"] = v]
<1>3. Put(p, "next", v, nodes)[m] = IF m = p THEN q ELSE r
  BY <1>2 DEF Put
<1>4. q \in NodeRecord /\ q.elem = r.elem /\ q.prev = r.prev /\ q.next = v
  BY <1>1, <1>2 DEF NodeRecord
<1> QED
  BY <1>1, <1>2, <1>3, <1>4

\* The list after add.
LEMMA LinkedMore ==
    ASSUME NEW s, NEW n, Linked(node, s, n, first), node \in [Node -> NodeRecord],
           NEW x \in Node, node[x].prev = -1, NEW e \in Elem \cup {0},
           NEW nodes, nodes = Added(x, e)
    PROVE  LET t == [i \in 1 .. n + 1 |-> IF i = 1 THEN x ELSE s[i - 1]]
           IN  /\ nodes \in [Node -> NodeRecord]
               /\ \A y \in Node : y # x => /\ nodes[y].elem = node[y].elem
                                           /\ nodes[y].next = node[y].next
                                           /\ node[y].prev # -1 => nodes[y].prev # -1
               /\ nodes[x].elem = e
               /\ n + 1 \in 0 .. MaxNode /\ t \in [1 .. n + 1 -> Node]
               /\ Linked(nodes, t, n + 1, x)
<1> DEFINE k == n + 1
           t == [i \in 1 .. k |-> IF i = 1 THEN x ELSE s[i - 1]]
<1>1. /\ MaxNode \in Nat /\ n \in 0 .. MaxNode /\ s \in [1 .. n -> Node]
      /\ first = At(s, n, 1)
      /\ \A i \in 1 .. n : node[s[i]].next = At(s, n, i + 1)
      /\ \A i \in 1 .. n : node[s[i]].prev = At(s, n, i - 1)
      /\ \A i, j \in 1 .. n : s[i] = s[j] => i = j
  BY NodesAssumption DEF Linked, Chain
<1>2. /\ k \in Nat \ {0} /\ k \in 1 .. k /\ 1 \in 1 .. k
      /\ \A i \in 1 .. k : i = 1 \/ i - 1 \in 1 .. n
      /\ \A i \in 1 .. n : i + 1 \in 1 .. k /\ i + 1 # 1 /\ (i + 1) - 1 = i
  BY <1>1
<1>3. x # 0 /\ first \in 0 .. MaxNode
  BY <1>1 DEF Node, At
<1>4. \A i \in 1 .. n : s[i] # x
  <2> TAKE i \in 1 .. n
  <2>1. At(s, n, i - 1) \in Node \cup {0} /\ -1 \notin Node \cup {0}
    BY <1>1 DEF At, Node
  <2> QED
    BY <1>1, <2>1
<1>5. first # x
  BY <1>3, <1>4, <1>1 DEF At
<1> DEFINE new == [elem |-> e, next |-> first, prev |-> 0]
<1>6. new \in NodeRecord /\ x \in 0 .. MaxNode
  BY <1>1, <1>3 DEF NodeRecord, Node
<1>7. nodes[x] = new /\ \A y \in Node : y # x => nodes[y] = Put(first, "prev", x, node)[y]
  BY DEF Added, Put
<1>8. ASSUME NEW y \in Node, y # x
      PROVE  /\ nodes[y] \in NodeRecord
             /\ nodes[y].elem = node[y].elem /\ nodes[y].next = node[y].next
             /\ nodes[y].prev = IF y = first THEN x ELSE node[y].prev
  <2>1. nodes[y] = Put(first, "prev", x, node)[y]
    BY <1>7, <1>8
  <2>2. MaxNode \in Nat /\ x \in 0 .. MaxNode
    BY <1>1, <1>6
  <2>3. LET r == Put(first, "prev", x, node)[y] IN
        /\ r \in NodeRecord /\ r.elem = node[y].elem /\ r.next = node[y].next
        /\ r.prev = IF y = first THEN x ELSE node[y].prev
    BY <2>2, PutPrev
  <2> QED
    BY <2>1, <2>3
<1>9. nodes \in [Node -> NodeRecord]
  <2>1. \A y \in Node : nodes[y] \in NodeRecord
    BY <1>6, <1>7, <1>8
  <2>2. nodes = [y \in Node |-> nodes[y]]
    BY DEF Added, Put
  <2> QED
    BY <2>1, <2>2
<1>10. \A y \in Node : y # x => /\ nodes[y].elem = node[y].elem
                                /\ nodes[y].next = node[y].next
                                /\ node[y].prev # -1 => nodes[y].prev # -1
  <2>1. x # -1
    BY DEF Node
  <2> QED
    BY <1>8, <2>1
<1> HIDE DEF new, k
<1>11. nodes[x].elem = e /\ nodes[x].next = first /\ nodes[x].prev = 0
  BY <1>7 DEF new
<1>12. t \in [1 .. k -> Node] /\ t[1] = x /\ \A i \in 1 .. n : t[i + 1] = s[i]
  BY <1>1, <1>2
<1>13. \A i, j \in 1 .. k : t[i] = t[j] => i = j
  <2> TAKE i \in 1 .. k, j \in 1 .. k
  <2>1. \A l \in 1 .. k : t[l] = IF l = 1 THEN x ELSE s[l - 1]
    OBVIOUS
  <2>2. i = 1 \/ (i # 1 /\ i - 1 \in 1 .. n /\ t[i] = s[i - 1])
    BY <1>2, <2>1
  <2>3. j = 1 \/ (j # 1 /\ j - 1 \in 1 .. n /\ t[j] = s[j - 1])
    BY <1>2, <2>1
  <2> HIDE DEF t
  <2>4. i - 1 = j - 1 => i = j
    BY <1>2
  <2> QED
    BY <1>1, <1>4, <1>12, <2>2, <2>3, <2>4
<1> HIDE DEF t
<1>14. k \in 0 .. MaxNode
  <2>1. t \in Injection(1 .. k, Node)
    BY <1>12, <1>13 DEF Injection, IsInjective
  <2>2. IsFiniteSet(Node) /\ Cardinality(Node) = MaxNode
    <3>1. MaxNode - 1 + 1 = MaxNode /\ (1 > MaxNode => MaxNode = 0) /\ 1 \in Int /\ MaxNode \in Int
      BY <1>1
    <3>2. IsFiniteSet(1 .. MaxNode)
          /\ Cardinality(1 .. MaxNode) = IF 1 > MaxNode THEN 0 ELSE MaxNode - 1 + 1
      BY <3>1, FS_Interval
    <3> QED
      BY <3>1, <3>2 DEF Node
  <2>3. Cardinality(1 .. k) = k
    <3>1. k \in Int /\ ~(1 > k) /\ k - 1 + 1 = k /\ 1 \in Int
      BY <1>2
    <3> QED
      BY <3>1, FS_Interval
  <2>4. Cardinality(1 .. k) <= Cardinality(Node)
    BY <2>1, <2>2, FS_Injection
  <2> QED
    BY <1>1, <1>2, <2>2, <2>3, <2>4
<1>15. \A i \in 0 .. k : At(t, k, i + 1) = IF i = 0 THEN x ELSE At(s, n, i)
  <2> TAKE i \in 0 .. k
  <2>1. /\ i = 0 => i + 1 = 1
        /\ i # 0 => (i + 1 \in 1 .. k <=> i \in 1 .. n)
    BY <1>1 DEF k
  <2> QED
    BY <1>2, <1>12, <2>1 DEF At
<1>16. ASSUME NEW i \in 1 .. k
       PROVE  nodes[t[i]].next = At(t, k, i + 1) /\ nodes[t[i]].prev = At(t, k, i - 1)
  <2>1. i \in 0 .. k /\ i # 0 /\ i - 1 \in 0 .. k
    BY <1>2
  <2>2. At(t, k, i + 1) = At(s, n, i)
    BY <1>15, <2>1
  <2>3. CASE i = 1
    <3>1. At(t, k, 0) = 0
      BY DEF At
    <3>2. nodes[t[i]].next = first /\ nodes[t[i]].prev = 0
      BY <1>11, <1>12, <2>3
    <3>3. i - 1 = 0 /\ At(s, n, i) = first
      BY <1>1, <2>3
    <3> QED
      BY <2>2, <3>1, <3>2, <3>3
  <2>4. CASE i # 1
    <3>1. PICK j \in 1 .. n : i = j + 1
      <4>1. i - 1 \in 1 .. n /\ i = (i - 1) + 1
        BY <1>2, <2>4
      <4> QED
        BY <4>1
    <3>2. t[i] = s[j] /\ s[j] # x /\ s[j] \in Node
      BY <1>1, <1>4, <1>12, <3>1
    <3>3. nodes[t[i]].next = At(s, n, i)
      BY <1>1, <1>8, <3>1, <3>2
    <3>4. nodes[t[i]].prev = IF s[j] = first THEN x ELSE At(s, n, j - 1)
      BY <1>1, <1>8, <3>2
    <3>5. nodes[t[i]].prev = At(t, k, j)
      <4>1. j - 1 \in 0 .. k /\ (j - 1) + 1 = j /\ (j - 1 = 0 <=> j = 1)
        BY <1>1 DEF k
      <4>2. At(t, k, j) = IF j = 1 THEN x ELSE At(s, n, j - 1)
        BY <1>15, <4>1
      <4>3. s[j] = first <=> j = 1
        <5>1. 1 \in 1 .. n /\ first = s[1]
          BY <1>1 DEF At
        <5> QED
          BY <1>1, <5>1
      <4> QED
        BY <3>4, <4>2, <4>3
    <3>6. i - 1 = j
      BY <3>1
    <3> QED
      BY <2>2, <3>3, <3>5, <3>6
  <2> QED
    BY <2>3, <2>4
<1>17. x = At(t, k, 1)
  BY <1>2, <1>12 DEF At
<1>18. Linked(nodes, t, k, x)
  BY <1>12, <1>13, <1>14, <1>16, <1>17 DEF Linked, Chain
<1> QED
  BY <1>9, <1>10, <1>11, <1>12, <1>14, <1>18 DEF k, t

\* The list after remove.
RemovesAt(s, n, k, nodes, p) ==
    /\ Linked(node, s, n, first) /\ k \in 1 .. n
    /\ nodes = Unlinked(s[k])
    /\ p = IF node[s[k]].prev = 0 THEN node[s[k]].next ELSE first

LEMMA LinkedLess ==
    ASSUME node \in [Node -> NodeRecord],
           NEW s, NEW n, NEW k, NEW nodes, NEW p, RemovesAt(s, n, k, nodes, p)
    PROVE  LET t == [i \in 1 .. n - 1 |-> IF i < k THEN s[i] ELSE s[i + 1]]
           IN  /\ nodes \in [Node -> NodeRecord]
               /\ \A y \in Node : y # s[k] => nodes[y].elem = node[y].elem
               /\ n - 1 \in 0 .. MaxNode /\ t \in [1 .. n - 1 -> Node]
               /\ Linked(nodes, t, n - 1, p)
               /\ \A j \in 0 .. n : At(t, n - 1, j) = IF j < k THEN At(s, n, j) ELSE At(s, n, j + 1)
<1> DEFINE l == n - 1
           t == [i \in 1 .. l |-> IF i < k THEN s[i] ELSE s[i + 1]]
<1>1. /\ MaxNode \in Nat /\ n \in 0 .. MaxNode /\ s \in [1 .. n -> Node]
      /\ first = At(s, n, 1)
      /\ \A i \in 1 .. n : node[s[i]].next = At(s, n, i + 1)
      /\ \A i \in 1 .. n : node[s[i]].prev = At(s, n, i - 1)
      /\ \A i, j \in 1 .. n : s[i] = s[j] => i = j
      /\ \A i \in 1 .. n : s[i] # 0
      /\ k \in 1 .. n /\ nodes = Unlinked(s[k])
      /\ p = IF node[s[k]].prev = 0 THEN node[s[k]].next ELSE first
  BY NodesAssumption DEF RemovesAt, Linked, Chain, Node
<1>2. /\ l \in 0 .. MaxNode /\ n = l + 1 /\ k \in Nat
      /\ \A i \in 1 .. l : i \in 1 .. n /\ i + 1 \in 1 .. n
  BY <1>1
<1>3. PICK a, b : a = At(s, n, k - 1) /\ b = At(s, n, k + 1)
  OBVIOUS
<1>4. a \in 0 .. MaxNode /\ b \in 0 .. MaxNode
      /\ node[s[k]].prev = a /\ node[s[k]].next = b
  BY <1>1, <1>3 DEF At, Node
<1> DEFINE behind == Put(a, "next", b, node)
<1>5. behind \in [Node -> NodeRecord]
  <2>1. \A y \in Node : behind[y] \in NodeRecord
    BY <1>1, <1>4, PutNext
  <2>2. behind = [y \in Node |-> behind[y]]
    BY DEF Put
  <2> HIDE DEF behind
  <2> QED
    BY <2>1, <2>2
<1>6. \A y \in Node : /\ behind[y].elem = node[y].elem /\ behind[y].prev = node[y].prev
                      /\ behind[y].next = IF y = a THEN b ELSE node[y].next
  BY <1>1, <1>4, PutNext
<1>7. nodes = [Put(b, "prev", a, behind) EXCEPT ![s[k]] = FreeNode]
  BY <1>1, <1>4 DEF Unlinked
<1> HIDE DEF behind
<1>8. ASSUME NEW y \in Node, y # s[k]
      PROVE  /\ nodes[y] \in NodeRecord /\ nodes[y].elem = node[y].elem
             /\ nodes[y].next = IF y = a THEN b ELSE node[y].next
             /\ nodes[y].prev = IF y = b THEN a ELSE node[y].prev
  <2>1. nodes[y] = Put(b, "prev", a, behind)[y]
    BY <1>7, <1>8 DEF Put
  <2>2. /\ nodes[y] \in NodeRecord /\ nodes[y].elem = behind[y].elem
        /\ nodes[y].next = behind[y].next
        /\ nodes[y].prev = IF y = b THEN a ELSE behind[y].prev
    BY <1>1, <1>4, <1>5, <2>1, PutPrev
  <2> QED
    BY <1>6, <2>2
<1>9. nodes \in [Node -> NodeRecord]
  <2>1. FreeNode \in NodeRecord
    BY <1>1 DEF FreeNode, NodeRecord
  <2>2. s[k] \in Node /\ nodes[s[k]] = FreeNode
    BY <1>1, <1>7 DEF Put
  <2>3. \A y \in Node : nodes[y] \in NodeRecord
    BY <1>8, <2>1, <2>2
  <2>4. nodes = [y \in Node |-> nodes[y]]
    BY <1>7 DEF Put
  <2> QED
    BY <2>3, <2>4
<1> HIDE DEF l
<1>10. t \in [1 .. l -> Node] /\ \A i \in 1 .. l : t[i] = IF i < k THEN s[i] ELSE s[i + 1]
  BY <1>1, <1>2
<1> HIDE DEF t
<1>11. \A j \in 0 .. n : At(t, l, j) = IF j < k THEN At(s, n, j) ELSE At(s, n, j + 1)
  <2> TAKE j \in 0 .. n
  <2>1. j < k => (j \in 1 .. l <=> j \in 1 .. n)
    BY <1>1, <1>2
  <2>2. ~(j < k) => (j \in 1 .. l <=> j + 1 \in 1 .. n)
    BY <1>1, <1>2
  <2> QED
    BY <1>10, <2>1, <2>2 DEF At
<1>12. \A i, j \in 1 .. l : t[i] = t[j] => i = j
  <2> TAKE i \in 1 .. l, j \in 1 .. l
  <2> DEFINE f(m) == IF m < k THEN m ELSE m + 1
  <2>1. f(i) \in 1 .. n /\ f(j) \in 1 .. n /\ t[i] = s[f(i)] /\ t[j] = s[f(j)]
    BY <1>2, <1>10
  <2>2. f(i) = f(j) => i = j
    BY <1>2
  <2>3. \A x1, y1 \in 1 .. n : s[x1] = s[y1] => x1 = y1
    BY <1>1
  <2> HIDE DEF f
  <2> QED
    BY <2>1, <2>2, <2>3
<1>13. ASSUME NEW i \in 1 .. l
       PROVE  nodes[t[i]].next = At(t, l, i + 1) /\ nodes[t[i]].prev = At(t, l, i - 1)
  <2>1. PICK j \in 1 .. n : j = (IF i < k THEN i ELSE i + 1)
    BY <1>2
  <2>2. j # k /\ t[i] = s[j] /\ s[j] \in Node /\ s[j] # s[k]
    <3>1. j # k
      BY <1>2, <2>1
    <3> QED
      BY <1>1, <1>10, <2>1, <3>1
  <2>3. /\ nodes[t[i]].next = IF s[j] = a THEN b ELSE At(s, n, j + 1)
        /\ nodes[t[i]].prev = IF s[j] = b THEN a ELSE At(s, n, j - 1)
    <3>1. PICK y \in Node : y = s[j] /\ y = t[i] /\ y # s[k]
      BY <2>2
    <3>2. /\ nodes[y].next = IF y = a THEN b ELSE node[y].next
          /\ nodes[y].prev = IF y = b THEN a ELSE node[y].prev
      BY <3>1, <1>8
    <3>3. node[s[j]].next = At(s, n, j + 1) /\ node[s[j]].prev = At(s, n, j - 1)
      BY <1>1
    <3> QED
      BY <3>1, <3>2, <3>3
  <2>4. s[j] = a <=> j = k - 1
    <3>1. k - 1 \in 1 .. n => a = s[k - 1]
      BY <1>3 DEF At
    <3>2. k - 1 \notin 1 .. n => a = 0
      BY <1>3 DEF At
    <3> QED
      BY <1>1, <3>1, <3>2
  <2>5. s[j] = b <=> j = k + 1
    <3>1. k + 1 \in 1 .. n => b = s[k + 1]
      BY <1>3 DEF At
    <3>2. k + 1 \notin 1 .. n => b = 0
      BY <1>3 DEF At
    <3> QED
      BY <1>1, <3>1, <3>2
  <2>6. i + 1 \in 0 .. n /\ i - 1 \in 0 .. n /\ (i - 1) + 1 = i
    BY <1>2
  <2>7. At(t, l, i + 1) = IF i + 1 < k THEN At(s, n, i + 1) ELSE At(s, n, (i + 1) + 1)
    BY <1>11, <2>6
  <2>8. At(t, l, i - 1) = IF i - 1 < k THEN At(s, n, i - 1) ELSE At(s, n, i)
    BY <1>11, <2>6
  <2>9. nodes[t[i]].next = At(t, l, i + 1)
    <3>1. CASE i + 1 < k
      <4>1. j = i /\ j # k - 1
        BY <1>2, <2>1, <3>1
      <4> QED
        BY <2>3, <2>4, <2>7, <3>1, <4>1
    <3>2. CASE i + 1 = k
      <4>1. j = k - 1 /\ ~(i + 1 < k) /\ (i + 1) + 1 = k + 1
        BY <1>2, <2>1, <3>2
      <4> QED
        BY <1>3, <2>3, <2>4, <2>7, <4>1
    <3>3. CASE i + 1 > k
      <4>1. j = i + 1 /\ j # k - 1 /\ ~(i + 1 < k)
        BY <1>2, <2>1, <3>3
      <4> QED
        BY <2>3, <2>4, <2>7, <4>1
    <3> QED
      BY <1>2, <3>1, <3>2, <3>3
  <2>10. nodes[t[i]].prev = At(t, l, i - 1)
    <3>1. CASE i < k
      <4>1. j = i /\ j # k + 1 /\ i - 1 < k
        BY <1>2, <2>1, <3>1
      <4> QED
        BY <2>3, <2>5, <2>8, <4>1
    <3>2. CASE i = k
      <4>1. j = k + 1 /\ i - 1 < k
        BY <1>2, <2>1, <3>2
      <4> QED
        BY <1>3, <2>3, <2>5, <2>8, <3>2, <4>1
    <3>3. CASE i > k
      <4>1. j = i + 1 /\ j # k + 1 /\ ~(i - 1 < k) /\ j - 1 = i
        BY <1>2, <2>1, <3>3
      <4> QED
        BY <2>3, <2>5, <2>8, <4>1
    <3> QED
      BY <1>2, <3>1, <3>2, <3>3
  <2> QED
    BY <2>9, <2>10
<1>14. p = At(t, l, 1)
  <2>1. 1 \in 0 .. n
    BY <1>1
  <2>2. At(t, l, 1) = IF 1 < k THEN At(s, n, 1) ELSE At(s, n, 1 + 1)
    BY <1>11, <2>1
  <2>3. CASE 1 < k
    <3>1. k - 1 \in 1 .. n
      BY <1>1, <2>3
    <3>2. a # 0
      BY <1>1, <1>3, <3>1 DEF At
    <3> QED
      BY <1>1, <1>4, <2>2, <2>3, <3>2
  <2>4. CASE ~(1 < k)
    <3>1. k = 1 /\ k - 1 \notin 1 .. n /\ 1 + 1 = k + 1
      BY <1>1, <1>2, <2>4
    <3>2. a = 0
      BY <1>3, <3>1 DEF At
    <3> QED
      BY <1>1, <1>3, <1>4, <2>2, <2>4, <3>1, <3>2
  <2> QED
    BY <2>3, <2>4
<1>15. Linked(nodes, t, l, p)
  BY <1>2, <1>10, <1>12, <1>13, <1>14 DEF Linked, Chain
<1> QED
  BY <1>2, <1>8, <1>9, <1>10, <1>11, <1>15 DEF l, t

\* A list of no nodes, in the state that follows.
LEMMA NothingNext ==
    ASSUME first' = 0 PROVE Contents' = <<>>
<1>1. PICK s, n : s = <<>> /\ n = 0
  OBVIOUS
<1>2. Chain(node', s, n, first')
  <2>1. MaxNode \in Nat /\ 1 .. n = {} /\ n \in 0 .. MaxNode
    BY <1>1, NodesAssumption
  <2>2. s \in [1 .. n -> Node]
    BY <1>1, <2>1
  <2> QED
    BY <2>1, <2>2 DEF Chain, At
<1>3. Contents' = [i \in 1 .. n |-> node'[s[i]].elem]
  BY <1>2, ShownNext
<1>4. 1 .. n = {}
  BY <1>1
<1> QED
  BY <1>3, <1>4

LEMMA NothingAheadNext ==
    ASSUME current' = 0 PROVE Ahead' = <<>>
<1>1. PICK s, n : s = <<>> /\ n = 0
  OBVIOUS
<1>2. Chain(node', s, n, current')
  <2>1. MaxNode \in Nat /\ 1 .. n = {} /\ n \in 0 .. MaxNode
    BY <1>1, NodesAssumption
  <2>2. s \in [1 .. n -> Node]
    BY <1>1, <2>1
  <2> QED
    BY <2>1, <2>2 DEF Chain, At
<1>3. Ahead' = [i \in 1 .. n |-> node'[s[i]].elem]
  BY <1>2, ShownAheadNext
<1>4. 1 .. n = {}
  BY <1>1
<1> QED
  BY <1>3, <1>4

\* The empty list, and no cursor.
LEMMA NoList ==
    ASSUME NEW nodes
    PROVE  \E n \in 0 .. MaxNode : \E s \in [1 .. n -> Node] :
             n = 0 /\ Linked(nodes, s, n, 0) /\ Loose(nodes, s, n, 0)
<1>1. PICK s, n : s = <<>> /\ n = 0
  OBVIOUS
<1>2. MaxNode \in Nat /\ 1 .. n = {} /\ n \in 0 .. MaxNode
  BY <1>1, NodesAssumption
<1>3. s \in [1 .. n -> Node]
  BY <1>1, <1>2
<1>4. Linked(nodes, s, n, 0) /\ Loose(nodes, s, n, 0)
  BY <1>2, <1>3 DEF Linked, Loose, Chain, At
<1> QED
  BY <1>1, <1>2, <1>3, <1>4

LEMMA AddStep ==
    ASSUME ListInv, NEW e \in Elem, add(e) PROVE ListInv' /\ L!Add(e)
<1>1. PICK x \in Node \ Allocated : node' = Added(x, e) /\ first' = x
  BY DEF add
<1>2. walking = "outside" /\ UNCHANGED <<current, toRemove, found, walking>>
  BY DEF add
<1>3n. PICK n \in 0 .. MaxNode : \E s \in [1 .. n -> Node] : Listed(s, n)
  BY DEF ListInv
<1>3. PICK s \in [1 .. n -> Node] : Listed(s, n)
  BY <1>3n
<1>4n. PICK m \in 0 .. MaxNode : \E c \in [1 .. m -> Node] : Left(c, m)
  BY DEF ListInv
<1>4. PICK c \in [1 .. m -> Node] : Left(c, m)
  BY <1>4n
<1>5. x \in Node /\ node[x].prev = -1
  BY DEF Allocated, FreeNode
<1> DEFINE k == n + 1
           t == [i \in 1 .. k |-> IF i = 1 THEN x ELSE s[i - 1]]
<1>6. /\ node' \in [Node -> NodeRecord]
      /\ \A y \in Node : y # x => /\ node'[y].elem = node[y].elem
                                  /\ node'[y].next = node[y].next
                                  /\ node[y].prev # -1 => node'[y].prev # -1
      /\ node'[x].elem = e
      /\ k \in 0 .. MaxNode /\ t \in [1 .. k -> Node]
      /\ Linked(node', t, k, x)
  <2>1. PICK nodes : nodes = Added(x, e)
    OBVIOUS
  <2>2. node \in [Node -> NodeRecord] /\ Linked(node, s, n, first)
    BY <1>3 DEF ListInv, Listed
  <2>3. node' = nodes
    BY <1>1, <2>1
  <2> HIDE DEF k
  <2>4. /\ nodes \in [Node -> NodeRecord]
        /\ \A y \in Node : y # x => /\ nodes[y].elem = node[y].elem
                                    /\ nodes[y].next = node[y].next
                                    /\ node[y].prev # -1 => nodes[y].prev # -1
        /\ nodes[x].elem = e
        /\ k \in 0 .. MaxNode /\ t \in [1 .. k -> Node]
        /\ Linked(nodes, t, k, x)
    BY <1>5, <2>1, <2>2, LinkedMore DEF k
  <2> QED
    BY <2>3, <2>4
<1>7. \A i \in 1 .. m : c[i] \in Node /\ c[i] # x /\ node[c[i]].prev # -1
  BY <1>4, <1>5 DEF Left, Loose
<1>8. \A i \in 1 .. n : s[i] \in Node /\ s[i] # x /\ t[i + 1] = s[i] /\ i + 1 \in 1 .. k
  <2> TAKE i \in 1 .. n
  <2>1. node[s[i]].prev = At(s, n, i - 1)
    BY <1>3 DEF Listed, Linked
  <2>2. At(s, n, i - 1) \in Node \cup {0} /\ -1 \notin Node \cup {0}
    BY DEF At, Node
  <2>3. i + 1 \in 1 .. k /\ i + 1 # 1 /\ (i + 1) - 1 = i
    OBVIOUS
  <2> QED
    BY <1>5, <2>1, <2>2, <2>3
<1>9. t[1] = x
  <2>1. 1 \in 1 .. k
    OBVIOUS
  <2> QED
    BY <2>1
<1>n. n \in Nat
  OBVIOUS
<1> HIDE DEF t
<1>10. Loose(node', c, m, current')
  BY <1>2, <1>4, <1>6, <1>7 DEF Left, Loose, Chain
<1>11. ListInv'
  <2>1. Listed(t, k)'
    BY <1>1, <1>6 DEF Listed
  <2>2. Left(c, m)'
    BY <1>10 DEF Left
  <2>3. Standing(t, k)'
    BY <1>2 DEF Standing
  <2> HIDE DEF k
  <2> QED
    BY <1>6, <2>1, <2>2, <2>3, Zenon DEF ListInv
<1>12. Contents' = <<e>> \o Contents
  <2>1. Contents = [i \in 1 .. n |-> node[s[i]].elem] /\ Contents \in [1 .. n -> Elem \cup {0}]
    BY <1>3, ContentsAre
  <2>2. Contents' = [i \in 1 .. k |-> node'[t[i]].elem]
    BY <1>1, <1>6, ShownNext DEF Linked
  <2>3. PICK f, g, V : f = Contents /\ g = Contents' /\ V = Elem \cup {0}
    OBVIOUS
  <2>4. g[1] = e
    <3>1. 1 \in 1 .. k
      BY <1>n
    <3> QED
      BY <1>6, <1>9, <2>2, <2>3, <3>1
  <2>5. \A i \in 1 .. n : g[i + 1] = f[i]
    BY <1>6, <1>8, <2>1, <2>2, <2>3
  <2>6. g \in [1 .. k -> V]
    <3>1. \A i \in 1 .. k : node'[t[i]].elem \in V
      <4> TAKE i \in 1 .. k
      <4>1. node'[t[i]] \in NodeRecord
        BY <1>6
      <4> QED
        BY <2>3, <4>1 DEF NodeRecord
    <3> QED
      BY <2>2, <2>3, <3>1
  <2>7. f \in [1 .. n -> V] /\ e \in V
    BY <2>1, <2>3
  <2>8. g = <<e>> \o f
    BY <1>n, <2>4, <2>5, <2>6, <2>7, ConsIs
  <2> QED
    BY <2>3, <2>8
<1>13. Ahead' = Ahead
  <2>1. Ahead = [i \in 1 .. m |-> node[c[i]].elem]
    BY <1>4, AheadIs
  <2>2. Ahead' = [i \in 1 .. m |-> node'[c[i]].elem]
    BY <1>10, ShownAheadNext DEF Loose
  <2> QED
    BY <1>6, <1>7, <2>1, <2>2
<1> QED
  BY <1>2, <1>11, <1>12, <1>13 DEF L!Add, Contents, Ahead

LEMMA AddFailsStep ==
    ASSUME ListInv, addFails PROVE ListInv' /\ L!AddFails
<1>1. walking = "outside" /\ first' = 0
      /\ UNCHANGED <<node, current, toRemove, found, walking>>
  BY DEF addFails
<1>2. Contents' = <<>>
  BY <1>1, NothingNext
<1>3. Ahead' = Ahead
  BY <1>1 DEF Ahead, Elems, From
<1>4. ListInv'
  <2>1n. PICK n \in 0 .. MaxNode : \E s \in [1 .. n -> Node] : Linked(node', s, n, 0)
    BY NoList
  <2>1. PICK s \in [1 .. n -> Node] : Linked(node', s, n, 0)
    BY <2>1n
  <2>2. Listed(s, n)' /\ Standing(s, n)'
    BY <1>1, <2>1 DEF Listed, Standing
  <2>3n. PICK m \in 0 .. MaxNode : \E c \in [1 .. m -> Node] : Left(c, m)
    BY DEF ListInv
  <2>3. PICK c \in [1 .. m -> Node] : Left(c, m)
    BY <2>3n
  <2>4. Left(c, m)'
    BY <1>1, <2>3 DEF Left
  <2>5. node' \in [Node -> NodeRecord]
    BY <1>1 DEF ListInv
  <2> QED
    BY <2>2, <2>4, <2>5, Zenon DEF ListInv
<1> QED
  BY <1>1, <1>2, <1>3, <1>4 DEF L!AddFails, Contents, Ahead

LEMMA ToBeginStep ==
    ASSUME ListInv, toBegin PROVE ListInv' /\ L!ToBegin
<1>1. current' = first /\ walking' = "begun" /\ UNCHANGED <<node, first, toRemove, found>>
  BY DEF toBegin
<1>2. Contents' = Contents /\ Ahead' = Contents
  BY <1>1 DEF Contents, Ahead, Elems, From
<1>3n. PICK n \in 0 .. MaxNode : \E s \in [1 .. n -> Node] : Listed(s, n)
  BY DEF ListInv
<1>3. PICK s \in [1 .. n -> Node] : Listed(s, n)
  BY <1>3n
<1>4. Listed(s, n)'
  BY <1>1, <1>3 DEF Listed
<1>5. Standing(s, n)'
  <2>1. PICK k \in 0 .. n : k = 0
    OBVIOUS
  <2>2. k + 1 = 1 /\ first = At(s, n, 1)
    BY <1>3, <2>1 DEF Listed, Linked, Chain
  <2>3. StandsAt(s, n, k)'
    BY <1>1, <2>2 DEF StandsAt
  <2> QED
    BY <2>3 DEF Standing
<1>6. Left(s, n)'
  <2>1. \A i \in 1 .. n : node[s[i]].prev # -1
    <3> TAKE i \in 1 .. n
    <3>1. node[s[i]].prev = At(s, n, i - 1)
      BY <1>3 DEF Listed, Linked
    <3>2. At(s, n, i - 1) \in Node \cup {0} /\ -1 \notin Node \cup {0}
      BY DEF At, Node
    <3> QED
      BY <3>1, <3>2
  <2> QED
    BY <1>1, <1>3, <2>1 DEF Left, Loose, Listed, Linked
<1>7. node' \in [Node -> NodeRecord]
  BY <1>1 DEF ListInv
<1>8. ListInv'
  BY <1>4, <1>5, <1>6, <1>7, Zenon DEF ListInv
<1> QED
  BY <1>1, <1>2, <1>8 DEF L!ToBegin, Contents, Ahead

LEMMA NextStep ==
    ASSUME ListInv, next PROVE ListInv' /\ (L!Visit \/ L!VisitNothing)
<1>1. walking # "outside" /\ UNCHANGED <<node, first>>
  BY DEF next
<1>2n. PICK n \in 0 .. MaxNode : \E s \in [1 .. n -> Node] : Listed(s, n) /\ Standing(s, n)
  BY DEF ListInv
<1>2. PICK s \in [1 .. n -> Node] : Listed(s, n) /\ Standing(s, n)
  BY <1>2n
<1>3n. PICK m \in 0 .. MaxNode : \E c \in [1 .. m -> Node] : Left(c, m)
  BY DEF ListInv
<1>3. PICK c \in [1 .. m -> Node] : Left(c, m)
  BY <1>3n
<1>4. /\ MaxNode \in Nat /\ current = At(c, m, 1)
      /\ \A i \in 1 .. m : node[c[i]].next = At(c, m, i + 1) /\ node[c[i]].prev # -1
  BY <1>3, NodesAssumption DEF Left, Loose, Chain
<1>5. Contents' = Contents /\ node' \in [Node -> NodeRecord] /\ Listed(s, n)'
  BY <1>1, <1>2 DEF Contents, Elems, From, ListInv, Listed
<1>6. Ahead = [i \in 1 .. m |-> node[c[i]].elem] /\ Ahead \in [1 .. m -> Elem \cup {0}]
  BY <1>3, AheadIs
<1>7. CASE current = 0
  <2>1. found' = 0 /\ walking' = "outside" /\ UNCHANGED <<toRemove, current>>
    BY <1>7 DEF next
  <2>2. m = 0
    <3>1. m # 0 => 1 \in 1 .. m
      BY <1>4
    <3> QED
      BY <1>4, <1>7, <3>1 DEF At, Node
  <2>3. Ahead = <<>>
    <3>1. 1 .. m = {}
      BY <2>2
    <3> QED
      BY <1>6, <3>1
  <2>4. Ahead' = Ahead
    BY <1>1, <2>1 DEF Ahead, Elems, From
  <2>5. Standing(s, n)' /\ Left(c, m)'
    BY <1>1, <1>3, <2>1 DEF Standing, Left
  <2>6. ListInv'
    BY <1>5, <2>5, Zenon DEF ListInv
  <2> QED
    BY <1>5, <2>1, <2>3, <2>4, <2>6 DEF L!VisitNothing, Contents, Ahead
<1>8. CASE current # 0
  <2>1. /\ found' = node[current].elem /\ toRemove' = current
        /\ current' = node[current].next /\ walking' = "visited"
    BY <1>8 DEF next
  <2>2. 1 \in 1 .. m /\ m \in Nat \ {0} /\ current = c[1] /\ current' = At(c, m, 2)
    <3>1. 1 \in 1 .. m
      BY <1>4, <1>8 DEF At
    <3>2. m \in Nat \ {0} /\ 1 + 1 = 2
      BY <1>4, <3>1
    <3> QED
      BY <1>4, <2>1, <3>1, <3>2 DEF At
  <2> DEFINE l == m - 1
             d == [i \in 1 .. l |-> c[i + 1]]
  <2>3. l \in 0 .. MaxNode /\ \A i \in 1 .. l : i + 1 \in 1 .. m
    BY <1>4, <2>2
  <2>m. m = l + 1
    BY <2>2
  <2> HIDE DEF l
  <2>4. d \in [1 .. l -> Node] /\ \A i \in 1 .. l : d[i] = c[i + 1]
    BY <2>3
  <2> HIDE DEF d
  <2>5. \A i \in 1 .. l + 1 : At(d, l, i) = At(c, m, i + 1)
    <3> TAKE i \in 1 .. l + 1
    <3>1. i \in 1 .. l <=> i + 1 \in 1 .. m
      BY <2>3, <2>m
    <3> QED
      BY <2>4, <3>1 DEF At
  <2>6. Loose(node', d, l, current')
    <3>1. 1 \in 1 .. l + 1 /\ 1 + 1 = 2
      BY <2>3
    <3>2. current' = At(d, l, 1)
      BY <2>2, <2>5, <3>1
    <3>3. \A i \in 1 .. l : node'[d[i]].next = At(d, l, i + 1) /\ node'[d[i]].prev # -1
      <4> TAKE i \in 1 .. l
      <4>1. i + 1 \in 1 .. m /\ i + 1 \in 1 .. l + 1
        BY <2>3
      <4> QED
        BY <1>1, <1>4, <2>4, <2>5, <4>1
    <3> QED
      BY <2>3, <2>4, <3>2, <3>3 DEF Loose, Chain
  <2>7. Ahead' = [i \in 1 .. l |-> node'[d[i]].elem]
    BY <2>6, ShownAheadNext DEF Loose
  <2>8. Ahead # <<>> /\ Head(Ahead) = found' /\ Ahead' = Tail(Ahead)
    <3>1. PICK f, g, V : f = Ahead /\ g = Ahead' /\ V = Elem \cup {0}
      OBVIOUS
    <3>2. f \in [1 .. m -> V]
      BY <1>6, <3>1
    <3>3. \A i \in 1 .. l : g[i] = f[i + 1]
      BY <1>1, <1>6, <2>3, <2>4, <2>7, <3>1
    <3>4. g \in [1 .. l -> V]
      <4>1. \A i \in 1 .. l : g[i] \in V
        BY <2>3, <3>2, <3>3
      <4> QED
        BY <2>7, <3>1, <4>1
    <3>5. f # <<>> /\ Head(f) = f[1] /\ g = Tail(f)
      <4>1. l = m - 1
        BY DEF l
      <4> QED
        BY <2>2, <3>2, <3>3, <3>4, <4>1, TailIs
    <3>6. f[1] = found'
      BY <1>6, <2>1, <2>2, <3>1
    <3> QED
      BY <3>1, <3>5, <3>6
  <2>9. Standing(s, n)'
    <3>1. PICK k \in 0 .. n : StandsAt(s, n, k)
      BY <1>1, <1>2 DEF Standing
    <3>2. current = At(s, n, k + 1)
      BY <3>1 DEF StandsAt
    <3>3. PICK j \in 0 .. n : j = k + 1 /\ j \in 1 .. n /\ current = s[j]
      BY <1>8, <3>2 DEF At
    <3>4. node[s[j]].next = At(s, n, j + 1)
      BY <1>2, <3>3 DEF Listed, Linked, Chain
    <3>5. StandsAt(s, n, j)'
      BY <1>1, <2>1, <3>3, <3>4 DEF StandsAt
    <3> QED
      BY <3>5, Zenon DEF Standing
  <2>10. Left(d, l)'
    BY <2>6 DEF Left
  <2>11. ListInv'
    BY <1>5, <2>3, <2>4, <2>9, <2>10, Zenon DEF ListInv
  <2> QED
    BY <1>5, <2>8, <2>11 DEF L!Visit, Contents, Ahead
<1> QED
  BY <1>7, <1>8

LEMMA RemoveStep ==
    ASSUME ListInv, remove PROVE ListInv' /\ L!RemoveSeen
<1>1. /\ walking = "visited" /\ walking' = "begun"
      /\ node' = Unlinked(toRemove)
      /\ first' = IF node[toRemove].prev = 0 THEN node[toRemove].next ELSE first
      /\ UNCHANGED <<current, found>>
  BY DEF remove
<1>2n. PICK n \in 0 .. MaxNode : \E s \in [1 .. n -> Node] : Listed(s, n) /\ Standing(s, n)
  BY DEF ListInv
<1>2. PICK s \in [1 .. n -> Node] : Listed(s, n) /\ Standing(s, n)
  BY <1>2n
<1>3. PICK k \in 0 .. n : StandsAt(s, n, k)
  BY <1>1, <1>2 DEF Standing
<1>4. /\ MaxNode \in Nat /\ n \in Nat \ {0} /\ k \in 1 .. n /\ toRemove = s[k]
      /\ found = node[s[k]].elem /\ current = At(s, n, k + 1)
  BY <1>1, <1>3, NodesAssumption DEF StandsAt
<1> DEFINE l == n - 1
           t == [i \in 1 .. l |-> IF i < k THEN s[i] ELSE s[i + 1]]
           h == n - k
           c == [i \in 1 .. h |-> s[k + i]]
           b == k - 1
<1>5. Linked(node, s, n, first) /\ node \in [Node -> NodeRecord]
  BY <1>2 DEF Listed, ListInv
<1>6. /\ node' \in [Node -> NodeRecord]
      /\ \A y \in Node : y # s[k] => node'[y].elem = node[y].elem
      /\ l \in 0 .. MaxNode /\ t \in [1 .. l -> Node]
      /\ Linked(node', t, l, first')
      /\ \A j \in 0 .. n : At(t, l, j) = IF j < k THEN At(s, n, j) ELSE At(s, n, j + 1)
  <2>1. PICK nodes, p : nodes = Unlinked(s[k])
                        /\ p = IF node[s[k]].prev = 0 THEN node[s[k]].next ELSE first
    OBVIOUS
  <2>2. node' = nodes /\ first' = p
    BY <1>1, <1>4, <2>1
  <2>3. /\ nodes \in [Node -> NodeRecord]
        /\ \A y \in Node : y # s[k] => nodes[y].elem = node[y].elem
        /\ l \in 0 .. MaxNode /\ t \in [1 .. l -> Node]
        /\ Linked(nodes, t, l, p)
        /\ \A j \in 0 .. n : At(t, l, j) = IF j < k THEN At(s, n, j) ELSE At(s, n, j + 1)
    <3>1. RemovesAt(s, n, k, nodes, p)
      BY <1>4, <1>5, <2>1 DEF RemovesAt
    <3> QED
      BY <1>5, <3>1, LinkedLess
  <2> QED
    BY <2>2, <2>3
<1>7. h \in 0 .. MaxNode /\ c \in [1 .. h -> Node] /\ Loose(node, c, h, current)
  BY <1>4, <1>5, Suffix
<1>8. b \in 0 .. l /\ b + 1 = k /\ l - b = h /\ \A i \in 1 .. h : b + i = (k + i) - 1 /\ k + i \in 1 .. n
  BY <1>4
<1>9. current = At(t, l, b + 1)
  <2>1. k \in 0 .. n /\ ~(k < k)
    BY <1>4
  <2> QED
    BY <1>4, <1>6, <1>8, <2>1
<1>10. \A i \in 1 .. h : t[b + i] = s[k + i]
  <2> TAKE i \in 1 .. h
  <2>1. b + i \in 1 .. l /\ ~(b + i < k) /\ (b + i) + 1 = k + i
    BY <1>4
  <2> QED
    BY <2>1
<1>l. l \in Nat /\ h \in Nat /\ l = n - 1 /\ k = n - h
      /\ \A i \in 1 .. l : i \in 1 .. n /\ i + 1 \in 1 .. n /\ (i < k => i # k)
                           /\ (~(i < k) => i + 1 # k)
  BY <1>4
<1>t. \A i \in 1 .. l : t[i] = IF i < k THEN s[i] ELSE s[i + 1]
  OBVIOUS
<1>c. \A i \in 1 .. h : c[i] = s[k + i]
  OBVIOUS
<1> HIDE DEF t, l, h, b
<1>11. Loose(node', c, h, current)
  <2> DEFINE d == [i \in 1 .. l - b |-> t[b + i]]
  <2>1. Loose(node', d, l - b, current)
    <3>1. PICK nodes, p, place : nodes = node' /\ p = first' /\ place = current
      OBVIOUS
    <3>2. Linked(nodes, t, l, p) /\ place = At(t, l, b + 1)
      BY <1>6, <1>9, <3>1
    <3>3. Loose(nodes, d, l - b, place)
      BY <1>8, <3>2, Suffix
    <3> QED
      BY <3>1, <3>3
  <2>2. d = c
    BY <1>8, <1>10
  <2> QED
    BY <1>8, <2>1, <2>2
<1> HIDE DEF c
<1>12. ListInv'
  <2>1. Listed(t, l)'
    BY <1>6 DEF Listed
  <2>2. StandsAt(t, l, b)'
    BY <1>1, <1>9 DEF StandsAt
  <2>3. Standing(t, l)'
    BY <1>8, <2>2 DEF Standing
  <2>4. Left(c, h)'
    BY <1>1, <1>11 DEF Left
  <2> QED
    BY <1>6, <1>7, <2>1, <2>3, <2>4, Zenon DEF ListInv
<1>13. \A i, j \in 1 .. n : s[i] = s[j] => i = j
  BY <1>5 DEF Linked
<1>14. Contents = [i \in 1 .. n |-> node[s[i]].elem] /\ Contents \in [1 .. n -> Elem \cup {0}]
  BY <1>2, ContentsAre
<1>15. Contents' = [i \in 1 .. l |-> node'[t[i]].elem]
  BY <1>6, ShownNext DEF Linked
<1>16. Ahead = [i \in 1 .. h |-> node[c[i]].elem] /\ Ahead \in [1 .. h -> Elem \cup {0}]
  BY <1>7, AheadIs DEF Left
<1>17. Ahead' = [i \in 1 .. h |-> node'[c[i]].elem]
  BY <1>1, <1>11, ShownAheadNext DEF Loose
<1>18. Ahead' = Ahead
  <2>1. ASSUME NEW i \in 1 .. h PROVE node'[c[i]].elem = node[c[i]].elem
    <3>1. k + i \in 1 .. n /\ k + i # k
      BY <1>4, <1>8
    <3>2. c[i] = s[k + i] /\ s[k + i] # s[k] /\ s[k + i] \in Node
      BY <1>4, <1>c, <1>13, <3>1
    <3> QED
      BY <1>6, <3>2
  <2> QED
    BY <1>16, <1>17, <2>1
<1>19. Contents' = RemoveAt(Contents, k)
  <2>1. PICK f, g, V : f = Contents /\ g = Contents' /\ V = Elem \cup {0}
    OBVIOUS
  <2>2. f \in [1 .. n -> V]
    BY <1>14, <2>1
  <2>3. ASSUME NEW i \in 1 .. l PROVE g[i] = IF i < k THEN f[i] ELSE f[i + 1]
    <3>1. PICK j \in 1 .. n : j = (IF i < k THEN i ELSE i + 1) /\ j # k
      BY <1>4, <1>l
    <3>2. t[i] = s[j] /\ s[j] # s[k] /\ s[j] \in Node
      BY <1>4, <1>t, <1>13, <3>1
    <3>3. g[i] = f[j]
      BY <1>6, <1>14, <1>15, <2>1, <3>2
    <3> QED
      BY <3>1, <3>3
  <2>4. g \in [1 .. l -> V]
    <3>1. \A i \in 1 .. l : g[i] \in V
      BY <1>l, <2>2, <2>3
    <3> QED
      BY <1>15, <2>1, <3>1
  <2>5. g = RemoveAt(f, k)
    <3>1. g \in [1 .. n - 1 -> V]
          /\ \A i \in 1 .. n - 1 : g[i] = IF i < k THEN f[i] ELSE f[i + 1]
      BY <1>l, <2>3, <2>4
    <3>2. Without(f, k, g, n, V)
      BY <1>4, <2>2, <3>1 DEF Without
    <3> QED
      BY <3>2, RemovedIs
  <2> QED
    BY <2>1, <2>5
<1>20. /\ k \in DOMAIN Contents /\ k = Len(Contents) - Len(Ahead)
       /\ Contents[k] = found
  <2>1. Len(Contents) = n /\ DOMAIN Contents = 1 .. n
    BY <1>4, <1>14, SequenceOf
  <2>2. Len(Ahead) = h
    BY <1>l, <1>16, SequenceOf
  <2>3. Contents[k] = node[s[k]].elem
    BY <1>4, <1>14
  <2> QED
    BY <1>4, <1>l, <2>1, <2>2, <2>3
<1>21. \E i \in DOMAIN Contents : /\ i = Len(Contents) - Len(Ahead)
                                  /\ Contents[i] = found
                                  /\ Contents' = RemoveAt(Contents, i)
                                  /\ UNCHANGED <<Ahead, found>>
  BY <1>1, <1>18, <1>19, <1>20
<1>22. L!RemoveSeen
  BY <1>21 DEF L!RemoveSeen, L!RemoveAt, RemoveAt, Contents, Ahead
<1> QED
  BY <1>12, <1>22

LEMMA FreeListStep ==
    ASSUME ListInv, freeList PROVE ListInv' /\ L!Clear
<1>1. /\ walking = "outside" /\ first' = 0 /\ current' = 0 /\ UNCHANGED <<found, walking>>
      /\ node' = [n \in Node |->
            IF \E i \in DOMAIN From(first) : From(first)[i] = n THEN FreeNode ELSE node[n]]
  BY DEF freeList
<1>2. Contents' = <<>> /\ Ahead' = <<>>
  BY <1>1, NothingNext, NothingAheadNext
<1>3. node' \in [Node -> NodeRecord]
  <2>1. FreeNode \in NodeRecord
    BY NodesAssumption DEF FreeNode, NodeRecord
  <2> QED
    BY <1>1, <2>1 DEF ListInv
<1>4n. PICK n \in 0 .. MaxNode : \E s \in [1 .. n -> Node] : Linked(node', s, n, 0) /\ Loose(node', s, n, 0)
  BY NoList
<1>4. PICK s \in [1 .. n -> Node] : Linked(node', s, n, 0) /\ Loose(node', s, n, 0)
  BY <1>4n
<1>5. Listed(s, n)' /\ Standing(s, n)' /\ Left(s, n)'
  BY <1>1, <1>4 DEF Listed, Standing, Left
<1>6. ListInv'
  BY <1>3, <1>5, Zenon DEF ListInv
<1> QED
  BY <1>1, <1>2, <1>6 DEF L!Clear, Contents, Ahead

LEMMA ListStep ==
    ASSUME ListInv, [Next]_vars
    PROVE  ListInv' /\ [L!Next]_<<Contents, Ahead, found>>
<1>1. ASSUME UNCHANGED ddlVars PROVE ListInv' /\ UNCHANGED <<Contents, Ahead, found>>
  <2>1. UNCHANGED <<node, first, current, toRemove, found, walking>>
    BY <1>1 DEF ddlVars
  <2>2. UNCHANGED <<Contents, Ahead, found>>
    BY <2>1 DEF Contents, Ahead, Elems, From
  <2>3. ListInv'
    BY <2>1 DEF ListInv, Listed, Standing, StandsAt, Left
  <2> QED
    BY <2>2, <2>3
<1>2. CASE ddlNext
  <2>1. ASSUME NEW e \in Elem, add(e) PROVE ListInv' /\ L!Next
    BY <2>1, AddStep DEF L!Next
  <2>2. CASE addFails
    BY <2>2, AddFailsStep DEF L!Next
  <2>3. CASE toBegin
    BY <2>3, ToBeginStep DEF L!Next
  <2>4. CASE next
    BY <2>4, NextStep DEF L!Next
  <2>5. CASE leaves
    <3>1. walking' = "outside" /\ UNCHANGED <<node, first, current, toRemove, found>>
      BY <2>5 DEF leaves
    <3>2. UNCHANGED <<Contents, Ahead, found>>
      BY <3>1 DEF Contents, Ahead, Elems, From
    <3>3. ListInv'
      BY <3>1 DEF ListInv, Listed, Standing, StandsAt, Left
    <3> QED
      BY <3>2, <3>3
  <2>6. CASE remove
    BY <2>6, RemoveStep DEF L!Next
  <2>7. CASE freeList
    BY <2>7, FreeListStep DEF L!Next
  <2> QED
    BY <1>2, <2>1, <2>2, <2>3, <2>4, <2>5, <2>6, <2>7 DEF ddlNext
<1>3. CASE Allocates
  BY <1>1, <1>3 DEF Allocates
<1>4. CASE Frees
  BY <1>1, <1>4 DEF Frees
<1>5. CASE UNCHANGED vars
  BY <1>1, <1>5 DEF vars
<1> QED
  BY <1>1, <1>2, <1>3, <1>4, <1>5 DEF Next

LEMMA ListBegins == ASSUME Init PROVE ListInv /\ L!Init
<1>1. newList
  BY DEF Init
<1>2. first = 0 /\ current = 0 /\ found = 0
  BY <1>1 DEF newList
<1>3n. PICK n \in 0 .. MaxNode : \E s \in [1 .. n -> Node] : n = 0 /\ Linked(node, s, n, 0)
  BY NoList
<1>3. PICK s \in [1 .. n -> Node] : n = 0 /\ Linked(node, s, n, 0)
  BY <1>3n
<1>4. 1 .. n = {}
  BY <1>3
<1>5. Contents = <<>>
  BY <1>2, <1>3, <1>4, Shown DEF Linked
<1>6. Ahead = <<>>
  BY <1>2, <1>3, <1>4, ShownAhead DEF Linked
<1> QED
  BY <1>1, <1>2, <1>5, <1>6, ListStart DEF L!Init, Contents, Ahead

\* Whatever is added, visited and removed in whatever order, and however many nodes there are, the
\* links, the cursor and the node to remove describe one sequence with a place in it: a traversal
\* that removes what it has just visited visits everything else once.
THEOREM ListIsSequence == Spec => ImplementsList
<1>1. Init => ListInv /\ L!Init
  BY ListBegins
<1>2. ListInv /\ [Next]_vars => ListInv' /\ [L!Next]_<<Contents, Ahead, found>>
  BY ListStep
<1> QED
  BY <1>1, <1>2, PTL DEF Spec, ImplementsList, L!Spec, Contents, Ahead
=============================================================================
