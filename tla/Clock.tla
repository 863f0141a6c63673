-------------------------------- MODULE Clock --------------------------------
(***************************************************************************)
(* The calendar of iotgo_clock.c and the tests of iotgo_loctimer.c that    *)
(* decide whether a timer is due, as operators on dates; and a reference   *)
(* calendar, day numbers, to check them against.                           *)
(***************************************************************************)
EXTENDS Integers

Date(y, mo, d, h, mi, s) ==
    [year |-> y, month |-> mo, day |-> d, hour |-> h, minute |-> mi, second |-> s]

Moment == [year : Nat, month : 1..12, day : 1..31, hour : 0..23, minute : 0..59, second : 0..59]

\* What verifyGMTTime accepts: the day is not compared with the month.
Verified(t) == t \in Moment /\ t.year > 2000

\* Mutant: centuries are leap years.
isLeapYearJulian(year) == year % 4 = 0

isLeapYear(year) == (year % 4 = 0 /\ year % 100 # 0) \/ year % 400 = 0

daysOfMonth(year, month) ==
    IF month = 2 THEN IF isLeapYear(year) THEN 29 ELSE 28
    ELSE IF month \in {4, 6, 9, 11} THEN 30 ELSE 31

\* Mutant: only January belongs to the year before.
getWeekFromFebruary(year, month, d) ==
    LET y0 == IF month < 2 THEN year - 1 ELSE year
        m == IF month < 2 THEN month + 12 ELSE month
        c == y0 \div 100
        y == y0 % 100
    IN  (y + y \div 4 + c \div 4 - 2 * c + (26 * (m + 1)) \div 10 + d - 1) % 7

\* Zeller's congruence; 0 is Sunday.
getWeek(year, month, d) ==
    LET y0 == IF month < 3 THEN year - 1 ELSE year
        m == IF month < 3 THEN month + 12 ELSE month
        c == y0 \div 100
        y == y0 % 100
    IN  (y + y \div 4 + c \div 4 - 2 * c + (26 * (m + 1)) \div 10 + d - 1) % 7

\* localRTC: t, n seconds later.  Minutes and hours carry by division, the
\* day by one comparison, which is enough for less than a day.  A day that
\* its month does not have is noticed at midnight.
NextDayOfNoYear(t) ==                        \* mutant: December is forgotten
    IF t.day < daysOfMonth(t.year, t.month) THEN [t EXCEPT !.day = @ + 1]
    ELSE [t EXCEPT !.day = 1, !.month = @ + 1]

NextDay(t) ==
    IF t.day < daysOfMonth(t.year, t.month) THEN [t EXCEPT !.day = @ + 1]
    ELSE IF t.month < 12 THEN [t EXCEPT !.day = 1, !.month = @ + 1]
    ELSE [t EXCEPT !.day = 1, !.month = 1, !.year = @ + 1]

Carry(t, n) ==
    LET s == t.second + n
        mi == t.minute + s \div 60
        h == t.hour + mi \div 60
        later == [t EXCEPT !.second = s % 60, !.minute = mi % 60, !.hour = h % 24]
    IN  IF h < 24 THEN later ELSE NextDay(later)

------------------------------------------------------------------------------
\* Schedules of timers.  A cron has the days of the week, the hour (24: every
\* hour) and the minute; a duration timer starts something every interval
\* minutes from gmt on and ends it after duration minutes.
OnceAt(t) == [kind |-> "once", gmt |-> t]
Cron(weeks, hour, minute) ==
    [kind |-> "cron", weeks |-> weeks, hour |-> hour, minute |-> minute]
Every(t, interval, duration) ==
    [kind |-> "duration", gmt |-> t, interval |-> interval, duration |-> duration]

\* What generateTimer accepts: parseFromATString refuses an interval of 0,
\* by which durationCompareWithNow divides.
Accepted(p) ==
    \/ p.kind = "once" /\ Verified(p.gmt)
    \/ p.kind = "cron" /\ p.weeks \subseteq 0..6 /\ p.hour \in 0..24 /\ p.minute \in 0..59
    \/ p.kind = "duration" /\ Verified(p.gmt)
              /\ p.interval \in Nat \ {0} /\ p.duration \in Nat

gmtCompareWithNow(gmt, now) == now = [gmt EXCEPT !.second = 0]

\* Mutant: the wildcard for the hour is forgotten.
cronCompareNoWildcard(cron, now) ==
    /\ getWeek(now.year, now.month, now.day) \in cron.weeks
    /\ cron.hour = now.hour
    /\ cron.minute = now.minute
    /\ now.second = 0

cronCompareWitchNow(cron, now) ==
    /\ getWeek(now.year, now.month, now.day) \in cron.weeks
    /\ cron.hour \in {now.hour, 24}
    /\ cron.minute = now.minute
    /\ now.second = 0

\* compareTimeToKnowDate: days since 2016-01-01, and seconds since 0:00 of the
\* day.  (The code adds them up in 32 bits, which last until 2152.)
DaysOf(year, months) ==
    LET days[m \in 0..months] == IF m = 0 THEN 0 ELSE days[m - 1] + daysOfMonth(year, m)
    IN  days[months]

DaySum(t) ==
    LET days[y \in 2015 .. t.year - 1] == IF y = 2015 THEN 0 ELSE days[y - 1] + DaysOf(y, 12)
    IN  days[t.year - 1] + DaysOf(t.year, t.month - 1) + t.day - 1

SecondOfDay(t) == (t.hour * 60 + t.minute) * 60 + t.second

compareTimeToKnowDate(t) ==
    IF t.year < 2016 THEN <<0, 0>> ELSE <<DaySum(t), SecondOfDay(t)>>

\* durationCompareWithNow: 0 start, 1 end, -1 nothing.
durationCompareWithNow(p, now) ==
    LET cur == compareTimeToKnowDate(now)
        time == compareTimeToKnowDate(p.gmt)
        diff == 86400 * (cur[1] - time[1]) + cur[2] - time[2]
        phase == (diff \div 60) % p.interval
    IN  IF <<0, 0>> \in {cur, time} \/ diff < 0 \/ diff % 60 # 0 THEN -1
        ELSE IF phase = 0 THEN 0
        ELSE IF p.duration # 0 /\ phase % p.duration = 0 THEN 1
        ELSE -1

\* The test of timerDealTime for each type.
IsDue(p, now) ==
    \/ p.kind = "once" /\ gmtCompareWithNow(p.gmt, now)
    \/ p.kind = "cron" /\ cronCompareWitchNow(p, now)
    \/ p.kind = "duration" /\ durationCompareWithNow(p, now) # -1

------------------------------------------------------------------------------
\* The reference calendar: the number of a day, counted from a 1st of March,
\* so that the leap day is the last of its year.
DayNumber(t) ==
    LET y == IF t.month <= 2 THEN t.year - 1 ELSE t.year
        m == (t.month + 9) % 12
    IN  365 * y + y \div 4 - y \div 100 + y \div 400 + (153 * m + 2) \div 5 + t.day - 1

\* Seconds from a to b; the dates must be close enough for TLC's integers.
SecondsBetween(a, b) ==
    86400 * (DayNumber(b) - DayNumber(a)) + SecondOfDay(b) - SecondOfDay(a)

\* 1 March of year 0 was a Wednesday.
Weekday(t) == (DayNumber(t) + 3) % 7

\* A date of the calendar: the next month begins after it.
RealDate(t) ==
    LET m1 == IF t.month = 12 THEN Date(t.year + 1, 1, 1, 0, 0, 0)
              ELSE Date(t.year, t.month + 1, 1, 0, 0, 0)
    IN  t.month \in 1..12 /\ t.day >= 1 /\ DayNumber(t) < DayNumber(m1)

\* Whether the schedule p calls for something in the minute of now.  A timer that is
\* to end something does so at every multiple of its duration.
DueInMinute(p, now) ==
    LET start == [now EXCEPT !.second = 0]
        passed == SecondsBetween(p.gmt, start) + p.gmt.second  \* whole minutes
        phase == (passed \div 60) % p.interval
    IN  \/ p.kind = "once" /\ start = [p.gmt EXCEPT !.second = 0]
        \/ p.kind = "cron" /\ Weekday(now) \in p.weeks
              /\ p.hour \in {now.hour, 24} /\ p.minute = now.minute
        \/ p.kind = "duration" /\ passed >= 0
              /\ (phase = 0 \/ (p.duration > 0 /\ phase % p.duration = 0))
==============================================================================
