----------------------------- MODULE TimedTimers -----------------------------
(***************************************************************************)
(* The local timers with the clock that runs them: LocTimer's table, the   *)
(* time of iotgo_clock.c, and the two periodic callbacks of one second,    *)
(* localRTC, which moves the time, and timerDealTime, which looks at it.   *)
(*                                                                         *)
(* A timer is due in one second of its minute, so whether it runs depends  *)
(* on the time showing that second exactly once when it is looked at.  The *)
(* time moves by what the hardware measured since the last callback, which *)
(* may be a little more or less than a second, and jumps when the server   *)
(* sends the date.                                                         *)
(***************************************************************************)
EXTENDS LocTimer, Clock

CONSTANTS
    Plan,           \* the schedules: Once \cup Repeat -> records of Clock
    Unit,           \* rtc_divider: the units of micro in a second (10^6)
    Elapsed,        \* what the hardware may measure between two callbacks
    Dates,          \* the dates the server may send
    CalendarDates,  \* further ones, sent first and while there is no timer
    BusyAt,         \* when requests arrive
    Ticks,          \* bound: how long the clock runs after it was set
    CalendarTicks,  \* the same after one of CalendarDates
    MaxOdd          \* bound: how many of these are not exactly one second

\* micro and what is added to it are 32-bit numbers of microseconds.
ASSUME TimedTimersAssumption ==
    /\ Unit \in Nat \ {0} /\ Elapsed \subseteq 0 .. 4293 * Unit
    /\ {Ticks, CalendarTicks, MaxOdd} \subseteq Nat
    /\ \A t \in Dates \cup CalendarDates : Verified(t)
    /\ DOMAIN Plan = Once \cup Repeat
    /\ \A p \in Once \cup Repeat : Accepted(Plan[p]) /\ (Plan[p].kind = "once" <=> p \in Once)

VARIABLES
    now,        \* current_time
    micro,      \* the part of a second that is not in now yet
    started,    \* whether localRTC has a previous measurement
    turn,       \* which of the two callbacks is next
    left,       \* how long the clock may still run (Ticks)
    odd,        \* how many ticks since the clock was set were not one second
    acted,      \* history: how often each slot's timer acted in the minute shown
    calm        \* history: so far this minute every tick was one second and
                \* neither the clock nor the table was changed from outside

clockVars == <<now, micro, started, turn, left, odd, acted, calm>>
timedVars == <<vars, clockVars>>

Epoch == Date(1970, 1, 1, 0, 0, 0)
NobodyActed == [s \in Slot |-> 0]

TimedTypeOK ==
    /\ TypeOK
    /\ now \in Moment
    /\ micro \in 0..(Unit - 1)
    /\ started \in BOOLEAN /\ calm \in BOOLEAN
    /\ turn \in {"rtc", "deal"}
    /\ left \in Nat /\ odd \in 0..MaxOdd
    /\ acted \in [Slot -> 0..2]

SameMinute(a, b) == [a EXCEPT !.second = 0] = [b EXCEPT !.second = 0]

ClockOff ==
    /\ now' = Epoch /\ micro' = 0 /\ started' = FALSE /\ turn' = "rtc"
    /\ left' = 1 /\ odd' = 0 /\ acted' = NobodyActed /\ calm' = FALSE

TimedInit ==
    /\ Init
    /\ now = Epoch /\ micro = 0 /\ started = FALSE /\ turn = "rtc"
    /\ left = 1 /\ odd = 0 /\ acted = NobodyActed /\ calm = FALSE

TimedBoot == Boot /\ ClockOff
TimedPowerLoss == PowerLoss /\ ClockOff

\* A request on the table, from its first step to its last.
TimedRequest ==
    /\ op = "none" => now \in BusyAt
    /\ Request
    /\ calm' = FALSE
    /\ UNCHANGED <<now, micro, started, turn, left, odd, acted>>

\* setGMTTime: the period of localRTC begins anew, so timerDealTime is next.
\* micro and the last measurement stay as they are.  The date comes over the
\* network, which takes longer to join than the first period of localRTC.
SetGMTTime(t, ticks) ==
    /\ op = "none" /\ started
    /\ now' = t
    /\ turn' = "deal"
    /\ left' = ticks /\ odd' = 0
    /\ acted' = IF SameMinute(t, now) THEN acted ELSE NobodyActed
    /\ calm' = FALSE
    /\ UNCHANGED <<vars, micro, started>>

ServerDate ==
    \/ \E t \in Dates : SetGMTTime(t, Ticks)
    \/ \E t \in CalendarDates : ram.timer_cnt = 0 /\ now = Epoch /\ SetGMTTime(t, CalendarTicks)

\* localRTC: e was measured since the last time.
Advance(e) ==
    LET n == (micro + e) \div Unit
    IN  /\ micro' = (micro + e) % Unit
        /\ now' = Carry(now, n)

\* The first call only takes a measurement.
LocalRTC(e) ==
    /\ op = "none" /\ turn = "rtc" /\ left > 0
    /\ e # Unit => odd < MaxOdd
    /\ turn' = "deal" /\ left' = left - 1
    /\ IF started THEN Advance(e) ELSE UNCHANGED <<micro, now>>
    /\ started' = TRUE
    /\ odd' = IF e = Unit THEN odd ELSE odd + 1
    /\ acted' = IF SameMinute(now, now') THEN acted ELSE NobodyActed
    /\ calm' = (now' = Carry(now, 1) /\ (calm \/ ~SameMinute(now, now')))
    /\ UNCHANGED vars

\* timerDealTime: every enabled timer that is due acts.
Due == {s \in Slot : /\ ram.timer[s].id # 0 /\ ram.timer[s].enabled
                     /\ IsDue(Plan[ram.timer[s].type], now)}

TimerDealTime ==
    /\ op = "none" /\ turn = "deal"
    /\ turn' = "rtc"
    /\ LET once == {s \in Due : ram.timer[s].type \in Once}
       IN  IF once = {} THEN UNCHANGED vars ELSE DealTime(once)
    /\ acted' = [s \in Slot |-> IF s \in Due /\ acted[s] < 2 THEN acted[s] + 1 ELSE acted[s]]
    /\ UNCHANGED <<now, micro, started, left, odd, calm>>

TimedNext ==
    \/ TimedBoot \/ TimedPowerLoss
    \/ TimedRequest \/ ServerDate
    \/ \E e \in Elapsed : LocalRTC(e)
    \/ TimerDealTime

TimedSpec == TimedInit /\ [][TimedNext]_timedVars

------------------------------------------------------------------------------
(* The clock loses and gains nothing: with the part of a second it keeps   *)
(* in micro it moves by exactly what was measured, across the ends of      *)
(* minutes, months, leap Februaries, years and centuries, and from a date  *)
(* of the calendar to a date of the calendar.                              *)
ClockKeepsTime ==
    [][\A e \in Elapsed : (LocalRTC(e) /\ started /\ RealDate(now)) =>
          /\ RealDate(now')
          /\ Unit * SecondsBetween(now, now') + micro' - micro = e]_timedVars

(* The day of the week that crons are compared with and the days since     *)
(* 2016 that durations are counted in are those of the calendar.           *)
CalendarAgrees ==
    (RealDate(now) /\ now.year >= 2016) =>
        /\ getWeek(now.year, now.month, now.day) = Weekday(now)
        /\ compareTimeToKnowDate(now)[1] = DayNumber(now) - DayNumber(Date(2016, 1, 1, 0, 0, 0))

(* In a minute that the clock shows second by second to its end, and in    *)
(* which neither the clock nor the table is changed, every enabled timer   *)
(* the minute is due for acts exactly once, and no other timer acts.  (A   *)
(* second shown twice or skipped is what the code does not make up for.)   *)
Expected(s) ==
    /\ ram.timer[s].id # 0 /\ (ram.timer[s].enabled \/ acted[s] > 0)
    /\ DueInMinute(Plan[ram.timer[s].type], now)

ActsWhenDue ==
    [][\A e \in Elapsed : (LocalRTC(e) /\ calm /\ calm' /\ ~SameMinute(now, now')) =>
          \A s \in Slot : acted[s] = IF Expected(s) THEN 1 ELSE 0]_timedVars
==============================================================================
