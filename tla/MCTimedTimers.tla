---------------------------- MODULE MCTimedTimers ----------------------------
(* Small instance of the local timers with their clock: the end of the leap *)
(* year 2016, with a timer of each type, and the last second of every month *)
(* of selected years with an empty table.                                   *)
EXTENDS TimedTimers, TLC

MCPlan ==
    "once" :> OnceAt(Date(2017, 1, 1, 0, 0, 0))
    @@ "cron" :> Cron({0, 3}, 24, 0)
    @@ "duration" :> Every(Date(2016, 12, 31, 23, 58, 30), 3, 2)

NewYear == Date(2016, 12, 31, 23, 59, 58)
MCDates == {NewYear}
MCBusyAt == {NewYear}

Years == {2015, 2016, 2017, 2018, 2019, 2020, 2024, 2032, 2047, 2048, 2095, 2096, 2099, 2100}
MonthEnds ==
    {Date(y, m, d, 23, 59, 59) : y \in Years, m \in 1..12, d \in {28, 29, 30, 31}}
MCCalendarDates == {t \in MonthEnds : RealDate(t) \/ t.day = 31}
==============================================================================
