CONSTANTS
    Num = 2
    VerMod = 2
    MaxBatch = 2
    Blank = Blank
    Once = {"once"}
    Repeat = {"cron", "duration"}
    Plan <- MCPlan
    Unit = 2
    Elapsed = {1, 2, 3}
    Dates <- MCDates
    CalendarDates <- MCCalendarDates
    BusyAt <- MCBusyAt
    Ticks = 63
    CalendarTicks = 2
    MaxOdd = 1
SPECIFICATION TimedSpec
INVARIANT TimedTypeOK
INVARIANT Registry
INVARIANT Mirror
INVARIANT Applied
INVARIANT CalendarAgrees
PROPERTY FailedIsNoop
PROPERTY ClockKeepsTime
PROPERTY ActsWhenDue
