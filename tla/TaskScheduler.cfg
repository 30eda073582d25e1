\* The scheduler with two tasks, a client that calls Run or Clear itself and
\* three Stops: the second one may meet a full quit, the third one does.
CONSTANTS
    t1 = t1
    t2 = t2
    Tasks = {t1, t2}
    Period <- EqualPeriods
    Goroutines = {g1, g2}
    NoTask = NoTask
    MaxTime = 2
    MaxStops = 3
    MaxCalls = 1
    OneSecond = 1
    Minute = 2
    Hour = 3
    Day = 4
SPECIFICATION FairSpec
INVARIANTS NoOverlap ScheduleInStep FirstRunOnTime
PROPERTIES SchedulerProgress
