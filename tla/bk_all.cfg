SPECIFICATION Spec
CONSTANTS
    TickPeriod = 2
    Guard = 3
    ScheduledTimeout = 4
    ManualTimeout = 2
    AgentMax = 2
    MaxCount = 2
    Expr <- EvenMinutes
    Exprs <- MCExprs
    Calendar <- AroundMidnight
    MaxJobs = 3
    MaxBefore = 1
INVARIANT RestoredIsRecorded
INVARIANT NewestAreKept
INVARIANT CronMeans
PROPERTY NoRepeatOfSuccess
