SPECIFICATION MCSpec
CONSTANTS
    RestartDelay = 2
    MaxBackoff = 60
    MaxCrashCount = 5
    OperatorOps = {"start", "stop", "kill"}
    DockerMayFail = TRUE
    MaxPending = 1
    MaxAge = 3
    Zone = 1
    PruneEvery = 1
    PageRows = 1
    MaxRuns = 1
    MaxBeats = 2
    MaxTime = 3
INVARIANT OneRestartAtATime
INVARIANT StoppedStaysDown
INVARIANT HistoryIsKept
PROPERTY CountersGrow
PROPERTY CrashIsAnswered
