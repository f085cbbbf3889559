SPECIFICATION Spec
CONSTANTS
    Callers = {c1, c2}
    Ops = {"start", "kill", "restart"}
    MaxStarts = 2
    DaemonMayFail = TRUE
    StopMayTimeout = TRUE
    AgentMayRestart = FALSE
SYMMETRY Symmetry
INVARIANT RunningIsWatched
