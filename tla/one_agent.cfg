SPECIFICATION MCSpec
CONSTANTS
    Callers = {c1}
    Ops = {"start", "stop", "restart"}
    MaxStarts = 3
    DaemonMayFail = FALSE
    StopMayTimeout = FALSE
    AgentMayRestart = FALSE
    Agents = {a1}
    NameOf <- OwnNames
    Limit = 3
    MasterMayRestart = FALSE
    RegistrationMayFail = FALSE
INVARIANT NoPanic
PROPERTY ExitIsNoticed
PROPERTY StopReturns
PROPERTY DeadIsForgotten
PROPERTY LiveIsOnline
