SPECIFICATION MCSpec
CONSTANTS
    Clients = {c1}
    RingSize = 2
    BroadcastCap = 1
    HubCap = 1
    SendCap = 2
    MaxLines = 3
    MaxStreams = 2
    MaxCommands = 1
    MaxRuns = 2
    RunLines = 3
    ChanCap = 2
    BatchSize = 2
    MaxForwarders = 3
    MaxBreaks = 1
    MaxUsers = 2
    Names = {"admin", "ann"}
    MaxSessions = 2
    MaxLogins = 2
    Handlers = {1, 2}
    MaxChanges = 2
    Audited = {"cron", "memory"}
    Unaudited = {"name"}
    Values = {0, 1}
    Requests = {1, 2}
    MaxRequests = 3
    Paths = {"a", "b"}
    Users = {1}
    Contexts = {1, 2}
    MaxOps = 3
CHECK_DEADLOCK FALSE
INVARIANT NothingIsMissed
INVARIANT OnlyCommandsPanic
INVARIANT RunIsForwarded
INVARIANT OneReader
INVARIANT SessionsAreCurrent
INVARIANT AuditTellsTruth
INVARIANT WorkIsCommitted
PROPERTY RingIsTail
