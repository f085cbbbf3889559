SPECIFICATION MCSpec
CONSTANTS
    Agents = {"a1", "a2"}
    Listings = {{"a1", "a2"}}
    MaxVersions = 2
    MaxQueue = 1
    MaxBreaks = 1
    Targets = {"t1", "t2"}
    MaxHandlers = 2
    MaxJobs = 2
    MaxOps = 4
CHECK_DEADLOCK FALSE
INVARIANT WatchFollowsRows
INVARIANT SaveReachesTargets
PROPERTY NeverTornNorOlder
PROPERTY Converges
