SPECIFICATION MCSpec
CONSTANTS
    Nodes = {"n1", "n2"}
    Insts = {"i1", "i2"}
    NodeOf <- MCNodeOf
    Nets = {"default", "x"}
    Default = "default"
    Created = {"i1"}
    MaxRequests = 2
    MaxOps = 3
    MeshNodes = {1, 2, 3}
    HostOf <- MCHostOf
    MaxRoutines = 2
    MaxRegistrations = 3
    Masters = {1, 2}
    MaxStarts = 3
CHECK_DEADLOCK FALSE
INVARIANT ConnectedIsAttached
INVARIANT NamesAreConnected
INVARIANT AddressesDiffer
INVARIANT MeshIsWhole
INVARIANT SchemaIsWhole
PROPERTY NamesReachAgents
