SPECIFICATION Spec
CONSTANTS
    a1 = a1
    a2 = a2
    Agents = {a1, a2}
    NameOf <- OneName
    Limit = 1
    MasterMayRestart = TRUE
    RegistrationMayFail = TRUE
INVARIANT TargetsAreOnline
INVARIANT TableAgrees
INVARIANT RunningIsOnline
SYMMETRY Exchanged
