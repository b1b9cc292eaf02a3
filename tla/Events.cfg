SPECIFICATION FairSpec
CONSTANTS
    Coroutines = {k1, k2}
    Signallers = {s1, s2}
    Expected = 2
    Rounds = 2
    Calls = 2
    Kinds = {"condition_variable", "barrier"}
INVARIANTS
    HandlesAreSuspended
PROPERTIES
    NobodyPassesEarly
    BarrierOpens
    SetResumesWaiters
CHECK_DEADLOCK FALSE
