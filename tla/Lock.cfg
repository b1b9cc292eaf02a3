SPECIFICATION FairSpec
CONSTANTS
    k1 = k1
    k2 = k2
    k3 = k3
    k4 = k4
    Coroutines = {k1, k2, k3, k4}
    Posted <- MCPosted
    Workers = {w1, w2}
    Capacity = 1
    Rounds = 2
INVARIANTS
    MutualExclusion
    InOnePlace
    HandOffHasTaker
PROPERTIES
    NoBarging
    EveryoneGetsTheLock
CHECK_DEADLOCK FALSE
