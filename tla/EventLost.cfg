SPECIFICATION Spec
CONSTANTS
    Coroutines = {k1, k2}
    Signallers = {s1}
    Expected = 2
    Rounds = 1
    Calls = 1
    Kinds = {"condition_variable"}
INVARIANT SignalledMeansAwake
CHECK_DEADLOCK FALSE
