SPECIFICATION FairSpec
CONSTANTS
    x1 = x1
    x2 = x2
    x3 = x3
    c1 = c1
    NoTask = NoTask
    N = 2
    Tasks <- MCTasks
    Clients = {c1}
    Stoppers = {s1}
    Program <- MCProgram
    Children <- MCChildren
    Capacity = 1
    Classes <- MCClasses
INVARIANTS
    NoLostWakeup
    PoolDrains
    FifoOrder
PROPERTIES
    AcceptedRuns
    JoinReturns
CHECK_DEADLOCK FALSE
