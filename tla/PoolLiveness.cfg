SPECIFICATION FairSpec
CONSTANTS
    t1 = t1
    t2 = t2
    t3 = t3
    c1 = c1
    NoTask = NoTask
    N = 2
    Tasks <- MCTasks
    Clients = {c1}
    Stoppers = {s1}
    Helpers = {}
    Program <- MCProgram
    Children <- MCChildren
    RunCount <- MCRunCount
    Capacity = 1
    Classes <- MCLiveClasses
PROPERTIES
    AcceptedRuns
    ShutdownReturns
CHECK_DEADLOCK FALSE
