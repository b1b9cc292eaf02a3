SPECIFICATION Spec
CONSTANTS
    t1 = t1
    t2 = t2
    t3 = t3
    c1 = c1
    NoTask = NoTask
    N = 2
    Tasks <- MCTasks
    Clients = {c1}
    Stoppers = {s1}
    Helpers = {h1}
    Program <- MCProgram
    Children <- MCChildren
    RunCount <- MCRunCount
    Capacity = 1
    Classes <- AllClasses
INVARIANTS
    NoLostWakeup
    StopWakesAll
    WorkersLeaveBeforeClear
    ProgramOrder
    BodiesNearlyInOrder
PROPERTIES
    FewestRunsFirst
    ImplementsExecutor
CHECK_DEADLOCK FALSE
