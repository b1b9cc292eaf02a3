SPECIFICATION Spec
CONSTANTS
    x1 = x1
    x2 = x2
    x3 = x3
    c1 = c1
    NoTask = NoTask
    N = 2
    Tasks <- MCTasks
    Clients = {c1}
    Stoppers = {s1}
    Program <- MCProgram
    Children <- MCNoChildren
    Capacity = 1
    Classes <- MCThreadClass
INVARIANT
    JoinDrains
CHECK_DEADLOCK FALSE
