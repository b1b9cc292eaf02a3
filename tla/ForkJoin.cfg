SPECIFICATION FairSpec
CONSTANT Loops <- MCLoops
INVARIANTS
    ReturnsComplete
    NeverTwice
    FirstFailureReported
    DanglesInThreeCases
PROPERTY LoopEnds
CHECK_DEADLOCK FALSE
