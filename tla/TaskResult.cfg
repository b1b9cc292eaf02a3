SPECIFICATION FairSpec
CONSTANTS
    Uses = {"await", "get", "steal", "blocking"}
    Kinds = {TRUE, FALSE}
INVARIANTS
    ResultAfterPublication
    ContinuationKept
    ResumedOnce
PROPERTY CallEnds
CHECK_DEADLOCK FALSE
