SPECIFICATION Spec
CONSTANTS
    Uses = {"await", "get"}
    Kinds = {FALSE}
INVARIANT GivesResult
CHECK_DEADLOCK FALSE
