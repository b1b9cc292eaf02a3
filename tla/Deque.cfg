SPECIFICATION Spec
CONSTANTS
    Thieves = {s1, s2}
    InitialSize = 1
    MaxPushes <- MCMaxPushes
SYMMETRY MCSymmetry
INVARIANTS
    ActiveHoldsContents
    BuffersKept
    ItemUnlessOvertaken
PROPERTY ImplementsDeque
CHECK_DEADLOCK FALSE
