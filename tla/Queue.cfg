SPECIFICATION FairSpec
CONSTANTS
    m1 = m1
    m2 = m2
    m3 = m3
    p1 = p1
    p2 = p2
    Capacity = 2
    Producers = {p1, p2}
    Consumers = {c1, c2}
    Messages <- MCMessages
    NoMessage = NoMessage
    Script <- MCScript
INVARIANTS
    OneOwnerPerCell
PROPERTIES
    FailuresAreJustified
    ImplementsQueue
    EveryMessageTaken
