\* Two producers and two consumers.
CONSTANTS
    p1 = p1
    p2 = p2
    c1 = c1
    c2 = c2
    Producers = {p1, p2}
    Consumers = {c1, c2}
    Nobody = Nobody
    Capacity = 2
    Loops = 4
SPECIFICATION FairSpec
INVARIANTS
    QueueInv
    NoLostWakeup
PROPERTIES
    ImplementsChannel
    Terminates
CHECK_DEADLOCK FALSE
