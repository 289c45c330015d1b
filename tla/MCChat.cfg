\* Three clients: one talks and may quit or be interrupted, one may be interrupted,
\* one stays.  No symmetry: liveness.
CONSTANTS
    c1 = c1
    c2 = c2
    c3 = c3
    Clients = {c1, c2, c3}
    NoClient = NoClient
    NoMessage = NoMessage
    Talkers = {c1}
    Leavers = {c1, c2}
    Talks = 1
    Buffer = 1
SPECIFICATION FairSpec
INVARIANTS
    CountInv
PROPERTIES
    FailsOnlyOnGone
    ImplementsRoom
    Served
    Dropped
CHECK_DEADLOCK FALSE
