\* Two clients, one buffer of two bytes.  No symmetry: liveness.
CONSTANTS
    c1 = c1
    c2 = c2
    long = long
    empty = empty
    missing = missing
    locked = locked
    full = full
    Clients = {c1, c2}
    NoClient = NoClient
    Files <- SomeFiles
    Text <- SomeText
    Unwritable = {locked}
    NoRoom = {full}
    MAXFILEDATA = 2
    Rounds = 3
SPECIFICATION FairSpec
INVARIANTS
    TransferInv
PROPERTIES
    CopyExact
    FailsOnlyOnFiles
    Answered
CHECK_DEADLOCK FALSE
