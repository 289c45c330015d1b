\* Any thread calls with any client id at any time; fair threads.  No symmetry:
\* Progress is a liveness property.
CONSTANTS
    t1 = t1
    t2 = t2
    f1 = f1
    f2 = f2
    Threads = {t1, t2}
    NoThread = NoThread
    Sockets = {f1}
    MAX_CLIENT = 3
    NUM_SEAT = 1
    Queries <- ThreeClients
SPECIFICATION FairSpec
INVARIANTS
    TypeOK
    LockInv
    SeatInv
PROPERTIES
    SeatNeverStolen
    ImplementsTable
    Progress
