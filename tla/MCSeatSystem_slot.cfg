\* Two arrivals before the first thread reads its argument.
CONSTANTS
    t1 = t1
    t2 = t2
    f1 = f1
    c1 = c1
    c2 = c2
    c3 = c3
    f2 = f2
    f3 = f3
    f4 = f4
    Threads = {t1, t2}
    NoThread = NoThread
    Sockets = {f1, f2}
    MAX_CLIENT = 2
    NUM_SEAT = 1
    Queries <- Few
    Conn = {c1, c2}
    NoConn = NoConn
SPECIFICATION SystemSpec
INVARIANTS
    ServedByOne
SYMMETRY Symmetry
CHECK_DEADLOCK FALSE
