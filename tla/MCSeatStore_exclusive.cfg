\* No call books or cancels for a client whose bookings are being listed; logins
\* race freely over two sockets.
CONSTANTS
    t1 = t1
    t2 = t2
    f1 = f1
    f2 = f2
    Threads = {t1, t2}
    NoThread = NoThread
    Sockets = {f1, f2}
    MAX_CLIENT = 3
    NUM_SEAT = 2
    Queries <- Passwords
SPECIFICATION ExclusiveSpec
INVARIANTS
    ConfirmExact
PROPERTIES
    SessionHeld
    PasswordHeld
SYMMETRY Symmetry
