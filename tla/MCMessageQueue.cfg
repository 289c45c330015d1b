\* Three users, three processes, a queue of two messages.  No symmetry: liveness.
CONSTANTS
    a = a
    b = b
    again = again
    Procs = {a, b, again}
    user_id <- UserOf
    receiver_id <- Receiver
    T_MSG = 20
    Capacity = 2
    Lines <- Typed
SPECIFICATION FairSpec
INVARIANTS
    QueueInv
    
PROPERTIES
    Delivered
CHECK_DEADLOCK FALSE
