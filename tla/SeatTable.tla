------------------------------ MODULE SeatTable ------------------------------
(***************************************************************************)
(* What the reservation operations of pa3/pa3_server.c promise, with no    *)
(* mutex, no session and no loop: a table of seats on which every booking  *)
(* and every cancellation is one indivisible step taken between the call   *)
(* and its return, and a refusal is one the table justifies at some moment *)
(* in between.  SeatStore implements it.                                   *)
(***************************************************************************)
EXTENDS Integers

CONSTANTS Threads, MAX_CLIENT, NUM_SEAT, Queries

Client == 0 .. MAX_CLIENT - 1
Seat   == 0 .. NUM_SEAT - 1

\* "if value is 0, seat is not occupied"
Free == 0

VARIABLES
    owner,      \* owner[s]: the client that holds seat s, or Free
    status,     \* status[t]: open: called; checked: known to be logged in;
                \* done: decided; idle: no call
    query,      \* query[t]: what t called for
    result,     \* result[t]: what it will return
    seen        \* seen[t]: the seats listed for it

tvars == <<owner, status, query, result, seen>>

Init ==
    /\ owner = [s \in Seat |-> Free]
    /\ status = [t \in Threads |-> "idle"]
    /\ query \in [Threads -> Queries]
    /\ result = [t \in Threads |-> FALSE]
    /\ seen = [t \in Threads |-> {}]

\* The call of t goes from one status to another, with result r.
Step(t, from, to, r) ==
    /\ status[t] = from
    /\ status' = [status EXCEPT ![t] = to]
    /\ result' = [result EXCEPT ![t] = r]

Invoke(t) ==
    /\ Step(t, "idle", "open", FALSE)
    /\ \E new \in Queries : query' = [query EXCEPT ![t] = new]
    /\ UNCHANGED <<owner, seen>>

\* The caller is found to be logged in and to name a seat that exists.
Admit(t) ==
    /\ query[t].action \in {2, 3, 4}
    /\ query[t].action # 3 => query[t].data \in Seat
    /\ Step(t, "open", "checked", FALSE)
    /\ UNCHANGED <<owner, query, seen>>

\* It is not, or the call is about the session and not about the seats.  A
\* reservation call is never granted here.
Settle(t) == \E r \in BOOLEAN :
    /\ r => query[t].action \in {0, 1, 5}
    /\ Step(t, "open", "done", r)
    /\ UNCHANGED <<owner, query, seen>>

\* A free seat is given to the caller.
Book(t) ==
    /\ Step(t, "checked", "done", TRUE)
    /\ query[t].action = 2
    /\ owner[query[t].data] = Free
    /\ owner' = [owner EXCEPT ![query[t].data] = query[t].user]
    /\ UNCHANGED <<query, seen>>

\* A seat of the caller is freed.
Cancel(t) ==
    /\ Step(t, "checked", "done", TRUE)
    /\ query[t].action = 4
    /\ owner[query[t].data] = query[t].user
    /\ owner' = [owner EXCEPT ![query[t].data] = Free]
    /\ UNCHANGED <<query, seen>>

\* Booking is refused only while somebody holds the seat, cancelling only while
\* the caller does not hold it.
Refuse(t) ==
    /\ Step(t, "checked", "done", FALSE)
    /\ \/ query[t].action = 2 /\ owner[query[t].data] # Free
       \/ query[t].action = 4 /\ owner[query[t].data] \in {Free} \cup (Client \ {query[t].user})
    /\ UNCHANGED <<owner, query, seen>>

\* A seat is listed if the caller holds it when it is looked at.  After the last
\* look, which may come at any time here, an empty list is a refusal.
Look(t) == \E s \in Seat, last \in BOOLEAN :
    /\ query[t].action = 3
    /\ seen' = [seen EXCEPT ![t] = @ \cup {r \in {s} : owner[r] = query[t].user}]
    /\ Step(t, "checked", IF last THEN "done" ELSE "checked", last /\ seen'[t] # {})
    /\ UNCHANGED <<owner, query>>

Finish(t) ==
    /\ Step(t, "done", "idle", FALSE)
    /\ seen' = [seen EXCEPT ![t] = {}]
    /\ UNCHANGED <<owner, query>>

Next == \E t \in Threads :
    \/ Invoke(t) \/ Admit(t) \/ Settle(t) \/ Book(t) \/ Cancel(t)
    \/ Refuse(t) \/ Look(t) \/ Finish(t)

Spec == Init /\ [][Next]_tvars
=============================================================================
