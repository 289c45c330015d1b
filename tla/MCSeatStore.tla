---------------------------- MODULE MCSeatStore ----------------------------
(***************************************************************************)
(* Model checking of SeatStore on small instances.                         *)
(***************************************************************************)
EXTENDS SeatStore, TLC

CONSTANTS t1, t2, f1, f2

\* The data of confirm and logout is not read by the server; book and cancel
\* also name a seat out of range.
Terminates == {[user |-> 0, action |-> 0, data |-> 0]}
Logins(users, passwords) == [user : users, action : {1}, data : passwords]
Seating(users) == [user : users, action : {2, 4}, data : 0 .. NUM_SEAT]
Others(users)  == [user : users, action : {3, 5}, data : {0}]

\* Three clients that book, with one password.  A booking by client 0 leaves the
\* seat free; it does not confirm or log out.
ThreeClients == Terminates \cup Logins(Client, {1}) \cup Seating(Client)
                  \cup Others(Client \ {0})

\* Two clients, both of which book and cancel.  The first one tries two passwords,
\* lists its bookings and logs out.
Passwords == Logins({1}, {1, 2}) \cup Logins({2}, {1}) \cup Others({1}) \cup
    [user : {1, 2}, action : {2, 4}, data : Seat]

Symmetry == Permutations(Threads) \cup Permutations(Sockets)
=============================================================================
