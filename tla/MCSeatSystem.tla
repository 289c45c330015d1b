---------------------------- MODULE MCSeatSystem ----------------------------
(***************************************************************************)
(* Model checking of SeatSystem: client processes and worker threads.        *)
(***************************************************************************)
EXTENDS SeatSystem, TLC

CONSTANTS t1, t2, f1, f2, f3, f4, c1, c2, c3

Q(u, a, d) == [user |-> u, action |-> a, data |-> d]

\* The shortest query, for the runs that are about connections only.
LogoutOnly == {Q(0, 0, 0), Q(1, 5, 0)}

\* Client 1 logs in and books the only seat.
Few  == {Q(0, 0, 0), Q(1, 1, 1), Q(1, 2, 0)}
Symmetry == Permutations(Threads) \cup Permutations(Sockets) \cup Permutations(Conn)
=============================================================================
