------------------------------ MODULE SeatStore ------------------------------
(***************************************************************************)
(* The reservation store of pa3/pa3_server.c: the arrays password, session *)
(* and seats, one mutex per seat, and the operations the worker threads    *)
(* run on them (login, book, confirm_booking, cancel_booking, logout),     *)
(* dispatched by handle_query.                                             *)
(*                                                                         *)
(* Grain of atomicity: one access to a shared array, or one mutex call, is *)
(* a step, because session and password have no lock at all and seats is   *)
(* also read outside its mutex.  Consecutive reads of one array element    *)
(* are one step, and so is a read together with the unlock that follows.   *)
(*                                                                         *)
(* Who calls, with which query and over which socket, is left open here:   *)
(* Call lets any idle thread start any query over any socket, so what      *)
(* holds of this module holds of every server built on it.                 *)
(***************************************************************************)
EXTENDS Integers

CONSTANTS
    Threads,        \* the worker threads
    NoThread,       \* marks a mutex nobody holds
    Sockets,        \* descriptors of client sockets (never 0)
    MAX_CLIENT,     \* #define MAX_CLIENT 1024
    NUM_SEAT,       \* #define NUM_SEAT 256
    Queries         \* the queries the clients may send

\* struct query: the action codes are the cases of handle_query's switch, data
\* is a password or a seat number.  pa3_client sends no user out of range.
ASSUME StoreAssumption ==
    /\ NoThread \notin Threads
    /\ 0 \notin Sockets
    /\ MAX_CLIENT \in Nat \ {0}
    /\ NUM_SEAT \in Nat \ {0}
    /\ Queries \subseteq [user : 0 .. MAX_CLIENT - 1, action : 0 .. 5, data : Int]

Client == 0 .. MAX_CLIENT - 1
Seat   == 0 .. NUM_SEAT - 1

VARIABLES
    password,   \* password[c]: 0 until c registers
    session,    \* session[c]: the socket c is logged in on, or 0
    seats,      \* seats[s]: the client that holds s, or 0
    lock,       \* lock[s]: the thread that holds the mutex of s
    pc,         \* pc[t]: the next step of t, "idle" outside handle_query
    q,          \* q[t]: the query t is handling
    sock,       \* sock[t]: the socket t serves
    i,          \* i[t]: the loop index of confirm_booking
    booked,     \* booked[t]: the seats confirm_booking has listed so far
    ok          \* ok[t]: success, the result of the operation

shared == <<password, session, seats, lock>>
locals == <<q, sock, i, booked>>
vars   == <<shared, pc, locals, ok>>

\* The steps taken while holding the mutex of the seat named in the query.
Critical == {"bookTest", "bookSet", "cancelTest", "cancelClear", "unlock"}
Labels   == Critical \cup
    {"idle", "terminate", "login", "check", "register", "open", "authorize", "bookLock",
     "confirmLock", "confirmSeat", "cancelPeek", "cancelLock", "logoutClear",
     "return"}

TypeOK ==
    /\ password \in [Client -> Int]
    /\ session \in [Client -> Sockets \cup {0}]
    /\ seats \in [Seat -> Client]
    /\ lock \in [Seat -> Threads \cup {NoThread}]
    /\ pc \in [Threads -> Labels]
    /\ q \in [Threads -> Queries]
    /\ sock \in [Threads -> Sockets]
    /\ i \in [Threads -> 0 .. NUM_SEAT]
    /\ booked \in [Threads -> SUBSET Seat]
    /\ ok \in [Threads -> BOOLEAN]

-----------------------------------------------------------------------------
(* The static arrays start zeroed and main initialises every mutex.  A     *)
(* thread that has not called yet holds an arbitrary query and socket.     *)

Init ==
    /\ password = [c \in Client |-> 0]
    /\ session = [c \in Client |-> 0]
    /\ seats = [s \in Seat |-> 0]
    /\ lock = [s \in Seat |-> NoThread]
    /\ pc = [t \in Threads |-> "idle"]
    /\ q \in [Threads -> Queries]
    /\ sock \in [Threads -> Sockets]
    /\ i = [t \in Threads |-> 0]
    /\ booked = [t \in Threads |-> {}]
    /\ ok = [t \in Threads |-> FALSE]

-----------------------------------------------------------------------------

\* Thread t moves on to label with result r so far.
Go(t, label, r) ==
    /\ pc' = [pc EXCEPT ![t] = label]
    /\ ok' = [ok EXCEPT ![t] = r]

\* Thread t at label from goes on to label to if test holds, else the
\* operation returns false.
Check(t, from, test, to) ==
    /\ pc[t] = from
    /\ Go(t, IF test THEN to ELSE "return", FALSE)
    /\ UNCHANGED <<shared, locals>>

IsLoggedIn(t) ==
    /\ session[q[t].user] # 0
    /\ session[q[t].user] = sock[t]

\* pthread_mutex_lock(&lock[s]) blocks until the mutex is free.
Acquire(t, s) ==
    /\ lock[s] = NoThread
    /\ lock' = [lock EXCEPT ![s] = t]

Entry == [a \in 0 .. 5 |-> CASE a = 0 -> "terminate" [] a = 1 -> "login"
                              [] OTHER -> "authorize"]

\* The switch of handle_query.
Start(t, query) ==
    /\ pc[t] = "idle"
    /\ q' = [q EXCEPT ![t] = query]
    /\ Go(t, Entry[query.action], FALSE)
    /\ UNCHANGED <<shared, i, booked>>

\* Case 0: terminating the connection succeeds for the query {0, 0, 0} only.
Terminate(t) ==
    /\ pc[t] = "terminate"
    /\ Go(t, "return", q[t] = [user |-> 0, action |-> 0, data |-> 0])
    /\ UNCHANGED <<shared, locals>>

\* handle_query is done with the result: its locals go out of scope.
Return(t) ==
    /\ pc[t] = "return"
    /\ Go(t, "idle", FALSE)
    /\ i' = [i EXCEPT ![t] = 0]
    /\ booked' = [booked EXCEPT ![t] = {}]
    /\ UNCHANGED <<shared, q, sock>>

-----------------------------------------------------------------------------
(* login                                                                   *)

\* Faulty variant: logging in on top of another connection's session.
LoginOverSession(t) == Check(t, "login", q[t].data >= 0 /\ ~IsLoggedIn(t), "check")

\* Not logged in on this socket, and not on another one either.
Login(t) == Check(t, "login", q[t].data >= 0 /\ session[q[t].user] = 0, "check")

\* Faulty variant: a wrong password replaces the stored one.
LoginCheckLax(t) == Check(t, "check", TRUE, "register")

\* A client whose password is 0 is registered with this one.
LoginCheck(t) ==
    IF password[q[t].user] = 0
    THEN Check(t, "check", TRUE, "register")
    ELSE Check(t, "check", password[q[t].user] = q[t].data, "open")

LoginRegister(t) ==
    /\ pc[t] = "register"
    /\ password' = [password EXCEPT ![q[t].user] = q[t].data]
    /\ Go(t, "open", FALSE)
    /\ UNCHANGED <<session, seats, lock, locals>>

\* Faulty variant: session is used as a flag.
LoginOpenFlag(t) ==
    /\ pc[t] = "open"
    /\ session' = [session EXCEPT ![q[t].user] = 1]
    /\ Go(t, "return", TRUE)
    /\ UNCHANGED <<password, seats, lock, locals>>

LoginOpen(t) ==
    /\ pc[t] = "open"
    /\ session' = [session EXCEPT ![q[t].user] = sock[t]]
    /\ Go(t, "return", TRUE)
    /\ UNCHANGED <<password, seats, lock, locals>>

-----------------------------------------------------------------------------
(* The check at the head of the other operations, and the per-seat mutex.  *)

Body == [a \in 2 .. 5 |-> CASE a = 2 -> "bookLock"   [] a = 3 -> "confirmLock"
                             [] a = 4 -> "cancelPeek" [] a = 5 -> "logoutClear"]

Authorize(t) ==
    /\ pc[t] = "authorize"
    /\ Check(t, "authorize",
             IsLoggedIn(t) /\ (q[t].action \in {2, 4} => q[t].data \in Seat),
             Body[q[t].action])

\* Faulty variant: the seat is tested and set without its mutex.
LockSeatSkipped(t) ==
    \/ Check(t, "bookLock", TRUE, "bookTest")
    \/ Check(t, "cancelLock", TRUE, "cancelTest")

LockSeat(t) ==
    /\ pc[t] \in {"bookLock", "cancelLock"}
    /\ Acquire(t, q[t].data)
    /\ Go(t, IF pc[t] = "bookLock" THEN "bookTest" ELSE "cancelTest", FALSE)
    /\ UNCHANGED <<password, session, seats, locals>>

\* Faulty variant: the mutex stays locked on the way out.
UnlockForgotten(t) ==
    /\ pc[t] = "unlock"
    /\ Go(t, "return", ok[t])
    /\ UNCHANGED <<shared, locals>>

Unlock(t) ==
    /\ pc[t] = "unlock"
    /\ lock' = [lock EXCEPT ![q[t].data] = NoThread]
    /\ Go(t, "return", ok[t])
    /\ UNCHANGED <<password, session, seats, locals>>

\* The write to seats[seat] under the mutex, and the result true.
SetSeat(t, from, owner) ==
    /\ pc[t] = from
    /\ seats' = [seats EXCEPT ![q[t].data] = owner]
    /\ Go(t, "unlock", TRUE)
    /\ UNCHANGED <<password, session, lock, locals>>

-----------------------------------------------------------------------------
(* book, cancel_booking, logout                                            *)

TestSeat(t, from, test, to) ==
    /\ pc[t] = from
    /\ Go(t, IF test THEN to ELSE "unlock", FALSE)
    /\ UNCHANGED <<shared, locals>>

\* Faulty variant: the test is forgotten.
BookTestSkipped(t) == TestSeat(t, "bookTest", TRUE, "bookSet")

BookTest(t) == TestSeat(t, "bookTest", seats[q[t].data] = 0, "bookSet")
BookSet(t)  == SetSeat(t, "bookSet", q[t].user)

\* seats[seat] is read once before the mutex is taken.
CancelPeek(t) == Check(t, "cancelPeek", seats[q[t].data] # 0, "cancelLock")

\* Faulty variant: any logged-in client cancels any booking.
CancelTestLax(t) == TestSeat(t, "cancelTest", TRUE, "cancelClear")

CancelTest(t)  == TestSeat(t, "cancelTest", seats[q[t].data] = q[t].user, "cancelClear")

\* Faulty variant: a free seat is marked -1.
CancelClearMinus(t) == SetSeat(t, "cancelClear", -1)

CancelClear(t) == SetSeat(t, "cancelClear", 0)

LogoutClear(t) ==
    /\ pc[t] = "logoutClear"
    /\ session' = [session EXCEPT ![q[t].user] = 0]
    /\ Go(t, "return", TRUE)
    /\ UNCHANGED <<password, seats, lock, locals>>

-----------------------------------------------------------------------------
(* confirm_booking: one pass over the seats, each under its own mutex.     *)

ConfirmLock(t) ==
    /\ pc[t] = "confirmLock"
    /\ Acquire(t, i[t])
    /\ Go(t, "confirmSeat", FALSE)
    /\ UNCHANGED <<password, session, seats, locals>>

\* Faulty variant: every occupied seat is listed.
ConfirmSeatAny(t) ==
    LET last == i[t] = NUM_SEAT - 1
    IN  /\ pc[t] = "confirmSeat"
        /\ booked' = [booked EXCEPT ![t] = @ \cup {s \in {i[t]} : seats[s] # 0}]
        /\ lock' = [lock EXCEPT ![i[t]] = NoThread]
        /\ i' = [i EXCEPT ![t] = @ + 1]
        /\ Go(t, IF last THEN "return" ELSE "confirmLock", last /\ booked'[t] # {})
        /\ UNCHANGED <<password, session, seats, q, sock>>

\* List the seat if it is the client's, unlock, next seat.  After the last one
\* the operation returns true unless booked_count is 0.
ConfirmSeat(t) ==
    LET mine == IF seats[i[t]] = q[t].user THEN {i[t]} ELSE {}
        last == i[t] = NUM_SEAT - 1
    IN  /\ pc[t] = "confirmSeat"
        /\ booked' = [booked EXCEPT ![t] = @ \cup mine]
        /\ lock' = [lock EXCEPT ![i[t]] = NoThread]
        /\ i' = [i EXCEPT ![t] = @ + 1]
        /\ Go(t, IF last THEN "return" ELSE "confirmLock", last /\ booked'[t] # {})
        /\ UNCHANGED <<password, session, seats, q, sock>>

-----------------------------------------------------------------------------

\* What thread t does inside handle_query.
Handle(t) ==
    \/ Terminate(t) \/ Login(t) \/ LoginCheck(t) \/ LoginRegister(t) \/ LoginOpen(t)
    \/ Authorize(t) \/ LockSeat(t) \/ Unlock(t)
    \/ BookTest(t) \/ BookSet(t)
    \/ CancelPeek(t) \/ CancelTest(t) \/ CancelClear(t)
    \/ LogoutClear(t) \/ ConfirmLock(t) \/ ConfirmSeat(t)

\* The caller: any idle thread takes any query over any socket.
Call(t) ==
    \E query \in Queries, s \in Sockets :
        /\ Start(t, query)
        /\ sock' = [sock EXCEPT ![t] = s]

Next == \E t \in Threads : Call(t) \/ Handle(t) \/ Return(t)

Spec == Init /\ [][Next]_vars

\* The scheduler runs every thread that can run; a pthread mutex promises no
\* order among the threads that wait for it.
FairSpec == Spec /\ \A t \in Threads : WF_vars(Handle(t) \/ Return(t))

\* Environment: while a client's bookings are listed, no other call books or
\* cancels for this client.  Logins and logouts are not restricted.
Exclusive == \A t, u \in Threads :
    pc[t] # "idle" /\ q[t].action = 3 /\ pc[u] # "idle" /\ q[u].action \in {2, 4} =>
        q[t].user # q[u].user

ExclusiveSpec == Init /\ [][Next /\ Exclusive']_vars

-----------------------------------------------------------------------------
(* Properties.                                                             *)

\* Thread t is inside the critical section of seat s.
Inside(t, s) ==
    \/ pc[t] \in Critical /\ q[t].data = s
    \/ pc[t] = "confirmSeat" /\ i[t] = s

\* lock[s] (book, confirm_booking, cancel_booking): the mutex of a seat is held
\* by exactly the thread that works on the seat, so no two threads do, and a
\* thread that has returned has left no mutex locked.
LockInv == \A s \in Seat, t \in Threads : lock[s] = t <=> Inside(t, s)

\* The test of seats[seat] still holds when the write comes (book 72-73,
\* cancel_booking 105-106), and a booking that has been granted is in the table
\* until the mutex is released.
SeatInv == \A t \in Threads :
    /\ pc[t] = "bookSet" => seats[q[t].data] = 0
    /\ pc[t] = "cancelClear" => seats[q[t].data] = q[t].user
    /\ pc[t] = "unlock" /\ ok[t] /\ q[t].action = 2 => seats[q[t].data] = q[t].user

\* An occupied seat is never given to somebody else: it is freed first, and only
\* by a cancel_booking that names the seat on behalf of the client that holds it.
SeatNeverStolen ==
    [][\A s \in Seat : seats[s] # 0 /\ seats'[s] # seats[s] =>
          /\ seats'[s] = 0
          /\ \E t \in Threads : /\ pc[t] = "cancelClear"
                                /\ q[t].user = seats[s]
                                /\ q[t].data = s]_vars

\* confirm_booking takes the mutexes one by one, so its list is no snapshot of
\* the table; when no other call books or cancels for the client meanwhile it is
\* nevertheless exactly the set of seats the client holds when the call returns.
ConfirmExact == \A t \in Threads :
    pc[t] = "return" /\ q[t].action = 3 /\ ok[t] /\ q[t].user # 0 =>
        booked[t] = {s \in Seat : seats[s] = q[t].user}

\* The arrays session and password have no lock: login tests them (lines 49, 53)
\* and writes them later (55, 56, 61), so two logins of one client that pass the
\* tests together overwrite each other.  What is left is what holds once no such
\* login is under way: c is logged in, and no call for c is past the test of line
\* 49; c has a password, no call for c is about to write one, and each that is
\* about to open a session was given this one.
Pending(c) == {t \in Threads : q[t].user = c /\ pc[t] \in {"check", "register", "open"}}

SessionSettled(c) == session[c] # 0 /\ Pending(c) = {}

PasswordSettled(c) ==
    /\ password[c] # 0
    /\ \A t \in Pending(c) :
        /\ pc[t] # "register"
        /\ pc[t] = "open" => q[t].data = password[c]

\* login refuses a client that is "already logged in from other client": only a
\* login that was under way when the session was opened can take it over.  Once
\* the session is settled it stays with its socket, whatever other threads try,
\* until logout ends it.
SessionHeld == [][\A c \in Client : SessionSettled(c) =>
    \/ session'[c] = 0
    \/ session'[c] = session[c] /\ SessionSettled(c)']_vars

\* Once the password of a client is settled it stays what it is for ever, and only
\* logins that give it open a session, even when first logins of the client have
\* raced before.
PasswordHeld == [][\A c \in Client : PasswordSettled(c) =>
    password'[c] = password[c] /\ PasswordSettled(c)']_vars

\* No call blocks for good: whenever some call is in progress, some call returns
\* later, so once callers stop every call is answered.  It needs every mutex to
\* be released and confirm_booking never to hold two.
Progress == (\E t \in Threads : pc[t] # "idle") ~> (\E t \in Threads : pc[t] = "return")

-----------------------------------------------------------------------------
(* Refinement: every call on the store is one of SeatTable's.              *)

Status(t) ==
    CASE pc[t] = "idle" -> "idle"
      [] pc[t] \in {"terminate", "login", "check", "register", "open", "authorize",
                    "logoutClear"} -> "open"
      [] pc[t] \in {"unlock", "return"} -> "done"
      [] OTHER -> "checked"

Table == INSTANCE SeatTable WITH
    owner  <- seats,
    status <- [t \in Threads |-> Status(t)],
    query  <- q,
    result <- ok,
    seen   <- booked

\* The arrays and mutexes implement the table of reservations in which each
\* booking, each cancellation and each look at a seat is one indivisible step.
ImplementsTable == Table!Spec

=============================================================================
