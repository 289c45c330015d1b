--------------------------- MODULE SeatStoreProofs ---------------------------
(***************************************************************************)
(* Proofs about SeatStore, for any number of threads, sockets, clients,    *)
(* seats and queries.  The invariants TypeOK, LockInv and SeatInv are not  *)
(* inductive on their own: they need to know which operation a thread that *)
(* is at a given step is in and that the seat it works on exists.  The     *)
(* last part shows that the store implements SeatTable.                    *)
(***************************************************************************)
EXTENDS SeatStore, TLAPS

\* What the control point of a thread says about its query and its locals.
Phase(t) ==
    /\ pc[t] = "terminate" => q[t].action = 0
    /\ pc[t] \in {"login", "check", "register", "open"} => q[t].action = 1
    /\ pc[t] = "authorize" => q[t].action \in 2 .. 5
    /\ pc[t] \in {"bookLock", "bookTest", "bookSet"} => q[t].action = 2
    /\ pc[t] \in {"confirmLock", "confirmSeat"} => q[t].action = 3 /\ i[t] \in Seat
    /\ pc[t] \in {"cancelPeek", "cancelLock", "cancelTest", "cancelClear"} => q[t].action = 4
    /\ pc[t] = "logoutClear" => q[t].action = 5
    /\ pc[t] = "unlock" => q[t].action \in {2, 4}
    /\ pc[t] \in Critical \cup {"bookLock", "cancelPeek", "cancelLock"} => q[t].data \in Seat
    /\ pc[t] \notin {"confirmLock", "confirmSeat", "return"} => i[t] = 0 /\ booked[t] = {}
    /\ pc[t] \notin {"unlock", "return"} => ok[t] = FALSE

PhaseInv == \A t \in Threads : Phase(t)

IInv == TypeOK /\ PhaseInv /\ LockInv /\ SeatInv

-----------------------------------------------------------------------------
(* Every step is one of the actions of one thread.                         *)

\* The disjuncts of Next, one by one.
LEMMA NextCases ==
    ASSUME Next
    PROVE  \E t \in Threads :
             \/ Call(t) \/ Return(t) \/ Terminate(t)
             \/ Login(t) \/ LoginCheck(t) \/ LoginRegister(t) \/ LoginOpen(t)
             \/ Authorize(t) \/ LockSeat(t) \/ Unlock(t)
             \/ BookTest(t) \/ BookSet(t)
             \/ CancelPeek(t) \/ CancelTest(t) \/ CancelClear(t)
             \/ LogoutClear(t) \/ ConfirmLock(t) \/ ConfirmSeat(t)
  BY DEF Next, Handle

\* The fields of a query have the types the operations rely on.
LEMMA QueryType ==
    ASSUME TypeOK, NEW t \in Threads
    PROVE  /\ q[t] \in Queries
           /\ q[t].user \in Client
           /\ q[t].action \in 0 .. 5
           /\ q[t].data \in Int
  BY StoreAssumption DEF TypeOK, Client

\* The cases of handle_query's switch.
LEMMA EntryLabel ==
    ASSUME NEW query \in Queries
    PROVE  Entry[query.action] \in {"terminate", "login", "authorize"}
  <1>1. query.action \in 0 .. 5
    BY StoreAssumption
  <1> QED
    BY <1>1 DEF Entry

\* The numbers confirm_booking counts through.
LEMMA SeatNumbers ==
    /\ 0 \in Seat
    /\ \A s \in Seat : s = NUM_SEAT - 1 \/ s + 1 \in Seat
  BY StoreAssumption DEF Seat

\* The initial states satisfy the inductive invariant.
LEMMA InitIInv == Init => IInv
  <1> SUFFICES ASSUME Init PROVE IInv
    OBVIOUS
  <1> USE StoreAssumption DEF Init
  <1>1. TypeOK
    BY DEF TypeOK, Client, Seat, Labels
  <1>2. PhaseInv
    BY DEF PhaseInv, Phase, Critical
  <1>3. LockInv
    BY DEF LockInv, Inside, Critical
  <1>4. SeatInv
    BY DEF SeatInv
  <1> QED
    BY <1>1, <1>2, <1>3, <1>4 DEF IInv

-----------------------------------------------------------------------------
(* Type correctness.                                                       *)

\* No step leaves the types.
LEMMA TypeStep ==
    ASSUME TypeOK, PhaseInv, Next
    PROVE  TypeOK'
  <1> PICK t \in Threads :
             \/ Call(t) \/ Return(t) \/ Terminate(t)
             \/ Login(t) \/ LoginCheck(t) \/ LoginRegister(t) \/ LoginOpen(t)
             \/ Authorize(t) \/ LockSeat(t) \/ Unlock(t)
             \/ BookTest(t) \/ BookSet(t)
             \/ CancelPeek(t) \/ CancelTest(t) \/ CancelClear(t)
             \/ LogoutClear(t) \/ ConfirmLock(t) \/ ConfirmSeat(t)
    BY NextCases
  <1>q. q[t].user \in Client /\ q[t].action \in 0 .. 5 /\ q[t].data \in Int
    BY QueryType
  <1>p. Phase(t)
    BY DEF PhaseInv
  <1>z. 0 \in 0 .. NUM_SEAT /\ 0 \in 0 .. MAX_CLIENT - 1
    BY StoreAssumption
  <1> USE StoreAssumption, <1>q, <1>p, <1>z
      DEF TypeOK, Phase, Client, Seat, Labels, Critical, shared, locals, Go
  <1>1. CASE Call(t)
    <2> PICK query \in Queries, s \in Sockets :
            Start(t, query) /\ sock' = [sock EXCEPT ![t] = s]
      BY <1>1 DEF Call
    <2>1. query.action \in 0 .. 5
      OBVIOUS
    <2>2. Entry[query.action] \in Labels
      BY <2>1 DEF Entry
    <2> QED
      BY <2>2 DEF Start
  <1>2. CASE Return(t)
    BY <1>2 DEF Return
  <1>3. CASE Terminate(t)
    BY <1>3 DEF Terminate
  <1>4. CASE Login(t)
    BY <1>4 DEF Login, Check
  <1>5. CASE LoginCheck(t)
    BY <1>5 DEF LoginCheck, Check
  <1>6. CASE LoginRegister(t)
    BY <1>6 DEF LoginRegister
  <1>7. CASE LoginOpen(t)
    BY <1>7 DEF LoginOpen
  <1>8. CASE Authorize(t)
    BY <1>8 DEF Authorize, Check, Body
  <1>9. CASE LockSeat(t)
    BY <1>9 DEF LockSeat, Acquire
  <1>10. CASE Unlock(t)
    BY <1>10 DEF Unlock
  <1>11. CASE BookTest(t)
    BY <1>11 DEF BookTest, TestSeat
  <1>12. CASE BookSet(t)
    BY <1>12 DEF BookSet, SetSeat
  <1>13. CASE CancelPeek(t)
    BY <1>13 DEF CancelPeek, Check
  <1>14. CASE CancelTest(t)
    BY <1>14 DEF CancelTest, TestSeat
  <1>15. CASE CancelClear(t)
    BY <1>15 DEF CancelClear, SetSeat
  <1>16. CASE LogoutClear(t)
    BY <1>16 DEF LogoutClear
  <1>17. CASE ConfirmLock(t)
    BY <1>17 DEF ConfirmLock, Acquire
  <1>18. CASE ConfirmSeat(t)
    <2>1. i[t] \in Seat /\ i[t] + 1 \in 0 .. NUM_SEAT
      BY <1>18 DEF ConfirmSeat
    <2>2. booked' \in [Threads -> SUBSET Seat]
      BY <1>18, <2>1 DEF ConfirmSeat
    <2>3. pc' \in [Threads -> Labels] /\ ok' \in [Threads -> BOOLEAN]
      BY <1>18 DEF ConfirmSeat
    <2>4. i' \in [Threads -> 0 .. NUM_SEAT]
      BY <1>18, <2>1 DEF ConfirmSeat
    <2>5. lock' \in [Seat -> Threads \cup {NoThread}]
      BY <1>18, <2>1 DEF ConfirmSeat
    <2>6. UNCHANGED <<password, session, seats, q, sock>>
      BY <1>18 DEF ConfirmSeat
    <2> QED
      BY <2>2, <2>3, <2>4, <2>5, <2>6
  <1> QED
    BY <1>1, <1>2, <1>3, <1>4, <1>5, <1>6, <1>7, <1>8, <1>9, <1>10, <1>11, <1>12, <1>13, <1>14, <1>15, <1>16, <1>17, <1>18

-----------------------------------------------------------------------------
(* The steps keep what the control points say.                             *)

\* What a label says of the query and of the loop index of its thread (a seat
\* that exists, the index in range) is still true after every step.
LEMMA PhaseStep ==
    ASSUME TypeOK, PhaseInv, Next
    PROVE  PhaseInv'
  <1> PICK t \in Threads :
             \/ Call(t) \/ Return(t) \/ Terminate(t)
             \/ Login(t) \/ LoginCheck(t) \/ LoginRegister(t) \/ LoginOpen(t)
             \/ Authorize(t) \/ LockSeat(t) \/ Unlock(t)
             \/ BookTest(t) \/ BookSet(t)
             \/ CancelPeek(t) \/ CancelTest(t) \/ CancelClear(t)
             \/ LogoutClear(t) \/ ConfirmLock(t) \/ ConfirmSeat(t)
    BY NextCases
  <1> SUFFICES ASSUME NEW u \in Threads PROVE Phase(u)'
    BY DEF PhaseInv
  <1>p. Phase(t) /\ Phase(u)
    BY DEF PhaseInv
  <1>q. q[t].action \in 0 .. 5
    BY QueryType
  <1> USE <1>p, <1>q DEF TypeOK, Phase, Critical, Seat, shared, locals, Go
  <1>1. CASE Call(t)
    <2> PICK query \in Queries : Start(t, query)
      BY <1>1 DEF Call
    <2>1. CASE u = t
      <3>1. query.action \in 0 .. 5 /\ q'[t] = query /\ pc'[t] = Entry[query.action]
        BY <2>1, StoreAssumption DEF Start
      <3>2. /\ query.action = 0 => pc'[t] = "terminate"
            /\ query.action = 1 => pc'[t] = "login"
            /\ query.action \in 2 .. 5 => pc'[t] = "authorize"
        BY <3>1 DEF Entry
      <3>3. ok'[t] = FALSE /\ i'[t] = 0 /\ booked'[t] = {}
        BY DEF Start
      <3> QED
        BY <2>1, <3>1, <3>2, <3>3
    <2>2. CASE u # t
      BY <2>2 DEF Start
    <2> QED
      BY <2>1, <2>2
  <1>2. CASE Return(t)
    BY <1>2 DEF Return
  <1>3. CASE Terminate(t)
    BY <1>3 DEF Terminate
  <1>4. CASE Login(t)
    BY <1>4 DEF Login, Check
  <1>5. CASE LoginCheck(t)
    BY <1>5 DEF LoginCheck, Check
  <1>6. CASE LoginRegister(t)
    BY <1>6 DEF LoginRegister
  <1>7. CASE LoginOpen(t)
    BY <1>7 DEF LoginOpen
  <1>8. CASE Authorize(t)
    <2>1. CASE u = t
      <3>1. q[t].action \in 2 .. 5 /\ q'[t] = q[t] /\ i'[t] = i[t] /\ booked'[t] = booked[t]
        BY <1>8, <2>1 DEF Authorize, Check
      <3>2. /\ q[t].action = 2 => Body[q[t].action] = "bookLock"
            /\ q[t].action = 3 => Body[q[t].action] = "confirmLock"
            /\ q[t].action = 4 => Body[q[t].action] = "cancelPeek"
            /\ q[t].action = 5 => Body[q[t].action] = "logoutClear"
        BY <3>1 DEF Body
      <3>3. ok'[t] = FALSE /\ i[t] = 0 /\ booked[t] = {}
        BY <1>8 DEF Authorize, Check
      <3>4. \/ pc'[t] = "return"
            \/ /\ pc'[t] = Body[q[t].action]
               /\ q[t].action \in {2, 4} => q[t].data \in Seat
        BY <1>8 DEF Authorize, Check
      <3>5. 0 \in Seat
        BY SeatNumbers
      <3> QED
        BY <2>1, <3>1, <3>2, <3>3, <3>4, <3>5
    <2>2. CASE u # t
      BY <1>8, <2>2 DEF Authorize, Check
    <2> QED
      BY <2>1, <2>2
  <1>9. CASE LockSeat(t)
    BY <1>9 DEF LockSeat, Acquire
  <1>10. CASE Unlock(t)
    BY <1>10 DEF Unlock
  <1>11. CASE BookTest(t)
    BY <1>11 DEF BookTest, TestSeat
  <1>12. CASE BookSet(t)
    BY <1>12 DEF BookSet, SetSeat
  <1>13. CASE CancelPeek(t)
    BY <1>13 DEF CancelPeek, Check
  <1>14. CASE CancelTest(t)
    BY <1>14 DEF CancelTest, TestSeat
  <1>15. CASE CancelClear(t)
    BY <1>15 DEF CancelClear, SetSeat
  <1>16. CASE LogoutClear(t)
    BY <1>16 DEF LogoutClear
  <1>17. CASE ConfirmLock(t)
    BY <1>17 DEF ConfirmLock, Acquire
  <1>18. CASE ConfirmSeat(t)
    <2>1. i[t] \in Seat /\ q[t].action = 3
      BY <1>18 DEF ConfirmSeat
    <2>2. i[t] = NUM_SEAT - 1 \/ i[t] + 1 \in Seat
      BY <2>1, SeatNumbers
    <2>3. CASE u = t
      <3>1. q'[t] = q[t] /\ i'[t] = i[t] + 1
        BY <1>18, <2>1 DEF ConfirmSeat
      <3>2. \/ pc'[t] = "return"
            \/ pc'[t] = "confirmLock" /\ ok'[t] = FALSE /\ i[t] # NUM_SEAT - 1
        BY <1>18 DEF ConfirmSeat
      <3> QED
        BY <2>1, <2>2, <2>3, <3>1, <3>2
    <2>4. CASE u # t
      BY <1>18, <2>4 DEF ConfirmSeat
    <2> QED
      BY <2>3, <2>4
  <1> QED
    BY <1>1, <1>2, <1>3, <1>4, <1>5, <1>6, <1>7, <1>8, <1>9,
       <1>10, <1>11, <1>12, <1>13, <1>14, <1>15, <1>16, <1>17, <1>18

-----------------------------------------------------------------------------
(* The mutexes.                                                            *)

\* A mutex is held by the thread that is inside, after every step, too.
LEMMA LockStep ==
    ASSUME TypeOK, PhaseInv, LockInv, Next
    PROVE  LockInv'
  <1> PICK t \in Threads :
             \/ Call(t) \/ Return(t) \/ Terminate(t)
             \/ Login(t) \/ LoginCheck(t) \/ LoginRegister(t) \/ LoginOpen(t)
             \/ Authorize(t) \/ LockSeat(t) \/ Unlock(t)
             \/ BookTest(t) \/ BookSet(t)
             \/ CancelPeek(t) \/ CancelTest(t) \/ CancelClear(t)
             \/ LogoutClear(t) \/ ConfirmLock(t) \/ ConfirmSeat(t)
    BY NextCases
  <1> SUFFICES ASSUME NEW s \in Seat, NEW u \in Threads
               PROVE  lock'[s] = u <=> Inside(u, s)'
    BY DEF LockInv
  <1>p. Phase(t) /\ Phase(u)
    BY DEF PhaseInv
  <1>l. /\ lock[s] = u <=> Inside(u, s)
        /\ lock[s] = t <=> Inside(t, s)
    BY DEF LockInv
  <1>q. q[t].action \in 0 .. 5
    BY QueryType
  <1> USE StoreAssumption, <1>p, <1>q, <1>l
      DEF TypeOK, Phase, Inside, Critical, shared, locals, Go
  <1>1. CASE Call(t)
    BY <1>1 DEF Call, Start, Entry
  <1>2. CASE Return(t)
    BY <1>2 DEF Return
  <1>3. CASE Terminate(t)
    BY <1>3 DEF Terminate
  <1>4. CASE Login(t)
    BY <1>4 DEF Login, Check
  <1>5. CASE LoginCheck(t)
    BY <1>5 DEF LoginCheck, Check
  <1>6. CASE LoginRegister(t)
    BY <1>6 DEF LoginRegister
  <1>7. CASE LoginOpen(t)
    BY <1>7 DEF LoginOpen
  <1>8. CASE Authorize(t)
    BY <1>8 DEF Authorize, Check, Body
  <1>9. CASE LockSeat(t)
    BY <1>9 DEF LockSeat, Acquire
  <1>10. CASE Unlock(t)
    BY <1>10 DEF Unlock
  <1>11. CASE BookTest(t)
    BY <1>11 DEF BookTest, TestSeat
  <1>12. CASE BookSet(t)
    BY <1>12 DEF BookSet, SetSeat
  <1>13. CASE CancelPeek(t)
    BY <1>13 DEF CancelPeek, Check
  <1>14. CASE CancelTest(t)
    BY <1>14 DEF CancelTest, TestSeat
  <1>15. CASE CancelClear(t)
    BY <1>15 DEF CancelClear, SetSeat
  <1>16. CASE LogoutClear(t)
    BY <1>16 DEF LogoutClear
  <1>17. CASE ConfirmLock(t)
    BY <1>17 DEF ConfirmLock, Acquire
  <1>18. CASE ConfirmSeat(t)
    BY <1>18 DEF ConfirmSeat
  <1> QED
    BY <1>1, <1>2, <1>3, <1>4, <1>5, <1>6, <1>7, <1>8, <1>9,
       <1>10, <1>11, <1>12, <1>13, <1>14, <1>15, <1>16, <1>17, <1>18

-----------------------------------------------------------------------------
(* The seats.                                                              *)

\* Two threads are never inside the same seat.
LEMMA Mutex ==
    ASSUME LockInv, NEW s \in Seat, NEW t \in Threads, NEW u \in Threads,
           Inside(t, s), Inside(u, s)
    PROVE  t = u
  BY DEF LockInv

\* What a thread knows about the seat it is inside of survives every step of
\* every other thread.
LEMMA SeatStep ==
    ASSUME TypeOK, PhaseInv, LockInv, SeatInv, Next
    PROVE  SeatInv'
  <1> PICK t \in Threads :
             \/ Call(t) \/ Return(t) \/ Terminate(t)
             \/ Login(t) \/ LoginCheck(t) \/ LoginRegister(t) \/ LoginOpen(t)
             \/ Authorize(t) \/ LockSeat(t) \/ Unlock(t)
             \/ BookTest(t) \/ BookSet(t)
             \/ CancelPeek(t) \/ CancelTest(t) \/ CancelClear(t)
             \/ LogoutClear(t) \/ ConfirmLock(t) \/ ConfirmSeat(t)
    BY NextCases
  <1> DEFINE Known(u) ==
        /\ pc[u] = "bookSet" => seats[q[u].data] = 0
        /\ pc[u] = "cancelClear" => seats[q[u].data] = q[u].user
        /\ pc[u] = "unlock" /\ ok[u] /\ q[u].action = 2 => seats[q[u].data] = q[u].user
  <1> SUFFICES ASSUME NEW u \in Threads PROVE Known(u)'
    BY DEF SeatInv
  <1>k. Known(t) /\ Known(u)
    BY DEF SeatInv
  <1>p. Phase(t) /\ Phase(u)
    BY DEF PhaseInv
  <1>m. pc[t] \in Critical /\ pc[u] \in Critical /\ q[t].data = q[u].data => t = u
    BY <1>p, Mutex DEF Phase, Inside
  <1>q. q[t].action \in 0 .. 5
    BY QueryType
  <1> USE StoreAssumption, <1>k, <1>p, <1>m, <1>q
      DEF TypeOK, Phase, Critical, shared, locals, Go
  <1>1. CASE Call(t)
    BY <1>1 DEF Call, Start, Entry
  <1>2. CASE Return(t)
    BY <1>2 DEF Return
  <1>3. CASE Terminate(t)
    BY <1>3 DEF Terminate
  <1>4. CASE Login(t)
    BY <1>4 DEF Login, Check
  <1>5. CASE LoginCheck(t)
    BY <1>5 DEF LoginCheck, Check
  <1>6. CASE LoginRegister(t)
    BY <1>6 DEF LoginRegister
  <1>7. CASE LoginOpen(t)
    BY <1>7 DEF LoginOpen
  <1>8. CASE Authorize(t)
    BY <1>8 DEF Authorize, Check, Body
  <1>9. CASE LockSeat(t)
    BY <1>9 DEF LockSeat, Acquire
  <1>10. CASE Unlock(t)
    BY <1>10 DEF Unlock
  <1>11. CASE BookTest(t)
    BY <1>11 DEF BookTest, TestSeat
  <1>12. CASE BookSet(t)
    BY <1>12 DEF BookSet, SetSeat
  <1>13. CASE CancelPeek(t)
    BY <1>13 DEF CancelPeek, Check
  <1>14. CASE CancelTest(t)
    BY <1>14 DEF CancelTest, TestSeat
  <1>15. CASE CancelClear(t)
    BY <1>15 DEF CancelClear, SetSeat
  <1>16. CASE LogoutClear(t)
    BY <1>16 DEF LogoutClear
  <1>17. CASE ConfirmLock(t)
    BY <1>17 DEF ConfirmLock, Acquire
  <1>18. CASE ConfirmSeat(t)
    BY <1>18 DEF ConfirmSeat
  <1> QED
    BY <1>1, <1>2, <1>3, <1>4, <1>5, <1>6, <1>7, <1>8, <1>9,
       <1>10, <1>11, <1>12, <1>13, <1>14, <1>15, <1>16, <1>17, <1>18

\* A step that changes seat s is a booking of a free seat or a cancellation by
\* its holder.
LEMMA SeatChange ==
    ASSUME TypeOK, PhaseInv, SeatInv, Next, NEW s \in Seat, seats'[s] # seats[s]
    PROVE  \E t \in Threads :
             /\ q[t].data = s
             /\ \/ BookSet(t) /\ seats[s] = 0
                \/ /\ CancelClear(t) /\ pc[t] = "cancelClear"
                   /\ seats[s] = q[t].user /\ seats'[s] = 0
  <1> PICK t \in Threads :
             \/ Call(t) \/ Return(t) \/ Terminate(t)
             \/ Login(t) \/ LoginCheck(t) \/ LoginRegister(t) \/ LoginOpen(t)
             \/ Authorize(t) \/ LockSeat(t) \/ Unlock(t)
             \/ BookTest(t) \/ BookSet(t)
             \/ CancelPeek(t) \/ CancelTest(t) \/ CancelClear(t)
             \/ LogoutClear(t) \/ ConfirmLock(t) \/ ConfirmSeat(t)
    BY NextCases
  <1>p. Phase(t)
    BY DEF PhaseInv
  <1>1. CASE BookSet(t)
    BY <1>1, <1>p DEF BookSet, SetSeat, Phase, Critical, TypeOK, SeatInv
  <1>2. CASE CancelClear(t)
    BY <1>2, <1>p DEF CancelClear, SetSeat, Phase, Critical, TypeOK, SeatInv
  <1>3. CASE ~BookSet(t) /\ ~CancelClear(t)
    <2>1. UNCHANGED seats
      BY <1>3 DEF Call, Start, Return, Terminate, Login, LoginCheck, Check, LoginRegister,
                  LoginOpen, Authorize, LockSeat, Unlock, BookTest, TestSeat, CancelPeek,
                  CancelTest, LogoutClear, ConfirmLock, ConfirmSeat, shared
    <2> QED
      BY <2>1
  <1> QED
    BY <1>1, <1>2, <1>3

-----------------------------------------------------------------------------
(* The theorems.                                                           *)

\* Every conjunct of the inductive invariant is kept by every step.
LEMMA NextIInv == IInv /\ [Next]_vars => IInv'
  <1> SUFFICES ASSUME IInv, [Next]_vars PROVE IInv'
    OBVIOUS
  <1>1. CASE Next
    BY <1>1, TypeStep, PhaseStep, LockStep, SeatStep DEF IInv
  <1>2. CASE UNCHANGED vars
    BY <1>2 DEF IInv, TypeOK, PhaseInv, Phase, LockInv, Inside, SeatInv, vars, shared, locals
  <1> QED
    BY <1>1, <1>2

\* The inductive invariant holds in every reachable state of the store.
THEOREM Invariance == Spec => []IInv
  BY InitIInv, NextIInv, PTL DEF Spec

\* The arrays keep their types: no session, seat, index or result is ever
\* outside what the operations expect.
THEOREM TypeCorrect == Spec => []TypeOK
  <1>1. IInv => TypeOK
    BY DEF IInv
  <1> QED
    BY <1>1, Invariance, PTL

\* book, confirm_booking and cancel_booking work on a seat one thread at a time,
\* and every mutex is released by the thread that took it before it returns.
THEOREM Locking == Spec => []LockInv
  <1>1. IInv => LockInv
    BY DEF IInv
  <1> QED
    BY <1>1, Invariance, PTL

\* The test of a seat holds until the write that relies on it, and a granted
\* booking is in the table when the mutex is released.
THEOREM SeatsKnown == Spec => []SeatInv
  <1>1. IInv => SeatInv
    BY DEF IInv
  <1> QED
    BY <1>1, Invariance, PTL

\* An occupied seat changes hands only by being cancelled for its holder.
THEOREM NeverStolen == Spec => SeatNeverStolen
  <1>1. IInv /\ [Next]_vars =>
          [\A s \in Seat : seats[s] # 0 /\ seats'[s] # seats[s] =>
             /\ seats'[s] = 0
             /\ \E t \in Threads : /\ pc[t] = "cancelClear"
                                   /\ q[t].user = seats[s]
                                   /\ q[t].data = s]_vars
    <2> SUFFICES ASSUME IInv, Next, NEW s \in Seat, seats[s] # 0, seats'[s] # seats[s]
                 PROVE  /\ seats'[s] = 0
                        /\ \E t \in Threads : /\ pc[t] = "cancelClear"
                                              /\ q[t].user = seats[s]
                                              /\ q[t].data = s
      OBVIOUS
    <2> QED
      BY SeatChange DEF IInv
  <1> QED
    BY <1>1, Invariance, PTL DEF Spec, SeatNeverStolen

-----------------------------------------------------------------------------
(* confirm_booking looks at the seats with one mutex at a time: that what  *)
(* it has seen is still so rests on no other thread working for the client.*)

\* Thread t goes through the seats, or has gone through them all.
Listing(t) ==
    \/ pc[t] \in {"confirmLock", "confirmSeat"}
    \/ pc[t] = "return" /\ q[t].action = 3 /\ ok[t]

\* The seats below the index that belong to t's user are those t has listed.
ListInv == \A t \in Threads :
    /\ Listing(t) /\ q[t].user # 0 =>
          booked[t] = {s \in Seat : s < i[t] /\ seats[s] = q[t].user}
    /\ Listing(t) /\ pc[t] = "return" => i[t] = NUM_SEAT

EInv == IInv /\ Exclusive /\ ListInv

\* The seats of a client change hands only by calls on its behalf.
LEMMA OwnSeats ==
    ASSUME IInv, Exclusive, Next, NEW u \in Threads, q[u].user # 0, pc[u] # "idle",
           q[u].action = 3, NEW s \in Seat
    PROVE  seats'[s] = q[u].user <=> seats[s] = q[u].user
  <1>1. CASE seats'[s] # seats[s]
    <2> PICK t \in Threads :
           /\ q[t].data = s
           /\ \/ BookSet(t) /\ seats[s] = 0
              \/ CancelClear(t) /\ seats[s] = q[t].user /\ seats'[s] = 0
      BY <1>1, SeatChange DEF IInv
    <2>1. pc[t] # "idle" /\ q[t].action \in {2, 4}
      BY DEF BookSet, CancelClear, SetSeat, IInv, PhaseInv, Phase
    <2>2. q[t].user # q[u].user
      BY <2>1 DEF Exclusive
    <2>3. BookSet(t) => seats'[s] = q[t].user
      BY DEF BookSet, SetSeat, IInv, TypeOK
    <2> QED
      BY <2>2, <2>3
  <1> QED
    BY <1>1

\* The list of confirm_booking stays exact for the part it has gone through.
LEMMA ListStep ==
    ASSUME IInv, Exclusive, ListInv, Next
    PROVE  ListInv'
  <1> PICK t \in Threads :
             \/ Call(t) \/ Return(t) \/ Terminate(t)
             \/ Login(t) \/ LoginCheck(t) \/ LoginRegister(t) \/ LoginOpen(t)
             \/ Authorize(t) \/ LockSeat(t) \/ Unlock(t)
             \/ BookTest(t) \/ BookSet(t)
             \/ CancelPeek(t) \/ CancelTest(t) \/ CancelClear(t)
             \/ LogoutClear(t) \/ ConfirmLock(t) \/ ConfirmSeat(t)
    BY NextCases
  <1> DEFINE Listed(u) ==
        /\ Listing(u) /\ q[u].user # 0 =>
              booked[u] = {s \in Seat : s < i[u] /\ seats[s] = q[u].user}
        /\ Listing(u) /\ pc[u] = "return" => i[u] = NUM_SEAT
  <1> SUFFICES ASSUME NEW u \in Threads, Listing(u)' PROVE Listed(u)'
    BY DEF ListInv
  <1>l. Listed(u)
    BY DEF ListInv
  <1>p. Phase(u) /\ Phase(t) /\ q[t].action \in 0 .. 5
    BY QueryType DEF IInv, PhaseInv
  <1>y. TypeOK
    BY DEF IInv
  \* A list goes on, is begun, or gets the next seat.
  <1>1. \/ /\ Listing(u)
           /\ q'[u] = q[u] /\ i'[u] = i[u] /\ booked'[u] = booked[u]
           /\ pc'[u] = "return" => pc[u] = "return"
        \/ pc'[u] = "confirmLock" /\ i'[u] = 0 /\ booked'[u] = {}
        \/ ConfirmSeat(u)
    <2> USE <1>p, <1>y DEF TypeOK, Phase, Critical, Listing, shared, locals, Go
    <2>1. CASE Call(t)
      <3> PICK query \in Queries : Start(t, query)
        BY <2>1 DEF Call
      <3>1. pc'[t] \in {"terminate", "login", "authorize"}
        BY EntryLabel DEF Start
      <3> QED
        BY <3>1 DEF Start
    <2>2. CASE Return(t)
      BY <2>2 DEF Return
    <2>3. CASE Terminate(t)
      BY <2>3 DEF Terminate
    <2>4. CASE Login(t) \/ LoginCheck(t) \/ CancelPeek(t)
      BY <2>4 DEF Login, LoginCheck, CancelPeek, Check
    <2>5. CASE LoginRegister(t) \/ LoginOpen(t) \/ LogoutClear(t)
      BY <2>5 DEF LoginRegister, LoginOpen, LogoutClear
    <2>6. CASE Authorize(t)
      BY <2>6 DEF Authorize, Check, Body
    <2>7. CASE LockSeat(t) \/ Unlock(t) \/ ConfirmLock(t)
      BY <2>7 DEF LockSeat, Unlock, ConfirmLock
    <2>8. CASE BookTest(t) \/ CancelTest(t)
      BY <2>8 DEF BookTest, CancelTest, TestSeat
    <2>9. CASE BookSet(t) \/ CancelClear(t)
      BY <2>9 DEF BookSet, CancelClear, SetSeat
    <2>10. CASE ConfirmSeat(t)
      BY <2>10 DEF ConfirmSeat
    <2> QED
      BY <2>1, <2>2, <2>3, <2>4, <2>5, <2>6, <2>7, <2>8, <2>9, <2>10
  <1>2. CASE /\ Listing(u)
             /\ q'[u] = q[u] /\ i'[u] = i[u] /\ booked'[u] = booked[u]
             /\ pc'[u] = "return" => pc[u] = "return"
    <2>1. pc[u] # "idle" /\ q[u].action = 3
      BY <1>2, <1>p DEF Listing, Phase
    <2>2. q[u].user # 0 => \A s \in Seat : seats'[s] = q[u].user <=> seats[s] = q[u].user
      BY <2>1, OwnSeats
    <2> QED
      BY <1>2, <1>l, <2>2
  <1>3. CASE pc'[u] = "confirmLock" /\ i'[u] = 0 /\ booked'[u] = {}
    <2>1. \A s \in Seat : ~(s < 0)
      BY DEF Seat
    <2> QED
      BY <1>3, <2>1
  <1>4. CASE ConfirmSeat(u)
    <2>1. /\ pc[u] = "confirmSeat" /\ i[u] \in Seat /\ q'[u] = q[u] /\ seats' = seats
          /\ i'[u] = i[u] + 1
          /\ booked'[u] = booked[u] \cup (IF seats[i[u]] = q[u].user THEN {i[u]} ELSE {})
          /\ pc'[u] = "return" => i[u] = NUM_SEAT - 1
      BY <1>4, <1>p, <1>y DEF ConfirmSeat, Phase, TypeOK, Go
    <2>2. \A s \in Seat : s < i[u] + 1 <=> s < i[u] \/ s = i[u]
      BY <2>1 DEF Seat
    <2>3. Listing(u)
      BY <2>1 DEF Listing
    <2>4. pc'[u] = "return" => i'[u] = NUM_SEAT
      BY <2>1, StoreAssumption
    <2> QED
      BY <1>l, <2>1, <2>2, <2>3, <2>4
  <1> QED
    BY <1>1, <1>2, <1>3, <1>4

\* The strengthened invariant holds at first and is kept while no call books
\* or cancels for a client whose bookings are being listed.
LEMMA ExclusiveIInv ==
    /\ Init => EInv
    /\ EInv /\ [Next /\ Exclusive']_vars => EInv'
  <1>1. Init => EInv
    <2> SUFFICES ASSUME Init PROVE EInv
      OBVIOUS
    <2>1. \A t \in Threads : pc[t] = "idle"
      BY DEF Init
    <2>2. Exclusive /\ ListInv
      BY <2>1 DEF Exclusive, ListInv, Listing
    <2> QED
      BY <2>2, InitIInv DEF EInv
  <1>2. ASSUME EInv, Next, Exclusive' PROVE EInv'
    BY <1>2, NextIInv, ListStep DEF EInv
  <1>3. ASSUME EInv, UNCHANGED vars PROVE EInv'
    <2>1. IInv'
      BY <1>3, NextIInv DEF EInv
    <2>2. Exclusive' /\ ListInv'
      BY <1>3 DEF EInv, Exclusive, ListInv, Listing, vars, shared, locals
    <2> QED
      BY <2>1, <2>2 DEF EInv
  <1> QED
    BY <1>1, <1>2, <1>3

\* The inductive invariant of a store in that environment.
THEOREM ExclusiveInvariance == ExclusiveSpec => []EInv
  BY ExclusiveIInv, PTL DEF ExclusiveSpec

\* confirm_booking: the list it returns is exactly what the client holds, although
\* it is gathered seat by seat.
THEOREM ListExact == ExclusiveSpec => []ConfirmExact
  <1>1. EInv => ConfirmExact
    <2> SUFFICES ASSUME EInv, NEW t \in Threads, pc[t] = "return", q[t].action = 3, ok[t],
                        q[t].user # 0
                 PROVE  booked[t] = {s \in Seat : seats[s] = q[t].user}
      BY DEF ConfirmExact
    <2>1. booked[t] = {s \in Seat : s < i[t] /\ seats[s] = q[t].user} /\ i[t] = NUM_SEAT
      BY DEF EInv, ListInv, Listing
    <2>2. \A s \in Seat : s < NUM_SEAT
      BY StoreAssumption DEF Seat
    <2> QED
      BY <2>1, <2>2
  <1> QED
    BY <1>1, ExclusiveInvariance, PTL

-----------------------------------------------------------------------------
(* Sessions and passwords have no lock.  Nothing is assumed of the callers *)
(* here: any number of logins of one client may be under way at a time.    *)

\* Steps that the arrays session and password do not see, and that neither
\* begin nor end a login.
Elsewhere(t) ==
    \/ Terminate(t) \/ LockSeat(t) \/ Unlock(t) \/ BookTest(t) \/ BookSet(t)
    \/ CancelPeek(t) \/ CancelTest(t) \/ CancelClear(t) \/ ConfirmLock(t) \/ ConfirmSeat(t)
    \/ Call(t) \/ Return(t) \/ Authorize(t)

\* A thread outside login stays outside, whatever it does, unless it passes the
\* test at the head of login.
LEMMA ElsewhereStep ==
    ASSUME IInv, NEW t \in Threads, Elsewhere(t)
    PROVE  /\ UNCHANGED <<session, password>>
           /\ pc'[t] \notin {"check", "register", "open"}
           /\ \A u \in Threads \ {t} : pc'[u] = pc[u] /\ q'[u] = q[u]
  <1>q. q[t].action \in 0 .. 5
    BY QueryType DEF IInv
  <1>p. Phase(t) /\ TypeOK
    BY DEF IInv, PhaseInv
  <1> USE <1>q, <1>p DEF TypeOK, shared, locals, Go
  <1>1. CASE Call(t)
    <2> PICK query \in Queries : Start(t, query)
      BY <1>1 DEF Call
    <2>1. Entry[query.action] \in {"terminate", "login", "authorize"}
      BY EntryLabel
    <2> QED
      BY <2>1 DEF Start
  <1>2. CASE Return(t)
    BY <1>2 DEF Return
  <1>3. CASE Terminate(t) \/ CancelPeek(t)
    BY <1>3 DEF Terminate, CancelPeek, Check
  <1>4. CASE Authorize(t)
    <2>1. q[t].action \in 2 .. 5
      BY <1>4 DEF Authorize, Check, Phase
    <2>2. Body[q[t].action] \in {"bookLock", "confirmLock", "cancelPeek", "logoutClear"}
      BY <2>1 DEF Body
    <2> QED
      BY <1>4, <2>2 DEF Authorize, Check
  <1>5. CASE LockSeat(t) \/ Unlock(t)
    BY <1>5 DEF LockSeat, Unlock
  <1>6. CASE BookTest(t) \/ CancelTest(t)
    BY <1>6 DEF BookTest, CancelTest, TestSeat
  <1>7. CASE BookSet(t) \/ CancelClear(t)
    BY <1>7 DEF BookSet, CancelClear, SetSeat
  <1>8. CASE ConfirmLock(t) \/ ConfirmSeat(t)
    BY <1>8 DEF ConfirmLock, ConfirmSeat
  <1> QED
    BY <1>1, <1>2, <1>3, <1>4, <1>5, <1>6, <1>7, <1>8 DEF Elsewhere

\* The steps of login and logout, one by one.
LEMMA SessionCases ==
    ASSUME IInv, Next
    PROVE  \E t \in Threads :
             /\ \/ Elsewhere(t) \/ Login(t) \/ LoginCheck(t) \/ LoginRegister(t)
                \/ LoginOpen(t) \/ LogoutClear(t)
             /\ \A u \in Threads \ {t} : pc'[u] = pc[u] /\ q'[u] = q[u]
             /\ ~Elsewhere(t) => q' = q
             /\ q[t].user \in Client /\ q[t].data \in Int
  <1> PICK t \in Threads : Call(t) \/ Handle(t) \/ Return(t)
    BY DEF Next
  <1>1. q[t].user \in Client /\ q[t].data \in Int
    BY QueryType DEF IInv
  <1>2. CASE Elsewhere(t)
    BY <1>1, <1>2, ElsewhereStep
  <1>3. CASE Login(t) \/ LoginCheck(t) \/ LoginRegister(t) \/ LoginOpen(t) \/ LogoutClear(t)
    <2>1. q' = q /\ \A u \in Threads \ {t} : pc'[u] = pc[u]
      BY <1>3 DEF Login, LoginCheck, Check, LoginRegister, LoginOpen, LogoutClear, Go, locals,
                  IInv, TypeOK
    <2> QED
      BY <1>1, <1>3, <2>1
  <1> QED
    BY <1>2, <1>3 DEF Handle, Elsewhere

\* A settled session is left alone, or ended by logout.
LEMMA SessionStep ==
    ASSUME IInv, Next, NEW c \in Client, SessionSettled(c)
    PROVE  session'[c] = 0 \/ (session'[c] = session[c] /\ SessionSettled(c)')
  <1> PICK t \in Threads :
          /\ \/ Elsewhere(t) \/ Login(t) \/ LoginCheck(t) \/ LoginRegister(t)
             \/ LoginOpen(t) \/ LogoutClear(t)
          /\ \A u \in Threads \ {t} : pc'[u] = pc[u] /\ q'[u] = q[u]
          /\ ~Elsewhere(t) => q' = q
          /\ q[t].user \in Client /\ q[t].data \in Int
    BY SessionCases
  <1>y. TypeOK
    BY DEF IInv
  <1>s. session[c] # 0 /\ \A u \in Threads : q[u].user = c => pc[u] \notin {"check", "register", "open"}
    BY DEF SessionSettled, Pending
  <1> SUFFICES ASSUME session'[c] # 0
               PROVE  /\ session'[c] = session[c]
                      /\ q'[t].user = c => pc'[t] \notin {"check", "register", "open"}
    BY <1>s DEF SessionSettled, Pending
  <1>1. CASE Elsewhere(t)
    BY <1>1, ElsewhereStep
  <1>2. CASE q[t].user = c /\ ~Elsewhere(t)
    <2>1. Login(t) \/ LogoutClear(t)
      BY <1>2, <1>s DEF LoginCheck, Check, LoginRegister, LoginOpen
    <2>2. CASE Login(t)
      BY <1>2, <1>s, <1>y, <2>2 DEF Login, Check, Go, TypeOK, shared
    <2>3. CASE LogoutClear(t)
      BY <1>2, <1>y, <2>3 DEF LogoutClear, TypeOK
    <2> QED
      BY <2>1, <2>2, <2>3
  <1>3. CASE q[t].user # c /\ ~Elsewhere(t)
    <2>1. q'[t].user # c
      BY <1>3
    <2>2. session'[c] = session[c]
      BY <1>3, <1>y DEF Login, LoginCheck, Check, LoginRegister, LoginOpen, LogoutClear, shared,
                        TypeOK
    <2> QED
      BY <2>1, <2>2
  <1> QED
    BY <1>1, <1>2, <1>3

\* login, "already logged in from other client": the test and the write are steps
\* apart and without a lock, yet a session that is settled is not replaced.
THEOREM SessionKept == Spec => SessionHeld
  <1>1. IInv /\ [Next]_vars =>
          [\A c \in Client : SessionSettled(c) =>
             \/ session'[c] = 0
             \/ session'[c] = session[c] /\ SessionSettled(c)']_vars
    BY SessionStep
  <1> QED
    BY <1>1, Invariance, PTL DEF Spec, SessionHeld

\* A settled password is left alone.
LEMMA PasswordStep ==
    ASSUME IInv, Next, NEW c \in Client, PasswordSettled(c)
    PROVE  password'[c] = password[c] /\ PasswordSettled(c)'
  <1> PICK t \in Threads :
          /\ \/ Elsewhere(t) \/ Login(t) \/ LoginCheck(t) \/ LoginRegister(t)
             \/ LoginOpen(t) \/ LogoutClear(t)
          /\ \A u \in Threads \ {t} : pc'[u] = pc[u] /\ q'[u] = q[u]
          /\ ~Elsewhere(t) => q' = q
          /\ q[t].user \in Client /\ q[t].data \in Int
    BY SessionCases
  <1>y. TypeOK
    BY DEF IInv
  <1> DEFINE Safe(u) == q[u].user = c => pc[u] # "register" /\ (pc[u] = "open" => q[u].data = password[c])
  <1>s. password[c] # 0 /\ \A u \in Threads : Safe(u)
    BY DEF PasswordSettled, Pending
  <1>g. \A u \in Threads \ {t} : password'[c] = password[c] => Safe(u)'
    BY <1>s
  <1> SUFFICES password'[c] = password[c] /\ Safe(t)'
    <2>1. password'[c] # 0 /\ \A u \in Threads : Safe(u)'
      BY <1>s, <1>g
    <2> QED
      BY <2>1 DEF PasswordSettled, Pending
  <1>1. CASE Elsewhere(t)
    BY <1>1, ElsewhereStep
  <1>2. CASE q[t].user = c /\ ~Elsewhere(t)
    <2>1. CASE Login(t)
      BY <2>1, <1>y DEF Login, Check, Go, TypeOK, shared
    <2>2. CASE LoginCheck(t)
      BY <2>2, <1>2, <1>s, <1>y DEF LoginCheck, Check, Go, TypeOK, shared
    <2>3. CASE LoginOpen(t) \/ LogoutClear(t)
      BY <2>3, <1>y DEF LoginOpen, LogoutClear, Go, TypeOK
    <2>4. ~LoginRegister(t)
      BY <1>2, <1>s DEF LoginRegister
    <2> QED
      BY <1>2, <2>1, <2>2, <2>3, <2>4
  <1>3. CASE q[t].user # c /\ ~Elsewhere(t)
    <2>1. q'[t].user # c
      BY <1>3
    <2>2. password'[c] = password[c]
      BY <1>3, <1>y DEF Login, LoginCheck, Check, LoginRegister, LoginOpen, LogoutClear, shared,
                        TypeOK
    <2> QED
      BY <2>1, <2>2
  <1> QED
    BY <1>1, <1>2, <1>3

\* login: a client whose first login is over keeps its password, and nobody gets a
\* session with another one.
THEOREM PasswordKept == Spec => PasswordHeld
  <1>1. IInv /\ [Next]_vars =>
          [\A c \in Client : PasswordSettled(c) =>
             password'[c] = password[c] /\ PasswordSettled(c)']_vars
    BY PasswordStep
  <1> QED
    BY <1>1, Invariance, PTL DEF Spec, PasswordHeld

-----------------------------------------------------------------------------
(* SeatStore implements SeatTable: a proof by refinement mapping.  Every   *)
(* step of a thread is a step of its call in the abstract table, or does   *)
(* not show.                                                               *)

\* status of SeatTable under the mapping.
Statuses == [u \in Threads |-> Status(u)]

\* A step that moves thread t to another label moves the status of t only.
LEMMA StatusStep ==
    ASSUME NEW t \in Threads, NEW l, pc \in [Threads -> Labels],
           pc' = [pc EXCEPT ![t] = l]
    PROVE  Statuses' = [Statuses EXCEPT ![t] = Status(t)']
  <1>1. \A u \in Threads \ {t} : Status(u)' = Status(u)
    BY DEF Status
  <1> QED
    BY <1>1 DEF Statuses

\* Two statuses alike: the step does not show.
LEMMA StatusStutter ==
    ASSUME NEW t \in Threads, NEW l, pc \in [Threads -> Labels],
           pc' = [pc EXCEPT ![t] = l], Status(t)' = Status(t)
    PROVE  Statuses' = Statuses
  BY StatusStep DEF Statuses

\* The initial states map to initial states.
LEMMA InitTable == Init => Table!Init
  BY DEF Init, Table!Init, Table!Seat, Seat, Table!Free, Status

-----------------------------------------------------------------------------
(* Every step maps to a step or a stutter.                                 *)

\* Go is Step when the status of the label changes.
LEMMA GoStep ==
    ASSUME TypeOK, NEW t \in Threads, NEW l, NEW r, Go(t, l, r)
    PROVE  Table!Step(t, Status(t), Status(t)', r)
  <1>1. Statuses' = [Statuses EXCEPT ![t] = Status(t)']
    BY StatusStep DEF TypeOK, Go
  <1>2. Statuses[t] = Status(t)
    BY DEF Statuses
  <1> QED
    BY <1>1, <1>2 DEF Table!Step, Statuses, Go

\* Go does not show when the status and the result stay what they are.
LEMMA GoStutter ==
    ASSUME TypeOK, NEW t \in Threads, NEW l, Go(t, l, ok[t]), Status(t)' = Status(t),
           UNCHANGED <<seats, q, booked>>
    PROVE  UNCHANGED Table!tvars
  <1>1. Statuses' = Statuses
    BY StatusStutter DEF TypeOK, Go
  <1>2. ok' = ok
    BY DEF TypeOK, Go
  <1> QED
    BY <1>1, <1>2 DEF Table!tvars, Statuses

\* A call of handle_query invokes the operation of the table.
LEMMA CallTable ==
    ASSUME TypeOK, PhaseInv, NEW t \in Threads, Call(t)
    PROVE  Table!Invoke(t)
  <1> PICK new \in Queries : Start(t, new)
    BY DEF Call
  <1>1. Entry[new.action] \in {"terminate", "login", "authorize"}
    BY StoreAssumption DEF Entry
  <1>2. Status(t) = "idle" /\ Status(t)' = "open"
    BY <1>1 DEF Start, Go, Status, TypeOK
  <1>3. Table!Step(t, "idle", "open", FALSE)
    BY <1>2, GoStep DEF Start
  <1> QED
    BY <1>3 DEF Table!Invoke, Start, shared

\* The return of handle_query finishes the operation of the table.
LEMMA ReturnTable ==
    ASSUME TypeOK, NEW t \in Threads, Return(t)
    PROVE  Table!Finish(t)
  <1>1. Status(t) = "done" /\ Status(t)' = "idle"
    BY DEF Return, Go, Status, TypeOK
  <1>2. Table!Step(t, "done", "idle", FALSE)
    BY <1>1, GoStep DEF Return
  <1> QED
    BY <1>2 DEF Table!Finish, Return, shared

\* terminate, login and logout: nothing shows before the decision.
LEMMA SessionTable ==
    ASSUME TypeOK, PhaseInv, NEW t \in Threads,
           \/ Terminate(t) \/ Login(t) \/ LoginCheck(t) \/ LoginRegister(t)
           \/ LoginOpen(t) \/ LogoutClear(t)
    PROVE  Table!Settle(t) \/ UNCHANGED Table!tvars
  <1> PICK l \in Labels, r \in BOOLEAN :
            /\ Go(t, l, r)
            /\ (l \in {"check", "register", "open"} /\ r = FALSE) \/ l = "return"
    BY DEF Terminate, Login, LoginCheck, Check, LoginRegister, LoginOpen, LogoutClear,
           Labels, Critical
  <1>1. /\ pc[t] \in {"terminate", "login", "check", "register", "open", "logoutClear"}
        /\ UNCHANGED <<seats, q, booked>>
    BY DEF Terminate, Login, LoginCheck, Check, LoginRegister, LoginOpen, LogoutClear,
           shared, locals
  <1>2. q[t].action \in {0, 1, 5} /\ ok[t] = FALSE
    BY <1>1 DEF PhaseInv, Phase
  <1>3. Status(t) = "open"
    BY <1>1 DEF Status
  <1>4. CASE l = "return"
    <2>1. Status(t)' = "done"
      BY <1>4 DEF Go, Status, TypeOK
    <2>2. Table!Step(t, "open", "done", r)
      BY <1>3, <2>1, GoStep
    <2> QED
      BY <1>1, <1>2, <2>2 DEF Table!Settle
  <1>5. CASE l \in {"check", "register", "open"} /\ r = FALSE
    <2>1. Status(t)' = "open"
      BY <1>5 DEF Go, Status, TypeOK
    <2> QED
      BY <1>1, <1>2, <1>3, <1>5, <2>1, GoStutter
  <1> QED
    BY <1>4, <1>5

\* The check at the head of the operation admits or refuses; for logout it does
\* not show.
LEMMA AuthorizeTable ==
    ASSUME TypeOK, PhaseInv, NEW t \in Threads, Authorize(t)
    PROVE  Table!Admit(t) \/ Table!Settle(t) \/ UNCHANGED Table!tvars
  <1>1. /\ Status(t) = "open" /\ q[t].action \in 2 .. 5 /\ ok[t] = FALSE
        /\ UNCHANGED <<seats, q, booked>>
    BY DEF Authorize, Check, shared, locals, Status, PhaseInv, Phase
  <1>2. CASE Go(t, "return", FALSE)
    <2>1. Status(t)' = "done"
      BY <1>2 DEF Go, Status, TypeOK
    <2>2. Table!Step(t, "open", "done", FALSE)
      BY <1>1, <1>2, <2>1, GoStep
    <2> QED
      BY <1>1, <2>2 DEF Table!Settle
  <1>3. CASE /\ Go(t, Body[q[t].action], FALSE)
             /\ q[t].action \in {2, 4} => q[t].data \in Seat
    <2>1. CASE q[t].action = 5
      <3>1. Go(t, "logoutClear", FALSE)
        <4>1. Body[5] = "logoutClear"
          BY DEF Body
        <4> QED
          BY <1>3, <2>1, <4>1
      <3>2. Status(t)' = "open"
        BY <3>1 DEF Go, Status, TypeOK
      <3> QED
        BY <1>1, <3>1, <3>2, GoStutter
    <2>2. CASE q[t].action \in 2 .. 4
      <3>1. Body[q[t].action] \in {"bookLock", "confirmLock", "cancelPeek"}
        BY <2>2 DEF Body
      <3>2. Status(t)' = "checked"
        BY <1>3, <3>1 DEF Go, Status, TypeOK
      <3>3. Table!Step(t, "open", "checked", FALSE)
        BY <1>1, <1>3, <3>2, GoStep
      <3>4. q[t].action # 3 => q[t].data \in Seat
        BY <1>3, <2>2
      <3>5. q[t].action \in {2, 3, 4}
        BY <2>2, QueryType
      <3> QED
        BY <1>1, <3>3, <3>4, <3>5 DEF Table!Admit, Table!Seat, Seat
    <2> QED
      BY <1>1, <2>1, <2>2
  <1> QED
    BY <1>2, <1>3 DEF Authorize, Check

\* Taking a mutex does not show, nor does releasing it: the call is decided by
\* then.
LEMMA MutexTable ==
    ASSUME TypeOK, PhaseInv, NEW t \in Threads, LockSeat(t) \/ Unlock(t) \/ ConfirmLock(t)
    PROVE  UNCHANGED Table!tvars
  <1>1. UNCHANGED <<seats, q, booked>>
    BY DEF LockSeat, Unlock, ConfirmLock, locals
  <1>2. PICK l \in Labels : Go(t, l, ok[t]) /\ Status(t)' = Status(t)
    <2>1. CASE LockSeat(t)
      BY <2>1 DEF LockSeat, Go, Status, TypeOK, PhaseInv, Phase, Labels, Critical
    <2>2. CASE Unlock(t)
      BY <2>2 DEF Unlock, Go, Status, TypeOK, Labels
    <2>3. CASE ConfirmLock(t)
      BY <2>3 DEF ConfirmLock, Go, Status, TypeOK, PhaseInv, Phase, Labels
    <2> QED
      BY <2>1, <2>2, <2>3
  <1> QED
    BY <1>1, <1>2, GoStutter

\* Looking at the seat refuses the call or does not show.
LEMMA TestTable ==
    ASSUME TypeOK, PhaseInv, NEW t \in Threads,
           BookTest(t) \/ CancelPeek(t) \/ CancelTest(t)
    PROVE  Table!Refuse(t) \/ UNCHANGED Table!tvars
  <1>1. /\ Status(t) = "checked" /\ ok[t] = FALSE
        /\ q[t].data \in Seat
        /\ UNCHANGED <<seats, q, booked>>
    BY DEF BookTest, CancelPeek, CancelTest, Check, TestSeat, shared, locals, Status,
           PhaseInv, Phase, Critical
  <1>2. seats[q[t].data] \in Client
    BY <1>1 DEF TypeOK
  <1>3. \/ /\ Go(t, "unlock", FALSE) \/ Go(t, "return", FALSE)
           /\ \/ q[t].action = 2 /\ seats[q[t].data] # 0
              \/ q[t].action = 4 /\ (seats[q[t].data] = 0 \/ seats[q[t].data] # q[t].user)
        \/ \E l \in {"bookSet", "cancelLock", "cancelClear"} : Go(t, l, FALSE)
    BY DEF BookTest, CancelPeek, CancelTest, Check, TestSeat, PhaseInv, Phase
  <1>4. CASE Go(t, "unlock", FALSE) \/ Go(t, "return", FALSE)
    <2>1. Status(t)' = "done"
      BY <1>4 DEF Go, Status, TypeOK
    <2>2. Table!Step(t, "checked", "done", FALSE)
      BY <1>1, <1>4, <2>1, GoStep
    <2>3. \/ q[t].action = 2 /\ seats[q[t].data] # 0
          \/ q[t].action = 4 /\ (seats[q[t].data] = 0 \/ seats[q[t].data] # q[t].user)
      BY <1>3, <1>4 DEF Go, TypeOK
    <2> QED
      BY <1>1, <1>2, <2>2, <2>3 DEF Table!Refuse, Table!Free, Table!Client, Client
  <1>5. CASE \E l \in {"bookSet", "cancelLock", "cancelClear"} : Go(t, l, FALSE)
    <2>1. PICK l \in {"bookSet", "cancelLock", "cancelClear"} : Go(t, l, FALSE)
      BY <1>5
    <2>2. Status(t)' = "checked"
      BY <2>1 DEF Go, Status, TypeOK
    <2> QED
      BY <1>1, <2>1, <2>2, GoStutter
  <1> QED
    BY <1>3, <1>4, <1>5

\* The writes to the table.
LEMMA SetTable ==
    ASSUME TypeOK, PhaseInv, SeatInv, NEW t \in Threads, BookSet(t) \/ CancelClear(t)
    PROVE  Table!Book(t) \/ Table!Cancel(t)
  <1>1. Status(t) = "checked" /\ Go(t, "unlock", TRUE) /\ UNCHANGED <<q, booked>>
    BY DEF BookSet, CancelClear, SetSeat, Status, locals
  <1>2. Status(t)' = "done"
    BY <1>1 DEF Go, Status, TypeOK
  <1>3. Table!Step(t, "checked", "done", TRUE)
    BY <1>1, <1>2, GoStep
  <1>4. CASE BookSet(t)
    <2>1. q[t].action = 2 /\ seats[q[t].data] = 0
      BY <1>4 DEF BookSet, SetSeat, PhaseInv, Phase, SeatInv
    <2> QED
      BY <1>1, <1>3, <1>4, <2>1 DEF Table!Book, Table!Free, BookSet, SetSeat
  <1>5. CASE CancelClear(t)
    <2>1. q[t].action = 4 /\ seats[q[t].data] = q[t].user
      BY <1>5 DEF CancelClear, SetSeat, PhaseInv, Phase, SeatInv
    <2> QED
      BY <1>1, <1>3, <1>5, <2>1 DEF Table!Cancel, Table!Free, CancelClear, SetSeat
  <1> QED
    BY <1>4, <1>5

\* One round of confirm_booking's loop is one look.
LEMMA ConfirmTable ==
    ASSUME TypeOK, PhaseInv, NEW t \in Threads, ConfirmSeat(t)
    PROVE  Table!Look(t)
  <1> DEFINE last == i[t] = NUM_SEAT - 1
  <1>1. /\ Status(t) = "checked" /\ q[t].action = 3 /\ i[t] \in Seat
        /\ UNCHANGED <<seats, q>>
    BY DEF ConfirmSeat, Status, PhaseInv, Phase
  <1>2. Go(t, IF last THEN "return" ELSE "confirmLock", last /\ booked'[t] # {})
    BY DEF ConfirmSeat
  <1>3. Status(t)' = IF last THEN "done" ELSE "checked"
    BY <1>2 DEF Go, Status, TypeOK
  <1>4. Table!Step(t, "checked", IF last THEN "done" ELSE "checked", last /\ booked'[t] # {})
    BY <1>1, <1>2, <1>3, GoStep
  <1>5. booked' = [booked EXCEPT ![t] = @ \cup {r \in {i[t]} : seats[r] = q[t].user}]
    <2>1. (IF seats[i[t]] = q[t].user THEN {i[t]} ELSE {})
            = {r \in {i[t]} : seats[r] = q[t].user}
      OBVIOUS
    <2> QED
      BY <2>1 DEF ConfirmSeat
  <1>6. last \in BOOLEAN /\ i[t] \in Table!Seat
    BY <1>1 DEF Table!Seat, Seat
  <1> QED
    BY <1>1, <1>4, <1>5, <1>6 DEF Table!Look

\* The refinement: every step of the store is one of the table's.
LEMMA NextTable == IInv /\ [Next]_vars => [Table!Next]_(Table!tvars)
  <1> SUFFICES ASSUME IInv, [Next]_vars PROVE Table!Next \/ UNCHANGED Table!tvars
    OBVIOUS
  <1>1. CASE Next
    <2> PICK t \in Threads : Call(t) \/ Handle(t) \/ Return(t)
      BY <1>1 DEF Next
    <2>1. CASE Call(t)
      BY <2>1, CallTable DEF IInv, Table!Next
    <2>2. CASE Return(t)
      BY <2>2, ReturnTable DEF IInv, Table!Next
    <2>3. CASE \/ Terminate(t) \/ Login(t) \/ LoginCheck(t) \/ LoginRegister(t)
               \/ LoginOpen(t) \/ LogoutClear(t)
      BY <2>3, SessionTable DEF IInv, Table!Next
    <2>4. CASE Authorize(t)
      BY <2>4, AuthorizeTable DEF IInv, Table!Next
    <2>5. CASE LockSeat(t) \/ Unlock(t) \/ ConfirmLock(t)
      BY <2>5, MutexTable DEF IInv
    <2>6. CASE BookTest(t) \/ CancelPeek(t) \/ CancelTest(t)
      BY <2>6, TestTable DEF IInv, Table!Next
    <2>7. CASE BookSet(t) \/ CancelClear(t)
      BY <2>7, SetTable DEF IInv, Table!Next
    <2>8. CASE ConfirmSeat(t)
      BY <2>8, ConfirmTable DEF IInv, Table!Next
    <2> QED
      BY <2>1, <2>2, <2>3, <2>4, <2>5, <2>6, <2>7, <2>8 DEF Handle
  <1>2. CASE UNCHANGED vars
    <2>1. Statuses' = Statuses
      BY <1>2 DEF vars, Statuses, Status
    <2> QED
      BY <1>2, <2>1 DEF vars, shared, locals, Table!tvars, Statuses
  <1> QED
    BY <1>1, <1>2

\* The store with its arrays, mutexes and loops implements the table of
\* reservations: book and cancel_booking take effect in one indivisible step
\* between call and return, and every refusal is justified by the table.
THEOREM Implementation == Spec => ImplementsTable
  BY InitTable, NextTable, Invariance, PTL DEF Spec, ImplementsTable, Table!Spec
=============================================================================
