--------------------------- MODULE SeatSystemProofs ---------------------------
(***************************************************************************)
(* The server's threads, whatever connections and clients do, use the      *)
(* store as SeatStore describes, so that its theorems hold of the system:  *)
(* for any number of connections, threads and descriptors, with clients    *)
(* killed at any time and even with two threads on one connection.         *)
(* When arrivals are spaced out and clients are killed only between        *)
(* queries, every connection has a thread of its own, the clients are told *)
(* the truth, and nothing but a lack of descriptors ends the server.       *)
(***************************************************************************)
EXTENDS SeatSystem, SeatStoreProofs, FiniteSetTheorems, SequenceTheorems

\* A step of main does not touch the store.
LEMMA MainStore == Main => UNCHANGED vars
  BY DEF Main, Accept, SpawnWorker, AcceptFails, SpawnFails

\* A step of a worker is a step of its thread in the store, or does not touch it.
LEMMA WorkerStore ==
    ASSUME TypeOK, ServerTypeOK, NEW t \in Threads, Worker(t)
    PROVE  Next \/ UNCHANGED vars
  <1>1. CASE StartWorker(t) \/ ReadEnd(t) \/ BrokenPipe(t)
    BY <1>1 DEF StartWorker, ReadEnd, BrokenPipe
  <1>2. ASSUME NEW query \in Queries, Serve(t, query) PROVE Next
    <2>1. own[t] \in Sockets
      BY DEF ServerTypeOK
    <2>2. Call(t)
      BY <1>2, <2>1 DEF Serve, Call
    <2> QED
      BY <2>2 DEF Next
  <1>3. CASE ReadQuery(t)
    <2>1. Peer(t) \in Conn
      BY <1>3 DEF ReadQuery, Peer, ServerTypeOK
    <2>2. inbox[Peer(t)] \in Seq(Queries) /\ inbox[Peer(t)] # <<>>
      BY <1>3, <2>1 DEF ReadQuery, ServerTypeOK
    <2>3. Head(inbox[Peer(t)]) \in Queries
      BY <2>2
    <2> QED
      BY <1>2, <1>3, <2>3 DEF ReadQuery
  <1>4. CASE ReadError(t)
    <2>1. q[t] \in Queries
      BY DEF TypeOK
    <2> QED
      BY <1>2, <1>4, <2>1 DEF ReadError
  <1>5. CASE HandleQuery(t)
    BY <1>5 DEF HandleQuery, Next
  <1>6. CASE Reply(t)
    BY <1>6 DEF Reply, Next
  <1> QED
    BY <1>1, <1>3, <1>4, <1>5, <1>6 DEF Worker

\* Nor does a step of a client.
LEMMA ClientStore ==
    ASSUME NEW c \in Conn, ClientStep(c) \/ Die(c)
    PROVE  UNCHANGED vars
  BY DEF ClientStep, Connect, Leave, Receive, Disconnect, Pipe, Send, Die

-----------------------------------------------------------------------------
(* Types of the server and of the network.                                 *)

\* Steps of main keep the types of the server.
LEMMA MainType ==
    ASSUME ServerTypeOK, Main
    PROVE  ServerTypeOK'
  <1> USE DEF ServerTypeOK, Steps, Links, network
  <1>1. ASSUME NEW c \in Conn, Accept(c) PROVE ServerTypeOK'
    BY <1>1 DEF Accept, FreeFd
  <1>2. ASSUME NEW t \in Threads, SpawnWorker(t) PROVE ServerTypeOK'
    BY <1>2 DEF SpawnWorker
  <1>3. CASE AcceptFails \/ SpawnFails
    BY <1>3 DEF AcceptFails, SpawnFails
  <1> QED
    BY <1>1, <1>2, <1>3 DEF Main

\* What close leaves has the right type.
LEMMA CloseType ==
    ASSUME ServerTypeOK, NEW t \in Threads, Close(t)
    PROVE  /\ fd' \in [Sockets -> Conn \cup {NoConn}]
           /\ link' \in [Conn -> Links]
           /\ at' \in [Threads -> Steps]
  BY DEF Close, ServerTypeOK, Links, Steps

\* Steps of client_handler keep the types of the server.
LEMMA WorkerType ==
    ASSUME ServerTypeOK, NEW t \in Threads, Worker(t)
    PROVE  ServerTypeOK'
  <1>1. CASE StartWorker(t) \/ BrokenPipe(t) \/ HandleQuery(t)
    BY <1>1 DEF StartWorker, BrokenPipe, HandleQuery, ServerTypeOK, server, process, network, Steps
  <1>2. CASE ReadQuery(t)
    <2>1. Peer(t) \in Conn /\ inbox[Peer(t)] \in Seq(Queries) /\ inbox[Peer(t)] # <<>>
      BY <1>2 DEF ReadQuery, Peer, ServerTypeOK
    <2>2. Tail(inbox[Peer(t)]) \in Seq(Queries)
      BY <2>1
    <2> QED
      BY <1>2, <2>2 DEF ReadQuery, Serve, ServerTypeOK, Steps
  <1>3. CASE ReadEnd(t)
    BY <1>3, CloseType DEF ReadEnd, ServerTypeOK
  <1>4. CASE ReadError(t)
    BY <1>4 DEF ReadError, Serve, ServerTypeOK, Steps, Links
  <1>5. CASE Reply(t)
    <2>1. Answer(t) \in Answers
      BY DEF Answer, Answers
    <2>2. \A c \in Conn : Append(out[c], Answer(t)) \in Seq(Answers)
      BY <2>1 DEF ServerTypeOK
    <2>3. out' \in [Conn -> Seq(Answers)]
      BY <1>5, <2>2 DEF Reply, ServerTypeOK
    <2>4. CASE q[t].action = 0 /\ Close(t)
      BY <1>5, <2>3, <2>4, CloseType DEF Reply, ServerTypeOK
    <2>5. CASE q[t].action # 0
      BY <1>5, <2>3, <2>5 DEF Reply, ServerTypeOK, Steps, Links
    <2> QED
      BY <1>5, <2>4, <2>5 DEF Reply
  <1> QED
    BY <1>1, <1>2, <1>3, <1>4, <1>5 DEF Worker

\* What write leaves on the connection has the right type.
LEMMA WriteType ==
    ASSUME ServerTypeOK, NEW c \in Conn, NEW query \in Queries, Write(c, query)
    PROVE  inbox' \in [Conn -> Seq(Queries)] /\ link' \in [Conn -> Links]
  <1>1. Append(inbox[c], query) \in Seq(Queries)
    BY DEF ServerTypeOK
  <1> QED
    BY <1>1 DEF Write, ServerTypeOK, Links

\* Steps of a client keep the types of the server.
LEMMA ClientType ==
    ASSUME ServerTypeOK, NEW c \in Conn, ClientStep(c) \/ Die(c)
    PROVE  ServerTypeOK'
  <1> USE DEF ServerTypeOK, process
  <1>0. <<>> \in Seq(Answers)
    OBVIOUS
  <1>1. CASE Connect(c)
    BY <1>1 DEF Connect, Links
  <1>2. CASE Leave(c)
    BY <1>2, WriteType, SystemAssumption DEF Leave
  <1>3. ASSUME NEW query \in Queries, Send(c, query) PROVE ServerTypeOK'
    BY <1>3, WriteType DEF Send
  <1>4. CASE Receive(c)
    BY <1>0, <1>4 DEF Receive
  <1>5. CASE Disconnect(c) \/ Die(c)
    BY <1>0, <1>5 DEF Disconnect, Die, Gone, Links
  <1>6. CASE Pipe(c)
    BY <1>6 DEF Pipe, server, network
  <1> QED
    BY <1>1, <1>2, <1>3, <1>4, <1>5, <1>6 DEF ClientStep

-----------------------------------------------------------------------------
(* The theorems.                                                           *)

\* The initial states of the system are initial for the store, too.
LEMMA InitSystem == SystemInit => TypeOK /\ ServerTypeOK /\ Init
  <1> SUFFICES ASSUME SystemInit PROVE TypeOK /\ ServerTypeOK /\ Init
    OBVIOUS
  <1>1. Init
    BY DEF SystemInit, ServerInit
  <1>2. \A c \in Conn : <<>> \in Seq(Queries) /\ <<>> \in Seq(Answers)
    OBVIOUS
  <1>3. ServerTypeOK
    BY <1>2 DEF SystemInit, ServerInit, ServerTypeOK, Steps, Links
  <1>4. TypeOK
    BY <1>1, InitIInv DEF IInv
  <1> QED
    BY <1>1, <1>3, <1>4

\* Every step of the system is a step of the store or leaves it alone.
LEMMA NextStore ==
    ASSUME TypeOK, ServerTypeOK, [SystemNext]_allVars
    PROVE  [Next]_vars /\ ServerTypeOK'
  <1>1. CASE UNCHANGED allVars
    BY <1>1 DEF allVars, vars, server, process, network, ServerTypeOK
  <1>2. CASE ServerStep(Main \/ Workers)
    BY <1>2, MainStore, MainType, WorkerStore, WorkerType DEF ServerStep, Workers
  <1>3. CASE \E c \in Conn : ClientStep(c) \/ Die(c)
    BY <1>3, ClientStore, ClientType
  <1> QED
    BY <1>1, <1>2, <1>3 DEF SystemNext

\* Whatever the clients do, the server's threads go through the store's steps.
THEOREM SystemStore == SystemSpec => ImplementsStore /\ []ServerTypeOK
  <1>1. IInv /\ ServerTypeOK /\ [SystemNext]_allVars => (IInv /\ ServerTypeOK)' /\ [Next]_vars
    BY NextStore, NextIInv DEF IInv
  <1>2. SystemInit => IInv /\ ServerTypeOK
    BY InitSystem, InitIInv
  <1> QED
    BY <1>1, <1>2, InitSystem, PTL DEF SystemSpec, ImplementsStore, Spec

\* In the whole system an occupied seat is given to somebody else only after it
\* was cancelled for its holder, the reservations are those of the table, and settled
\* sessions and passwords are not overwritten.
THEOREM SystemReservations == SystemSpec =>
    SeatNeverStolen /\ ImplementsTable /\ []LockInv /\ SessionHeld /\ PasswordHeld
  BY SystemStore, NeverStolen, Implementation, Locking, SessionKept, PasswordKept DEF ImplementsStore

-----------------------------------------------------------------------------
(* Types of the whole system.                                              *)

ClientTypeOK == cl \in [Conn -> Doing] /\ said \in [Conn -> Sayings]

\* No step of the system leaves the types of the client processes.
LEMMA ClientTypeStep == ClientTypeOK /\ [SystemNext]_allVars => ClientTypeOK'
  <1> SUFFICES ASSUME ClientTypeOK, [SystemNext]_allVars PROVE ClientTypeOK'
    OBVIOUS
  <1> USE DEF ClientTypeOK, Doing, Sayings
  <1>1. CASE UNCHANGED allVars \/ ServerStep(Main \/ Workers)
    BY <1>1 DEF allVars, ServerStep
  <1>2. ASSUME NEW c \in Conn, Connect(c) \/ Leave(c) \/ Pipe(c) PROVE ClientTypeOK'
    BY <1>2 DEF Connect, Leave, Pipe
  <1>3. ASSUME NEW c \in Conn, NEW query \in Queries, Send(c, query) PROVE ClientTypeOK'
    BY <1>3 DEF Send
  <1>4. ASSUME NEW c \in Conn, Receive(c) \/ Disconnect(c) \/ Die(c) PROVE ClientTypeOK'
    BY <1>4 DEF Receive, Disconnect, Die, Gone
  <1> QED
    BY <1>1, <1>2, <1>3, <1>4 DEF SystemNext, ClientStep

\* Every variable of server, network and clients keeps its type, whatever the clients do.
THEOREM SystemTypes == SystemSpec => []SystemTypeOK
  <1>1. SystemInit => ClientTypeOK
    BY DEF SystemInit, ClientTypeOK, Doing, Sayings
  <1>2. SystemTypeOK <=> TypeOK /\ ServerTypeOK /\ ClientTypeOK
    BY DEF SystemTypeOK, ClientTypeOK
  <1>3. SystemSpec => []TypeOK
    BY SystemStore, TypeCorrect DEF ImplementsStore
  <1> QED
    BY <1>1, <1>2, <1>3, SystemStore, ClientTypeStep, PTL DEF SystemSpec

-----------------------------------------------------------------------------
(* Connections and threads, when arrivals are spaced out.                  *)

Live(t) == at[t] \in {"read", "serve"}

\* A descriptor is being handed over: slot is not yet read by a thread.
Handing == main = "create" \/ \E t \in Threads : at[t] = "start"

HandInv ==
    /\ Handing => fd[slot] # NoConn /\ \A t \in Threads : Live(t) => own[t] # slot
    /\ \A t, u \in Threads : at[t] = "start" /\ at[u] = "start" => t = u
    /\ Spaced

\* A descriptor stands for one connection, which is accepted and not closed.
FdInv ==
    /\ \A s, r \in Sockets : fd[s] = fd[r] /\ fd[s] # NoConn => s = r
    /\ main # "gone" =>
          \A s \in Sockets : fd[s] # NoConn => link[fd[s]] \in {"up", "fin", "rst", "dead"}

\* A thread is in handle_query while it serves, and grants a termination.
CallInv == \A t \in Threads :
    /\ at[t] = "serve" <=> pc[t] # "idle"
    /\ pc[t] = "return" /\ q[t] = Termination => ok[t]

-----------------------------------------------------------------------------
(* The queries of a connection that are not answered: one may be in        *)
(* handle_query, others have been sent.                                    *)

Serves(t, c) == at[t] = "serve" /\ fd[own[t]] = c
Idle(c)      == \A t \in Threads : ~Serves(t, c)

None(c)      == Idle(c) /\ inbox[c] = <<>>
One(c, x)    == \/ Idle(c) /\ inbox[c] = <<x>>
                \/ inbox[c] = <<>> /\ \E t \in Threads : Serves(t, c) /\ q[t] = x
Two(c, x, y) == \/ Idle(c) /\ inbox[c] = <<x, y>>
                \/ inbox[c] = <<y>> /\ \E t \in Threads : Serves(t, c) /\ q[t] = x

Granted  == {<<"yes">>, <<"no">>}
Byes     == {<<"yes", "bye">>, <<"no", "bye">>}
Ordinary == {query \in Queries : query.action # 0}
Before   == {"backlog", "up"}

\* The client has not connected.
Off(c) == cl[c] = "off" /\ said[c] = "none" /\ link[c] = "none" /\ None(c) /\ out[c] = <<>>

\* Nothing is on the way.
Ready(c) ==
    /\ cl[c] = "ready" /\ said[c] # "pending" /\ link[c] \in Before
    /\ None(c) /\ out[c] = <<>>

\* Its query, or the answer to it, is.
Asked(c) ==
    /\ cl[c] = "waiting" /\ said[c] = "pending"
    /\ \/ link[c] \in Before /\ out[c] = <<>> /\ \E x \in Ordinary : One(c, x)
       \/ link[c] = "up" /\ out[c] \in Granted /\ None(c)

\* Its termination, or the answer to it, is, and maybe what it was waiting for.
Leaving(c) ==
    /\ cl[c] = "leaving"
    /\ \/ link[c] \in Before /\ out[c] = <<>> /\ One(c, Termination)
       \/ link[c] = "closed" /\ out[c] = <<"bye">> /\ None(c)
       \/ /\ said[c] = "pending"
          /\ \/ link[c] \in Before /\ out[c] = <<>> /\ \E x \in Ordinary : Two(c, x, Termination)
             \/ link[c] = "up" /\ out[c] \in Granted /\ One(c, Termination)
             \/ link[c] = "closed" /\ out[c] \in Byes /\ None(c)

\* Its termination may be.
Ended(c) ==
    /\ cl[c] = "gone"
    /\ \/ link[c] = "fin" /\ (None(c) \/ One(c, Termination))
       \/ link[c] = "closed" /\ None(c)

Talk(c) == Off(c) \/ Ready(c) \/ Asked(c) \/ Leaving(c) \/ Ended(c)
TalkInv == main # "gone" => \A c \in Conn : Talk(c)

CalmInv ==
    /\ IInv /\ ServerTypeOK /\ ClientTypeOK
    /\ Alone /\ HandInv /\ FdInv /\ Attended /\ CallInv /\ TalkInv

\* A step inside handle_query: other threads are not touched, the query stays, the
\* call goes on or is decided; a termination is granted.
LEMMA HandleKeeps ==
    ASSUME IInv, NEW t \in Threads, Handle(t)
    PROVE  /\ q' = q /\ pc[t] # "idle" /\ pc'[t] # "idle"
           /\ \A u \in Threads : u # t => pc'[u] = pc[u] /\ ok'[u] = ok[u]
           /\ pc'[t] = "return" /\ q[t] = Termination => ok'[t]
  <1>1. Phase(t) /\ TypeOK
    BY DEF IInv, PhaseInv
  <1>2. q[t] = Termination => q[t].action = 0
    BY DEF Termination
  <1> USE <1>1, <1>2 DEF TypeOK, Phase, Critical, shared, locals, Go
  <1>3. CASE Terminate(t)
    BY <1>3 DEF Terminate, Termination
  <1>4. CASE Login(t) \/ LoginCheck(t) \/ CancelPeek(t)
    BY <1>4 DEF Login, LoginCheck, CancelPeek, Check
  <1>5. CASE LoginRegister(t) \/ LoginOpen(t) \/ LogoutClear(t)
    BY <1>5 DEF LoginRegister, LoginOpen, LogoutClear
  <1>6. CASE Authorize(t)
    <2>1. q[t].action \in 2 .. 5
      BY <1>6 DEF Authorize, Check
    <2>2. Body[q[t].action] # "idle"
      BY <2>1 DEF Body
    <2> QED
      BY <1>6, <2>1, <2>2 DEF Authorize, Check
  <1>7. CASE LockSeat(t) \/ Unlock(t) \/ ConfirmLock(t)
    BY <1>7 DEF LockSeat, Unlock, ConfirmLock
  <1>8. CASE BookTest(t) \/ CancelTest(t)
    BY <1>8 DEF BookTest, CancelTest, TestSeat
  <1>9. CASE BookSet(t) \/ CancelClear(t)
    BY <1>9 DEF BookSet, CancelClear, SetSeat
  <1>10. CASE ConfirmSeat(t)
    BY <1>10 DEF ConfirmSeat
  <1> QED
    BY <1>3, <1>4, <1>5, <1>6, <1>7, <1>8, <1>9, <1>10 DEF Handle

\* What a call and its return do to the thread.
LEMMA ServeKeeps ==
    ASSUME TypeOK, NEW t \in Threads, NEW query \in Queries, Serve(t, query)
    PROVE  /\ pc[t] = "idle" /\ pc'[t] # "idle" /\ pc'[t] # "return" /\ q'[t] = query
           /\ at' = [at EXCEPT ![t] = "serve"]
           /\ \A u \in Threads : u # t => pc'[u] = pc[u] /\ ok'[u] = ok[u] /\ q'[u] = q[u]
  <1>1. pc'[t] \in {"terminate", "login", "authorize"}
    BY EntryLabel DEF Serve, Start, Go, TypeOK
  <1> QED
    BY <1>1 DEF Serve, Start, Go, TypeOK

\* A thread's calls and steps agree.
LEMMA CallStep ==
    ASSUME IInv, ServerTypeOK, CallInv, [SystemNext]_allVars
    PROVE  CallInv'
  <1>0. TypeOK
    BY DEF IInv
  <1>1. CASE UNCHANGED allVars
    BY <1>1 DEF CallInv, allVars, vars, shared, locals, server, process
  <1>2. CASE ServerStep(Main)
    <2>1. CASE \E t \in Threads : SpawnWorker(t)
      BY <2>1 DEF SpawnWorker, CallInv, ServerTypeOK, vars, locals
    <2>2. CASE (\E c \in Conn : Accept(c)) \/ AcceptFails \/ SpawnFails
      BY <2>2 DEF Accept, AcceptFails, SpawnFails, CallInv, vars, locals
    <2> QED
      BY <1>2, <2>1, <2>2 DEF ServerStep, Main
  <1>3. ASSUME NEW t \in Threads, Worker(t) PROVE CallInv'
    <2> SUFFICES ASSUME NEW u \in Threads
                 PROVE  /\ at'[u] = "serve" <=> pc'[u] # "idle"
                        /\ pc'[u] = "return" /\ q'[u] = Termination => ok'[u]
      BY DEF CallInv
    <2>0. /\ at[u] = "serve" <=> pc[u] # "idle"
          /\ at[t] = "serve" <=> pc[t] # "idle"
          /\ pc[u] = "return" /\ q[u] = Termination => ok[u]
      BY DEF CallInv
    <2>1. CASE StartWorker(t) \/ ReadEnd(t) \/ BrokenPipe(t)
      BY <2>0, <2>1 DEF StartWorker, ReadEnd, Close, BrokenPipe, ServerTypeOK, vars, locals
    <2>2. ASSUME NEW query \in Queries, Serve(t, query)
          PROVE  /\ at'[u] = "serve" <=> pc'[u] # "idle"
                 /\ pc'[u] = "return" /\ q'[u] = Termination => ok'[u]
      BY <1>0, <2>0, <2>2, ServeKeeps DEF ServerTypeOK
    <2>3. CASE ReadQuery(t)
      <3>1. inbox[Peer(t)] \in Seq(Queries) /\ inbox[Peer(t)] # <<>>
        BY <2>3 DEF ReadQuery, Peer, ServerTypeOK
      <3>2. Head(inbox[Peer(t)]) \in Queries
        BY <3>1
      <3> QED
        BY <2>2, <2>3, <3>2 DEF ReadQuery
    <2>4. CASE ReadError(t)
      BY <1>0, <2>2, <2>4 DEF ReadError, TypeOK
    <2>5. CASE HandleQuery(t)
      BY <2>0, <2>5, HandleKeeps DEF HandleQuery, server, process
    <2>6. CASE Reply(t)
      <3>1. at'[t] # "serve" /\ \A v \in Threads : v # t => at'[v] = at[v]
        BY <2>6 DEF Reply, Close, ServerTypeOK
      <3> QED
        BY <1>0, <2>0, <2>6, <3>1 DEF Reply, Return, Go, TypeOK
    <2> QED
      BY <1>3, <2>1, <2>3, <2>4, <2>5, <2>6 DEF Worker
  <1>4. ASSUME NEW c \in Conn, ClientStep(c) \/ Die(c) PROVE CallInv'
    <2>1. UNCHANGED vars
      BY <1>4, ClientStore
    <2>2. at' = at
      BY <1>4 DEF ClientStep, Connect, Leave, Receive, Disconnect, Pipe, Send, Die, process, server
    <2> QED
      BY <2>1, <2>2 DEF CallInv, vars, locals
  <1> QED
    BY <1>1, <1>2, <1>3, <1>4 DEF SystemNext, ServerStep, Workers

\* What close leaves: the descriptor is free, and no other stands for the connection.
LEMMA CloseKeeps ==
    ASSUME ServerTypeOK, Alone, HandInv, FdInv, NEW t \in Threads, Live(t), Close(t),
           slot' = slot, own' = own, main' = main, Spaced'
    PROVE  Alone' /\ HandInv' /\ FdInv'
  <1>1. /\ own[t] \in Sockets /\ fd[own[t]] # NoConn
        /\ \A u \in Threads : u # t /\ Live(u) => own[u] # own[t]
    BY DEF Alone, Live, Peer, ServerTypeOK
  <1>2. \A u \in Threads : u # t => at'[u] = at[u]
    BY DEF Close, ServerTypeOK
  <1>3. at'[t] = "ended" /\ fd'[own[t]] = NoConn
    BY <1>1 DEF Close, ServerTypeOK
  <1>4. \A s \in Sockets : s # own[t] => fd'[s] = fd[s]
    BY DEF Close, ServerTypeOK
  <1>5. Alone'
    BY <1>1, <1>2, <1>3, <1>4 DEF Alone, Live, Peer, ServerTypeOK
  <1>6. HandInv'
    <2>1. Handing' => Handing
      BY <1>2, <1>3 DEF Handing
    <2>2. Handing => slot # own[t]
      BY DEF HandInv
    <2>3. Handing' => fd'[slot'] # NoConn
      BY <1>4, <2>1, <2>2 DEF HandInv, ServerTypeOK
    <2>4. \A u \in Threads : Live(u)' => Live(u)
      BY <1>2, <1>3 DEF Live
    <2>5. Handing' => \A u \in Threads : Live(u)' => own'[u] # slot'
      BY <2>1, <2>4 DEF HandInv
    <2>6. \A u, v \in Threads : at'[u] = "start" /\ at'[v] = "start" => u = v
      BY <1>2, <1>3 DEF HandInv
    <2> QED
      BY <2>3, <2>5, <2>6 DEF HandInv
  <1>7. \A s \in Sockets : fd'[s] # NoConn =>
            s # own[t] /\ fd'[s] = fd[s] /\ fd[s] # Peer(t) /\ fd[s] \in Conn
    BY <1>1, <1>3, <1>4 DEF FdInv, Peer, ServerTypeOK
  <1>8. \A s \in Sockets : fd'[s] # NoConn => link'[fd'[s]] = link[fd[s]]
    BY <1>7 DEF Close
  <1> QED
    BY <1>5, <1>6, <1>7, <1>8 DEF FdInv

\* A worker that neither closes nor starts does not change who serves what.
LEMMA StayKeeps ==
    ASSUME ServerTypeOK, Alone, HandInv, FdInv, NEW t \in Threads, Live(t), Live(t)',
           \A u \in Threads : u # t => at'[u] = at[u],
           slot' = slot, own' = own, fd' = fd,
           main' = main \/ main' = "gone",
           main' # "gone" => \A c \in Conn : link'[c] = link[c] \/ link'[c] = "dead",
           Spaced'
    PROVE  Alone' /\ HandInv' /\ FdInv'
  <1>1. \A u \in Threads : Live(u)' <=> Live(u)
    BY DEF Live
  <1>2. \A u \in Threads : at'[u] = "start" <=> at[u] = "start"
    BY DEF Live
  <1>3. Alone'
    BY <1>1 DEF Alone, Live, Peer
  <1>4. HandInv'
    BY <1>1, <1>2 DEF HandInv, Handing
  <1>5. main' # "gone" => main # "gone"
    OBVIOUS
  <1> QED
    BY <1>3, <1>4, <1>5 DEF FdInv, ServerTypeOK

\* Every accepted connection has its thread and its descriptor, in every step.
LEMMA ServeStep ==
    ASSUME ServerTypeOK, ClientTypeOK, Alone, HandInv, FdInv, TalkInv,
           [CalmNext]_allVars
    PROVE  Alone' /\ HandInv' /\ FdInv'
  <1>1. CASE UNCHANGED allVars
    BY <1>1 DEF allVars, server, process, network, Alone, HandInv, FdInv, Handing, Spaced,
                Live, Peer
  <1>2. CASE CalmNext /\ ServerStep(Main)
    <2>0. Spaced' /\ main # "gone"
      BY <1>2 DEF CalmNext, ServerStep
    <2>1. ASSUME NEW c \in Conn, Accept(c) PROVE Alone' /\ HandInv' /\ FdInv'
      <3>1. PICK s \in FreeFd : slot' = s /\ fd' = [fd EXCEPT ![s] = c]
        BY <2>1 DEF Accept
      <3>2. s \in Sockets /\ fd[s] = NoConn /\ fd'[s] = c /\ c # NoConn
            /\ \A r \in Sockets : r # s => fd'[r] = fd[r]
        BY <3>1, ServerAssumption DEF FreeFd, ServerTypeOK
      <3>3. \A r \in Sockets : fd[r] # c
        BY <2>0, <2>1, <3>2 DEF FdInv, Accept
      <3>4. \A u \in Threads : Live(u) => own[u] # s
        BY <3>2 DEF Alone, Live, Peer
      <3>5. main' = "create" /\ at' = at /\ own' = own /\ link' = [link EXCEPT ![c] = "up"]
        BY <2>1 DEF Accept
      <3>6. Alone'
        BY <3>2, <3>4, <3>5 DEF Alone, Live, Peer, ServerTypeOK
      <3>7. HandInv'
        BY <2>0, <3>1, <3>2, <3>4, <3>5 DEF HandInv, Live
      <3>8. FdInv'
        <4>1. \A r, p \in Sockets : fd'[r] = fd'[p] /\ fd'[r] # NoConn => r = p
          BY <3>2, <3>3 DEF FdInv
        <4>2. \A r \in Sockets : fd'[r] # NoConn => link'[fd'[r]] \in {"up", "fin", "rst", "dead"}
          BY <2>0, <3>2, <3>3, <3>5 DEF FdInv, ServerTypeOK
        <4> QED
          BY <4>1, <4>2 DEF FdInv
      <3> QED
        BY <3>6, <3>7, <3>8
    <2>2. ASSUME NEW t \in Threads, SpawnWorker(t) PROVE Alone' /\ HandInv' /\ FdInv'
      <3>1. \A u \in Threads : at[u] # "start"
        BY <2>2 DEF SpawnWorker, HandInv, Spaced
      <3>2. at[t] = "unborn" /\ at'[t] = "start" /\ \A u \in Threads : u # t => at'[u] = at[u]
        BY <2>2 DEF SpawnWorker, ServerTypeOK
      <3>3. slot' = slot /\ own' = own /\ fd' = fd /\ link' = link /\ main = "create" /\ main' = "accept"
        BY <2>2 DEF SpawnWorker, network
      <3>4. \A u \in Threads : Live(u)' <=> Live(u)
        BY <3>2 DEF Live
      <3>5. Alone'
        BY <3>3, <3>4 DEF Alone, Live, Peer
      <3>6. HandInv'
        BY <2>0, <3>1, <3>2, <3>3, <3>4 DEF HandInv, Handing
      <3> QED
        BY <3>3, <3>5, <3>6 DEF FdInv
    <2>3. CASE AcceptFails \/ SpawnFails
      <3>1. slot' = slot /\ own' = own /\ fd' = fd /\ link' = link /\ at' = at /\ main' # "create"
        BY <2>3 DEF AcceptFails, SpawnFails, network
      <3>2. Alone'
        BY <3>1 DEF Alone, Peer
      <3>3. Handing' => Handing
        BY <3>1 DEF Handing
      <3>4. HandInv'
        BY <2>0, <3>1, <3>3 DEF HandInv, Live
      <3> QED
        BY <2>0, <3>1, <3>2, <3>4 DEF FdInv
    <2> QED
      BY <1>2, <2>1, <2>2, <2>3 DEF ServerStep, Main
  <1>3. ASSUME CalmNext, NEW t \in Threads, ServerStep(Worker(t))
        PROVE  Alone' /\ HandInv' /\ FdInv'
    <2>0. Spaced' /\ main # "gone" /\ Worker(t)
      BY <1>3 DEF CalmNext, ServerStep
    <2>1. CASE StartWorker(t)
      <3>1. /\ at[t] = "start" /\ at'[t] = "read" /\ \A u \in Threads : u # t => at'[u] = at[u]
            /\ own'[t] = slot /\ \A u \in Threads : u # t => own'[u] = own[u]
        BY <2>1 DEF StartWorker, ServerTypeOK
      <3>2. slot' = slot /\ fd' = fd /\ link' = link /\ main' = main
        BY <2>1 DEF StartWorker, network
      <3>3. fd[slot] # NoConn /\ \A u \in Threads : Live(u) => own[u] # slot
        BY <3>1 DEF HandInv, Handing
      <3>4. Alone'
        BY <3>1, <3>2, <3>3 DEF Alone, Live, Peer
      <3>5. \A u \in Threads : at'[u] # "start"
        BY <3>1 DEF HandInv
      <3>6. main' # "create"
        BY <3>1, <3>2 DEF HandInv, Spaced
      <3>7. HandInv'
        BY <2>0, <3>5, <3>6 DEF HandInv, Handing
      <3> QED
        BY <3>2, <3>4, <3>7 DEF FdInv
    <2>2. CASE ReadEnd(t)
      BY <2>0, <2>2, CloseKeeps DEF ReadEnd, Live
    <2>3. CASE ReadQuery(t) \/ ReadError(t)
      <3>1. Live(t) /\ Live(t)' /\ \A u \in Threads : u # t => at'[u] = at[u]
        BY <2>3 DEF ReadQuery, ReadError, Serve, Live, ServerTypeOK
      <3>2. slot' = slot /\ own' = own /\ fd' = fd /\ main' = main
        BY <2>3 DEF ReadQuery, ReadError
      <3>3. \A c \in Conn : link'[c] = link[c] \/ link'[c] = "dead"
        BY <2>3 DEF ReadQuery, ReadError, ServerTypeOK
      <3> QED
        BY <2>0, <3>1, <3>2, <3>3, StayKeeps
    <2>4. CASE HandleQuery(t) \/ BrokenPipe(t)
      <3>1. Live(t) /\ Live(t)' /\ \A u \in Threads : u # t => at'[u] = at[u]
        BY <2>4 DEF HandleQuery, BrokenPipe, server, process, Live
      <3>2. slot' = slot /\ own' = own /\ fd' = fd /\ (main' = main \/ main' = "gone") /\ link' = link
        BY <2>4 DEF HandleQuery, BrokenPipe, server, process, network
      <3> QED
        BY <2>0, <3>1, <3>2, StayKeeps
    <2>5. CASE Reply(t)
      <3>1. Live(t) /\ slot' = slot /\ own' = own /\ main' = main
        BY <2>5 DEF Reply, Live
      <3>2. CASE Close(t)
        BY <2>0, <3>1, <3>2, CloseKeeps
      <3>3. CASE ~Close(t)
        <4>1. /\ at' = [at EXCEPT ![t] = "read"] /\ fd' = fd
              /\ link' = [c \in Conn |-> IF c = Peer(t) /\ link[c] # "up" THEN "dead" ELSE link[c]]
          BY <2>5, <3>3 DEF Reply
        <4>2. Live(t)' /\ \A u \in Threads : u # t => at'[u] = at[u]
          BY <4>1 DEF Live, ServerTypeOK
        <4>3. \A c \in Conn : link'[c] = link[c] \/ link'[c] = "dead"
          BY <4>1
        <4> QED
          BY <2>0, <3>1, <4>1, <4>2, <4>3, StayKeeps
      <3> QED
        BY <3>2, <3>3
    <2> QED
      BY <2>0, <2>1, <2>2, <2>3, <2>4, <2>5 DEF Worker
  <1>4. ASSUME NEW c \in Conn, ClientStep(c) \/ Die(c), Spaced' PROVE Alone' /\ HandInv' /\ FdInv'
    <2>1. at' = at /\ own' = own /\ fd' = fd /\ slot' = slot /\ main' = main
      BY <1>4 DEF ClientStep, Connect, Leave, Receive, Disconnect, Pipe, Send, Die, process, network, server
    <2>2. Alone'
      BY <2>1 DEF Alone, Peer
    <2>3. HandInv'
      BY <1>4, <2>1 DEF HandInv, Handing, Live
    <2>4. ASSUME main # "gone" PROVE \A s \in Sockets : fd[s] # NoConn => link'[fd[s]] \in {"up", "fin", "rst", "dead"}
      <3> SUFFICES ASSUME NEW s \in Sockets, fd[s] # NoConn
                   PROVE  link'[fd[s]] \in {"up", "fin", "rst", "dead"}
        OBVIOUS
      <3>1. link[fd[s]] \in {"up", "fin", "rst", "dead"} /\ fd[s] \in Conn
        BY <2>4 DEF FdInv, ServerTypeOK
      <3>2. ASSUME NEW query, Write(c, query) PROVE link'[fd[s]] = link[fd[s]]
        BY <2>4, <3>1, <3>2 DEF Write, Closed, ServerTypeOK
      <3>3. CASE Connect(c)
        <4>1. link[c] = "none"
          BY <2>4, <3>3 DEF TalkInv, Talk, Off, Ready, Asked, Leaving, Ended, Connect
        <4> QED
          BY <3>1, <3>3, <4>1 DEF Connect, ServerTypeOK
      <3>4. CASE Leave(c) \/ \E query \in Queries : Send(c, query)
        BY <3>1, <3>2, <3>4 DEF Leave, Send
      <3>5. CASE Receive(c) \/ Pipe(c)
        BY <3>1, <3>5 DEF Receive, Pipe, server, network
      <3>6. CASE Disconnect(c) \/ Die(c)
        BY <3>1, <3>6 DEF Disconnect, Die, Gone, ServerTypeOK
      <3> QED
        BY <1>4, <3>3, <3>4, <3>5, <3>6 DEF ClientStep
    <2> QED
      BY <2>1, <2>2, <2>3, <2>4 DEF FdInv
  <1> QED
    BY <1>1, <1>2, <1>3, <1>4 DEF CalmNext, ServerStep, Workers

\* An open descriptor does not lose its thread, or its way to one.
LEMMA AttendStep ==
    ASSUME ServerTypeOK, Alone, HandInv, Attended, [CalmNext]_allVars
    PROVE  Attended'
  <1> DEFINE Working(s) == \E t \in Threads : at[t] \in {"read", "serve"} /\ own[t] = s
             Coming(s)  == slot = s /\ (main = "create" \/ \E t \in Threads : at[t] = "start")
             Used       == \A t \in Threads : at[t] # "unborn"
  <1> SUFFICES ASSUME NEW s \in Sockets, main' # "gone", fd'[s] # NoConn
               PROVE  Working(s)' \/ Coming(s)' \/ Used'
    BY DEF Attended
  <1>a. main # "gone" /\ fd[s] # NoConn => Working(s) \/ Coming(s) \/ Used
    BY DEF Attended
  <1>1. CASE UNCHANGED allVars
    BY <1>1, <1>a DEF allVars, server, process, network
  <1>2. CASE CalmNext /\ ServerStep(Main)
    <2>1. ASSUME NEW c \in Conn, Accept(c) PROVE Working(s)' \/ Coming(s)' \/ Used'
      <3>1. main = "accept" /\ main' = "create" /\ at' = at /\ own' = own
        BY <2>1 DEF Accept
      <3>2. \A t \in Threads : at[t] # "start"
        BY <1>2, <3>1 DEF CalmNext, Spaced
      <3>3. s = slot' \/ fd'[s] = fd[s]
        BY <2>1 DEF Accept, ServerTypeOK
      <3> QED
        BY <1>a, <3>1, <3>2, <3>3
    <2>2. ASSUME NEW t \in Threads, SpawnWorker(t) PROVE Working(s)' \/ Coming(s)' \/ Used'
      <3>1. /\ at[t] = "unborn" /\ at'[t] = "start" /\ \A u \in Threads : u # t => at'[u] = at[u]
            /\ slot' = slot /\ own' = own /\ fd' = fd /\ main = "create"
        BY <2>2 DEF SpawnWorker, ServerTypeOK, network
      <3>2. Working(s) => Working(s)'
        <4> SUFFICES ASSUME NEW u \in Threads, at[u] \in {"read", "serve"}, own[u] = s
                     PROVE  Working(s)'
          OBVIOUS
        <4>1. at'[u] = at[u]
          BY <3>1
        <4> QED
          BY <3>1, <4>1
      <3>3. Coming(s) => Coming(s)'
        BY <3>1
      <3>4. ~Used
        BY <3>1
      <3> QED
        BY <1>a, <3>1, <3>2, <3>3, <3>4
    <2>3. CASE SpawnFails
      BY <2>3 DEF SpawnFails
    <2>4. CASE AcceptFails
      BY <2>4 DEF AcceptFails
    <2> QED
      BY <1>2, <2>1, <2>2, <2>3, <2>4 DEF ServerStep, Main
  <1>3. ASSUME NEW t \in Threads, Worker(t), CalmNext PROVE Working(s)' \/ Coming(s)' \/ Used'
    <2>1. CASE StartWorker(t)
      <3>1. /\ at[t] = "start" /\ at'[t] = "read" /\ \A u \in Threads : u # t => at'[u] = at[u]
            /\ own'[t] = slot /\ \A u \in Threads : u # t => own'[u] = own[u]
            /\ fd' = fd /\ slot' = slot /\ main' = main
        BY <2>1 DEF StartWorker, ServerTypeOK, network
      <3>2. CASE s = slot
        BY <3>1, <3>2
      <3>3. CASE s # slot
        <4>1. Working(s) => Working(s)'
          <5> SUFFICES ASSUME NEW u \in Threads, at[u] \in {"read", "serve"}, own[u] = s
                       PROVE  Working(s)'
            OBVIOUS
          <5>1. at'[u] = at[u] /\ own'[u] = own[u]
            BY <3>1
          <5> QED
            BY <5>1
        <4>2. Used => Used'
          BY <3>1
        <4> QED
          BY <1>a, <3>1, <3>3, <4>1, <4>2
      <3> QED
        BY <3>2, <3>3
    <2>2. ASSUME at[t] \in {"read", "serve"}, slot' = slot, own' = own,
                 \A u \in Threads : u # t => at'[u] = at[u],
                 main' = main,
                 Close(t) \/ (at'[t] \in {"read", "serve"} /\ fd' = fd)
          PROVE  Working(s)' \/ Coming(s)' \/ Used'
      <3>1. fd[s] = fd'[s] /\ (Close(t) => s # own[t])
        BY <2>2 DEF Close, ServerTypeOK
      <3>2. at'[t] # "unborn" /\ at'[t] # "start"
        BY <2>2 DEF Close, ServerTypeOK
      <3>3. Working(s) => Working(s)'
        <4> SUFFICES ASSUME NEW u \in Threads, at[u] \in {"read", "serve"}, own[u] = s
                     PROVE  Working(s)'
          OBVIOUS
        <4>1. at'[u] \in {"read", "serve"} /\ own'[u] = s
          BY <2>2, <3>1
        <4> QED
          BY <4>1
      <3>4. Used => Used'
        BY <2>2, <3>2
      <3>5. Coming(s) => Coming(s)'
        <4>1. \A u \in Threads : at[u] = "start" => at'[u] = "start"
          BY <2>2
        <4> QED
          BY <2>2, <4>1
      <3> QED
        BY <1>a, <2>2, <3>1, <3>3, <3>4, <3>5
    <2>3. CASE ReadQuery(t) \/ ReadError(t)
      BY <2>2, <2>3 DEF ReadQuery, ReadError, Serve, ServerTypeOK
    <2>4. CASE HandleQuery(t) \/ BrokenPipe(t)
      BY <2>2, <2>4 DEF HandleQuery, BrokenPipe, server, process, network
    <2>5. CASE ReadEnd(t)
      BY <2>2, <2>5 DEF ReadEnd, Close, ServerTypeOK
    <2>6. CASE Reply(t)
      BY <2>2, <2>6 DEF Reply, Close, ServerTypeOK
    <2> QED
      BY <1>3, <2>1, <2>3, <2>4, <2>5, <2>6 DEF Worker
  <1>4. ASSUME NEW c \in Conn, ClientStep(c) \/ Die(c) PROVE Working(s)' \/ Coming(s)' \/ Used'
    <2>1. at' = at /\ own' = own /\ fd' = fd /\ slot' = slot /\ main' = main
      BY <1>4 DEF ClientStep, Connect, Leave, Receive, Disconnect, Pipe, Send, Die, process, network, server
    <2> QED
      BY <1>a, <2>1
  <1> QED
    BY <1>1, <1>2, <1>3, <1>4 DEF CalmNext, ServerStep, Workers

-----------------------------------------------------------------------------
(* What is on the way between a client and its thread.                     *)

\* Who serves c, and which query.
SameServer(c) == \A u \in Threads : (Serves(u, c)' <=> Serves(u, c)) /\ (Serves(u, c) => q'[u] = q[u])

\* The unanswered queries of c are the same ones, maybe one of them taken up now.
SameLoad(c) ==
    /\ None(c) => None(c)'
    /\ \A x \in Queries : One(c, x) => One(c, x)'
    /\ \A x, y \in Queries : Two(c, x, y) => Two(c, x, y)'

\* A connection that the step does not touch keeps its unanswered queries.
LEMMA LoadSame ==
    ASSUME NEW c \in Conn, SameServer(c), inbox'[c] = inbox[c]
    PROVE  SameLoad(c)
  <1>1. Idle(c)' <=> Idle(c)
    BY DEF SameServer, Idle
  <1>2. \A x : (\E t \in Threads : Serves(t, c) /\ q[t] = x)
                  => \E t \in Threads : Serves(t, c)' /\ q'[t] = x
    BY DEF SameServer
  <1>3. None(c) => None(c)'
    BY <1>1 DEF None
  <1>4. \A x \in Queries : One(c, x) => One(c, x)'
    BY <1>1, <1>2 DEF One
  <1>5. \A x, y \in Queries : Two(c, x, y) => Two(c, x, y)'
    BY <1>1, <1>2 DEF Two
  <1> QED
    BY <1>3, <1>4, <1>5 DEF SameLoad

\* Then nothing changes for the client, unless main accepts it.
LEMMA TalkSame ==
    ASSUME NEW c \in Conn, Talk(c), SameLoad(c),
           cl'[c] = cl[c], said'[c] = said[c], out'[c] = out[c],
           link'[c] = link[c] \/ (link[c] = "backlog" /\ link'[c] = "up")
    PROVE  Talk(c)'
  <1>1. link[c] \in Before => link'[c] \in Before
    BY DEF Before
  <1>2. \A x \in Ordinary : One(c, x) => One(c, x)'
    BY DEF SameLoad, Ordinary
  <1>3. One(c, Termination) => One(c, Termination)'
    BY SystemAssumption DEF SameLoad
  <1>4. \A x \in Ordinary : Two(c, x, Termination) => Two(c, x, Termination)'
    BY SystemAssumption DEF SameLoad, Ordinary
  <1>5. None(c) => None(c)'
    BY DEF SameLoad
  <1>6. CASE Off(c)
    BY <1>5, <1>6 DEF Off, Talk
  <1>7. CASE Ready(c)
    BY <1>1, <1>5, <1>7 DEF Ready, Talk
  <1>8. CASE Asked(c)
    BY <1>1, <1>2, <1>5, <1>8 DEF Asked, Talk
  <1>9. CASE Leaving(c)
    BY <1>1, <1>3, <1>4, <1>5, <1>9 DEF Leaving, Talk
  <1>10. CASE Ended(c)
    BY <1>3, <1>5, <1>10 DEF Ended, Talk
  <1> QED
    BY <1>6, <1>7, <1>8, <1>9, <1>10 DEF Talk

\* Short sequences.
LEMMA Short ==
    ASSUME NEW S, NEW x \in S, NEW y \in S
    PROVE  /\ Append(<<>>, y) = <<y>> /\ Append(<<x>>, y) = <<x, y>>
           /\ Head(<<x>>) = x /\ Tail(<<x>>) = <<>>
           /\ Head(<<x, y>>) = x /\ Tail(<<x, y>>) = <<y>>
  <1>1. <<>> \in Seq(S) /\ <<x>> \in Seq(S) /\ <<y>> \in Seq(S) /\ <<x, y>> \in Seq(S)
    OBVIOUS
  <1>2. Append(<<x>>, y) = <<x, y>>
    <2>1. Append(<<x>>, y) \in Seq(S)
      BY <1>1
    <2>2. Len(Append(<<x>>, y)) = 2 /\ Append(<<x>>, y)[1] = x /\ Append(<<x>>, y)[2] = y
      BY <1>1
    <2>3. Len(<<x, y>>) = 2 /\ <<x, y>>[1] = x /\ <<x, y>>[2] = y
      BY <1>1
    <2>4. \A n \in 1 .. 2 : Append(<<x>>, y)[n] = <<x, y>>[n]
      BY <2>2, <2>3
    <2> QED
      BY <1>1, <2>1, <2>2, <2>3, <2>4, SeqEqual
  <1>3. Tail(<<x, y>>) = <<y>>
    <2>1. Tail(<<x, y>>) \in Seq(S) /\ Len(Tail(<<x, y>>)) = 1 /\ Tail(<<x, y>>)[1] = y
      BY <1>1
    <2>2. \A n \in 1 .. 1 : Tail(<<x, y>>)[n] = <<y>>[n]
      BY <2>1
    <2>3. Len(<<y>>) = 1
      OBVIOUS
    <2> QED
      BY <1>1, <2>1, <2>2, <2>3, SeqEqual
  <1>4. Tail(<<x>>) = <<>>
    <2>1. Tail(<<x>>) \in Seq(S) /\ Len(Tail(<<x>>)) = 0
      BY <1>1
    <2> QED
      BY <2>1
  <1> QED
    BY <1>1, <1>2, <1>3, <1>4

\* A query that is written is one more unanswered query.
LEMMA LoadMore ==
    ASSUME NEW c \in Conn, SameServer(c), NEW y \in Queries, inbox'[c] = Append(inbox[c], y)
    PROVE  /\ None(c) => One(c, y)'
           /\ \A x \in Queries : One(c, x) => Two(c, x, y)'
  <1>1. Idle(c)' <=> Idle(c)
    BY DEF SameServer, Idle
  <1>2. \A x : (\E t \in Threads : Serves(t, c) /\ q[t] = x)
                  => \E t \in Threads : Serves(t, c)' /\ q'[t] = x
    BY DEF SameServer
  <1>3. Append(<<>>, y) = <<y>> /\ \A x \in Queries : Append(<<x>>, y) = <<x, y>>
    BY Short
  <1>4. None(c) => One(c, y)'
    BY <1>1, <1>3 DEF None, One
  <1>5. \A x \in Queries : One(c, x) => Two(c, x, y)'
    BY <1>1, <1>2, <1>3 DEF One, Two
  <1> QED
    BY <1>4, <1>5

\* The thread that serves a connection is the only one.
LEMMA OneServer ==
    ASSUME ServerTypeOK, Alone, FdInv, NEW t \in Threads, Live(t)
    PROVE  /\ Peer(t) \in Conn /\ own[t] \in Sockets
           /\ \A u \in Threads : Live(u) /\ fd[own[u]] = Peer(t) => u = t
           /\ main # "gone" => link[Peer(t)] \in {"up", "fin", "rst", "dead"}
  BY DEF ServerTypeOK, Alone, FdInv, Live, Peer

\* Steps of the client at c.
LEMMA TalkClient ==
    ASSUME ServerTypeOK, ClientTypeOK, main # "gone", NEW c \in Conn, Talk(c),
           ClientStep(c) \/ (cl[c] = "ready" /\ Die(c))
    PROVE  Talk(c)'
  <1>0. at' = at /\ own' = own /\ fd' = fd /\ q' = q
    BY DEF ClientStep, Connect, Leave, Receive, Disconnect, Pipe, Send, Die, server, process, network, vars, locals
  <1>1. SameServer(c)
    BY <1>0 DEF SameServer, Serves
  <1>2. inbox'[c] = inbox[c] => SameLoad(c)
    BY <1>1, LoadSame
  <1>3. ASSUME NEW y, link[c] \in Before, Write(c, y)
        PROVE  link' = link /\ inbox'[c] = Append(inbox[c], y)
    BY <1>3 DEF Write, Closed, Before, ServerTypeOK
  <1>4. CASE Connect(c)
    <2>1. Off(c)
      BY <1>4 DEF Talk, Off, Ready, Asked, Leaving, Ended, Connect
    <2>2. cl'[c] = "ready" /\ link'[c] = "backlog" /\ inbox' = inbox /\ out' = out /\ said' = said
      BY <1>4 DEF Connect, ServerTypeOK, ClientTypeOK
    <2>3. None(c)'
      BY <1>2, <2>1, <2>2 DEF Off, SameLoad
    <2> QED
      BY <2>1, <2>2, <2>3 DEF Off, Ready, Before, Talk
  <1>5. ASSUME NEW query \in Queries, Send(c, query) PROVE Talk(c)'
    <2>1. Ready(c)
      BY <1>5 DEF Talk, Off, Ready, Asked, Leaving, Ended, Send
    <2>2. link' = link /\ inbox'[c] = Append(inbox[c], query)
      BY <1>3, <1>5, <2>1 DEF Ready, Send
    <2>3. One(c, query)'
      BY <1>1, <2>1, <2>2, LoadMore DEF Ready
    <2>4. query \in Ordinary
      BY <1>5 DEF Send, Sendable, Ordinary
    <2>5. cl'[c] = "waiting" /\ said'[c] = "pending" /\ out' = out
      BY <1>5 DEF Send, ClientTypeOK
    <2> QED
      BY <2>1, <2>2, <2>3, <2>4, <2>5 DEF Ready, Asked, Talk
  <1>6. CASE Leave(c)
    <2>1. cl'[c] = "leaving" /\ said' = said /\ out' = out
      BY <1>6 DEF Leave, ClientTypeOK
    <2>2. CASE Ready(c)
      <3>1. link' = link /\ inbox'[c] = Append(inbox[c], Termination)
        BY <1>3, <1>6, <2>2 DEF Ready, Leave
      <3>2. One(c, Termination)'
        BY <1>1, <2>2, <3>1, LoadMore, SystemAssumption DEF Ready
      <3> QED
        BY <2>1, <2>2, <3>1, <3>2 DEF Ready, Leaving, Talk
    <2>3. CASE Asked(c)
      <3>1. link' = link /\ inbox'[c] = Append(inbox[c], Termination)
        BY <1>3, <1>6, <2>3 DEF Asked, Leave, Before
      <3>2. None(c) => One(c, Termination)'
        BY <1>1, <3>1, LoadMore, SystemAssumption
      <3>3. \A x \in Ordinary : One(c, x) => Two(c, x, Termination)'
        BY <1>1, <3>1, LoadMore, SystemAssumption DEF Ordinary
      <3> QED
        BY <2>1, <2>3, <3>1, <3>2, <3>3 DEF Asked, Leaving, Talk
    <2> QED
      BY <1>6, <2>2, <2>3 DEF Talk, Off, Leaving, Ended, Leave
  <1>7. CASE Receive(c)
    <2>1. Asked(c)
      BY <1>7 DEF Talk, Off, Ready, Asked, Leaving, Ended, Receive
    <2>2. link[c] = "up" /\ out[c] \in Granted /\ None(c)
      BY <1>7, <2>1 DEF Asked, Receive, Arrived, Closed, Before
    <2>3. /\ cl'[c] = "ready" /\ said'[c] # "pending" /\ out'[c] = <<>>
          /\ inbox' = inbox /\ link' = link
      BY <1>7 DEF Receive, ClientTypeOK, ServerTypeOK
    <2>4. None(c)'
      BY <1>2, <2>2, <2>3 DEF SameLoad
    <2> QED
      BY <2>2, <2>3, <2>4 DEF Ready, Before, Talk
  <1>8. CASE Disconnect(c)
    <2>1. Leaving(c)
      BY <1>8 DEF Talk, Off, Ready, Asked, Leaving, Ended, Disconnect
    <2>2. \/ link[c] = "closed" /\ None(c)
          \/ link[c] = "up" /\ One(c, Termination)
      BY <1>8, <2>1 DEF Leaving, Disconnect, Arrived, Closed, Before
    <2>3. /\ cl'[c] = "gone" /\ out'[c] = <<>> /\ inbox' = inbox
          /\ link'[c] = IF link[c] = "up" THEN "fin" ELSE link[c]
      BY <1>8 DEF Disconnect, Gone, ClientTypeOK, ServerTypeOK
    <2>4. (None(c) => None(c)') /\ (One(c, Termination) => One(c, Termination)')
      BY <1>2, <2>3, SystemAssumption DEF SameLoad
    <2> QED
      BY <2>2, <2>3, <2>4 DEF Ended, Talk
  <1>9. CASE cl[c] = "ready" /\ Die(c)
    <2>1. Ready(c)
      BY <1>9 DEF Talk, Off, Ready, Asked, Leaving, Ended
    <2>2. cl'[c] = "gone" /\ inbox' = inbox /\ link'[c] = "fin"
      BY <1>9, <2>1 DEF Ready, Die, Gone, ClientTypeOK, ServerTypeOK
    <2>3. None(c)'
      BY <1>2, <2>1, <2>2 DEF Ready, SameLoad
    <2> QED
      BY <2>2, <2>3 DEF Ended, Talk
  <1>10. CASE Pipe(c)
    BY <1>10 DEF Talk, Off, Ready, Asked, Leaving, Ended, Pipe, Before
  <1> QED
    BY <1>4, <1>5, <1>6, <1>7, <1>8, <1>9, <1>10 DEF ClientStep

\* A step of one client does not change what is on the way of another.
LEMMA TalkOther ==
    ASSUME ServerTypeOK, ClientTypeOK, NEW c \in Conn, ClientStep(c) \/ Die(c),
           NEW d \in Conn, d # c, Talk(d)
    PROVE  Talk(d)'
  <1>1. at' = at /\ own' = own /\ fd' = fd /\ q' = q
    BY DEF ClientStep, Connect, Leave, Receive, Disconnect, Pipe, Send, Die, server, process, network, vars, locals
  <1>2. ASSUME NEW y, Write(c, y) PROVE link'[d] = link[d] /\ inbox'[d] = inbox[d]
    BY <1>2 DEF Write, ServerTypeOK
  <1>3. /\ cl'[d] = cl[d] /\ said'[d] = said[d] /\ out'[d] = out[d]
        /\ link'[d] = link[d] /\ inbox'[d] = inbox[d]
    <2> USE DEF ServerTypeOK, ClientTypeOK
    <2>1. CASE Connect(c)
      BY <2>1 DEF Connect
    <2>2. CASE Leave(c) \/ \E query \in Queries : Send(c, query)
      BY <1>2, <2>2 DEF Leave, Send
    <2>3. CASE Receive(c) \/ Pipe(c)
      BY <2>3 DEF Receive, Pipe, server, network
    <2>4. CASE Disconnect(c) \/ Die(c)
      BY <2>4 DEF Disconnect, Die, Gone
    <2> QED
      BY <2>1, <2>2, <2>3, <2>4 DEF ClientStep
  <1>4. SameServer(d)
    BY <1>1 DEF SameServer, Serves
  <1> QED
    BY <1>3, <1>4, LoadSame, TalkSame

\* main does not change what is on the way.
LEMMA TalkMain ==
    ASSUME ServerTypeOK, Alone, TalkInv, Main, main # "gone", cl' = cl, said' = said
    PROVE  TalkInv'
  <1>0. out' = out /\ inbox' = inbox /\ own' = own /\ q' = q
    BY DEF Main, Accept, SpawnWorker, AcceptFails, SpawnFails, network, vars, locals
  <1>1. ASSUME \A d \in Conn : SameServer(d),
               \A d \in Conn : link'[d] = link[d] \/ (link[d] = "backlog" /\ link'[d] = "up")
        PROVE  TalkInv'
    BY <1>0, <1>1, LoadSame, TalkSame DEF TalkInv
  <1>2. ASSUME NEW c \in Conn, Accept(c) PROVE TalkInv'
    <2>1. PICK s \in FreeFd : fd' = [fd EXCEPT ![s] = c]
      BY <1>2 DEF Accept
    <2>2. at' = at /\ link[c] = "backlog" /\ link' = [link EXCEPT ![c] = "up"]
      BY <1>2 DEF Accept
    <2>3. \A u \in Threads : at[u] = "serve" => own[u] # s /\ own[u] \in Sockets
      BY <2>1 DEF Alone, Peer, FreeFd, ServerTypeOK
    <2>4. \A u \in Threads : at[u] = "serve" => fd'[own[u]] = fd[own[u]]
      BY <2>1, <2>3 DEF ServerTypeOK
    <2>5. \A d \in Conn : SameServer(d)
      BY <1>0, <2>2, <2>4 DEF SameServer, Serves
    <2>6. \A d \in Conn : link'[d] = link[d] \/ (link[d] = "backlog" /\ link'[d] = "up")
      BY <2>2 DEF ServerTypeOK
    <2> QED
      BY <1>1, <2>5, <2>6
  <1>3. ASSUME NEW t \in Threads, SpawnWorker(t) PROVE TalkInv'
    <2>1. \A u \in Threads : at'[u] = "serve" <=> at[u] = "serve"
      BY <1>3 DEF SpawnWorker, ServerTypeOK
    <2>2. fd' = fd /\ link' = link
      BY <1>3 DEF SpawnWorker, network
    <2>3. \A d \in Conn : SameServer(d)
      BY <1>0, <2>1, <2>2 DEF SameServer, Serves
    <2> QED
      BY <1>1, <2>2, <2>3
  <1>4. CASE AcceptFails
    BY <1>4 DEF AcceptFails, TalkInv
  <1>5. CASE SpawnFails
    <2>1. \A d \in Conn : SameServer(d)
      BY <1>0, <1>5 DEF SpawnFails, SameServer, Serves, network
    <2> QED
      BY <1>1, <1>5, <2>1 DEF SpawnFails, network
  <1> QED
    BY <1>2, <1>3, <1>4, <1>5 DEF Main

\* A worker that does not reply takes up queries as they come and hears of the end
\* of a connection only when the client is gone.
LEMMA TalkWorker ==
    ASSUME IInv, ServerTypeOK, Alone, FdInv, TalkInv, main # "gone", main' # "gone",
           NEW t \in Threads, Worker(t), ~Reply(t), cl' = cl, said' = said
    PROVE  TalkInv'
  <1>0. TypeOK
    BY DEF IInv
  <1>1. ASSUME NEW d \in Conn, SameServer(d), inbox'[d] = inbox[d], out' = out, link'[d] = link[d]
        PROVE  Talk(d)'
    BY <1>1, LoadSame, TalkSame DEF TalkInv
  <1>2. CASE StartWorker(t)
    <2>1. \A u \in Threads : /\ at'[u] = "serve" <=> at[u] = "serve"
                             /\ at[u] = "serve" => own'[u] = own[u]
      BY <1>2 DEF StartWorker, ServerTypeOK
    <2>2. fd' = fd /\ link' = link /\ inbox' = inbox /\ out' = out /\ q' = q
      BY <1>2 DEF StartWorker, network, vars, locals
    <2>3. \A d \in Conn : SameServer(d)
      BY <2>1, <2>2 DEF SameServer, Serves
    <2> QED
      BY <1>1, <2>2, <2>3 DEF TalkInv
  <1>3. CASE ReadQuery(t)
    <2>1. Live(t) /\ at[t] = "read"
      BY <1>3 DEF ReadQuery, Live
    <2>0. PICK c \in Conn : c = Peer(t)
      BY <2>1, OneServer
    <2>2. \A u \in Threads : Live(u) /\ fd[own[u]] = c => u = t
      BY <2>0, <2>1, OneServer
    <2>3. inbox[c] \in Seq(Queries) /\ inbox[c] # <<>>
      BY <1>3, <2>0 DEF ReadQuery, ServerTypeOK
    <2>4. /\ q'[t] = Head(inbox[c]) /\ at' = [at EXCEPT ![t] = "serve"]
          /\ \A u \in Threads : u # t => q'[u] = q[u]
      <3>1. Serve(t, Head(inbox[c])) /\ Head(inbox[c]) \in Queries
        BY <1>3, <2>0, <2>3 DEF ReadQuery
      <3> QED
        BY <1>0, <3>1, ServeKeeps
    <2>5. own' = own /\ fd' = fd /\ link' = link /\ out' = out /\ inbox' = [inbox EXCEPT ![c] = Tail(@)]
      BY <1>3, <2>0 DEF ReadQuery
    <2>6. Idle(c)
      BY <2>1, <2>2 DEF Idle, Serves, Live
    <2>7. Serves(t, c)'
      BY <2>0, <2>4, <2>5 DEF Serves, Peer, ServerTypeOK
    <2>8. inbox'[c] = Tail(inbox[c])
      BY <2>2, <2>5 DEF ServerTypeOK
    <2>9. SameLoad(c)
      <3>1. ~None(c)
        BY <2>3 DEF None
      <3>2. ASSUME NEW x \in Queries, One(c, x) PROVE One(c, x)'
        <4>1. inbox[c] = <<x>>
          BY <2>3, <3>2 DEF One
        <4>2. q'[t] = x /\ inbox'[c] = <<>>
          BY <2>4, <2>8, <4>1, Short
        <4> QED
          BY <2>7, <4>2 DEF One
      <3>3. ASSUME NEW x \in Queries, NEW y \in Queries, Two(c, x, y) PROVE Two(c, x, y)'
        <4>1. inbox[c] = <<x, y>>
          BY <2>6, <3>3 DEF Two, Idle
        <4>2. q'[t] = x /\ inbox'[c] = <<y>>
          BY <2>4, <2>8, <4>1, Short
        <4> QED
          BY <2>7, <4>2 DEF Two
      <3> QED
        BY <3>1, <3>2, <3>3 DEF SameLoad
    <2>10. Talk(c)'
      BY <2>2, <2>5, <2>9, TalkSame DEF TalkInv
    <2>11. ASSUME NEW d \in Conn, d # c PROVE Talk(d)'
      <3>1. inbox'[d] = inbox[d]
        BY <2>2, <2>5, <2>11 DEF ServerTypeOK
      <3>2. SameServer(d)
        <4>1. ~Serves(t, d) /\ ~Serves(t, d)'
          BY <2>0, <2>5, <2>11 DEF Serves, Peer
        <4>2. \A u \in Threads : u # t => at'[u] = at[u]
          BY <2>4 DEF ServerTypeOK
        <4> QED
          BY <2>4, <2>5, <4>1, <4>2 DEF SameServer, Serves
      <3> QED
        BY <1>1, <2>5, <3>1, <3>2
    <2> QED
      BY <2>10, <2>11 DEF TalkInv
  <1>4. CASE ReadEnd(t)
    <2>0. Live(t)
      BY <1>4 DEF ReadEnd, Live
    <2>12. PICK c \in Conn : c = Peer(t)
      BY <2>0, OneServer
    <2>1. Live(t) /\ at[t] = "read" /\ inbox[c] = <<>> /\ link[c] \in {"fin", "dead"}
      BY <1>4, <2>0, <2>12 DEF ReadEnd
    <2>2. own[t] \in Sockets /\ \A u \in Threads : Live(u) /\ fd[own[u]] = c => u = t
      BY <2>12, <2>1, OneServer
    <2>3. /\ own' = own /\ inbox' = inbox /\ out' = out /\ q' = q
          /\ fd' = [fd EXCEPT ![own[t]] = NoConn] /\ at' = [at EXCEPT ![t] = "ended"]
          /\ link' = [d \in Conn |-> IF d = c THEN "closed" ELSE link[d]]
      BY <1>4, <2>12 DEF ReadEnd, Close, vars, locals
    <2>4. \A u \in Threads : at'[u] = "serve" <=> at[u] = "serve"
      BY <2>1, <2>3 DEF ServerTypeOK
    <2>5. \A u \in Threads : at[u] = "serve" => own[u] # own[t] /\ own[u] \in Sockets
      BY <2>12, <2>1, <2>2 DEF Live, Peer, ServerTypeOK
    <2>6. \A u \in Threads : at[u] = "serve" => fd'[own'[u]] = fd[own[u]]
      BY <2>2, <2>3, <2>5 DEF ServerTypeOK
    <2>7. \A d \in Conn : SameServer(d)
      BY <2>3, <2>4, <2>6 DEF SameServer, Serves
    <2>8. cl[c] = "gone"
      BY <2>1 DEF TalkInv, Talk, Off, Ready, Asked, Leaving, Ended, Before
    <2>9. None(c)'
      <3>1. Idle(c)
        BY <2>1, <2>2 DEF Idle, Serves, Live
      <3>2. Idle(c)'
        BY <2>2, <2>7, <3>1 DEF Idle, SameServer
      <3> QED
        BY <2>1, <2>3, <3>2 DEF None
    <2>10. Talk(c)'
      BY <2>2, <2>3, <2>8, <2>9 DEF Ended, Talk
    <2>11. ASSUME NEW d \in Conn, d # c PROVE Talk(d)'
      BY <1>1, <2>3, <2>7, <2>11
    <2> QED
      BY <2>10, <2>11 DEF TalkInv
  <1>5. CASE ReadError(t)
    <2>1. Live(t)
      BY <1>5 DEF ReadError, Live
    <2>2. Peer(t) \in Conn /\ Peer(t) # NoConn
      BY <2>1, OneServer, ServerAssumption
    <2>3. link[Peer(t)] = "rst"
      BY <1>5, <2>2 DEF ReadError
    <2> QED
      BY <2>2, <2>3 DEF TalkInv, Talk, Off, Ready, Asked, Leaving, Ended, Before
  <1>6. CASE HandleQuery(t)
    <2>1. q' = q /\ at' = at /\ own' = own /\ fd' = fd /\ link' = link /\ inbox' = inbox /\ out' = out
      BY <1>6, HandleKeeps DEF HandleQuery, server, process, network
    <2>2. \A d \in Conn : SameServer(d)
      BY <2>1 DEF SameServer, Serves
    <2> QED
      BY <1>1, <2>1, <2>2 DEF TalkInv
  <1>7. CASE BrokenPipe(t)
    BY <1>7 DEF BrokenPipe
  <1> QED
    BY <1>2, <1>3, <1>4, <1>5, <1>6, <1>7 DEF Worker

\* A reply: the query that was served is answered, in its turn.
LEMMA TalkReply ==
    ASSUME IInv, ServerTypeOK, Alone, FdInv, CallInv, TalkInv, main # "gone",
           NEW t \in Threads, Reply(t), cl' = cl, said' = said
    PROVE  TalkInv'
  <1>1. Live(t) /\ at[t] = "serve" /\ pc[t] = "return"
    BY DEF Reply, Return, Live
  <1>0. PICK c \in Conn, a \in Answers : c = Peer(t) /\ a = Answer(t)
    BY <1>1, OneServer DEF Answer, Answers
  <1>2. /\ own[t] \in Sockets
        /\ \A u \in Threads : Live(u) /\ fd[own[u]] = c => u = t
        /\ link[c] \in {"up", "fin", "rst", "dead"}
    BY <1>0, <1>1, OneServer
  <1>3. /\ own' = own /\ inbox' = inbox /\ q' = q
        /\ out' = [d \in Conn |-> IF d = c /\ link[d] = "up" THEN Append(out[d], a) ELSE out[d]]
    BY <1>0 DEF Reply, Return
  <1>4. \A u \in Threads : u # t => at'[u] = at[u]
    BY DEF Reply, Close, ServerTypeOK
  <1>5. at'[t] # "serve"
    BY DEF Reply, Close, ServerTypeOK
  <1>6. \A u \in Threads : Live(u) /\ u # t => fd'[own[u]] = fd[own[u]]
    <2>1. \A u \in Threads : Live(u) /\ u # t => own[u] # own[t] /\ own[u] \in Sockets
      BY <1>0, <1>2 DEF Peer, ServerTypeOK
    <2> QED
      BY <1>2, <2>1 DEF Reply, Close, ServerTypeOK
  <1>7. \A d \in Conn : d # c => link'[d] = link[d]
    BY <1>0 DEF Reply, Close
  <1>8. ASSUME NEW d \in Conn, d # c PROVE Talk(d)'
    <2>1. SameServer(d)
      <3>1. ~Serves(t, d) /\ ~Serves(t, d)'
        BY <1>0, <1>1, <1>5, <1>8 DEF Serves, Peer
      <3> QED
        BY <1>3, <1>4, <1>6, <3>1 DEF SameServer, Serves, Live
    <2> QED
      BY <1>3, <1>7, <1>8, <2>1, LoadSame, TalkSame DEF TalkInv
  <1>9. Talk(c)'
    <2>1. Serves(t, c) /\ \A u \in Threads : Serves(u, c) => u = t
      BY <1>0, <1>1, <1>2 DEF Serves, Live, Peer
    <2>2. Idle(c)'
      <3>1. \A u \in Threads : u # t => ~Serves(u, c)'
        BY <1>3, <1>4, <1>6, <2>1 DEF Serves, Live
      <3> QED
        BY <1>5, <3>1 DEF Idle, Serves
    <2>3. q[t].action # 0 => a \in {"yes", "no"}
      BY <1>0 DEF Answer
    <2>4. q[t] = Termination => q[t].action = 0 /\ a = "bye"
      BY <1>0, <1>1 DEF Answer, CallInv, Termination
    <2>5. q[t].action # 0 => link'[c] = IF link[c] # "up" THEN "dead" ELSE link[c]
      BY <1>0, <1>2 DEF Reply
    <2>6. q[t].action = 0 => link'[c] = "closed"
      BY <1>0, <1>2 DEF Reply, Close
    <2>7. out'[c] = IF link[c] = "up" THEN Append(out[c], a) ELSE out[c]
      BY <1>2, <1>3
    <2>8. Append(<<>>, a) = <<a>> /\ \A x \in Answers : Append(<<x>>, a) = <<x, a>>
      BY Short
    <2>9. ~None(c)
      BY <2>1 DEF None, Idle
    <2>10. \A x : One(c, x) => q[t] = x /\ None(c)'
      BY <1>3, <2>1, <2>2 DEF One, None, Idle
    <2>11. \A x, y : Two(c, x, y) => q[t] = x /\ One(c, y)'
      BY <1>3, <2>1, <2>2 DEF Two, One, Idle
    <2>12. out[c] \in Granted /\ a = "bye" => Append(out[c], a) \in Byes
      BY <2>8 DEF Granted, Byes, Answers
    <2>13. a \in {"yes", "no"} => Append(<<>>, a) \in Granted
      BY <2>8 DEF Granted
    <2>14. link[c] \in Before => link[c] = "up"
      BY <1>2 DEF Before
    <2>15. Asked(c) \/ Leaving(c) \/ Ended(c)
      BY <1>2, <2>9 DEF TalkInv, Talk, Off, Ready
    <2>16. CASE Asked(c)
      <3>1. PICK x \in Ordinary : One(c, x)
        BY <2>9, <2>16 DEF Asked
      <3>2. q[t].action # 0 /\ None(c)'
        BY <2>10, <3>1 DEF Ordinary
      <3>3. link[c] = "up" /\ out[c] = <<>>
        BY <2>9, <2>14, <2>16 DEF Asked
      <3>4. link'[c] = "up" /\ out'[c] \in Granted
        BY <2>3, <2>5, <2>7, <2>13, <3>2, <3>3
      <3> QED
        BY <2>16, <3>2, <3>4 DEF Asked, Talk
    <2>17. CASE Leaving(c)
      <3>1. CASE link[c] \in Before /\ out[c] = <<>> /\ One(c, Termination)
        <4>1. None(c)' /\ link'[c] = "closed" /\ out'[c] = <<"bye">>
          BY <2>4, <2>6, <2>7, <2>8, <2>10, <2>14, <3>1
        <4> QED
          BY <2>17, <4>1 DEF Leaving, Talk
      <3>2. ASSUME said[c] = "pending", link[c] \in Before, out[c] = <<>>,
                   NEW x \in Ordinary, Two(c, x, Termination)
            PROVE  Talk(c)'
        <4>1. q[t].action # 0 /\ One(c, Termination)'
          BY <2>11, <3>2 DEF Ordinary
        <4>2. link'[c] = "up" /\ out'[c] \in Granted
          BY <2>3, <2>5, <2>7, <2>13, <2>14, <3>2, <4>1
        <4> QED
          BY <2>17, <3>2, <4>1, <4>2 DEF Leaving, Talk
      <3>3. CASE said[c] = "pending" /\ link[c] = "up" /\ out[c] \in Granted /\ One(c, Termination)
        <4>1. None(c)' /\ link'[c] = "closed" /\ out'[c] \in Byes
          BY <2>4, <2>6, <2>7, <2>10, <2>12, <3>3
        <4> QED
          BY <2>17, <3>3, <4>1 DEF Leaving, Talk
      <3> QED
        BY <2>9, <2>17, <3>1, <3>2, <3>3 DEF Leaving
    <2>18. CASE Ended(c)
      <3>1. One(c, Termination)
        BY <2>9, <2>18 DEF Ended
      <3>2. None(c)' /\ link'[c] = "closed"
        BY <2>4, <2>6, <2>10, <3>1
      <3> QED
        BY <2>18, <3>2 DEF Ended, Talk
    <2> QED
      BY <2>15, <2>16, <2>17, <2>18
  <1> QED
    BY <1>8, <1>9 DEF TalkInv

\* In every step, what is on the way between a client and its thread is as expected.
LEMMA TalkStep ==
    ASSUME CalmInv, [CalmNext]_allVars
    PROVE  TalkInv'
  <1> USE DEF CalmInv
  <1>1. CASE UNCHANGED allVars
    <2>1. /\ at' = at /\ own' = own /\ fd' = fd /\ q' = q /\ main' = main /\ cl' = cl /\ said' = said
          /\ link' = link /\ inbox' = inbox /\ out' = out
      BY <1>1 DEF allVars, vars, locals, server, process, network
    <2>2. \A d \in Conn : SameServer(d)
      BY <2>1 DEF SameServer, Serves
    <2> QED
      BY <2>1, <2>2, LoadSame, TalkSame DEF TalkInv
  <1>2. CASE ServerStep(Main)
    BY <1>2, TalkMain DEF ServerStep
  <1>3. ASSUME NEW t \in Threads, ServerStep(Worker(t)) PROVE TalkInv'
    <2>1. CASE main' = "gone"
      BY <2>1 DEF TalkInv
    <2> QED
      BY <1>3, <2>1, TalkReply, TalkWorker DEF ServerStep
  <1>4. ASSUME NEW c \in Conn, ClientStep(c) \/ (cl[c] = "ready" /\ Die(c)) PROVE TalkInv'
    <2>1. main' = main
      BY <1>4 DEF ClientStep, Connect, Leave, Receive, Disconnect, Pipe, Send, Die, server, process
    <2> QED
      BY <1>4, <2>1, TalkClient, TalkOther DEF TalkInv
  <1> QED
    BY <1>1, <1>2, <1>3, <1>4 DEF CalmNext, ServerStep, Workers

-----------------------------------------------------------------------------
(* The theorems about connections.                                         *)

LEMMA CalmInit == SystemInit => CalmInv
  <1> SUFFICES ASSUME SystemInit PROVE CalmInv
    OBVIOUS
  <1>1. IInv /\ ServerTypeOK
    BY InitSystem, InitIInv
  <1>2. /\ main = "accept" /\ at = [t \in Threads |-> "unborn"] /\ fd = [s \in Sockets |-> NoConn]
        /\ link = [c \in Conn |-> "none"] /\ inbox = [c \in Conn |-> <<>>] /\ out = [c \in Conn |-> <<>>]
        /\ cl = [c \in Conn |-> "off"] /\ said = [c \in Conn |-> "none"]
    BY DEF SystemInit, ServerInit
  <1>3. ClientTypeOK
    BY <1>2 DEF ClientTypeOK, Doing, Sayings
  <1>4. Alone /\ HandInv /\ FdInv /\ Attended
    BY <1>2 DEF Alone, HandInv, Handing, Spaced, FdInv, Attended
  <1>5. \A t \in Threads : pc[t] = "idle"
    BY DEF SystemInit, ServerInit, Init
  <1>6. CallInv
    BY <1>2, <1>5 DEF CallInv
  <1>7. \A c \in Conn : Off(c)
    BY <1>2 DEF Off, None, Idle, Serves
  <1> QED
    BY <1>1, <1>3, <1>4, <1>6, <1>7 DEF CalmInv, TalkInv, Talk

LEMMA CalmStep == CalmInv /\ [CalmNext]_allVars => CalmInv'
  <1> SUFFICES ASSUME CalmInv, [CalmNext]_allVars PROVE CalmInv'
    OBVIOUS
  <1>1. [SystemNext]_allVars
    BY DEF CalmNext, SystemNext
  <1> USE DEF CalmInv
  <1>2. IInv' /\ ServerTypeOK'
    BY <1>1, NextStore, NextIInv DEF IInv
  <1>3. ClientTypeOK' /\ CallInv'
    BY <1>1, ClientTypeStep, CallStep
  <1> QED
    BY <1>2, <1>3, ServeStep, AttendStep, TalkStep

\* The inductive invariant: threads, descriptors, connections and clients fit together.
THEOREM CalmInvariance == CalmSpec => []CalmInv
  BY CalmInit, CalmStep, PTL DEF CalmSpec

\* When arrivals are spaced out, every connection that is accepted gets a thread of
\* its own while threads can be created, and no thread ever works on the connection of
\* another, for any number of clients, threads and descriptors.
THEOREM OneThreadEach == CalmSpec => []ServedByOne
  <1>1. CalmInv => ServedByOne
    BY DEF CalmInv, ServedByOne
  <1> QED
    BY <1>1, CalmInvariance, PTL

\* No step but a failing accept ends the server.
LEMMA LimitStep ==
    ASSUME CalmInv, [CalmNext]_allVars, main # "gone", main' = "gone"
    PROVE  FreeFd = {}
  <1>1. main' # main
    OBVIOUS
  <1>2. CASE ServerStep(Main)
    BY <1>1, <1>2 DEF ServerStep, Main, Accept, SpawnWorker, AcceptFails, SpawnFails
  <1>3. ASSUME NEW t \in Threads, Worker(t) PROVE FALSE
    <2>1. BrokenPipe(t)
      BY <1>1, <1>3 DEF Worker, StartWorker, ReadQuery, ReadEnd, ReadError, HandleQuery, Reply, server, process
    <2>2. Live(t) /\ link[Peer(t)] = "dead"
      BY <2>1 DEF BrokenPipe, Live
    <2>3. Peer(t) \in Conn
      BY <2>2, OneServer DEF CalmInv
    <2> QED
      BY <2>2, <2>3 DEF CalmInv, TalkInv, Talk, Off, Ready, Asked, Leaving, Ended, Before
  <1>4. ASSUME NEW c \in Conn, ClientStep(c) \/ Die(c) PROVE FALSE
    BY <1>1, <1>4 DEF ClientStep, Connect, Leave, Receive, Disconnect, Pipe, Send, Die, server, process
  <1>5. CASE UNCHANGED allVars
    BY <1>1, <1>5 DEF allVars, server, process
  <1> QED
    BY <1>2, <1>3, <1>4, <1>5 DEF CalmNext, ServerStep, Workers

\* No client ends the server: that takes an accept without a free descriptor.
THEOREM OnlyTheLimitEnds == CalmSpec => EndsOnlyAtLimit
  <1>1. CalmInv /\ [CalmNext]_allVars => [main # "gone" /\ main' = "gone" => FreeFd = {}]_main
    BY LimitStep
  <1> QED
    BY <1>1, CalmInvariance, PTL DEF CalmSpec, EndsOnlyAtLimit

\* A descriptor is left for the next accept.
Enough == FreeFd # {}

\* That is so at any time when there are more descriptors than connections.
THEOREM EnoughLeft ==
    ASSUME IsFiniteSet(Conn), IsFiniteSet(Sockets), Cardinality(Conn) < Cardinality(Sockets)
    PROVE  CalmSpec => []Enough
  <1>1. ASSUME CalmInv PROVE Enough
    <2> SUFFICES ASSUME FreeFd = {} PROVE FALSE
      BY DEF Enough
    <2>1. fd \in [Sockets -> Conn]
      BY <1>1 DEF CalmInv, ServerTypeOK, FreeFd
    <2>2. \A s, r \in Sockets : fd[s] = fd[r] => s = r
      BY <1>1 DEF CalmInv, FdInv, FreeFd
    <2>3. fd \in Injection(Sockets, Conn)
      BY <2>1, <2>2 DEF Injection, IsInjective
    <2>4. Cardinality(Sockets) <= Cardinality(Conn)
      BY <2>3, FS_Injection
    <2> QED
      BY <2>4, FS_CardinalityType
  <1> QED
    BY <1>1, CalmInvariance, PTL

\* What a client prints is the answer, and the only one, to the query it sent.
LEMMA ReportStep ==
    ASSUME CalmInv, [CalmNext]_allVars, main # "gone", NEW c \in Conn,
           cl[c] = "waiting", cl'[c] = "ready"
    PROVE  out[c] = <<said'[c]>>
  <1>0. ClientTypeOK
    BY DEF CalmInv
  <1>1. CASE UNCHANGED allVars \/ ServerStep(Main \/ Workers)
    BY <1>1 DEF allVars, ServerStep
  <1>2. ASSUME NEW d \in Conn, ClientStep(d) \/ Die(d), ~Receive(c) PROVE FALSE
    <2> USE <1>0 DEF ClientTypeOK
    <2>1. CASE Connect(d) \/ Leave(d) \/ Pipe(d)
      BY <2>1 DEF Connect, Leave, Pipe
    <2>2. CASE (\E query \in Queries : Send(d, query)) \/ (Receive(d) /\ d # c)
      BY <2>2 DEF Send, Receive
    <2>3. CASE Disconnect(d) \/ Die(d)
      BY <2>3 DEF Disconnect, Die, Gone
    <2> QED
      BY <1>2, <2>1, <2>2, <2>3 DEF ClientStep
  <1>3. CASE Receive(c)
    <2>1. Asked(c)
      BY <1>3 DEF CalmInv, TalkInv, Talk, Off, Ready, Leaving, Ended
    <2>2. out[c] \in Granted
      BY <1>3, <2>1 DEF Asked, Receive, Arrived, Closed, Before
    <2>3. said'[c] = IF Refused(c) THEN "no" ELSE "yes"
      BY <1>0, <1>3 DEF Receive, ClientTypeOK
    <2>4. CASE out[c] = <<"no">>
      <3>1. Refused(c)
        BY <2>4 DEF Refused
      <3> QED
        BY <2>3, <2>4, <3>1
    <2>5. CASE out[c] = <<"yes">>
      <3>1. ~Refused(c)
        BY <2>5 DEF Refused
      <3> QED
        BY <2>3, <2>5, <3>1
    <2> QED
      BY <2>2, <2>4, <2>5 DEF Granted
  <1> QED
    BY <1>1, <1>2, <1>3 DEF CalmNext

\* disconnect fails only after an interrupt that cut off an answer.
LEMMA LeaveStep ==
    ASSUME CalmInv, [CalmNext]_allVars, main # "gone", NEW c \in Conn,
           said[c] # "failed", said'[c] = "failed"
    PROVE  said[c] = "pending"
  <1>0. ClientTypeOK
    BY DEF CalmInv
  <1>1. CASE UNCHANGED allVars \/ ServerStep(Main \/ Workers)
    BY <1>1 DEF allVars, ServerStep
  <1>2. ASSUME NEW d \in Conn, ClientStep(d) \/ Die(d), ~Disconnect(c) PROVE FALSE
    <2> USE <1>0 DEF ClientTypeOK
    <2>1. CASE Connect(d) \/ Leave(d) \/ Pipe(d) \/ Die(d)
      BY <2>1 DEF Connect, Leave, Pipe, Die
    <2>2. CASE (\E query \in Queries : Send(d, query)) \/ Receive(d)
      BY <2>2 DEF Send, Receive
    <2>3. CASE Disconnect(d) /\ d # c
      BY <2>3 DEF Disconnect
    <2> QED
      BY <1>2, <2>1, <2>2, <2>3 DEF ClientStep
  <1>3. CASE Disconnect(c)
    <2>1. Leaving(c) /\ out[c] # <<"bye">>
      BY <1>0, <1>3 DEF CalmInv, TalkInv, Talk, Off, Ready, Asked, Ended, Disconnect, ClientTypeOK
    <2> QED
      BY <1>3, <2>1 DEF Leaving, Disconnect, Arrived, Closed, Before
  <1> QED
    BY <1>1, <1>2, <1>3 DEF CalmNext

\* While descriptors are left the server runs.
LEMMA Runs == CalmSpec /\ []Enough => [](main # "gone")
  <1>1. SystemInit => main # "gone"
    BY DEF SystemInit, ServerInit
  <1>2. CalmInv /\ Enough /\ main # "gone" /\ [CalmNext]_allVars => (main # "gone")'
    BY LimitStep DEF Enough
  <1> QED
    BY <1>1, <1>2, CalmInvariance, PTL DEF CalmSpec

\* While descriptors are left, what a client prints is the server's answer to the one
\* query it sent, however the clients' queries interleave in the server.
THEOREM Reports == CalmSpec /\ []Enough => ReportTrue
  <1>1. CalmInv /\ main # "gone" /\ [CalmNext]_allVars =>
            [\A c \in Conn : cl[c] = "waiting" /\ cl'[c] = "ready" => out[c] = <<said'[c]>>]_allVars
    BY ReportStep
  <1> QED
    BY <1>1, Runs, CalmInvariance, PTL DEF CalmSpec, ReportTrue

\* And only a client that was interrupted while it waited may be told that leaving failed.
THEOREM Leaves == CalmSpec /\ []Enough => LeavesConfirmed
  <1>1. CalmInv /\ main # "gone" /\ [CalmNext]_allVars =>
            [\A c \in Conn : said[c] # "failed" /\ said'[c] = "failed" => said[c] = "pending"]_allVars
    BY LeaveStep
  <1> QED
    BY <1>1, Runs, CalmInvariance, PTL DEF CalmSpec, LeavesConfirmed

\* So with more descriptors than clients both hold of every behaviour.
THEOREM ReportsAndLeaves ==
    ASSUME IsFiniteSet(Conn), IsFiniteSet(Sockets), Cardinality(Conn) < Cardinality(Sockets)
    PROVE  CalmSpec => ReportTrue /\ LeavesConfirmed
  BY EnoughLeft, Reports, Leaves, PTL
=============================================================================
