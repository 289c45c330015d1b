----------------------------- MODULE SeatServer -----------------------------
(***************************************************************************)
(* The process of pa3/pa3_server.c around the store: main accepts          *)
(* connections and creates one worker thread for each (client_handler),    *)
(* which reads queries, hands them to handle_query and writes the answer.  *)
(*                                                                         *)
(* The kernel's side of a connection is modelled as the server sees it     *)
(* through read, write and close (its code is not in the repository).      *)
(* A query of 12 bytes and an answer are read and written whole.           *)
(***************************************************************************)
EXTENDS SeatStore, Sequences

CONSTANTS
    Conn,       \* the connections made while the server runs, one per client process
    NoConn      \* marks a descriptor that is not open

ASSUME ServerAssumption == NoConn \notin Conn

VARIABLES
    main,       \* main's next step: "accept", "create" or, process over, "gone"
    slot,       \* client_socket of main, passed to the threads by address
    at,         \* at[t]: next step of worker t
    own,        \* own[t]: client_socket of client_handler
    fd,         \* fd[s]: the connection open as descriptor s, or NoConn
    link,       \* link[c]: state of connection c
    inbox,      \* inbox[c]: queries sent over c and not read yet
    out         \* out[c]: answers written to c and not read by the client

process == <<main, slot, at, own>>
network == <<fd, link, inbox, out>>
server  == <<process, network>>

Steps == {"unborn", "start", "read", "serve", "ended"}

\* none: not connected yet; backlog: connected, not accepted; up: accepted.
\* The peer is gone: fin: it closed with all answers read; rst: it closed with
\* an answer unread, which the next call reports as an error; dead: that error
\* was reported, or an answer was written after fin.  closed: the server closed
\* it; lost: and the client wrote to it after that.
Links == {"none", "backlog", "up", "fin", "rst", "dead", "closed", "lost"}

Answers == {"yes", "no", "bye"}     \* "1", a seat or a list; "-1"; "256"

ServerTypeOK ==
    /\ main \in {"accept", "create", "gone"}
    /\ slot \in Sockets
    /\ at \in [Threads -> Steps]
    /\ own \in [Threads -> Sockets]
    /\ fd \in [Sockets -> Conn \cup {NoConn}]
    /\ link \in [Conn -> Links]
    /\ inbox \in [Conn -> Seq(Queries)]
    /\ out \in [Conn -> Seq(Answers)]

ServerInit ==
    /\ Init
    /\ main = "accept"
    /\ slot \in Sockets
    /\ at = [t \in Threads |-> "unborn"]
    /\ own = [t \in Threads |-> slot]
    /\ sock = own
    /\ fd = [s \in Sockets |-> NoConn]
    /\ link = [c \in Conn |-> "none"]
    /\ inbox = [c \in Conn |-> <<>>]
    /\ out = [c \in Conn |-> <<>>]

-----------------------------------------------------------------------------
(* main                                                                    *)

FreeFd == {s \in Sockets : fd[s] = NoConn}

\* accept returns a descriptor that is free (the lowest one when it was called,
\* which may be long before it returns) and main stores it in client_socket.
Accept(c) ==
    /\ main = "accept"
    /\ link[c] = "backlog"
    /\ \E s \in FreeFd :
        /\ slot' = s
        /\ fd' = [fd EXCEPT ![s] = c]
    /\ link' = [link EXCEPT ![c] = "up"]
    /\ main' = "create"
    /\ UNCHANGED <<at, own, inbox, out, vars>>

\* No descriptor left: accept fails at once, with or without a client
\* waiting, and main returns 3, which ends the process.
AcceptFails ==
    /\ main = "accept"
    /\ FreeFd = {}
    /\ main' = "gone"
    /\ UNCHANGED <<slot, at, own, network, vars>>

SpawnWorker(t) ==
    /\ main = "create"
    /\ at[t] = "unborn"
    /\ at' = [at EXCEPT ![t] = "start"]
    /\ main' = "accept"
    /\ UNCHANGED <<slot, own, network, vars>>

\* pthread_create fails, and nobody looks at its result.  Ended threads are
\* neither joined nor detached, so Threads is what the process can ever create.
SpawnFails ==
    /\ main = "create"
    /\ \A t \in Threads : at[t] # "unborn"
    /\ main' = "accept"
    /\ UNCHANGED <<slot, at, own, network, vars>>

-----------------------------------------------------------------------------
(* client_handler                                                          *)

\* int client_socket = *(int*)arg: whatever main's variable holds by now.
StartWorker(t) ==
    /\ at[t] = "start"
    /\ own' = [own EXCEPT ![t] = slot]
    /\ at' = [at EXCEPT ![t] = "read"]
    /\ UNCHANGED <<main, slot, network, vars>>

Peer(t) == fd[own[t]]

\* handle_query(client_socket, &q) begins.
Serve(t, query) ==
    /\ Start(t, query)
    /\ sock' = [sock EXCEPT ![t] = own[t]]
    /\ at' = [at EXCEPT ![t] = "serve"]

ReadQuery(t) ==
    /\ at[t] = "read"
    /\ Peer(t) # NoConn
    /\ inbox[Peer(t)] # <<>>
    /\ Serve(t, Head(inbox[Peer(t)]))
    /\ inbox' = [inbox EXCEPT ![Peer(t)] = Tail(@)]
    /\ UNCHANGED <<main, slot, own, fd, link, out>>

Close(t) ==
    /\ fd' = [fd EXCEPT ![own[t]] = NoConn]
    /\ link' = [c \in Conn |-> IF c = Peer(t) THEN "closed" ELSE link[c]]
    /\ at' = [at EXCEPT ![t] = "ended"]

\* Faulty variant: the thread ends and its descriptor stays open.
ReadEndLeaky(t) ==
    /\ at[t] = "read"
    /\ Peer(t) # NoConn
    /\ inbox[Peer(t)] = <<>>
    /\ link[Peer(t)] \in {"fin", "dead"}
    /\ at' = [at EXCEPT ![t] = "ended"]
    /\ UNCHANGED <<main, slot, own, network, vars>>

\* Faulty variant: the end of the stream is taken for a query, too.
ReadEndIgnored(t) ==
    /\ at[t] = "read"
    /\ Peer(t) # NoConn
    /\ inbox[Peer(t)] = <<>>
    /\ link[Peer(t)] \in {"fin", "dead"}
    /\ Serve(t, q[t])
    /\ UNCHANGED <<main, slot, own, network>>

\* read returns 0: the thread closes the socket and ends.  Sessions are not
\* touched.
ReadEnd(t) ==
    /\ at[t] = "read"
    /\ Peer(t) # NoConn
    /\ inbox[Peer(t)] = <<>>
    /\ link[Peer(t)] \in {"fin", "dead"}
    /\ Close(t)
    /\ UNCHANGED <<main, slot, own, inbox, out, vars>>

\* read returns -1, which the loop takes for a query: q is handled once more, or
\* with what the stack held if nothing was read yet.
ReadError(t) ==
    /\ at[t] = "read"
    /\ \/ /\ Peer(t) = NoConn
          /\ link' = link
       \/ /\ Peer(t) # NoConn
          /\ inbox[Peer(t)] = <<>>
          /\ link[Peer(t)] = "rst"
          /\ link' = [link EXCEPT ![Peer(t)] = "dead"]
    /\ Serve(t, q[t])
    /\ UNCHANGED <<main, slot, own, fd, inbox, out>>

\* Faulty variant: the worker may give the call up halfway.
HandleQueryCancelled(t) ==
    /\ at[t] = "serve"
    /\ \/ Handle(t)
       \/ Go(t, "idle", FALSE) /\ UNCHANGED <<shared, locals>>
    /\ UNCHANGED server

HandleQuery(t) ==
    /\ at[t] = "serve"
    /\ Handle(t)
    /\ UNCHANGED server

Answer(t) == CASE ~ok[t] -> "no"
               [] ok[t] /\ q[t].action = 0 -> "bye"
               [] OTHER -> "yes"

\* Faulty variant: the socket is closed after a termination query, but the loop
\* goes on.
ReplyNoExit(t) ==
    /\ at[t] = "serve"
    /\ Return(t)
    /\ out' = [c \in Conn |-> IF c = Peer(t) /\ link[c] = "up"
                              THEN Append(out[c], Answer(t)) ELSE out[c]]
    /\ fd' = IF q[t].action = 0 THEN [fd EXCEPT ![own[t]] = NoConn] ELSE fd
    /\ at' = [at EXCEPT ![t] = "read"]
    /\ UNCHANGED <<main, slot, own, link, inbox>>

\* Faulty variant: after a termination query the socket is closed at once.
ReplyUnanswered(t) ==
    /\ at[t] = "serve"
    /\ Peer(t) # NoConn => link[Peer(t)] # "dead"
    /\ Return(t)
    /\ \/ q[t].action = 0 /\ Close(t) /\ out' = out
       \/ /\ q[t].action # 0
          /\ at' = [at EXCEPT ![t] = "read"]
          /\ out' = [c \in Conn |-> IF c = Peer(t) THEN Append(out[c], Answer(t)) ELSE out[c]]
          /\ UNCHANGED <<fd, link>>
    /\ UNCHANGED <<main, slot, own, inbox>>

\* Faulty variant: a failed query gets no answer.
ReplySilent(t) ==
    /\ at[t] = "serve"
    /\ Peer(t) # NoConn => link[Peer(t)] # "dead"
    /\ Return(t)
    /\ out' = [c \in Conn |-> IF c = Peer(t) /\ link[c] = "up" /\ ok[t]
                              THEN Append(out[c], Answer(t)) ELSE out[c]]
    /\ \/ q[t].action = 0 /\ Close(t)
       \/ /\ q[t].action # 0
          /\ at' = [at EXCEPT ![t] = "read"]
          /\ UNCHANGED <<fd, link>>
    /\ UNCHANGED <<main, slot, own, inbox>>

\* The end of handle_query: the answer is written, which fails when the peer is
\* gone.  After a query with action 0 the socket is closed and the thread ends,
\* else it reads on.
Reply(t) ==
    /\ at[t] = "serve"
    /\ Peer(t) # NoConn => link[Peer(t)] # "dead"
    /\ Return(t)
    /\ out' = [c \in Conn |-> IF c = Peer(t) /\ link[c] = "up"
                              THEN Append(out[c], Answer(t)) ELSE out[c]]
    /\ \/ q[t].action = 0 /\ Close(t)
       \/ /\ q[t].action # 0
          /\ at' = [at EXCEPT ![t] = "read"]
          /\ link' = [c \in Conn |-> IF c = Peer(t) /\ link[c] # "up"
                                     THEN "dead" ELSE link[c]]
          /\ fd' = fd
    /\ UNCHANGED <<main, slot, own, inbox>>

\* A write to a connection known to be broken raises SIGPIPE, which nothing
\* handles: the process is over.
BrokenPipe(t) ==
    /\ at[t] = "serve"
    /\ pc[t] = "return"
    /\ Peer(t) # NoConn
    /\ link[Peer(t)] = "dead"
    /\ main' = "gone"
    /\ UNCHANGED <<slot, at, own, network, vars>>

-----------------------------------------------------------------------------

Worker(t) ==
    \/ StartWorker(t) \/ ReadQuery(t) \/ ReadEnd(t) \/ ReadError(t)
    \/ HandleQuery(t) \/ Reply(t) \/ BrokenPipe(t)

Main ==
    \/ \E c \in Conn : Accept(c)
    \/ \E t \in Threads : SpawnWorker(t)
    \/ AcceptFails \/ SpawnFails

-----------------------------------------------------------------------------
(* Properties.                                                             *)

\* No two threads work on one descriptor, and none on a descriptor that is closed.
Alone == \A t \in Threads : at[t] \in {"read", "serve"} =>
    /\ Peer(t) # NoConn
    /\ \A u \in Threads : u # t /\ at[u] \in {"read", "serve"} => own[u] # own[t]

\* While the process runs, every open descriptor has a thread that works on it, or is
\* on the way to a new thread through client_socket, or no thread can be created any
\* more.
Attended == \A s \in Sockets : main # "gone" /\ fd[s] # NoConn =>
    \/ \E t \in Threads : at[t] \in {"read", "serve"} /\ own[t] = s
    \/ slot = s /\ (main = "create" \/ \E t \in Threads : at[t] = "start")
    \/ \A t \in Threads : at[t] # "unborn"

\* main: "generate thread when new client accept occurs".  While pthread_create
\* succeeds each connection that was accepted is served by a thread of its own.
\* Once it fails, which main does not notice, a connection stays without a thread,
\* but no thread is ever given to two.
ServedByOne == Alone /\ Attended

\* main returns only when accept fails (here: no descriptor is left), so the
\* process never ends on account of one connection.
EndsOnlyAtLimit == [][main # "gone" /\ main' = "gone" => FreeFd = {}]_main

\* main's threads use the store as SeatStore assumes, one call per thread at a
\* time, so what holds of SeatStore holds of the server.
ImplementsStore == Spec

=============================================================================
