-------------------------------- MODULE Chat --------------------------------
(***************************************************************************)
(* The chat of week13: server.c, one process that serves all clients from  *)
(* a select loop, and the clients of client.c.                             *)
(*                                                                         *)
(* The kernel's side of a connection is modelled as read, write and close  *)
(* see it.  Messages are read and written whole; a write blocks while the  *)
(* peer has Buffer messages unread.  The text of a message is left out.    *)
(* So are a failing accept or select, and a read that fails other than by  *)
(* a reset, which end the server, too.                                     *)
(***************************************************************************)
EXTENDS Integers, Sequences, FiniteSets, FiniteSetsExt

CONSTANTS
    Clients,    \* client processes, each connects once
    NoClient,   \* marks a descriptor that is not open
    NoMessage,  \* response outside handle_client_data
    Talkers,    \* bound: the clients whose user types
    Leavers,    \* bound: the clients that are interrupted or killed
    Talks,      \* bound: how many lines each of the Talkers types before a quit
    Buffer      \* bound: how many messages wait in one direction of a connection

Message == [user : Clients, type : 0 .. 2, nr : 0 .. Talks + 1]

ASSUME ChatAssumption ==
    /\ IsFiniteSet(Clients)
    /\ Talkers \subseteq Clients /\ Leavers \subseteq Clients
    /\ NoClient \notin Clients
    /\ NoMessage \notin Message
    /\ Talks \in Nat
    /\ Buffer \in Nat \ {0}

\* Descriptors of connections.  listenfd was opened before them and is lower.
Fd       == 1 .. Cardinality(Clients)
listenfd == 0

VARIABLES
    server,         \* "up", or "failed": its process has ended
    readset,        \* the descriptors of clients the server monitors
    copyset,        \* what select reported and this round has not looked at yet
    todo,           \* the descriptors response is still to be written to
    response,       \* the message being sent to every client
    active_users,
    fd,             \* fd[f]: the client connected as descriptor f, or NoClient
    backlog,        \* clients that are connected and not accepted yet
    link,           \* link[c]: the connection of c
    inbox,          \* inbox[c]: written by c and not read by the server
    out,            \* out[c]: written to c and not read by c
    cl,             \* cl[c]: what client c is doing
    type,           \* type[c]: type of the message c is writing or wrote last
    said            \* said[c]: how many messages c has written

memory  == <<readset, copyset, todo, response, active_users>>
network == <<fd, backlog, link, inbox, out>>
clients == <<cl, type, said>>
vars    == <<server, memory, network, clients>>

\* The client is gone: fin: it closed with everything read; rst: it closed with a
\* message unread, which the next call of the server reports; dead: the server
\* wrote to it after fin.  over: the server closed the connection.
Links == {"none", "open", "fin", "rst", "dead", "over"}

Left == {"left", "killed", "down"}

TypeOK ==
    /\ server \in {"up", "failed"}
    /\ readset \subseteq Fd
    /\ copyset \subseteq readset \cup {listenfd}
    /\ todo \subseteq readset
    /\ response \in Message \cup {NoMessage}
    /\ active_users \in Nat
    /\ fd \in [Fd -> Clients \cup {NoClient}]
    /\ backlog \in Seq(Clients)
    /\ link \in [Clients -> Links]
    /\ \A c \in Clients :
        /\ inbox[c] \in Seq(Message) /\ Len(inbox[c]) <= Buffer
        /\ out[c] \in Seq(Message) /\ Len(out[c]) <= Buffer
    /\ cl \in [Clients -> {"off", "writing", "in", "leaving"} \cup Left]
    /\ type \in [Clients -> 0 .. 2]
    /\ said \in [Clients -> 0 .. Talks + 2]

Init ==
    /\ server = "up"
    /\ readset = {} /\ copyset = {} /\ todo = {}
    /\ response = NoMessage
    /\ active_users = 0
    /\ fd = [f \in Fd |-> NoClient]
    /\ backlog = <<>>
    /\ link = [c \in Clients |-> "none"]
    /\ inbox = [c \in Clients |-> <<>>]
    /\ out = [c \in Clients |-> <<>>]
    /\ cl = [c \in Clients |-> "off"]
    /\ type = [c \in Clients |-> 0]
    /\ said = [c \in Clients |-> 0]

-----------------------------------------------------------------------------
(* The server.                                                             *)

Readable(c) == inbox[c] # <<>> \/ link[c] \in {"fin", "rst", "dead"}

\* copyset = readset, reduced by select to the descriptors that are ready; select
\* blocks while there is none.
Select ==
    /\ server = "up"
    /\ copyset = {} /\ todo = {}
    /\ copyset' = {f \in readset : Readable(fd[f])}
                    \cup {f \in {listenfd} : backlog # <<>>}
    /\ copyset' # {}
    /\ UNCHANGED <<server, readset, todo, response, active_users, network, clients>>

\* The loop over the descriptors has come to f.
Scanning(f) ==
    /\ server = "up"
    /\ todo = {}
    /\ f \in copyset
    /\ f = Min(copyset)
    /\ copyset' = copyset \ {f}

\* handle_new_connection: accept returns the lowest free descriptor.
Accept ==
    /\ Scanning(listenfd)
    /\ LET f == Min({g \in Fd : fd[g] = NoClient})
       IN  /\ fd' = [fd EXCEPT ![f] = Head(backlog)]
           /\ readset' = readset \cup {f}
    /\ backlog' = Tail(backlog)
    /\ active_users' = active_users + 1
    /\ UNCHANGED <<server, todo, response, link, inbox, out, clients>>

\* The next message of client f is read and is to be written to these descriptors.
\* A quit counts the user down.
Announce(f, to) == LET msg == Head(inbox[fd[f]]) IN
    /\ inbox' = [inbox EXCEPT ![fd[f]] = Tail(@)]
    /\ active_users' = IF msg.type = 2 THEN active_users - 1 ELSE active_users
    /\ todo' = to
    /\ response' = IF to = {} THEN NoMessage ELSE msg

\* Faulty variant: the message goes to the clients that are ready in this round.
ReceiveReady(f) ==
    /\ Scanning(f)
    /\ inbox[fd[f]] # <<>>
    /\ Announce(f, copyset \ {f, listenfd})
    /\ UNCHANGED <<server, readset, fd, backlog, link, out, clients>>

\* handle_client_data, a message: it goes to every client but the sender.
Receive(f) ==
    /\ Scanning(f)
    /\ f # listenfd
    /\ inbox[fd[f]] # <<>>
    /\ Announce(f, readset \ {f})
    /\ UNCHANGED <<server, readset, fd, backlog, link, out, clients>>

\* Faulty variant: the end of the stream counts as a quit.
DropCounted(f) ==
    /\ Scanning(f)
    /\ f # listenfd
    /\ inbox[fd[f]] = <<>>
    /\ readset' = readset \ {f}
    /\ fd' = [fd EXCEPT ![f] = NoClient]
    /\ link' = [link EXCEPT ![fd[f]] = "over"]
    /\ active_users' = active_users - 1
    /\ UNCHANGED <<server, todo, response, backlog, inbox, out, clients>>

\* Faulty variant: a reset is not taken for the end.
DropUnlessReset(f) ==
    /\ Scanning(f)
    /\ f # listenfd
    /\ inbox[fd[f]] = <<>>
    /\ link[fd[f]] # "rst"
    /\ readset' = readset \ {f}
    /\ fd' = [fd EXCEPT ![f] = NoClient]
    /\ link' = [link EXCEPT ![fd[f]] = "over"]
    /\ UNCHANGED <<server, todo, response, active_users, backlog, inbox, out, clients>>

\* read returns 0, or -1 with ECONNRESET: the client terminated.
Drop(f) ==
    /\ Scanning(f)
    /\ f # listenfd
    /\ inbox[fd[f]] = <<>>
    /\ readset' = readset \ {f}
    /\ fd' = [fd EXCEPT ![f] = NoClient]
    /\ link' = [link EXCEPT ![fd[f]] = "over"]
    /\ UNCHANGED <<server, todo, response, active_users, backlog, inbox, out, clients>>

\* The loop over readset has come to j.
Sending(j) ==
    /\ server = "up"
    /\ j \in todo
    /\ j = Min(todo)

\* write blocks while the buffer is full.  A write to a client that has closed
\* succeeds and is answered with a reset.
Send(j) ==
    /\ Sending(j)
    /\ \/ /\ link[fd[j]] = "open"
          /\ Len(out[fd[j]]) < Buffer
          /\ out' = [out EXCEPT ![fd[j]] = Append(@, response)]
          /\ link' = link
       \/ /\ link[fd[j]] = "fin"
          /\ link' = [link EXCEPT ![fd[j]] = "dead"]
          /\ out' = out
    /\ todo' = todo \ {j}
    /\ response' = IF todo' = {} THEN NoMessage ELSE response
    /\ UNCHANGED <<server, readset, copyset, active_users, fd, backlog, inbox, clients>>

\* Faulty variant: writes do not block, they fail while the buffer is full.
SendFailsFull(j) ==
    /\ Sending(j)
    /\ link[fd[j]] \in {"rst", "dead"} \/ Len(out[fd[j]]) = Buffer
    /\ server' = "failed"
    /\ UNCHANGED <<memory, network, clients>>

\* A write after a reset: it returns -1, on which the server exits, or it raises
\* SIGPIPE, which the server does not handle.
SendFails(j) ==
    /\ Sending(j)
    /\ link[fd[j]] \in {"rst", "dead"}
    /\ server' = "failed"
    /\ UNCHANGED <<memory, network, clients>>

-----------------------------------------------------------------------------
(* A client.                                                               *)

\* It goes on to write its first message, of type 0.
Connect(c) ==
    /\ cl[c] = "off"
    /\ server = "up"
    /\ cl' = [cl EXCEPT ![c] = "writing"]
    /\ backlog' = Append(backlog, c)
    /\ link' = [link EXCEPT ![c] = "open"]
    /\ UNCHANGED <<server, memory, fd, inbox, out, type, said>>

\* handle_input: the user has typed a line, or quit.
Type(c) ==
    /\ c \in Talkers
    /\ cl[c] = "in"
    /\ \/ type' = [type EXCEPT ![c] = 2]
       \/ said[c] <= Talks /\ type' = [type EXCEPT ![c] = 1]
    /\ cl' = [cl EXCEPT ![c] = "writing"]
    /\ UNCHANGED <<server, memory, network, said>>

Written(c) == cl' = [cl EXCEPT ![c] = IF type[c] = 2 THEN "leaving" ELSE "in"]

\* write blocks while the buffer is full.
Write(c) ==
    /\ cl[c] = "writing"
    /\ server = "up"
    /\ Len(inbox[c]) < Buffer
    /\ inbox' = [inbox EXCEPT ![c] = Append(@, [user |-> c, type |-> type[c], nr |-> said[c]])]
    /\ said' = [said EXCEPT ![c] = @ + 1]
    /\ Written(c)
    /\ UNCHANGED <<server, memory, fd, backlog, link, out, type>>

\* What is written to a server that has just gone is lost.
WriteLost(c) ==
    /\ cl[c] = "writing"
    /\ server # "up"
    /\ Written(c)
    /\ UNCHANGED <<server, memory, network, type, said>>

\* handle_server_response, a message.
Hear(c) ==
    /\ cl[c] = "in"
    /\ out[c] # <<>>
    /\ out' = [out EXCEPT ![c] = Tail(@)]
    /\ UNCHANGED <<server, memory, fd, backlog, link, inbox, clients>>

\* The process ends, which closes the socket.
Exit(c, how) ==
    /\ cl' = [cl EXCEPT ![c] = how]
    /\ link' = [link EXCEPT ![c] =
                  IF @ # "open" THEN @ ELSE IF out[c] = <<>> THEN "fin" ELSE "rst"]
    /\ UNCHANGED <<server, memory, fd, backlog, inbox, out, type, said>>

\* exit after quit was written.
Leave(c) == cl[c] = "leaving" /\ Exit(c, "left")

\* sigint_handler, or killed.  No quit is written.
Interrupt(c) == c \in Leavers /\ cl[c] \in {"writing", "in"} /\ Exit(c, "killed")

\* The server is gone: write raises SIGPIPE, or read returns 0.
Down(c) ==
    /\ server # "up"
    /\ cl[c] = "writing" \/ (cl[c] = "in" /\ out[c] = <<>>)
    /\ Exit(c, "down")

-----------------------------------------------------------------------------

Server ==
    \/ Select \/ Accept
    \/ \E f \in Fd : Receive(f) \/ Drop(f) \/ Send(f) \/ SendFails(f)

Client(c) == Write(c) \/ WriteLost(c) \/ Hear(c) \/ Leave(c)
User(c)   == Connect(c) \/ Type(c) \/ Interrupt(c) \/ Down(c)

Next == Server \/ \E c \in Clients : Client(c) \/ User(c)

Spec == Init /\ [][Next]_vars

\* The server and every client that can run are run.  Users do what they like.
FairSpec == Spec /\ WF_vars(Server) /\ \A c \in Clients : WF_vars(Client(c))

-----------------------------------------------------------------------------
(* Properties.                                                             *)

\* The clients the server has accepted that are in the room, and those that are
\* leaving or gone and whose quit the server has not read.
Accepted(c)  == link[c] # "none" /\ \A k \in 1 .. Len(backlog) : backlog[k] # c
QuitHeard(c) == cl[c] \in {"leaving", "left"} /\ inbox[c] = <<>>
Staying      == {c \in Clients : Accepted(c) /\ cl[c] \in {"writing", "in"}}
Unheard      == {c \in Clients :
                    Accepted(c) /\ cl[c] \notin {"writing", "in"} /\ ~QuitHeard(c)}

\* active_users, which the server prints with every join and quit: a client that
\* stays counts once, and one that leaves is taken off at most once, by the quit or
\* by the end of its stream but never by both.  That it is taken off at all is not
\* claimed: the quit of exit_handler that client.c:62-65 asks for is not written
\* after a ^C, so the count may stay too high for ever, by those in Unheard.
CountInv ==
    /\ TypeOK
    /\ server = "up" => active_users \in
          Cardinality(Staying) .. Cardinality(Staying) + Cardinality(Unheard)

\* Only a client that closed its socket before the server noticed can make a
\* write fail: a server whose clients all stay does not exit.
FailsOnlyOnGone ==
    [][server # "failed" /\ server' = "failed" =>
         \E f \in readset : fd[f] \in Clients /\ cl[fd[f]] \in Left]_vars

\* handle_client_data: "Should send the message to every client".
Room == INSTANCE ChatRoom WITH
    status <- [c \in Clients |-> IF cl[c] \in Left THEN "gone"
                                 ELSE IF Accepted(c) THEN "in" ELSE "out"],
    spoken <- [c \in Clients |-> said[c] - Len(inbox[c])],
    due    <- [c \in Clients |-> IF cl[c] \in Left THEN <<>>
                ELSE out[c] \o (IF \E f \in todo : fd[f] = c THEN <<response>> ELSE <<>>)]

ImplementsRoom == Room!Spec

\* The server and one client wait for each other: both write, both buffers are
\* full, and neither reads.
Stuck == \E j \in todo : LET c == fd[j] IN
    /\ j = Min(todo)
    /\ Len(out[c]) = Buffer
    /\ cl[c] = "writing"
    /\ Len(inbox[c]) = Buffer

\* Unless the server is gone or stuck for good, whatever a client writes is read,
\* and the descriptor of a client that left is closed.
Served == <>[]Stuck \/ \A c \in Clients :
    inbox[c] # <<>> ~> server # "up" \/ inbox[c] = <<>>

Dropped == <>[]Stuck \/ \A c \in Clients :
    cl[c] \in Left ~> server # "up" \/ link[c] = "none" \/ \A f \in Fd : fd[f] # c
=============================================================================
