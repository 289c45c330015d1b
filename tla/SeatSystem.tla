----------------------------- MODULE SeatSystem -----------------------------
(***************************************************************************)
(* The reservation system: the server of SeatServer and the client         *)
(* processes of pa3/pa3_client.c, one per connection.  A client sends one  *)
(* query, waits for the answer, prints what it makes of it and goes on.    *)
(* It leaves through exit, whose handler disconnect sends a termination    *)
(* query and waits for one more answer; SIGINT does the same at any time.  *)
(***************************************************************************)
EXTENDS SeatServer

\* The query disconnect sends; every client may leave.
Termination == [user |-> 0, action |-> 0, data |-> 0]

ASSUME SystemAssumption == Termination \in Queries

VARIABLES
    cl,         \* cl[c]: what the client process of c is doing
    said        \* said[c]: what its last answer was taken for, pending: none yet

allVars == <<vars, server, cl, said>>

Doing  == {"off", "ready", "waiting", "leaving", "gone"}
Sayings == {"none", "pending", "yes", "no", "terminated", "failed"}

SystemTypeOK ==
    /\ TypeOK
    /\ ServerTypeOK
    /\ cl \in [Conn -> Doing]
    /\ said \in [Conn -> Sayings]

SystemInit ==
    /\ ServerInit
    /\ cl = [c \in Conn |-> "off"]
    /\ said = [c \in Conn |-> "none"]

-----------------------------------------------------------------------------

Connect(c) ==
    /\ cl[c] = "off"
    /\ main # "gone"
    /\ cl' = [cl EXCEPT ![c] = "ready"]
    /\ link' = [link EXCEPT ![c] = "backlog"]
    /\ UNCHANGED <<said, process, fd, inbox, out, vars>>

\* The server closed the connection, or all of them by ending.
Closed(c) == main = "gone" \/ link[c] \in {"closed", "lost"}

\* write on the client's socket: a query for the server, or a first write to a
\* peer that is gone.  A second one raises SIGPIPE (Pipe).
Write(c, query) ==
    /\ link[c] # "lost"
    /\ IF Closed(c)
       THEN link' = [link EXCEPT ![c] = "lost"] /\ inbox' = inbox
       ELSE inbox' = [inbox EXCEPT ![c] = Append(@, query)] /\ link' = link

\* validate_query lets queries with these fields through; action 0 does not get
\* to write but to exit.
Sendable == {query \in Queries :
    /\ query.action # 0
    /\ query.action = 1 => query.data >= 0
    /\ query.action \in {2, 3} => query.data \in Seat}

\* Faulty variant: the next query does not wait for the answer to this one.
SendAhead(c, query) ==
    /\ cl[c] \in {"ready", "waiting"}
    /\ query \in Sendable
    /\ Len(inbox[c]) < 2
    /\ Write(c, query)
    /\ cl' = [cl EXCEPT ![c] = "waiting"]
    /\ said' = [said EXCEPT ![c] = "pending"]
    /\ UNCHANGED <<process, fd, out, vars>>

Send(c, query) ==
    /\ cl[c] = "ready"
    /\ query \in Sendable
    /\ Write(c, query)
    /\ cl' = [cl EXCEPT ![c] = "waiting"]
    /\ said' = [said EXCEPT ![c] = "pending"]
    /\ UNCHANGED <<process, fd, out, vars>>

\* The user ends the input or asks for action 0 while no query is out, or
\* interrupts the program: exit runs disconnect.
Leave(c) ==
    /\ cl[c] \in {"ready", "waiting"}
    /\ Write(c, Termination)
    /\ cl' = [cl EXCEPT ![c] = "leaving"]
    /\ UNCHANGED <<said, process, fd, out, vars>>

\* read returns everything that has arrived, several answers run together, or
\* nothing once the server is gone; strtol turns it into a code.
Arrived(c) == out[c] # <<>> \/ Closed(c)

\* Anything but -1 counts as success, also an empty answer.  "-1" run together
\* with digits is another number, with a second "-1" it is still -1.
Refused(c) == out[c] # <<>> /\ \A k \in 1 .. Len(out[c]) : k <= 2 => out[c][k] = "no"

Receive(c) ==
    /\ cl[c] = "waiting"
    /\ Arrived(c)
    /\ said' = [said EXCEPT ![c] = IF Refused(c) THEN "no" ELSE "yes"]
    /\ cl' = [cl EXCEPT ![c] = "ready"]
    /\ out' = [out EXCEPT ![c] = <<>>]
    /\ UNCHANGED <<process, fd, link, inbox, vars>>

\* The process ends: its socket is closed.  When answers are left unread the
\* server gets a reset instead of the end of the stream.
Gone(c) ==
    /\ cl' = [cl EXCEPT ![c] = "gone"]
    /\ link' = [link EXCEPT ![c] =
                  IF @ # "up" THEN @ ELSE IF out'[c] = <<>> THEN "fin" ELSE "rst"]

\* disconnect reads once and expects 256.
Disconnect(c) ==
    /\ cl[c] = "leaving"
    /\ Arrived(c)
    /\ said' = [said EXCEPT ![c] = IF out[c] = <<"bye">> THEN "terminated" ELSE "failed"]
    /\ out' = [out EXCEPT ![c] = <<>>]
    /\ Gone(c)
    /\ UNCHANGED <<process, fd, inbox, vars>>

\* The process is killed without a chance to run disconnect.
Die(c) ==
    /\ cl[c] \in {"ready", "waiting", "leaving"}
    /\ link[c] = "up"
    /\ out' = out
    /\ Gone(c)
    /\ UNCHANGED <<said, process, fd, inbox, vars>>

\* SIGPIPE on the second write to a server that is gone; disconnect does not run.
Pipe(c) ==
    /\ cl[c] = "ready"
    /\ link[c] = "lost"
    /\ cl' = [cl EXCEPT ![c] = "gone"]
    /\ UNCHANGED <<said, server, vars>>

-----------------------------------------------------------------------------

\* A step of the server process by main or by a worker.
ServerStep(A) == main # "gone" /\ A /\ UNCHANGED <<cl, said>>
Workers       == \E t \in Threads : Worker(t)

ClientStep(c) ==
    \/ Connect(c) \/ Leave(c) \/ Receive(c) \/ Disconnect(c) \/ Pipe(c)
    \/ \E query \in Queries : Send(c, query)

\* Everything that can happen.
SystemNext == ServerStep(Main \/ Workers) \/ \E c \in Conn : ClientStep(c) \/ Die(c)
SystemSpec == SystemInit /\ [][SystemNext]_allVars

\* Environment: a connection is accepted only after the thread of the last one
\* has read its argument.
Spaced == ~(main = "create" /\ \E t \in Threads : at[t] = "start")

\* Environment: moreover, clients are killed only while they wait for input.
CalmNext ==
    /\ \/ ServerStep(Main \/ Workers)
       \/ \E c \in Conn : ClientStep(c) \/ (cl[c] = "ready" /\ Die(c))
    /\ Spaced'
CalmSpec == SystemInit /\ [][CalmNext]_allVars

\* The scheduler runs main, every worker and the clients that have something to
\* read; when users send, leave or are killed is up to them.
FairCalmSpec ==
    /\ CalmSpec
    /\ WF_allVars(ServerStep(Main) /\ Spaced')
    /\ \A t \in Threads : WF_allVars(ServerStep(Worker(t)))
    /\ \A c \in Conn : WF_allVars(Receive(c) \/ Disconnect(c))

-----------------------------------------------------------------------------
(* Properties.                                                             *)

\* The client's print format has one message for success and one for failure of
\* each query: what a client prints is the server's answer to the one query it
\* sent, not to an earlier one, to two at once, or to none.
ReportTrue ==
    [][\A c \in Conn : cl[c] = "waiting" /\ cl'[c] = "ready" => out[c] = <<said'[c]>>]_allVars

\* disconnect reports a failure only to a client that was interrupted while it
\* waited: then the answer it reads is the earlier one, or both run together.
LeavesConfirmed ==
    [][\A c \in Conn : said[c] # "failed" /\ said'[c] = "failed" => said[c] = "pending"]_allVars

\* Every query that a living client waits for is answered, and every client that
\* leaves gets to its end, unless others keep sending: a pthread mutex does not
\* promise a turn against a stream of calls on the same seat.
Answered ==
    \/ []<><<\E c \in Conn, query \in Queries : Send(c, query)>>_allVars
    \/ \A c \in Conn : cl[c] \in {"waiting", "leaving"} ~> cl[c] \in {"ready", "gone"}

\* The descriptor of a client that is gone is closed (or the process is over), so
\* the server does not run out of descriptors while it has few clients at a time.
Released ==
    \/ []<><<\E c \in Conn, query \in Queries : Send(c, query)>>_allVars
    \/ \A c \in Conn : cl[c] = "gone" ~> main = "gone" \/ \A s \in Sockets : fd[s] # c
=============================================================================
