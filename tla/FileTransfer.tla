---------------------------- MODULE FileTransfer ----------------------------
(***************************************************************************)
(* The file transfer of week11: server.c, which serves one connection      *)
(* after the other, and the clients of client.c.                           *)
(*                                                                         *)
(* A connection carries bytes, not messages: read returns any part of what *)
(* has arrived, and what several writes sent may arrive together.  A byte  *)
(* is NUL or a number; a file name, which one write sends to an idle       *)
(* connection, stands for its bytes.  Files are text: they hold no NUL.    *)
(* The network is that of one machine: a read or write on a connection     *)
(* fails only because its other end has gone.                              *)
(***************************************************************************)
EXTENDS Integers, Sequences, SequencesExt, FiniteSets

CONSTANTS
    Clients,        \* client processes, each connects once
    NoClient,       \* conn while the server has no connection
    Files,          \* names the users enter
    Text,           \* Text[f]: the bytes of file f, for the files a client can open
    Unwritable,     \* names whose copy the server cannot open
    NoRoom,         \* names whose copy it can open, but writes of it fail
    MAXFILEDATA,    \* size of buffer_data
    Rounds          \* bound: how many names each user enters

NUL == 0

ASSUME TransferAssumption ==
    /\ NoClient \notin Clients
    /\ DOMAIN Text \subseteq Files
    /\ Unwritable \subseteq Files
    /\ NoRoom \subseteq Files
    /\ \A f \in DOMAIN Text : Text[f] \in Seq(Nat \ {NUL})
    /\ Files \cap Nat = {}
    /\ MAXFILEDATA \in Nat \ {0}
    /\ Rounds \in Nat

VARIABLES
    server,     \* what the server is doing, or "failed": its process has ended
    backlog,    \* clients that are connected and not accepted yet
    conn,       \* the client the server is connected to, or NoClient
    name,       \* the bytes read as the last file name (buffer)
    copies,     \* the files <name>_copy with what was written to them
    received,   \* data_len # 0
    link,       \* link[c]: the connection of c
    inbox,      \* inbox[c]: bytes written by c and not read by the server
    acked,      \* acked[c]: an ACK is written to c and not read by c
    cl,         \* cl[c]: what client c is doing
    file,       \* file[c]: the name its user entered last
    entered     \* entered[c]: how many names its user has entered

local   == <<name, copies, received>>
network == <<backlog, link, inbox, acked>>
clients == <<cl, file, entered>>
vars    == <<server, conn, local, network, clients>>

\* The client has closed; fin: with everything read; rst: with an ACK unread, which
\* the next call of the server reports; dead: the server wrote after fin, or has
\* been told of the reset.
Links == {"none", "open", "fin", "rst", "dead"}
Byte  == Nat \cup Files

TypeOK ==
    /\ server \in {"accept", "name", "create", "data", "failed"}
    /\ backlog \in Seq(Clients)
    /\ conn \in Clients \cup {NoClient}
    /\ server \in {"name", "create", "data"} => conn # NoClient
    /\ name \in Seq(Byte)
    /\ \A n \in DOMAIN copies : n \in Seq(Byte) /\ copies[n] \in Seq(Byte)
    /\ received \in BOOLEAN
    /\ link \in [Clients -> Links]
    /\ inbox \in [Clients -> Seq(Byte)]
    /\ acked \in [Clients -> BOOLEAN]
    /\ cl \in [Clients -> {"off", "prompt", "ack", "send", "end", "gone"}]
    /\ file \in [Clients -> Files]
    /\ entered \in [Clients -> 0 .. Rounds]

Init ==
    /\ server = "accept"
    /\ backlog = <<>>
    /\ conn = NoClient
    /\ name = <<>>
    /\ copies = [n \in {} |-> <<>>]
    /\ received = FALSE
    /\ link = [c \in Clients |-> "none"]
    /\ inbox = [c \in Clients |-> <<>>]
    /\ acked = [c \in Clients |-> FALSE]
    /\ cl = [c \in Clients |-> "off"]
    /\ file \in [Clients -> Files]
    /\ entered = [c \in Clients |-> 0]

-----------------------------------------------------------------------------
(* The server.                                                             *)

Accept ==
    /\ server = "accept"
    /\ backlog # <<>>
    /\ conn' = Head(backlog)
    /\ backlog' = Tail(backlog)
    /\ server' = "name"
    /\ UNCHANGED <<local, link, inbox, acked, clients>>

\* accept returns an error, of which there are many, and the server exits.
AcceptFails ==
    /\ server = "accept"
    /\ server' = "failed"
    /\ UNCHANGED <<conn, local, network, clients>>

\* read returns the first n bytes that have arrived.
Read(n) == inbox' = [inbox EXCEPT ![conn] = SubSeq(@, n + 1, Len(@))]
Bytes(n) == SubSeq(inbox[conn], 1, n)

\* read returns 0, or -1 for a reset that has not been reported yet.
AtEnd == inbox[conn] = <<>> /\ link[conn] \in {"fin", "rst", "dead"}

CloseConn == server' = "accept" /\ conn' = NoClient

\* Get filename from client.
ReadName ==
    /\ server = "name"
    /\ \E n \in 1 .. Len(inbox[conn]) : name' = Bytes(n) /\ Read(n)
    /\ server' = "create"
    /\ UNCHANGED <<conn, copies, received, backlog, link, acked, clients>>

\* Faulty variant: the end is not noticed.
NameEndIgnored ==
    /\ server = "name"
    /\ AtEnd
    /\ UNCHANGED vars

\* read returned 0, and the connection is closed, or -1, and the server exits.
NameEnd ==
    /\ server = "name"
    /\ AtEnd
    /\ IF link[conn] = "rst" THEN server' = "failed" /\ conn' = conn ELSE CloseConn
    /\ UNCHANGED <<local, network, clients>>

CannotCreate == \E f \in Unwritable : name = <<f>>

\* Create the copy, or truncate an earlier one, and send the acknowledgement; the
\* server exits when the write fails.
Create ==
    /\ server = "create"
    /\ ~CannotCreate
    /\ copies' = [n \in DOMAIN copies \cup {name} |-> IF n = name THEN <<>> ELSE copies[n]]
    /\ received' = FALSE
    /\ server' = IF link[conn] \in {"rst", "dead"} THEN "failed" ELSE "data"
    /\ acked' = [acked EXCEPT ![conn] = link[conn] = "open"]
    /\ link' = [link EXCEPT ![conn] = IF @ = "fin" THEN "dead" ELSE @]
    /\ UNCHANGED <<conn, name, backlog, inbox, clients>>

CreateFails ==
    /\ server = "create"
    /\ CannotCreate
    /\ server' = "failed"
    /\ UNCHANGED <<conn, local, network, clients>>

\* Faulty variant: the end marker is saved.
SavedWhole(chunk) == chunk

\* What is written of a chunk: not the end marker.
Saved(chunk) == IF Last(chunk) = NUL THEN Front(chunk) ELSE chunk

CannotSave == \E f \in NoRoom : name = <<f>>

\* Receive data: a chunk whose last byte is NUL is the last one.  When the write to
\* the copy fails the server exits, unless it is that of the last chunk, whose
\* result is not looked at.
ReadData ==
    /\ server = "data"
    /\ \E n \in 1 .. Len(inbox[conn]) :
        /\ n <= MAXFILEDATA
        /\ Read(n)
        /\ copies' = [copies EXCEPT ![name] = @ \o IF CannotSave THEN <<>> ELSE Saved(Bytes(n))]
        /\ server' = IF Last(Bytes(n)) = NUL THEN "name"
                     ELSE IF CannotSave THEN "failed" ELSE server
    /\ received' = TRUE
    /\ UNCHANGED <<conn, name, backlog, link, acked, clients>>

\* Faulty variant: an error ends the server here too.
DataEndStrict ==
    /\ server = "data"
    /\ AtEnd
    /\ IF link[conn] = "rst" THEN server' = "failed" /\ conn' = conn ELSE CloseConn
    /\ UNCHANGED <<local, network, clients>>

\* The loop ends with read, 0 or -1; a reset is reported once.  The connection is
\* closed if nothing was received, else the next name is waited for.
DataEnd ==
    /\ server = "data"
    /\ AtEnd
    /\ IF received THEN server' = "name" /\ conn' = conn ELSE CloseConn
    /\ link' = [link EXCEPT ![conn] = IF @ = "rst" THEN "dead" ELSE @]
    /\ UNCHANGED <<local, backlog, inbox, acked, clients>>

-----------------------------------------------------------------------------
(* A client.                                                               *)

Connect(c) ==
    /\ cl[c] = "off"
    /\ server # "failed"
    /\ cl' = [cl EXCEPT ![c] = "prompt"]
    /\ backlog' = Append(backlog, c)
    /\ link' = [link EXCEPT ![c] = "open"]
    /\ UNCHANGED <<server, conn, local, inbox, acked, file, entered>>

\* write: what is written to a server that has just ended is lost.
Write(c, bytes) ==
    inbox' = IF server = "failed" THEN inbox ELSE [inbox EXCEPT ![c] = @ \o bytes]

\* The user enters a name, which is sent.
Enter(c, f) ==
    /\ cl[c] = "prompt"
    /\ entered[c] < Rounds
    /\ entered' = [entered EXCEPT ![c] = @ + 1]
    /\ file' = [file EXCEPT ![c] = f]
    /\ Write(c, <<f>>)
    /\ cl' = [cl EXCEPT ![c] = "ack"]
    /\ UNCHANGED <<server, conn, local, backlog, link, acked>>

\* read returns the ACK, or 0, which is not looked at.
Ack(c) ==
    /\ cl[c] = "ack"
    /\ acked[c] \/ server = "failed"
    /\ acked' = [acked EXCEPT ![c] = FALSE]
    /\ cl' = [cl EXCEPT ![c] = "send"]
    /\ UNCHANGED <<server, conn, local, backlog, link, inbox, file, entered>>

\* What the client sends of file f: one buffer of it.
Sent(f) == IF f \in DOMAIN Text
           THEN SubSeq(Text[f], 1, IF Len(Text[f]) < MAXFILEDATA THEN Len(Text[f]) ELSE MAXFILEDATA)
           ELSE <<>>

SendFile(c) ==
    /\ cl[c] = "send"
    /\ file[c] \in DOMAIN Text
    /\ Write(c, Sent(file[c]))
    /\ cl' = [cl EXCEPT ![c] = "end"]
    /\ UNCHANGED <<server, conn, local, backlog, link, acked, file, entered>>

\* Faulty variant: sizeof "\0" instead of 1.
EndMarkerTwo == <<NUL, NUL>>

EndMarker == <<NUL>>

\* Send EOF.
SendEnd(c) ==
    /\ cl[c] = "end"
    /\ Write(c, EndMarker)
    /\ cl' = [cl EXCEPT ![c] = "prompt"]
    /\ UNCHANGED <<server, conn, local, backlog, link, acked, file, entered>>

\* The process ends, which closes the socket.
Exit(c) ==
    /\ cl' = [cl EXCEPT ![c] = "gone"]
    /\ link' = [link EXCEPT ![c] = IF @ # "open" THEN @ ELSE IF acked[c] THEN "rst" ELSE "fin"]
    /\ UNCHANGED <<server, conn, local, backlog, acked, file, entered>>

\* The file cannot be opened.
NoFile(c) == cl[c] = "send" /\ file[c] \notin DOMAIN Text /\ Exit(c) /\ inbox' = inbox

\* The user enters quit.
Quit(c) == cl[c] = "prompt" /\ Exit(c) /\ inbox' = inbox

\* The process is interrupted or killed, maybe with a part of the data written, or
\* ended by SIGPIPE or by a failing read when the server has gone; at the prompt
\* this is like Quit.
Die(c) ==
    /\ cl[c] \in {"ack", "send", "end"}
    /\ \/ inbox' = inbox
       \/ /\ cl[c] = "send" /\ server # "failed"
          /\ \E k \in 1 .. Len(Sent(file[c])) : Write(c, SubSeq(Sent(file[c]), 1, k))
    /\ Exit(c)

-----------------------------------------------------------------------------

Server == Accept \/ ReadName \/ NameEnd \/ Create \/ CreateFails \/ ReadData \/ DataEnd

Client(c) == Ack(c) \/ SendFile(c) \/ SendEnd(c) \/ NoFile(c)
User(c)   == Connect(c) \/ Quit(c) \/ Die(c) \/ \E f \in Files : Enter(c, f)

Next == Server \/ AcceptFails \/ \E c \in Clients : Client(c) \/ User(c)

Spec == Init /\ [][Next]_vars

\* The server and the clients run; users enter names or quit when they like.
FairSpec == Spec /\ WF_vars(Server) /\ \A c \in Clients : WF_vars(Client(c))

-----------------------------------------------------------------------------
(* Properties.                                                             *)

\* Between two files: at most a name has arrived from c, it waits for no answer the
\* server has given, and no reset is to come.
Idle(c) ==
    /\ cl[c] \in {"off", "prompt", "ack", "gone"}
    /\ inbox[c] \in {<<>>} \cup {<<f>> : f \in Files}
    /\ cl[c] \in {"off", "prompt"} => inbox[c] = <<>>
    /\ cl[c] = "ack" => inbox[c] = <<file[c]>> \/ (c = conn /\ server = "create")
    /\ cl[c] # "gone" => ~acked[c]
    /\ link[c] # "rst"

\* The bytes of the file that the server receives: saved, or on the way.
Arrived == copies[name] \o inbox[conn]

\* What may come k-th in a transfer: the bytes, the end marker, the next name.
Due(sent, k) == IF k <= Len(sent) THEN {sent[k]}
                ELSE IF k = Len(sent) + 1 THEN {NUL} ELSE Files

\* In a transfer: the bytes are those of the file, the end marker and the next name,
\* as far as the client is, and the end marker has not been read but with the name.
Transfer ==
    LET sent == Sent(name[1])
        all  == Len(Arrived)
    IN  /\ name \in DOMAIN copies
        /\ all <= Len(sent) + 2
        /\ \A k \in 1 .. all : Arrived[k] \in Due(sent, k)
        /\ Len(copies[name]) # Len(sent) + 1
        /\ cl[conn] # "off"
        /\ cl[conn] = "send" => all = 0
        /\ cl[conn] = "end" => all = Len(sent)
        /\ cl[conn] = "prompt" => all = Len(sent) + 1
        /\ cl[conn] = "ack" /\ ~acked[conn] => all = Len(sent) + 2 /\ Arrived[all] = file[conn]
        /\ cl[conn] \in {"ack", "send", "end"} /\ all <= Len(sent) => name = <<file[conn]>>
        /\ acked[conn] /\ cl[conn] # "gone" => cl[conn] = "ack" /\ all = 0
        /\ link[conn] = "rst" => all = 0

\* Whenever the server reads a name, all that has arrived is one name that the user
\* entered, however names, data and end markers were split and joined on the way.
TransferInv ==
    /\ TypeOK
    /\ \A c \in Clients : cl[c] \notin {"off", "gone"} <=> link[c] = "open"
    /\ \A c \in Clients : link[c] = "dead" => inbox[c] = <<>> /\ ~(server = "create" /\ c = conn)
    /\ server \in {"create", "data"} => name \in {<<f>> : f \in Files}
    /\ server = "create" =>
          /\ inbox[conn] = <<>>
          /\ cl[conn] = "gone" \/ (cl[conn] = "ack" /\ name = <<file[conn]>>)
    /\ server = "data" => Transfer
    /\ server # "failed" =>
          \A c \in Clients : (server = "data" /\ c = conn) \/ Idle(c)

\* server.c, "Receive data and save data to <filename> _copy": when the server
\* takes a file as complete, its copy is what the client sent of the file; when the
\* connection ends before, the copy is the beginning of it, unless the next name
\* was read with the end marker (Glued).  It does not speak of copies that cannot be
\* written, whose last chunk is lost without notice.
CopyExact ==
    [][server = "data" /\ server' # "data" /\ ~CannotSave =>
         LET copy == copies'[name]
             sent == Sent(name[1])
         IN  IF inbox' # inbox THEN copy = sent
             ELSE IsPrefix(copy, sent) \/ NUL \in Range(copy)]_vars

\* A client that quits, fails or is killed at any point does not end the server, at
\* any of its reads and writes on the connection: it exits only when accept fails,
\* or on a copy that it cannot open or cannot write.
FailsOnlyOnFiles ==
    [][server # "failed" /\ server' = "failed" =>
         \/ server = "accept"
         \/ server = "create" /\ CannotCreate
         \/ server = "data" /\ CannotSave]_vars

\* The server took an end marker and the name after it for data: it waits for data,
\* its client for the ACK.
Glued == /\ server = "data" /\ cl[conn] = "ack"
         /\ copies[name] # <<>> /\ Last(copies[name]) \in Files

\* The connection is kept by a user who has not decided what to enter.
Kept == conn # NoClient /\ cl[conn] = "prompt"

\* Every name entered gets its ACK, unless the two are stuck for good (Glued), or
\* another user keeps the only connection served.
Answered ==
    \/ <>[](Glued \/ Kept)
    \/ \A c \in Clients : cl[c] = "ack" ~> cl[c] # "ack"
=============================================================================
