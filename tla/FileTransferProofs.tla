------------------------- MODULE FileTransferProofs -------------------------
(***************************************************************************)
(* The file transfer is right for any number of clients, any files and any *)
(* size of the buffer, however the stream of bytes is cut.                 *)
(***************************************************************************)
EXTENDS FileTransfer, SequenceTheorems, TLAPS

-----------------------------------------------------------------------------
(* Sequences.                                                              *)

LEMMA ConcatFacts ==
    ASSUME NEW S, NEW a \in Seq(S), NEW b \in Seq(S)
    PROVE  /\ a \o b \in Seq(S)
           /\ Len(a \o b) = Len(a) + Len(b)
           /\ \A k \in 1 .. Len(a) + Len(b) : (a \o b)[k] = IF k <= Len(a) THEN a[k] ELSE b[k - Len(a)]
BY ConcatProperties

LEMMA Associative ==
    ASSUME NEW S, NEW a \in Seq(S), NEW b \in Seq(S), NEW c \in Seq(S)
    PROVE  (a \o b) \o c = a \o (b \o c)
BY ConcatAssociative

LEMMA PartFacts ==
    ASSUME NEW S, NEW b \in Seq(S), NEW m \in Nat \ {0}, NEW n \in 0 .. Len(b), m <= n + 1
    PROVE  /\ SubSeq(b, m, n) \in Seq(S)
           /\ Len(SubSeq(b, m, n)) = n - m + 1
           /\ \A k \in 1 .. n - m + 1 : SubSeq(b, m, n)[k] = b[m + k - 1]
<1>1. m \in 1 .. Len(b) + 1 /\ n \in m - 1 .. Len(b) OBVIOUS
<1>2. QED BY <1>1, SubSeqProperties

\* What is read of a stream moves from its beginning to the end of what was saved.
LEMMA Moved ==
    ASSUME NEW S, NEW a \in Seq(S), NEW b \in Seq(S), NEW n \in 0 .. Len(b)
    PROVE  (a \o SubSeq(b, 1, n)) \o SubSeq(b, n + 1, Len(b)) = a \o b
<1> DEFINE x == SubSeq(b, 1, n)
           y == SubSeq(b, n + 1, Len(b))
<1>1. x \in Seq(S) /\ Len(x) = n /\ \A k \in 1 .. n : x[k] = b[k]
  BY PartFacts
<1>2. y \in Seq(S) /\ Len(y) = Len(b) - n /\ \A k \in 1 .. Len(b) - n : y[k] = b[n + k]
  <2>1. n + 1 \in Nat \ {0} /\ Len(b) \in 0 .. Len(b) /\ n + 1 <= Len(b) + 1 OBVIOUS
  <2>2. QED BY <2>1, PartFacts
<1> HIDE DEF x, y
<1>3. /\ a \o x \in Seq(S) /\ Len(a \o x) = Len(a) + n
      /\ \A k \in 1 .. Len(a) + n : (a \o x)[k] = IF k <= Len(a) THEN a[k] ELSE x[k - Len(a)]
  <2>1. /\ a \o x \in Seq(S) /\ Len(a \o x) = Len(a) + Len(x)
        /\ \A k \in 1 .. Len(a) + Len(x) : (a \o x)[k] = IF k <= Len(a) THEN a[k] ELSE x[k - Len(a)]
    BY <1>1, ConcatFacts
  <2>2. QED BY <1>1, <2>1
<1>4. /\ (a \o x) \o y \in Seq(S) /\ Len((a \o x) \o y) = Len(a) + Len(b)
      /\ \A k \in 1 .. Len(a) + Len(b) :
            ((a \o x) \o y)[k] = IF k <= Len(a) + n THEN (a \o x)[k] ELSE y[k - (Len(a) + n)]
  <2> DEFINE z == a \o x
  <2>1. z \in Seq(S) /\ Len(z) = Len(a) + n BY <1>3
  <2> HIDE DEF z
  <2>2. /\ z \o y \in Seq(S) /\ Len(z \o y) = Len(z) + Len(y)
        /\ \A k \in 1 .. Len(z) + Len(y) : (z \o y)[k] = IF k <= Len(z) THEN z[k] ELSE y[k - Len(z)]
    BY <1>2, <2>1, ConcatFacts
  <2>3. Len(z) + Len(y) = Len(a) + Len(b) BY <1>2, <2>1
  <2>4. QED BY <2>1, <2>2, <2>3 DEF z
<1>5. /\ a \o b \in Seq(S) /\ Len(a \o b) = Len(a) + Len(b)
      /\ \A k \in 1 .. Len(a) + Len(b) : (a \o b)[k] = IF k <= Len(a) THEN a[k] ELSE b[k - Len(a)]
  BY ConcatFacts
<1>6. ASSUME NEW k \in 1 .. Len(a) + Len(b) PROVE ((a \o x) \o y)[k] = (a \o b)[k]
  <2>1. CASE k <= Len(a) BY <2>1, <1>3, <1>4, <1>5
  <2>2. CASE k > Len(a) /\ k <= Len(a) + n
    <3>1. k - Len(a) \in 1 .. n BY <2>2
    <3>2. ((a \o x) \o y)[k] = x[k - Len(a)]
      <4>1. k \in 1 .. Len(a) + n BY <2>2
      <4>2. QED BY <2>2, <4>1, <1>3, <1>4
    <3>3. x[k - Len(a)] = b[k - Len(a)] BY <3>1, <1>1
    <3>4. (a \o b)[k] = b[k - Len(a)] BY <2>2, <1>5
    <3>5. QED BY <3>2, <3>3, <3>4
  <2>3. CASE k > Len(a) + n
    <3>1. k - (Len(a) + n) \in 1 .. Len(b) - n /\ n + (k - (Len(a) + n)) = k - Len(a)
      BY <2>3
    <3>2. ((a \o x) \o y)[k] = y[k - (Len(a) + n)] BY <2>3, <1>4
    <3>3. y[k - (Len(a) + n)] = b[k - Len(a)] BY <3>1, <1>2
    <3>4. (a \o b)[k] = b[k - Len(a)] BY <2>3, <1>5
    <3>5. QED BY <3>2, <3>3, <3>4
  <2>4. k <= Len(a) \/ (k > Len(a) /\ k <= Len(a) + n) \/ k > Len(a) + n
    <3>1. k \in Nat /\ Len(a) \in Nat /\ n \in Nat OBVIOUS
    <3>2. QED BY <3>1
  <2>5. QED BY <2>1, <2>2, <2>3, <2>4, Zenon
<1>7. QED BY <1>4, <1>5, <1>6, SeqEqual DEF x, y

-----------------------------------------------------------------------------
(* The invariant, one conjunct after the other.                            *)

OpenInv == \A c \in Clients : cl[c] \notin {"off", "gone"} <=> link[c] = "open"
DeadInv == \A c \in Clients :
    link[c] = "dead" => inbox[c] = <<>> /\ ~(server = "create" /\ c = conn)
NameInv == server \in {"create", "data"} => name \in {<<f>> : f \in Files}
CreateInv == server = "create" =>
    /\ inbox[conn] = <<>>
    /\ cl[conn] = "gone" \/ (cl[conn] = "ack" /\ name = <<file[conn]>>)
DataInv == server = "data" => Transfer
IdleInv == server # "failed" =>
    \A c \in Clients : (server = "data" /\ c = conn) \/ Idle(c)

LEMMA InvParts ==
    TransferInv <=> TypeOK /\ OpenInv /\ DeadInv /\ NameInv /\ CreateInv /\ DataInv /\ IdleInv
BY DEF TransferInv, OpenInv, DeadInv, NameInv, CreateInv, DataInv, IdleInv

LEMMA SentFacts ==
    ASSUME NEW f \in Files
    PROVE  Sent(f) \in Seq(Nat \ {NUL}) /\ Sent(f) \in Seq(Byte)
<1>1. CASE f \in DOMAIN Text
  <2> DEFINE n == IF Len(Text[f]) < MAXFILEDATA THEN Len(Text[f]) ELSE MAXFILEDATA
  <2>1. Text[f] \in Seq(Nat \ {NUL}) BY <1>1, TransferAssumption
  <2>2. n \in 0 .. Len(Text[f]) BY <2>1, TransferAssumption
  <2>3. SubSeq(Text[f], 1, n) \in Seq(Nat \ {NUL}) BY <2>1, <2>2, PartFacts
  <2>4. Sent(f) \in Seq(Nat \ {NUL}) BY <1>1, <2>3 DEF Sent
  <2>5. QED BY <2>4 DEF Byte
<1>2. CASE f \notin DOMAIN Text
  BY <1>2 DEF Sent
<1>3. QED BY <1>1, <1>2

\* What a chunk without its end marker is.
LEMMA SavedFacts ==
    ASSUME NEW s \in Seq(Byte), s # <<>>
    PROVE  /\ Saved(s) \in Seq(Byte)
           /\ Last(s) = s[Len(s)]
           /\ Last(s) # NUL => Saved(s) = s
           /\ Last(s) = NUL => /\ Len(Saved(s)) = Len(s) - 1
                               /\ \A k \in 1 .. Len(s) - 1 : Saved(s)[k] = s[k]
<1>1. Len(s) \in Nat \ {0} BY EmptySeq
<1>2. /\ Front(s) \in Seq(Byte) /\ Len(Front(s)) = Len(s) - 1
      /\ \A k \in 1 .. Len(s) - 1 : Front(s)[k] = s[k]
  <2>1. Len(s) - 1 \in 0 .. Len(s) BY <1>1
  <2>2. /\ SubSeq(s, 1, Len(s) - 1) \in Seq(Byte)
        /\ Len(SubSeq(s, 1, Len(s) - 1)) = (Len(s) - 1) - 1 + 1
        /\ \A k \in 1 .. (Len(s) - 1) - 1 + 1 : SubSeq(s, 1, Len(s) - 1)[k] = s[1 + k - 1]
    <3>1. 1 \in Nat \ {0} /\ 1 <= (Len(s) - 1) + 1 BY <1>1
    <3> DEFINE n == Len(s) - 1
    <3> HIDE DEF n
    <3>2. n \in 0 .. Len(s) BY <2>1 DEF n
    <3>3. 1 <= n + 1 BY <3>1 DEF n
    <3>4. /\ SubSeq(s, 1, n) \in Seq(Byte)
          /\ Len(SubSeq(s, 1, n)) = n - 1 + 1
          /\ \A k \in 1 .. n - 1 + 1 : SubSeq(s, 1, n)[k] = s[1 + k - 1]
      BY <3>2, <3>3, PartFacts
    <3>5. QED BY <3>4 DEF n
  <2>3. (Len(s) - 1) - 1 + 1 = Len(s) - 1 BY <1>1
  <2>4. \A k \in 1 .. Len(s) - 1 : s[1 + k - 1] = s[k] OBVIOUS
  <2>5. QED BY <2>2, <2>3, <2>4 DEF Front
<1>3. QED BY <1>2 DEF Saved, Last

\* What a write of a client leaves.
LEMMA WriteFacts ==
    ASSUME TypeOK, NEW c \in Clients, NEW bytes \in Seq(Byte), Write(c, bytes)
    PROVE  inbox' \in [Clients -> Seq(Byte)]
BY DEF Write, TypeOK

LEMMA ChunkFacts ==
    ASSUME TypeOK, conn \in Clients, NEW n \in 1 .. Len(inbox[conn])
    PROVE  /\ Bytes(n) \in Seq(Byte) /\ Len(Bytes(n)) = n /\ Bytes(n) # <<>>
           /\ SubSeq(inbox[conn], n + 1, Len(inbox[conn])) \in Seq(Byte)
           /\ \A k \in 1 .. n : Bytes(n)[k] = inbox[conn][k]
<1>1. inbox[conn] \in Seq(Byte) BY DEF TypeOK
<1>2. Bytes(n) \in Seq(Byte) /\ Len(Bytes(n)) = n /\ \A k \in 1 .. n : Bytes(n)[k] = inbox[conn][k]
  BY <1>1, PartFacts DEF Bytes
<1>3. SubSeq(inbox[conn], n + 1, Len(inbox[conn])) \in Seq(Byte)
  <2>1. n + 1 \in Nat \ {0} /\ Len(inbox[conn]) \in 0 .. Len(inbox[conn]) /\ n + 1 <= Len(inbox[conn]) + 1
    BY <1>1
  <2>2. QED BY <1>1, <2>1, PartFacts
<1>4. QED BY <1>2, <1>3

\* The types are kept by the server.
LEMMA TypeServer == ASSUME TransferInv, Server PROVE TypeOK'
<1> USE TransferAssumption DEF TransferInv, TypeOK
<1>1. CASE Accept BY <1>1 DEF Accept, local, clients
<1>2. CASE ReadName
  <2>1. PICK n \in 1 .. Len(inbox[conn]) : name' = Bytes(n) /\ Read(n) BY <1>2 DEF ReadName
  <2>2. conn \in Clients BY <1>2 DEF ReadName
  <2>3. name' \in Seq(Byte) BY <2>1, <2>2, ChunkFacts
  <2>4. inbox' \in [Clients -> Seq(Byte)] BY <2>1, <2>2, ChunkFacts DEF Read
  <2>5. QED BY <1>2, <2>2, <2>3, <2>4 DEF ReadName, clients
<1>3. CASE NameEnd BY <1>3 DEF NameEnd, CloseConn, local, network, clients
<1>4. CASE Create BY <1>4 DEF Create, clients, Links
<1>5. CASE CreateFails BY <1>5 DEF CreateFails, local, network, clients
<1>6. CASE ReadData
  <2>1. PICK n \in 1 .. Len(inbox[conn]) :
          /\ Read(n)
          /\ copies' = [copies EXCEPT ![name] = @ \o IF CannotSave THEN <<>> ELSE Saved(Bytes(n))]
          /\ server' = IF Last(Bytes(n)) = NUL THEN "name"
                       ELSE IF CannotSave THEN "failed" ELSE server
    BY <1>6 DEF ReadData
  <2>2. conn \in Clients BY <1>6 DEF ReadData
  <2>3. inbox' \in [Clients -> Seq(Byte)] BY <2>1, <2>2, ChunkFacts DEF Read
  <2>4. Saved(Bytes(n)) \in Seq(Byte) /\ <<>> \in Seq(Byte) BY <2>2, ChunkFacts, SavedFacts
  <2>5. \A m \in DOMAIN copies' : m \in Seq(Byte) /\ copies'[m] \in Seq(Byte)
    BY <2>1, <2>4
  <2>6. QED BY <1>6, <2>1, <2>2, <2>3, <2>5 DEF ReadData, clients
<1>7. CASE DataEnd BY <1>7 DEF DataEnd, CloseConn, local, clients, Links
<1>8. QED BY <1>1, <1>2, <1>3, <1>4, <1>5, <1>6, <1>7 DEF Server

\* The types are kept by the clients.
LEMMA TypeClient ==
    ASSUME TransferInv, NEW c \in Clients, Client(c) \/ User(c)
    PROVE  TypeOK'
<1> USE TransferAssumption DEF TransferInv, TypeOK
<1>1. CASE Connect(c) BY <1>1 DEF Connect, local, Links
<1>2. ASSUME NEW f \in Files, Enter(c, f) PROVE TypeOK'
  <2>1. <<f>> \in Seq(Byte) BY DEF Byte
  <2>2. inbox' \in [Clients -> Seq(Byte)] BY <1>2, <2>1, WriteFacts DEF Enter
  <2>3. entered' \in [Clients -> 0 .. Rounds]
    <3>1. entered[c] + 1 \in 0 .. Rounds BY <1>2 DEF Enter
    <3>2. QED BY <1>2, <3>1 DEF Enter
  <2>4. QED BY <1>2, <2>2, <2>3 DEF Enter, local
<1>3. CASE Ack(c) BY <1>3 DEF Ack, local
<1>4. CASE SendFile(c)
  <2>1. inbox' \in [Clients -> Seq(Byte)] BY <1>4, SentFacts, WriteFacts DEF SendFile
  <2>2. QED BY <1>4, <2>1 DEF SendFile, local
<1>5. CASE SendEnd(c)
  <2>1. EndMarker \in Seq(Byte) BY DEF EndMarker, NUL, Byte
  <2>2. inbox' \in [Clients -> Seq(Byte)] BY <1>5, <2>1, WriteFacts DEF SendEnd
  <2>3. QED BY <1>5, <2>2 DEF SendEnd, local
<1>6. ASSUME Exit(c), inbox' \in [Clients -> Seq(Byte)] PROVE TypeOK'
  BY <1>6 DEF Exit, local, Links
<1>7. CASE NoFile(c) \/ Quit(c) BY <1>6, <1>7 DEF NoFile, Quit
<1>8. CASE Die(c)
  <2>1. CASE inbox' = inbox BY <1>6, <1>8, <2>1 DEF Die
  <2>2. CASE \E k \in 1 .. Len(Sent(file[c])) : Write(c, SubSeq(Sent(file[c]), 1, k))
    <3>1. PICK k \in 1 .. Len(Sent(file[c])) : Write(c, SubSeq(Sent(file[c]), 1, k)) BY <2>2
    <3>2. SubSeq(Sent(file[c]), 1, k) \in Seq(Byte)
      <4>1. Sent(file[c]) \in Seq(Byte) /\ k \in 0 .. Len(Sent(file[c])) BY SentFacts
      <4>2. QED BY <4>1, PartFacts
    <3>3. inbox' \in [Clients -> Seq(Byte)] BY <3>1, <3>2, WriteFacts
    <3>4. QED BY <1>6, <1>8, <3>3 DEF Die
  <2>3. QED BY <1>8, <2>1, <2>2 DEF Die
<1>9. QED BY <1>1, <1>2, <1>3, <1>4, <1>5, <1>7, <1>8 DEF Client, User

\* A name that is read is all that was there.
LEMMA NameRead ==
    ASSUME TransferInv, ReadName
    PROVE  /\ conn \in Clients
           /\ cl[conn] = "gone" \/ (cl[conn] = "ack" /\ name' = <<file[conn]>>)
           /\ \E f \in Files : name' = <<f>>
           /\ inbox' = [inbox EXCEPT ![conn] = <<>>]
<1>1. conn \in Clients /\ server = "name" BY DEF TransferInv, TypeOK, ReadName
<1>2. Idle(conn) BY <1>1 DEF TransferInv
<1>3. PICK n \in 1 .. Len(inbox[conn]) : name' = Bytes(n) /\ Read(n) BY DEF ReadName
<1>4. inbox[conn] # <<>> BY <1>3
<1>5. PICK f \in Files : inbox[conn] = <<f>> BY <1>2, <1>4 DEF Idle
<1>6. n = 1
  <2>1. Len(<<f>>) = 1 OBVIOUS
  <2>2. n \in 1 .. 1 BY <1>3, <1>5, <2>1
  <2>3. QED BY <2>2
<1>7. name' = <<f>>
  <2>1. name' = SubSeq(<<f>>, 1, 1) BY <1>3, <1>5, <1>6 DEF Bytes
  <2>2. <<f>> \in Seq(Files) /\ 1 \in 0 .. Len(<<f>>) /\ 1 \in Nat \ {0} OBVIOUS
  <2>3. /\ name' \in Seq(Files) /\ Len(name') = 1 - 1 + 1
        /\ \A k \in 1 .. 1 - 1 + 1 : name'[k] = <<f>>[1 + k - 1]
    BY <2>1, <2>2, PartFacts
  <2>4. QED BY <2>3
<1>8. SubSeq(<<f>>, 2, 1) = <<>> BY SubSeqEmpty
<1>9. inbox' = [inbox EXCEPT ![conn] = <<>>]
  <2>1. inbox' = [inbox EXCEPT ![conn] = SubSeq(inbox[conn], 2, Len(inbox[conn]))]
    BY <1>3, <1>6 DEF Read
  <2>2. Len(inbox[conn]) = 1 BY <1>5
  <2>3. QED BY <1>5, <1>8, <2>1, <2>2
<1>10. cl[conn] = "gone" \/ (cl[conn] = "ack" /\ name' = <<file[conn]>>)
  BY <1>1, <1>2, <1>4, <1>7, <1>5 DEF Idle
<1>11. QED BY <1>1, <1>7, <1>9, <1>10

\* A connection is open as long as its client is in its loop.
LEMMA OpenStep == ASSUME TransferInv, [Next]_vars PROVE OpenInv'
<1> USE DEF TransferInv, TypeOK, OpenInv, Links
<1>1. CASE UNCHANGED vars BY <1>1 DEF vars, network, clients
<1>2. CASE Accept \/ AcceptFails \/ ReadName \/ NameEnd \/ CreateFails \/ ReadData
  BY <1>2 DEF Accept, AcceptFails, ReadName, NameEnd, CreateFails, ReadData, network, clients
<1>3. CASE Create \/ DataEnd BY <1>3 DEF Create, DataEnd, clients
<1>4. ASSUME NEW c \in Clients, Connect(c) \/ Ack(c) \/ SendFile(c) \/ SendEnd(c) \/ \E f \in Files : Enter(c, f)
      PROVE OpenInv'
  BY <1>4 DEF Connect, Ack, SendFile, SendEnd, Enter
<1>5. ASSUME NEW c \in Clients, NoFile(c) \/ Quit(c) \/ Die(c) PROVE OpenInv'
  BY <1>5 DEF NoFile, Quit, Die, Exit
<1>6. QED BY <1>1, <1>2, <1>3, <1>4, <1>5 DEF Next, Server, Client, User

\* What is not a step of the server leaves it alone.
LEMMA ClientLeaves ==
    ASSUME NEW c \in Clients, Client(c) \/ User(c)
    PROVE  UNCHANGED <<server, conn, name, copies, received>>
BY DEF Client, User, Connect, Ack, SendFile, SendEnd, Enter, NoFile, Quit, Die, Exit, local

\* A connection that the server knows to be broken has brought all it will bring.
LEMMA DeadStep == ASSUME TransferInv, [Next]_vars PROVE DeadInv'
<1> USE DEF TransferInv, TypeOK, DeadInv, Links
<1>1. CASE UNCHANGED vars BY <1>1 DEF vars, network
<1>2. CASE Accept \/ AcceptFails \/ NameEnd \/ CreateFails
  BY <1>2 DEF Accept, AcceptFails, NameEnd, CloseConn, CreateFails, network
<1>3. CASE ReadName
  <2>1. conn \in Clients /\ link[conn] # "dead" BY <1>3 DEF ReadName
  <2>2. QED BY <1>3, <2>1 DEF ReadName, Read
<1>4. CASE Create BY <1>4 DEF Create
<1>5. CASE ReadData
  <2>1. conn \in Clients /\ link[conn] # "dead" BY <1>5 DEF ReadData
  <2>2. QED BY <1>5, <2>1 DEF ReadData, Read
<1>6. CASE DataEnd BY <1>6 DEF DataEnd, AtEnd, CloseConn
<1>7. ASSUME NEW c \in Clients, Client(c) \/ User(c) PROVE DeadInv'
  <2>1. UNCHANGED <<server, conn>> BY <1>7, ClientLeaves
  <2>2. cl[c] \notin {"off", "gone"} <=> link[c] = "open" OBVIOUS
  <2>3. link'[c] # "dead" \/ (link'[c] = link[c] /\ inbox' = inbox)
    BY <1>7, <2>2 DEF Client, User, Connect, Ack, SendFile, SendEnd, Enter, NoFile, Quit, Die, Exit
  <2>4. \A d \in Clients : d # c => link'[d] = link[d] /\ inbox'[d] = inbox[d]
    BY <1>7 DEF Client, User, Connect, Ack, SendFile, SendEnd, Enter, Write, NoFile, Quit, Die, Exit
  <2>5. QED BY <2>1, <2>3, <2>4
<1>8. QED BY <1>1, <1>2, <1>3, <1>4, <1>5, <1>6, <1>7 DEF Next, Server

\* The server works on a file of a name that was entered.
LEMMA NameStep == ASSUME TransferInv, [Next]_vars PROVE NameInv'
<1> USE DEF TransferInv, NameInv
<1>1. CASE UNCHANGED vars BY <1>1 DEF vars, local
<1>2. CASE Accept \/ AcceptFails \/ NameEnd \/ CreateFails \/ Create \/ ReadData \/ DataEnd
  BY <1>2 DEF Accept, AcceptFails, NameEnd, CloseConn, CreateFails, Create, ReadData, DataEnd, local
<1>3. CASE ReadName BY <1>3, NameRead
<1>4. ASSUME NEW c \in Clients, Client(c) \/ User(c) PROVE NameInv'
  BY <1>4, ClientLeaves
<1>5. QED BY <1>1, <1>2, <1>3, <1>4 DEF Next, Server

\* While the copy is created, its client waits for the ACK or has ended.
LEMMA CreateStep == ASSUME TransferInv, [Next]_vars PROVE CreateInv'
<1> USE DEF TransferInv, TypeOK, CreateInv
<1>1. CASE UNCHANGED vars BY <1>1 DEF vars, local, network, clients
<1>2. CASE Accept \/ AcceptFails \/ NameEnd \/ CreateFails \/ Create \/ ReadData \/ DataEnd
  BY <1>2 DEF Accept, AcceptFails, NameEnd, CloseConn, CreateFails, Create, ReadData, DataEnd
<1>3. CASE ReadName BY <1>3, NameRead DEF ReadName, clients
<1>4. ASSUME NEW c \in Clients, Client(c) \/ User(c) PROVE CreateInv'
  <2> SUFFICES ASSUME server' = "create" PROVE CreateInv' OBVIOUS
  <2>1. server = "create" /\ conn' = conn /\ name' = name /\ conn \in Clients BY <1>4, ClientLeaves
  <2>2. Idle(conn) /\ Idle(c) BY <2>1
  <2>3. CASE c # conn
    BY <1>4, <2>1, <2>3 DEF Client, User, Connect, Ack, SendFile, SendEnd, Enter, Write, NoFile, Quit, Die, Exit
  <2>4. CASE c = conn
    BY <1>4, <2>1, <2>2, <2>4
    DEF Idle, Client, User, Connect, Ack, SendFile, SendEnd, Enter, Write, NoFile, Quit, Die, Exit
  <2>5. QED BY <2>3, <2>4
<1>5. QED BY <1>1, <1>2, <1>3, <1>4 DEF Next, Server

-----------------------------------------------------------------------------
(* The transfer.                                                           *)

Stream(sent, a) ==
    /\ a \in Seq(Byte)
    /\ Len(a) <= Len(sent) + 2
    /\ \A k \in 1 .. Len(a) : a[k] \in Due(sent, k)

\* What is written at the end of a stream that was right so far.
LEMMA StreamGrows ==
    ASSUME NEW sent \in Seq(Byte), NEW a, Stream(sent, a), NEW b \in Seq(Byte),
           Len(a) + Len(b) <= Len(sent) + 2,
           \A j \in 1 .. Len(b) : b[j] \in Due(sent, Len(a) + j)
    PROVE  Stream(sent, a \o b)
<1>1. a \in Seq(Byte) /\ Len(a) \in Nat /\ Len(b) \in Nat BY DEF Stream
<1>2. /\ a \o b \in Seq(Byte) /\ Len(a \o b) = Len(a) + Len(b)
      /\ \A k \in 1 .. Len(a) + Len(b) : (a \o b)[k] = IF k <= Len(a) THEN a[k] ELSE b[k - Len(a)]
  BY <1>1, ConcatFacts
<1>3. ASSUME NEW k \in 1 .. Len(a) + Len(b) PROVE (a \o b)[k] \in Due(sent, k)
  <2>1. CASE k <= Len(a)
    <3>1. k \in 1 .. Len(a) BY <1>1, <2>1
    <3>2. (a \o b)[k] = a[k] BY <1>2, <2>1
    <3>3. QED BY <3>1, <3>2 DEF Stream
  <2>2. CASE ~(k <= Len(a))
    <3>1. k - Len(a) \in 1 .. Len(b) /\ Len(a) + (k - Len(a)) = k BY <1>1, <2>2
    <3>2. (a \o b)[k] = b[k - Len(a)] BY <1>2, <2>2
    <3>3. QED BY <3>1, <3>2
  <2>3. QED BY <2>1, <2>2
<1>4. QED BY <1>2, <1>3 DEF Stream

\* The end marker stands in no other place than after the bytes of the file.
LEMMA MarkerPlace ==
    ASSUME NEW f \in Files, NEW a, Stream(Sent(f), a), NEW k \in 1 .. Len(a)
    PROVE  a[k] = NUL <=> k = Len(Sent(f)) + 1
<1> DEFINE sent == Sent(f)
<1>1. sent \in Seq(Nat \ {NUL}) BY SentFacts
<1>2. NUL \notin Files BY TransferAssumption DEF NUL
<1>3. a[k] \in Due(sent, k) /\ k \in Nat /\ k >= 1 BY DEF Stream
<1> HIDE DEF sent
<1>4. CASE k <= Len(sent)
  <2>1. k \in 1 .. Len(sent) BY <1>3, <1>4, <1>1
  <2>2. sent[k] # NUL BY <1>1, <2>1
  <2>3. a[k] = sent[k] BY <1>3, <1>4 DEF Due
  <2>4. k # Len(sent) + 1 BY <1>1, <1>4
  <2>5. QED BY <2>2, <2>3, <2>4 DEF sent
<1>5. CASE ~(k <= Len(sent))
  BY <1>1, <1>2, <1>3, <1>5 DEF Due, sent
<1>6. QED BY <1>4, <1>5

\* The state of a transfer, with the stream as a whole.
LEMMA TransferStream ==
    ASSUME TransferInv, server = "data"
    PROVE  /\ conn \in Clients
           /\ \E f \in Files : name = <<f>>
           /\ name[1] \in Files /\ Sent(name[1]) \in Seq(Byte)
           /\ copies[name] \in Seq(Byte) /\ inbox[conn] \in Seq(Byte)
           /\ Stream(Sent(name[1]), Arrived)
           /\ Len(Arrived) = Len(copies[name]) + Len(inbox[conn])
<1>1. conn \in Clients /\ Transfer BY DEF TransferInv, TypeOK
<1>2. PICK f \in Files : name = <<f>> BY DEF TransferInv
<1>3. name[1] = f BY <1>2
<1>4. Sent(name[1]) \in Seq(Byte) BY <1>3, SentFacts
<1>5. copies[name] \in Seq(Byte) /\ inbox[conn] \in Seq(Byte) BY <1>1 DEF TransferInv, TypeOK, Transfer
<1>6. Arrived \in Seq(Byte) /\ Len(Arrived) = Len(copies[name]) + Len(inbox[conn])
  BY <1>5, ConcatFacts DEF Arrived
<1>7. Stream(Sent(name[1]), Arrived) BY <1>1, <1>6 DEF Stream, Transfer
<1>8. QED BY <1>1, <1>2, <1>3, <1>4, <1>5, <1>6, <1>7

\* A chunk that does not end with the end marker leaves what arrived as it was, or ends
\* the server; the one that does completes the copy, if it can be written.
LEMMA ChunkRead ==
    ASSUME TransferInv, ReadData
    PROVE  \/ /\ server' = "data" /\ Arrived' = Arrived
              /\ copies'[name] \in Seq(Byte) /\ name \in DOMAIN copies'
              /\ Len(copies'[name]) # Len(Sent(name[1])) + 1
           \/ server' = "failed" /\ CannotSave
           \/ /\ server' = "name"
              /\ ~CannotSave => copies'[name] = Sent(name[1])
              /\ Len(Arrived) > Len(Sent(name[1]))
              /\ Len(Arrived) = Len(Sent(name[1])) + 1 => inbox'[conn] = <<>>
              /\ Len(Arrived) = Len(Sent(name[1])) + 2 => inbox'[conn] = <<Arrived[Len(Arrived)]>>
<1> DEFINE sent == Sent(name[1])
           old  == copies[name]
<1>1. server = "data" /\ name' = name /\ conn' = conn BY DEF ReadData
<1>2. /\ conn \in Clients /\ name[1] \in Files /\ sent \in Seq(Byte)
      /\ old \in Seq(Byte) /\ inbox[conn] \in Seq(Byte)
      /\ Stream(sent, Arrived) /\ Arrived \in Seq(Byte)
      /\ Len(Arrived) = Len(old) + Len(inbox[conn])
  BY <1>1, TransferStream DEF Stream
<1>3. name \in DOMAIN copies /\ Len(old) # Len(sent) + 1 BY <1>1 DEF TransferInv, Transfer
<1>4. PICK n \in 1 .. Len(inbox[conn]) :
        /\ inbox' = [inbox EXCEPT ![conn] = SubSeq(@, n + 1, Len(@))]
        /\ copies' = [copies EXCEPT ![name] = @ \o IF CannotSave THEN <<>> ELSE Saved(Bytes(n))]
        /\ server' = IF Last(Bytes(n)) = NUL THEN "name"
                     ELSE IF CannotSave THEN "failed" ELSE server
  BY DEF ReadData, Read
<1>5. /\ ~CannotSave => copies'[name] = old \o Saved(Bytes(n)) 
      /\ name \in DOMAIN copies'
      /\ inbox'[conn] = SubSeq(inbox[conn], n + 1, Len(inbox[conn]))
  BY <1>2, <1>3, <1>4 DEF TransferInv, TypeOK
<1>6. /\ Bytes(n) \in Seq(Byte) /\ Len(Bytes(n)) = n /\ Bytes(n) # <<>>
      /\ \A k \in 1 .. n : Bytes(n)[k] = inbox[conn][k]
  BY <1>2, ChunkFacts DEF TransferInv
<1> HIDE DEF old, sent
<1>7. /\ Len(old) \in Nat /\ Len(sent) \in Nat /\ Len(inbox[conn]) \in Nat
      /\ n \in Nat /\ 1 <= n /\ n <= Len(inbox[conn])
  BY <1>2
<1>8. \A k \in 1 .. Len(old) + Len(inbox[conn]) :
         Arrived[k] = IF k <= Len(old) THEN old[k] ELSE inbox[conn][k - Len(old)]
  BY <1>2, ConcatFacts DEF Arrived, old
<1>9. Last(Bytes(n)) = Arrived[Len(old) + n]
  <2>1. Len(old) + n \in 1 .. Len(old) + Len(inbox[conn]) /\ ~(Len(old) + n <= Len(old))
        /\ (Len(old) + n) - Len(old) = n
    BY <1>7
  <2>2. Arrived[Len(old) + n] = inbox[conn][n] BY <1>8, <2>1
  <2>3. Last(Bytes(n)) = Bytes(n)[n] BY <1>6, SavedFacts
  <2>4. QED BY <1>6, <1>7, <2>2, <2>3
<1>10. Last(Bytes(n)) = NUL <=> Len(old) + n = Len(sent) + 1
  <2>1. Len(old) + n \in 1 .. Len(Arrived) BY <1>2, <1>7
  <2>2. QED BY <1>2, <1>9, <2>1, MarkerPlace DEF sent
<1>11. CASE Last(Bytes(n)) # NUL /\ ~CannotSave
  <2>1. copies'[name] = old \o Bytes(n) BY <1>5, <1>6, <1>11, SavedFacts
  <2>2. copies'[name] \in Seq(Byte) /\ Len(copies'[name]) = Len(old) + n
    <3>1. old \in Seq(Byte) /\ Bytes(n) \in Seq(Byte) BY <1>2, <1>6
    <3>2. old \o Bytes(n) \in Seq(Byte) /\ Len(old \o Bytes(n)) = Len(old) + Len(Bytes(n))
      BY <3>1, ConcatFacts
    <3>3. QED BY <1>6, <2>1, <3>2
  <2>3. Arrived' = (old \o SubSeq(inbox[conn], 1, n)) \o SubSeq(inbox[conn], n + 1, Len(inbox[conn]))
    BY <1>1, <1>5, <2>1 DEF Arrived, Bytes, old
  <2>4. Arrived' = Arrived
    <3>1. n \in 0 .. Len(inbox[conn]) BY <1>7
    <3>2. QED BY <1>2, <2>3, <3>1, Moved DEF Arrived, old
  <2>5. QED BY <1>1, <1>4, <1>5, <1>10, <1>11, <2>2, <2>4 DEF sent
<1>12. CASE Last(Bytes(n)) = NUL
  <2> DEFINE saved == Saved(Bytes(n))
  <2>1. saved \in Seq(Byte) /\ Len(saved) = n - 1 /\ \A k \in 1 .. n - 1 : saved[k] = inbox[conn][k]
    <3>1. saved \in Seq(Byte) /\ Len(saved) = n - 1 /\ \A k \in 1 .. n - 1 : saved[k] = Bytes(n)[k]
      BY <1>6, <1>12, SavedFacts
    <3>2. \A k \in 1 .. n - 1 : k \in 1 .. n BY <1>7
    <3>3. QED BY <1>6, <3>1, <3>2
  <2>2. Len(old) + n = Len(sent) + 1 BY <1>10, <1>12
  <2> HIDE DEF saved
  <2>3. /\ old \o saved \in Seq(Byte) /\ Len(old \o saved) = Len(old) + Len(saved)
        /\ \A k \in 1 .. Len(old) + Len(saved) :
              (old \o saved)[k] = IF k <= Len(old) THEN old[k] ELSE saved[k - Len(old)]
    <3>1. old \in Seq(Byte) /\ saved \in Seq(Byte) BY <1>2, <2>1
    <3>2. QED BY <3>1, ConcatFacts
  <2>4. Len(old) + Len(saved) = Len(sent) BY <1>7, <2>1, <2>2
  <2>5. ASSUME NEW k \in 1 .. Len(sent) PROVE (old \o saved)[k] = sent[k]
    <3>1. k \in 1 .. Len(Arrived) /\ k \in 1 .. Len(old) + Len(inbox[conn]) BY <1>2, <1>7, <2>2
    <3>2. Arrived[k] = sent[k]
      <4>1. Arrived[k] \in Due(sent, k) BY <1>2, <3>1 DEF Stream
      <4>2. QED BY <4>1, <1>7 DEF Due
    <3>3. CASE k <= Len(old)
      <4>1. (old \o saved)[k] = old[k] BY <2>3, <2>4, <3>3
      <4>2. Arrived[k] = old[k] BY <1>8, <3>1, <3>3 DEF old
      <4>3. QED BY <3>2, <4>1, <4>2
    <3>4. CASE ~(k <= Len(old))
      <4>1. k - Len(old) \in 1 .. n - 1 BY <1>7, <2>2, <3>4
      <4>2. (old \o saved)[k] = saved[k - Len(old)] BY <2>3, <2>4, <3>4
      <4>3. Arrived[k] = inbox[conn][k - Len(old)] BY <1>8, <3>1, <3>4
      <4>4. QED BY <2>1, <3>2, <4>1, <4>2, <4>3
    <3>5. QED BY <3>3, <3>4
  <2>6. old \o saved = sent BY <1>2, <2>3, <2>4, <2>5, SeqEqual
  <2>7. Len(Arrived) > Len(sent) BY <1>2, <1>7, <2>2
  <2>8. CASE Len(Arrived) = Len(sent) + 1
    <3>1. n = Len(inbox[conn]) BY <1>2, <1>7, <2>2, <2>8
    <3>2. inbox'[conn] = <<>> BY <1>5, <1>2, <3>1
    <3>3. Len(Arrived) # Len(sent) + 2 BY <1>7, <2>8
    <3>4. QED BY <1>4, <1>5, <1>12, <2>6, <2>7, <3>2, <3>3 DEF sent, old, saved
  <2>9. CASE Len(Arrived) = Len(sent) + 2
    <3>1. Len(inbox[conn]) = n + 1 BY <1>2, <1>7, <2>2, <2>9
    <3>2. inbox'[conn] = <<inbox[conn][n + 1]>>
      <4>1. inbox'[conn] = SubSeq(inbox[conn], n + 1, n + 1) BY <1>5, <3>1
      <4>2. inbox'[conn] \in Seq(Byte) /\ Len(inbox'[conn]) = 1 /\ inbox'[conn][1] = inbox[conn][n + 1]
        <5>1. n + 1 \in Nat \ {0} /\ n + 1 \in 0 .. Len(inbox[conn]) /\ n + 1 <= (n + 1) + 1
              /\ (n + 1) - (n + 1) + 1 = 1 /\ (n + 1) + 1 - 1 = n + 1
          BY <1>7, <3>1
        <5> DEFINE m == n + 1
        <5> HIDE DEF m
        <5>2. m \in Nat \ {0} /\ m \in 0 .. Len(inbox[conn]) /\ m <= m + 1 BY <5>1 DEF m
        <5>3. /\ SubSeq(inbox[conn], m, m) \in Seq(Byte)
              /\ Len(SubSeq(inbox[conn], m, m)) = m - m + 1
              /\ \A k \in 1 .. m - m + 1 : SubSeq(inbox[conn], m, m)[k] = inbox[conn][m + k - 1]
          BY <1>2, <5>2, PartFacts
        <5>4. m - m + 1 = 1 /\ m + 1 - 1 = m BY <5>2
        <5>5. QED BY <4>1, <5>3, <5>4 DEF m
      <4>3. QED BY <4>2
    <3>3. Arrived[Len(Arrived)] = inbox[conn][n + 1]
      <4>1. Len(Arrived) \in 1 .. Len(old) + Len(inbox[conn]) /\ ~(Len(Arrived) <= Len(old))
            /\ Len(Arrived) - Len(old) = n + 1
        BY <1>2, <1>7, <3>1
      <4>2. QED BY <1>8, <4>1
    <3>4. Len(Arrived) # Len(sent) + 1 BY <1>7, <2>9
    <3>5. QED BY <1>4, <1>5, <1>12, <2>6, <2>7, <3>2, <3>3, <3>4 DEF sent, old, saved
  <2>10. Len(Arrived) \in {Len(sent) + 1, Len(sent) + 2}
    <3>1. Len(Arrived) \in Nat /\ Len(Arrived) <= Len(sent) + 2 BY <1>2 DEF Stream
    <3>2. QED BY <1>7, <2>7, <3>1
  <2>11. QED BY <2>8, <2>9, <2>10
<1>13. CASE Last(Bytes(n)) # NUL /\ CannotSave BY <1>4, <1>13
<1>14. QED BY <1>11, <1>12, <1>13

-----------------------------------------------------------------------------
(* What the steps do to a connection between two files, and in one.         *)

LEMMA IdleServer == ASSUME TransferInv, Server PROVE IdleInv'
<1> USE DEF TransferInv, TypeOK, IdleInv
<1>1. CASE Accept BY <1>1 DEF Accept, Idle, clients
<1>2. CASE ReadName
  <2>1. conn \in Clients /\ Idle(conn) /\ server' = "create" /\ conn' = conn BY <1>2, NameRead DEF ReadName
  <2>2. ASSUME NEW c \in Clients, c = conn PROVE Idle(c)'
    BY <1>2, <2>1, <2>2, NameRead DEF Idle, ReadName, clients
  <2>3. ASSUME NEW c \in Clients, c # conn PROVE Idle(c)'
    BY <1>2, <2>1, <2>3, NameRead DEF Idle, ReadName, clients
  <2>4. \A c \in Clients : Idle(c)' BY <2>2, <2>3
  <2>5. QED BY <2>4
<1>3. CASE NameEnd BY <1>3 DEF NameEnd, CloseConn, Idle, network, clients
<1>4. CASE Create
  <2>1. server' \in {"data", "failed"} /\ conn' = conn BY <1>4 DEF Create
  <2>2. ASSUME NEW c \in Clients, c # conn PROVE Idle(c)'
    BY <1>4, <2>2 DEF Create, Idle, clients
  <2>3. QED BY <2>1, <2>2
<1>5. CASE CreateFails BY <1>5 DEF CreateFails
<1>6. CASE ReadData
  <2>1. server = "data" /\ conn \in Clients /\ Transfer BY <1>6 DEF ReadData
  <2>2. ASSUME NEW c \in Clients, c # conn PROVE Idle(c)'
    BY <1>6, <2>1, <2>2 DEF ReadData, Read, Idle, clients
  <2>3. CASE server' = "data" BY <1>6, <2>2, <2>3 DEF ReadData
  <2>4. CASE server' \notin {"data", "failed"}
    <3> DEFINE sent == Sent(name[1])
               all  == Len(Arrived)
    <3>1. /\ all > Len(sent)
          /\ all = Len(sent) + 1 => inbox'[conn] = <<>>
          /\ all = Len(sent) + 2 => inbox'[conn] = <<Arrived[all]>>
          /\ server' = "name"
      BY <1>6, <2>4, ChunkRead
    <3>2. sent \in Seq(Byte) /\ Stream(sent, Arrived) /\ Arrived \in Seq(Byte)
      BY <2>1, TransferStream DEF Stream
    <3>3. Len(sent) \in Nat /\ all \in Nat /\ all <= Len(sent) + 2 BY <3>2 DEF Stream
    <3>4. all = Len(sent) + 2 => Arrived[all] \in Files
      <4>1. SUFFICES ASSUME all = Len(sent) + 2 PROVE Arrived[all] \in Files OBVIOUS
      <4>2. Arrived[all] \in Due(sent, all) BY <3>2, <3>3, <4>1 DEF Stream
      <4>3. ~(all <= Len(sent)) /\ all # Len(sent) + 1 BY <3>3, <4>1
      <4>4. QED BY <4>2, <4>3 DEF Due
    <3>5. /\ cl[conn] # "off"
          /\ cl[conn] = "send" => all = 0
          /\ cl[conn] = "end" => all = Len(sent)
          /\ cl[conn] = "prompt" => all = Len(sent) + 1
          /\ cl[conn] = "ack" /\ ~acked[conn] => all = Len(sent) + 2 /\ Arrived[all] = file[conn]
          /\ acked[conn] /\ cl[conn] # "gone" => cl[conn] = "ack" /\ all = 0
          /\ link[conn] = "rst" => all = 0
      BY <2>1 DEF Transfer
    <3> HIDE DEF sent, all
    <3>6. all \in {Len(sent) + 1, Len(sent) + 2} /\ all # 0 BY <3>1, <3>3
    <3>7. cl[conn] \in {"prompt", "ack", "gone"} BY <2>1, <3>1, <3>3, <3>5
    <3>8. inbox'[conn] \in {<<>>} \cup {<<g>> : g \in Files} BY <3>1, <3>4, <3>6
    <3>9. cl[conn] # "gone" => ~acked[conn] BY <3>5, <3>6
    <3>10. cl[conn] = "prompt" => inbox'[conn] = <<>> BY <3>1, <3>5
    <3>11. cl[conn] = "ack" => inbox'[conn] = <<file[conn]>> BY <3>1, <3>5, <3>9
    <3>12. UNCHANGED <<cl, acked, link, file, conn>> BY <1>6 DEF ReadData, clients
    <3>13. ASSUME NEW c \in Clients, c = conn PROVE Idle(c)'
      BY <3>5, <3>6, <3>7, <3>8, <3>9, <3>10, <3>11, <3>12, <3>13 DEF Idle
    <3>14. \A c \in Clients : Idle(c)' BY <2>2, <3>13
    <3>15. QED BY <3>14
  <2>5. QED BY <2>3, <2>4
<1>7. CASE DataEnd
  <2>1. server = "data" /\ conn \in Clients /\ Transfer BY <1>7 DEF DataEnd
  <2>2. cl[conn] = "gone" BY <1>7, <2>1 DEF DataEnd, AtEnd, Transfer
  <2>3. ASSUME NEW c \in Clients PROVE Idle(c)'
    BY <1>7, <2>1, <2>2, <2>3 DEF DataEnd, AtEnd, Idle, clients
  <2>4. QED BY <2>3
<1>8. QED BY <1>1, <1>2, <1>3, <1>4, <1>5, <1>6, <1>7 DEF Server

LEMMA IdleClient ==
    ASSUME TransferInv, NEW c \in Clients, Client(c) \/ User(c)
    PROVE  IdleInv'
<1> USE DEF TransferInv, TypeOK, IdleInv
<1>1. UNCHANGED <<server, conn>> BY ClientLeaves
<1>2. SUFFICES ASSUME server # "failed", NEW d \in Clients, ~(server = "data" /\ d = conn)
               PROVE  Idle(d)'
  BY <1>1
<1>3. Idle(d) BY <1>2
<1>4. CASE d # c
  BY <1>1, <1>2, <1>3, <1>4
  DEF Idle, Client, User, Connect, Ack, SendFile, SendEnd, Enter, Write, NoFile, Quit, Die, Exit
<1>5. CASE d = c
  <2>1. CASE Connect(c) BY <1>1, <1>3, <1>5, <2>1 DEF Idle, Connect
  <2>2. ASSUME NEW f \in Files, Enter(c, f) PROVE Idle(c)'
    <3>1. inbox[c] = <<>> BY <1>3, <1>5, <2>2 DEF Idle, Enter
    <3>2. inbox'[c] = <<f>>
      <4>1. inbox'[c] = <<>> \o <<f>> BY <1>2, <2>2, <3>1 DEF Enter, Write
      <4>2. QED BY <4>1
    <3>3. QED BY <1>3, <1>5, <2>2, <3>2 DEF Idle, Enter
  <2>3. ~Ack(c) /\ ~SendFile(c) /\ ~SendEnd(c) /\ ~NoFile(c)
    BY <1>2, <1>3, <1>5 DEF Idle, Ack, SendFile, SendEnd, NoFile
  <2>4. CASE Quit(c) BY <1>1, <1>3, <1>5, <2>4 DEF Idle, Quit, Exit
  <2>5. CASE Die(c) BY <1>1, <1>3, <1>5, <2>5 DEF Idle, Die, Exit
  <2>6. QED BY <1>5, <2>1, <2>2, <2>3, <2>4, <2>5 DEF Client, User
<1>6. QED BY <1>4, <1>5

LEMMA DataServer == ASSUME TransferInv, Server PROVE DataInv'
<1> USE DEF DataInv
<1>1. CASE Accept \/ ReadName \/ NameEnd \/ CreateFails \/ DataEnd
  BY <1>1 DEF Accept, ReadName, NameEnd, CreateFails, DataEnd, CloseConn, AtEnd
<1>2. CASE Create
  <2> SUFFICES ASSUME server' = "data" PROVE Transfer' OBVIOUS
  <2>1. /\ server = "create" /\ conn \in Clients /\ name' = name /\ conn' = conn
        /\ inbox' = inbox /\ inbox[conn] = <<>> /\ name \in DOMAIN copies' /\ copies'[name] = <<>>
        /\ UNCHANGED <<cl, file>>
        /\ acked'[conn] = (link[conn] = "open")
        /\ link'[conn] = IF link[conn] = "fin" THEN "dead" ELSE link[conn]
    BY <1>2 DEF Create, TransferInv, TypeOK, clients
  <2>2. /\ cl[conn] = "gone" \/ (cl[conn] = "ack" /\ name = <<file[conn]>>)
        /\ cl[conn] # "gone" => link[conn] = "open"
        /\ link[conn] # "rst"
    BY <2>1 DEF TransferInv, Idle
  <2>3. \E f \in Files : name = <<f>> BY <2>1 DEF TransferInv
  <2>4. Sent(name[1]) \in Seq(Byte) BY <2>3, SentFacts
  <2>5. Arrived' = <<>> BY <2>1 DEF Arrived
  <2> DEFINE sent == Sent(name[1])
             arr  == Arrived'
  <2>6. Len(sent) \in Nat /\ Len(arr) = 0 BY <2>4, <2>5
  <2>7. (Sent(name[1]))' = sent BY <2>1 DEF Sent
  <2>8. /\ name \in DOMAIN copies' /\ Len(copies'[name]) # Len(sent) + 1
        /\ Len(arr) <= Len(sent) + 2
        /\ \A k \in 1 .. Len(arr) : arr[k] \in Due(sent, k)
    BY <2>1, <2>6
  <2> HIDE DEF sent, arr
  <2>9. QED BY <2>1, <2>2, <2>6, <2>7, <2>8 DEF Transfer, arr
<1>3. CASE ReadData
  <2>1. /\ server = "data" /\ conn \in Clients /\ Transfer
        /\ UNCHANGED <<conn, name, link, acked, cl, file>>
    BY <1>3 DEF ReadData, TransferInv, TypeOK, clients
  <2>2. SUFFICES ASSUME server' = "data" PROVE Transfer' OBVIOUS
  <2>3. /\ Arrived' = Arrived
        /\ name \in DOMAIN copies'
        /\ Len(copies'[name]) # Len(Sent(name[1])) + 1
    BY <1>3, <2>2, ChunkRead
  <2>4. (Sent(name[1]))' = Sent(name[1]) BY <2>1 DEF Sent
  <2>5. QED BY <2>1, <2>3, <2>4 DEF Transfer
<1>4. QED BY <1>1, <1>2, <1>3 DEF Server

\* What the client of the transfer writes comes at the end of the stream.
LEMMA DataWritten ==
    ASSUME TransferInv, server = "data", UNCHANGED <<server, conn, name, copies>>,
           NEW bytes \in Seq(Byte), Write(conn, bytes)
    PROVE  /\ Arrived' = Arrived \o bytes
           /\ Len(Arrived') = Len(Arrived) + Len(bytes)
           /\ Len(bytes) = 1 => Arrived'[Len(Arrived')] = bytes[1]
<1>1. /\ conn \in Clients /\ copies[name] \in Seq(Byte) /\ inbox[conn] \in Seq(Byte)
      /\ Arrived \in Seq(Byte)
  BY TransferStream DEF Stream
<1>2. inbox'[conn] = inbox[conn] \o bytes BY <1>1 DEF Write, TransferInv, TypeOK
<1>3. Arrived' = Arrived \o bytes
  <2>1. Arrived' = copies[name] \o (inbox[conn] \o bytes) BY <1>2 DEF Arrived
  <2>2. copies[name] \o (inbox[conn] \o bytes) = (copies[name] \o inbox[conn]) \o bytes
    <3> DEFINE x == copies[name]
               y == inbox[conn]
    <3>1. x \in Seq(Byte) /\ y \in Seq(Byte) BY <1>1
    <3> HIDE DEF x, y
    <3>2. (x \o y) \o bytes = x \o (y \o bytes) BY <3>1, Associative
    <3>3. QED BY <3>2 DEF x, y
  <2>3. QED BY <2>1, <2>2 DEF Arrived
<1> HIDE DEF Arrived
<1>4. /\ Len(Arrived \o bytes) = Len(Arrived) + Len(bytes)
      /\ \A k \in 1 .. Len(Arrived) + Len(bytes) :
            (Arrived \o bytes)[k] = IF k <= Len(Arrived) THEN Arrived[k] ELSE bytes[k - Len(Arrived)]
  BY <1>1, ConcatFacts
<1>5. ASSUME Len(bytes) = 1 PROVE (Arrived \o bytes)[Len(Arrived) + 1] = bytes[1]
  <2>1. Len(Arrived) \in Nat BY <1>1
  <2>2. /\ Len(Arrived) + 1 \in 1 .. Len(Arrived) + Len(bytes) /\ ~(Len(Arrived) + 1 <= Len(Arrived))
        /\ (Len(Arrived) + 1) - Len(Arrived) = 1
    BY <1>5, <2>1
  <2>3. QED BY <1>4, <2>2
<1>6. QED BY <1>3, <1>4, <1>5

LEMMA DataClient ==
    ASSUME TransferInv, NEW c \in Clients, Client(c) \/ User(c)
    PROVE  DataInv'
<1>1. UNCHANGED <<server, conn, name, copies, received>> BY ClientLeaves
<1>2. SUFFICES ASSUME server = "data" PROVE Transfer' BY <1>1 DEF DataInv
<1>3. conn \in Clients /\ Transfer BY <1>2 DEF TransferInv, TypeOK
<1>4. (Sent(name[1]))' = Sent(name[1]) BY <1>1 DEF Sent
<1>5. CASE c # conn
  <2>1. /\ inbox'[conn] = inbox[conn] /\ cl'[conn] = cl[conn] /\ acked'[conn] = acked[conn]
        /\ file'[conn] = file[conn] /\ link'[conn] = link[conn]
    BY <1>3, <1>5
    DEF TransferInv, TypeOK, Client, User, Connect, Ack, SendFile, SendEnd, Enter, Write, NoFile, Quit, Die, Exit
  <2>2. Arrived' = Arrived BY <1>1, <2>1 DEF Arrived
  <2>3. QED BY <1>1, <1>3, <1>4, <2>1, <2>2 DEF Transfer
<1>6. CASE c = conn
  <2> DEFINE sent == Sent(name[1])
             all  == Len(Arrived)
             next == Len(Arrived')
  <2>1. /\ name[1] \in Files /\ name = <<name[1]>>
        /\ sent \in Seq(Byte) /\ Arrived \in Seq(Byte) /\ Stream(sent, Arrived)
    <3>1. /\ \E f \in Files : name = <<f>>
          /\ name[1] \in Files /\ sent \in Seq(Byte) /\ Stream(sent, Arrived)
      BY <1>2, TransferStream
    <3>2. Arrived \in Seq(Byte) BY <3>1 DEF Stream
    <3>3. name = <<name[1]>> BY <3>1
    <3>4. QED BY <3>1, <3>2, <3>3
  <2>2. Len(sent) \in Nat /\ all \in Nat BY <2>1
  <2>3. /\ name \in DOMAIN copies'
        /\ Len(copies'[name]) # Len(sent) + 1
        /\ cl[conn] # "off"
        /\ cl[conn] = "send" => all = 0
        /\ cl[conn] = "end" => all = Len(sent)
        /\ cl[conn] = "prompt" => all = Len(sent) + 1
        /\ cl[conn] \in {"ack", "send", "end"} /\ all <= Len(sent) => name = <<file[conn]>>
        /\ acked[conn] /\ cl[conn] # "gone" => cl[conn] = "ack" /\ all = 0
        /\ link[conn] = "rst" => all = 0
    BY <1>1, <1>3 DEF Transfer
  <2>4. cl[conn] # "gone" => link[conn] = "open" BY <1>3, <2>3 DEF TransferInv
  \* The parts of the goal that are about the stream, and the others.
  <2>5. ASSUME Stream(sent, Arrived'),
               cl'[conn] # "off",
               cl'[conn] = "send" => next = 0,
               cl'[conn] = "end" => next = Len(sent),
               cl'[conn] = "prompt" => next = Len(sent) + 1,
               cl'[conn] = "ack" /\ ~acked'[conn] => next = Len(sent) + 2 /\ Arrived'[next] = file'[conn],
               cl'[conn] \in {"ack", "send", "end"} /\ next <= Len(sent) => name = <<file'[conn]>>,
               acked'[conn] /\ cl'[conn] # "gone" => cl'[conn] = "ack" /\ next = 0,
               link'[conn] = "rst" => next = 0
        PROVE  Transfer'
    <3> DEFINE arr == Arrived'
    <3>1. next = Len(arr) OBVIOUS
    <3>2. /\ arr \in Seq(Byte) /\ Len(arr) <= Len(sent) + 2
          /\ \A k \in 1 .. Len(arr) : arr[k] \in Due(sent, k)
      BY <2>5 DEF Stream
    <3> HIDE DEF arr, sent
    <3>3. QED BY <1>1, <1>4, <2>3, <2>5, <3>1, <3>2 DEF Transfer, arr, sent
  <2>6. ~Connect(c) BY <1>6, <2>3 DEF Connect
  <2>7. ASSUME NEW f \in Files, Enter(c, f) PROVE Transfer'
    <3>1. cl[conn] = "prompt" /\ all = Len(sent) + 1 /\ ~acked[conn] /\ link[conn] = "open"
      BY <1>6, <2>3, <2>4, <2>7 DEF Enter
    <3>2. Write(conn, <<f>>) /\ <<f>> \in Seq(Byte) /\ Len(<<f>>) = 1 BY <1>6, <2>7 DEF Enter, Byte
    <3>3. Arrived' = Arrived \o <<f>> /\ next = all + 1 /\ Arrived'[next] = f
      BY <1>1, <1>2, <3>2, DataWritten
    <3>4. Stream(sent, Arrived')
      <4>1. all + Len(<<f>>) <= Len(sent) + 2 BY <2>2, <3>1, <3>2
      <4>2. \A j \in 1 .. Len(<<f>>) : <<f>>[j] \in Due(sent, all + j)
        BY <2>2, <3>1, <3>2 DEF Due
      <4>3. QED BY <2>1, <3>2, <3>3, <4>1, <4>2, StreamGrows
    <3>5. /\ cl'[conn] = "ack" /\ file'[conn] = f /\ acked'[conn] = acked[conn] /\ link'[conn] = link[conn]
      BY <1>3, <1>6, <2>7 DEF Enter, TransferInv, TypeOK
    <3> HIDE DEF sent, all, next
    <3>6. next = Len(sent) + 2 /\ ~(next <= Len(sent)) BY <2>2, <3>1, <3>3
    <3>7. QED BY <2>5, <3>1, <3>3, <3>4, <3>5, <3>6
  <2>8. CASE Ack(c)
    <3>1. acked[conn] /\ all = 0 /\ name = <<file[conn]>> /\ link[conn] = "open"
      BY <1>2, <1>6, <2>2, <2>3, <2>4, <2>8 DEF Ack
    <3>2. /\ cl'[conn] = "send" /\ ~acked'[conn] /\ file'[conn] = file[conn] /\ link'[conn] = link[conn]
          /\ inbox' = inbox
      BY <1>3, <1>6, <2>8 DEF Ack, TransferInv, TypeOK
    <3>3. Arrived' = Arrived BY <1>1, <3>2 DEF Arrived
    <3>4. QED BY <2>1, <2>5, <3>1, <3>2, <3>3
  <2>9. CASE SendFile(c)
    <3>1. cl[conn] = "send" /\ all = 0 /\ ~acked[conn] /\ link[conn] = "open" /\ name = <<file[conn]>>
      BY <1>6, <2>2, <2>3, <2>4, <2>9 DEF SendFile
    <3>2. Write(conn, sent) BY <1>6, <2>9, <3>1 DEF SendFile
    <3>3. Arrived' = Arrived \o sent /\ next = Len(sent)
      BY <1>1, <1>2, <2>1, <2>2, <3>1, <3>2, DataWritten
    <3>4. Stream(sent, Arrived')
      <4>1. \A j \in 1 .. Len(sent) : sent[j] \in Due(sent, all + j) BY <2>2, <3>1 DEF Due
      <4>2. all + Len(sent) <= Len(sent) + 2 BY <2>2, <3>1
      <4>3. QED BY <2>1, <3>3, <4>1, <4>2, StreamGrows
    <3>5. cl'[conn] = "end" /\ UNCHANGED <<file, acked, link>>
      BY <1>3, <1>6, <2>9 DEF SendFile, TransferInv, TypeOK
    <3> HIDE DEF sent, all, next
    <3>6. QED BY <2>5, <3>1, <3>3, <3>4, <3>5
  <2>10. CASE SendEnd(c)
    <3>1. cl[conn] = "end" /\ all = Len(sent) /\ ~acked[conn] /\ link[conn] = "open"
      BY <1>6, <2>3, <2>4, <2>10 DEF SendEnd
    <3>2. Write(conn, <<NUL>>) /\ <<NUL>> \in Seq(Byte) /\ Len(<<NUL>>) = 1
      BY <1>6, <2>10 DEF SendEnd, EndMarker, NUL, Byte
    <3>3. Arrived' = Arrived \o <<NUL>> /\ next = all + 1 BY <1>1, <1>2, <3>2, DataWritten
    <3>4. Stream(sent, Arrived')
      <4>1. all + Len(<<NUL>>) <= Len(sent) + 2 BY <2>2, <3>1, <3>2
      <4>2. \A j \in 1 .. Len(<<NUL>>) : <<NUL>>[j] \in Due(sent, all + j)
        BY <2>2, <3>1, <3>2 DEF Due
      <4>3. QED BY <2>1, <3>2, <3>3, <4>1, <4>2, StreamGrows
    <3>5. cl'[conn] = "prompt" /\ UNCHANGED <<file, acked, link>>
      BY <1>3, <1>6, <2>10 DEF SendEnd, TransferInv, TypeOK
    <3> HIDE DEF sent, all, next
    <3>6. QED BY <2>2, <2>5, <3>1, <3>3, <3>4, <3>5
  \* The client ends; a reset is to come only if it has not read the ACK.
  <2>11. ASSUME Exit(c), cl[conn] # "gone", Stream(sent, Arrived'),
                acked[conn] => next = all
         PROVE  Transfer'
    <3>1. /\ cl'[conn] = "gone"
          /\ link'[conn] = "rst" => acked[conn]
      BY <1>3, <1>6, <2>4, <2>11 DEF Exit, TransferInv, TypeOK
    <3> HIDE DEF sent, all, next
    <3>2. QED BY <2>3, <2>5, <2>11, <3>1
  <2>12. inbox' = inbox => Arrived' = Arrived BY <1>1 DEF Arrived
  <2>13. CASE NoFile(c) \/ Quit(c)
    BY <1>6, <2>1, <2>11, <2>12, <2>13 DEF NoFile, Quit
  <2>14. CASE Die(c) /\ inbox' = inbox
    BY <1>6, <2>1, <2>11, <2>12, <2>14 DEF Die
  <2>15. CASE Die(c) /\ inbox' # inbox
    <3>1. /\ cl[conn] = "send" /\ all = 0 /\ ~acked[conn] /\ name = <<file[conn]>>
          /\ \E k \in 1 .. Len(sent) : Write(conn, SubSeq(sent, 1, k))
      <4>1. cl[conn] = "send" BY <1>6, <2>15 DEF Die
      <4>2. all = 0 /\ ~acked[conn] /\ name = <<file[conn]>> BY <2>2, <2>3, <4>1
      <4>3. Sent(file[conn]) = sent BY <4>2
      <4>4. QED BY <1>6, <2>15, <4>1, <4>2, <4>3 DEF Die
    <3>2. PICK k \in 1 .. Len(sent) : Write(conn, SubSeq(sent, 1, k)) BY <3>1
    <3> DEFINE part == SubSeq(sent, 1, k)
    <3>3. part \in Seq(Byte) /\ Len(part) = k /\ \A j \in 1 .. k : part[j] = sent[j]
      BY <2>1, PartFacts
    <3>4. Write(conn, part) BY <3>2
    <3> HIDE DEF part
    <3>5. Arrived' = Arrived \o part BY <1>1, <1>2, <3>3, <3>4, DataWritten
    <3>6. Stream(sent, Arrived')
      <4>1. \A j \in 1 .. Len(part) : part[j] \in Due(sent, all + j) BY <2>2, <3>1, <3>3 DEF Due
      <4>2. all + Len(part) <= Len(sent) + 2 BY <2>2, <3>1, <3>3
      <4>3. QED BY <2>1, <3>3, <3>5, <4>1, <4>2, StreamGrows
    <3>7. QED BY <1>6, <2>11, <2>15, <3>1, <3>6 DEF Die
  <2>16. QED BY <2>6, <2>7, <2>8, <2>9, <2>10, <2>13, <2>14, <2>15 DEF Client, User
<1>7. QED BY <1>5, <1>6

-----------------------------------------------------------------------------

LEMMA InitInv == Init => TransferInv
<1> SUFFICES ASSUME Init PROVE TransferInv OBVIOUS
<1>1. TypeOK
  <2>1. <<>> \in Seq(Clients) /\ <<>> \in Seq(Byte) OBVIOUS
  <2>2. \A n \in DOMAIN copies : n \in Seq(Byte) /\ copies[n] \in Seq(Byte) BY DEF Init
  <2>3. 0 \in 0 .. Rounds BY TransferAssumption
  <2>4. QED BY <2>1, <2>2, <2>3 DEF Init, TypeOK, Links
<1>2. OpenInv /\ DeadInv /\ NameInv /\ CreateInv /\ DataInv
  BY DEF Init, OpenInv, DeadInv, NameInv, CreateInv, DataInv
<1>3. IdleInv BY DEF Init, IdleInv, Idle
<1>4. QED BY <1>1, <1>2, <1>3, InvParts

LEMMA StutterInv == ASSUME TransferInv, UNCHANGED vars PROVE TypeOK' /\ DataInv' /\ IdleInv'
<1>1. TypeOK' BY DEF TransferInv, TypeOK, vars, local, network, clients
<1>2. DataInv'
  <2>1. (Sent(name[1]))' = Sent(name[1]) /\ Arrived' = Arrived
    BY DEF vars, local, network, Sent, Arrived
  <2>2. QED BY <2>1 DEF TransferInv, DataInv, Transfer, vars, local, network, clients
<1>3. IdleInv' BY DEF TransferInv, IdleInv, Idle, vars, local, network, clients
<1>4. QED BY <1>1, <1>2, <1>3

LEMMA InvStep == TransferInv /\ [Next]_vars => TransferInv'
<1> SUFFICES ASSUME TransferInv, [Next]_vars PROVE TransferInv' OBVIOUS
<1>1. OpenInv' /\ DeadInv' /\ NameInv' /\ CreateInv' BY OpenStep, DeadStep, NameStep, CreateStep
<1>2. ASSUME UNCHANGED vars PROVE TypeOK' /\ DataInv' /\ IdleInv' BY <1>2, StutterInv
<1>3. ASSUME Server PROVE TypeOK' /\ DataInv' /\ IdleInv'
  BY <1>3, TypeServer, DataServer, IdleServer
<1>4. ASSUME NEW c \in Clients, Client(c) \/ User(c) PROVE TypeOK' /\ DataInv' /\ IdleInv'
  BY <1>4, TypeClient, DataClient, IdleClient
<1>5. ASSUME AcceptFails PROVE TypeOK' /\ DataInv' /\ IdleInv'
  BY <1>5 DEF AcceptFails, TransferInv, TypeOK, DataInv, IdleInv, local, network, clients
<1>6. TypeOK' /\ DataInv' /\ IdleInv' BY <1>2, <1>3, <1>4, <1>5 DEF Next
<1>7. TransferInv' <=> TypeOK' /\ OpenInv' /\ DeadInv' /\ NameInv' /\ CreateInv' /\ DataInv' /\ IdleInv'
  BY DEF TransferInv, OpenInv, DeadInv, NameInv, CreateInv, DataInv, IdleInv
<1>8. QED BY <1>1, <1>6, <1>7

\* server.c, main: between two files nothing but a name is on the way, so that what
\* read returns for a name is the name; and in a file what comes is its bytes, the
\* end marker and the next name, wherever the reads cut the stream.
THEOREM Synchronised == Spec => []TransferInv
<1>1. Init => TransferInv BY InitInv
<1>2. TransferInv /\ [Next]_vars => TransferInv' BY InvStep
<1>3. QED BY <1>1, <1>2, PTL DEF Spec

\* server.c, main: no way in which a client ends makes the server exit, at any of its
\* reads and writes on the connection: it exits when accept fails, and on a copy that
\* it cannot open or cannot write.
THEOREM OnlyFilesFail == Spec => FailsOnlyOnFiles
<1> DEFINE Why == \/ server = "accept"
                  \/ server = "create" /\ CannotCreate
                  \/ server = "data" /\ CannotSave
<1>1. TransferInv /\ [Next]_vars => [server # "failed" /\ server' = "failed" => Why]_vars
  <2> SUFFICES ASSUME TransferInv, Next, server # "failed", server' = "failed" PROVE Why
    OBVIOUS
  <2>1. CASE Accept \/ ReadName \/ DataEnd
    BY <2>1 DEF Accept, ReadName, DataEnd, CloseConn
  <2>2. CASE AcceptFails BY <2>2 DEF AcceptFails
  <2>3. CASE NameEnd
    <3>1. server = "name" /\ conn \in Clients BY <2>3 DEF NameEnd, TransferInv, TypeOK
    <3>2. link[conn] # "rst" BY <3>1 DEF TransferInv, Idle
    <3>3. QED BY <2>3, <3>2 DEF NameEnd, CloseConn
  <2>4. CASE Create
    <3>1. server = "create" /\ conn \in Clients BY <2>4 DEF Create, TransferInv, TypeOK
    <3>2. link[conn] \notin {"rst", "dead"} BY <3>1 DEF TransferInv, Idle
    <3>3. QED BY <2>4, <3>2 DEF Create
  <2>5. CASE CreateFails BY <2>5 DEF CreateFails
  <2>6. CASE ReadData
    <3>1. server = "data" /\ CannotSave BY <2>6, ChunkRead DEF ReadData
    <3>2. QED BY <3>1
  <2>7. ASSUME NEW c \in Clients, Client(c) \/ User(c) PROVE FALSE BY <2>7, ClientLeaves
  <2>8. QED BY <2>1, <2>2, <2>3, <2>4, <2>5, <2>6, <2>7 DEF Next, Server
<1>2. QED BY <1>1, Synchronised, PTL DEF Spec, FailsOnlyOnFiles

\* The end of a connection: the copy is all that has arrived.
LEMMA PartCopy ==
    ASSUME TransferInv, DataEnd
    PROVE  LET copy == copies'[name]
               sent == Sent(name[1])
           IN  IsPrefix(copy, sent) \/ NUL \in Range(copy)
<1> DEFINE copy == copies[name]
           sent == Sent(name[1])
<1>1. copies' = copies /\ server = "data" /\ inbox[conn] = <<>> BY DEF DataEnd, AtEnd, local
<1>2. /\ name[1] \in Files /\ sent \in Seq(Byte) /\ copy \in Seq(Byte) /\ Stream(sent, Arrived)
      /\ Len(Arrived) = Len(copy) + Len(inbox[conn])
  BY <1>1, TransferStream
<1>3. Arrived = copy BY <1>1, <1>2 DEF Arrived
<1>4. Len(copy) \in Nat /\ Len(sent) \in Nat /\ Len(copy) <= Len(sent) + 2 /\ Len(copy) # Len(sent) + 1
  <2>1. Len(copy) # Len(sent) + 1 BY <1>1 DEF TransferInv, Transfer
  <2> HIDE DEF copy, sent
  <2>2. Len(copy) <= Len(sent) + 2 BY <1>2, <1>3 DEF Stream
  <2>3. QED BY <1>2, <2>1, <2>2
<1>5. Stream(sent, copy) BY <1>2, <1>3
<1> HIDE DEF copy
<1>6. CASE Len(copy) <= Len(sent)
  <2>1. \A k \in 1 .. Len(copy) : copy[k] = sent[k]
    <3>1. \A k \in 1 .. Len(copy) : copy[k] \in Due(sent, k) BY <1>5 DEF Stream
    <3>2. \A k \in 1 .. Len(copy) : k <= Len(sent) BY <1>4, <1>6
    <3>3. QED BY <3>1, <3>2 DEF Due
  <2> HIDE DEF sent
  <2>2. /\ SubSeq(copy, 1, Len(copy)) \in Seq(Byte) /\ Len(SubSeq(copy, 1, Len(copy))) = Len(copy)
        /\ \A k \in 1 .. Len(copy) : SubSeq(copy, 1, Len(copy))[k] = copy[k]
    <3>1. Len(copy) \in 0 .. Len(copy) BY <1>4
    <3>2. QED BY <1>2, <1>4, <3>1, PartFacts
  <2>3. /\ SubSeq(sent, 1, Len(copy)) \in Seq(Byte) /\ Len(SubSeq(sent, 1, Len(copy))) = Len(copy)
        /\ \A k \in 1 .. Len(copy) : SubSeq(sent, 1, Len(copy))[k] = sent[k]
    <3>1. Len(copy) \in 0 .. Len(sent) BY <1>4, <1>6
    <3>2. QED BY <1>2, <1>4, <3>1, PartFacts
  <2>4. SubSeq(copy, 1, Len(copy)) = SubSeq(sent, 1, Len(copy))
    BY <2>1, <2>2, <2>3, SeqEqual
  <2>5. IsPrefix(copy, sent) BY <1>6, <2>4 DEF IsPrefix
  <2>6. QED BY <1>1, <2>5 DEF copy, sent
<1>7. CASE ~(Len(copy) <= Len(sent))
  <2>1. Len(sent) + 1 \in 1 .. Len(copy) BY <1>4, <1>7
  <2>2. copy[Len(sent) + 1] = NUL BY <1>2, <1>5, <2>1, MarkerPlace
  <2>3. Len(sent) + 1 \in DOMAIN copy BY <1>2, <2>1
  <2>4. NUL \in Range(copy) BY <2>2, <2>3 DEF Range
  <2>5. QED BY <1>1, <2>4 DEF copy
<1>8. QED BY <1>6, <1>7

\* server.c, "Receive data and save data": a copy that can be written and is complete
\* is what the client sent of the file, wherever reads and writes cut the stream.
THEOREM CopyIsExact == Spec => CopyExact
<1> DEFINE Exact == LET copy == copies'[name]
                        sent == Sent(name[1])
                    IN  IF inbox' # inbox THEN copy = sent
                        ELSE IsPrefix(copy, sent) \/ NUL \in Range(copy)
<1>1. TransferInv /\ [Next]_vars => [server = "data" /\ server' # "data" /\ ~CannotSave => Exact]_vars
  <2> SUFFICES ASSUME TransferInv, Next, server = "data", server' # "data", ~CannotSave PROVE Exact
    OBVIOUS
  <2>1. CASE Accept \/ AcceptFails \/ ReadName \/ Create \/ NameEnd \/ CreateFails
    BY <2>1 DEF Accept, AcceptFails, ReadName, Create, NameEnd, CreateFails
  <2>2. CASE ReadData
    <3>1. copies'[name] = Sent(name[1]) BY <2>2, ChunkRead
    <3>2. inbox' # inbox
      <4>1. PICK n \in 1 .. Len(inbox[conn]) : Read(n) BY <2>2 DEF ReadData
      <4>2. conn \in Clients /\ inbox[conn] \in Seq(Byte) BY <2>2, TransferStream DEF ReadData
      <4>3. inbox'[conn] = SubSeq(inbox[conn], n + 1, Len(inbox[conn]))
        BY <4>1, <4>2 DEF Read, TransferInv, TypeOK
      <4>4. Len(SubSeq(inbox[conn], n + 1, Len(inbox[conn]))) = Len(inbox[conn]) - (n + 1) + 1
        <5>1. /\ n + 1 \in Nat \ {0} /\ Len(inbox[conn]) \in 0 .. Len(inbox[conn])
              /\ n + 1 <= Len(inbox[conn]) + 1
          BY <4>2
        <5>2. QED BY <4>2, <5>1, PartFacts
      <4>5. Len(inbox[conn]) \in Nat /\ Len(inbox[conn]) - (n + 1) + 1 # Len(inbox[conn]) BY <4>2
      <4>6. QED BY <4>3, <4>4, <4>5
    <3>3. QED BY <3>1, <3>2
  <2>3. CASE DataEnd
    <3>1. inbox' = inbox BY <2>3 DEF DataEnd
    <3>2. QED BY <2>3, <3>1, PartCopy
  <2>4. ASSUME NEW c \in Clients, Client(c) \/ User(c) PROVE FALSE BY <2>4, ClientLeaves
  <2>5. QED BY <2>1, <2>2, <2>3, <2>4 DEF Next, Server
<1>2. QED BY <1>1, Synchronised, PTL DEF Spec, CopyExact
=============================================================================
