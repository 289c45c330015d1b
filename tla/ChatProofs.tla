----------------------------- MODULE ChatProofs -----------------------------
(***************************************************************************)
(* What is proved of the chat of week13 for any number of clients and any  *)
(* size of the buffers: the count of users, that only a client that has    *)
(* gone can end the server, and that the chat implements the room.         *)
(***************************************************************************)
EXTENDS Chat, WellFoundedInduction, FiniteSetTheorems, SequenceTheorems, TLAPS

Waiting(c) == \E k \in 1 .. Len(backlog) : backlog[k] = c
Holds(c)   == \E f \in Fd : fd[f] = c
Quits(c)   == cl[c] \in {"leaving", "left"}

MailType == inbox \in [Clients -> Seq(Message)] /\ out \in [Clients -> Seq(Message)]

ConnInv ==
    /\ readset = {f \in Fd : fd[f] # NoClient}
    /\ \A f, g \in Fd : fd[f] = fd[g] /\ fd[f] # NoClient => f = g
    /\ \A k, l \in 1 .. Len(backlog) : backlog[k] = backlog[l] => k = l

\* What select reported is still so, and there is something to broadcast.
RoundInv ==
    /\ \A f \in copyset \ {listenfd} : Readable(fd[f])
    /\ listenfd \in copyset => backlog # <<>>
    /\ todo # {} => response \in Message

\* A client's connection: not made, waiting to be accepted, open as a descriptor, over.
LinkInv(c) ==
    /\ link[c] = "none" <=> cl[c] = "off"
    /\ link[c] \in {"fin", "rst", "dead", "over"} <=> cl[c] \in Left
    /\ link[c] = "none" => ~Waiting(c) /\ ~Holds(c) /\ said[c] = 0 /\ type[c] = 0 /\ out[c] = <<>>
    /\ Waiting(c) => ~Holds(c) /\ link[c] \in {"open", "fin"} /\ said[c] = Len(inbox[c]) /\ out[c] = <<>>
    /\ link[c] \in {"open", "fin", "rst", "dead"} => Waiting(c) \/ Holds(c)
    /\ link[c] = "over" => ~Waiting(c) /\ ~Holds(c) /\ inbox[c] = <<>>

\* Its k-th message: they are numbered, the first one has type 0, and only the last
\* one can be a quit.
Genuine(c, k) ==
    /\ inbox[c][k].user = c
    /\ inbox[c][k].nr = said[c] - Len(inbox[c]) + k - 1
    /\ inbox[c][k].type = 0 <=> inbox[c][k].nr = 0
    /\ inbox[c][k].type = 2 => k = Len(inbox[c]) /\ Quits(c)

MailInv(c) ==
    /\ Len(inbox[c]) <= said[c]
    /\ \A k \in 1 .. Len(inbox[c]) : Genuine(c, k)
    /\ server = "up" /\ Quits(c) =>
        said[c] > 0 /\ (inbox[c] # <<>> => inbox[c][Len(inbox[c])].type = 2)

\* What it writes next keeps to that, too.
UserInv(c) ==
    /\ cl[c] \in {"writing", "in"} => said[c] <= Talks + 1
    /\ cl[c] = "writing" /\ type[c] # 2 => said[c] <= Talks
    /\ server = "up" =>
        /\ cl[c] = "writing" => (type[c] = 0 <=> said[c] = 0)
        /\ cl[c] = "in" => said[c] > 0

ClientInv(c) == LinkInv(c) /\ MailInv(c) /\ UserInv(c)

Counted(c) == Accepted(c) /\ ~QuitHeard(c)
Count      == server = "up" => active_users = Cardinality({c \in Clients : Counted(c)})

IInv == /\ TypeOK /\ MailType /\ Count /\ ConnInv /\ RoundInv
        /\ \A c \in Clients : ClientInv(c)

-----------------------------------------------------------------------------
(* Lemmas.                                                                 *)

\* A set of natural numbers has a least element: inclusion of the finite sets 0 .. n
\* is well founded.
LEMMA MinIn ==
    ASSUME NEW S \in SUBSET Nat, S # {}
    PROVE  Min(S) \in S
  <1> DEFINE T == {0 .. n : n \in S}
             R == StrictSubsetOrdering(Nat)
  <1>1. T \subseteq FiniteSubsetsOf(Nat)
    <2> SUFFICES ASSUME NEW n \in S PROVE 0 .. n \in FiniteSubsetsOf(Nat)
      OBVIOUS
    <2>1. IsFiniteSet(0 .. n) /\ 0 .. n \in SUBSET Nat
      BY FS_Interval
    <2> QED
      BY <2>1 DEF FiniteSubsetsOf
  <1>2. T # {} /\ IsWellFoundedOn(R, FiniteSubsetsOf(Nat))
    BY FS_StrictSubsetOrderingWellFounded
  <1>3. PICK a \in T : \A b \in T : <<b, a>> \notin R
    <2> HIDE DEF T, R
    <2> QED
      BY <1>1, <1>2, WFMin
  <1>4. PICK n \in S : a = 0 .. n
    BY <1>3
  <1>5. ASSUME NEW m \in S, m < n PROVE FALSE
    <2>1. n \in 0 .. n /\ n \notin 0 .. m
      BY <1>5
    <2>2. 0 .. m \in SUBSET Nat /\ 0 .. n \in SUBSET Nat /\ 0 .. m \subseteq 0 .. n /\ 0 .. m # 0 .. n
      BY <1>5, <2>1
    <2>3. <<0 .. m, 0 .. n>> \in R
      BY <2>2 DEF StrictSubsetOrdering
    <2> QED
      BY <1>3, <1>4, <2>3
  <1>6. \A m \in S : n <= m
    BY <1>5
  <1> QED
    BY <1>6 DEF Min

LEMMA FdNat == Fd \in SUBSET Nat /\ listenfd \notin Fd /\ Cardinality(Clients) \in Nat
  BY ChatAssumption, FS_CardinalityType DEF Fd, listenfd

\* While a client waits a descriptor is free for it.
LEMMA FreeLeft ==
    ASSUME TypeOK, ConnInv, NEW h \in Clients, ~Holds(h)
    PROVE  \E f \in Fd : fd[f] = NoClient
  <1> SUFFICES ASSUME \A f \in Fd : fd[f] # NoClient PROVE FALSE
    OBVIOUS
  <1>1. fd \in [Fd -> Clients \ {h}]
    BY DEF TypeOK, Holds
  <1>2. fd \in Injection(Fd, Clients \ {h})
    BY <1>1 DEF ConnInv, Injection, IsInjective
  <1>3. IsFiniteSet(Clients \ {h}) /\ Cardinality(Clients \ {h}) = Cardinality(Clients) - 1
    BY ChatAssumption, FS_RemoveElement
  <1>4. Cardinality(Fd) <= Cardinality(Clients \ {h})
    BY <1>2, <1>3, FS_Injection
  <1>5. Cardinality(Fd) = Cardinality(Clients)
    BY FdNat, FS_Interval DEF Fd
  <1> QED
    BY <1>3, <1>4, <1>5, FdNat

\* Nothing of c changes.
SameClient(c) ==
    /\ cl'[c] = cl[c] /\ type'[c] = type[c] /\ said'[c] = said[c]
    /\ link'[c] = link[c] /\ inbox'[c] = inbox[c] /\ out'[c] = out[c]
    /\ Waiting(c)' <=> Waiting(c)
    /\ Holds(c)' <=> Holds(c)

LEMMA ClientSame ==
    ASSUME NEW c \in Clients, ClientInv(c), SameClient(c), server' = "up" => server = "up"
    PROVE  ClientInv(c)'
  <1>1. Quits(c)' <=> Quits(c)
    BY DEF Quits, SameClient
  <1>2. LinkInv(c)'
    BY DEF ClientInv, LinkInv, SameClient
  <1>3. \A k : Genuine(c, k) => Genuine(c, k)'
    BY <1>1 DEF Genuine, SameClient
  <1>4. MailInv(c)'
    BY <1>1, <1>3 DEF ClientInv, MailInv, SameClient
  <1>5. UserInv(c)'
    BY DEF ClientInv, UserInv, SameClient
  <1> QED
    BY <1>2, <1>4, <1>5 DEF ClientInv

LEMMA CountedSame ==
    ASSUME NEW c \in Clients, SameClient(c)
    PROVE  Counted(c)' <=> Counted(c)
  BY DEF Counted, Accepted, QuitHeard, SameClient, Waiting

LEMMA CountSame ==
    ASSUME Count, active_users' = active_users, server' = "up" => server = "up",
           server = "up" => \A c \in Clients : Counted(c)' <=> Counted(c)
    PROVE  Count'
  <1>1. server = "up" => {c \in Clients : Counted(c)}' = {c \in Clients : Counted(c)}
    OBVIOUS
  <1> QED
    BY <1>1 DEF Count

\* Who waits and who holds a descriptor.
LEMMA SameConn ==
    ASSUME backlog' = backlog, fd' = fd
    PROVE  \A c : (Waiting(c)' <=> Waiting(c)) /\ (Holds(c)' <=> Holds(c))
  BY DEF Waiting, Holds

\* The messages of a client that are in its inbox and its outbox have the right type.
LEMMA MailOf ==
    ASSUME MailType, NEW c \in Clients
    PROVE  inbox[c] \in Seq(Message) /\ out[c] \in Seq(Message)
  BY DEF MailType

\* TypeOK says of the mail only how long it may be.
LEMMA TypeFrame ==
    ASSUME MailType', \A c \in Clients : Len(inbox'[c]) <= Buffer /\ Len(out'[c]) <= Buffer
    PROVE  \A c \in Clients : /\ inbox'[c] \in Seq(Message) /\ Len(inbox'[c]) <= Buffer
                              /\ out'[c] \in Seq(Message) /\ Len(out'[c]) <= Buffer
  BY DEF MailType

-----------------------------------------------------------------------------
(* The invariant, step by step.                                            *)

\* select and the failing write.
LEMMA QuietStep ==
    ASSUME IInv, Select \/ \E j \in Fd : SendFails(j)
    PROVE  IInv'
  <1>1. /\ UNCHANGED <<readset, todo, response, active_users, network, clients>>
        /\ server' = server \/ server' = "failed"
    BY DEF Select, SendFails, memory
  <1>2. TypeOK' /\ MailType'
    <2>1. copyset' \subseteq readset \cup {listenfd}
      BY DEF IInv, TypeOK, Select, SendFails, memory
    <2> QED
      BY <1>1, <2>1 DEF IInv, TypeOK, MailType, network, clients
  <1>3. \A c \in Clients : SameClient(c)
    BY <1>1, SameConn DEF SameClient, network, clients
  <1>4. Count'
    BY <1>1, <1>3, CountedSame, CountSame DEF IInv
  <1>5. ConnInv'
    BY <1>1 DEF IInv, ConnInv, network
  <1>6. RoundInv'
    <2>1. \A f \in Fd : Readable(fd[f])' <=> Readable(fd[f])
      BY <1>1 DEF Readable, network
    <2>2. CASE Select
      BY <1>1, <2>1, <2>2, FdNat DEF IInv, RoundInv, Select, Readable, network, TypeOK
    <2>3. CASE \E j \in Fd : SendFails(j)
      BY <1>1, <2>3 DEF IInv, RoundInv, SendFails, memory, Readable, network
    <2> QED
      BY <2>2, <2>3
  <1>7. \A c \in Clients : ClientInv(c)'
    BY <1>1, <1>3, ClientSame DEF IInv
  <1> QED
    BY <1>2, <1>4, <1>5, <1>6, <1>7 DEF IInv

\* A step of a client that leaves descriptors, the queue of accept and the server's
\* variables alone keeps the invariant if it keeps its part of it.
LEMMA ClientFrame ==
    ASSUME IInv, NEW c \in Clients,
           UNCHANGED <<server, memory, fd, backlog>>,
           TypeOK', MailType', ClientInv(c)',
           \A d \in Clients \ {c} :
                /\ cl'[d] = cl[d] /\ type'[d] = type[d] /\ said'[d] = said[d]
                /\ link'[d] = link[d] /\ inbox'[d] = inbox[d] /\ out'[d] = out[d],
           Readable(c) => Readable(c)',
           server = "up" => (Counted(c)' <=> Counted(c))
    PROVE  IInv'
  <1>1. \A d \in Clients \ {c} : SameClient(d)
    BY SameConn DEF SameClient
  <1>2. \A d \in Clients : ClientInv(d)'
    BY <1>1, ClientSame DEF IInv
  <1>3. Count'
    BY <1>1, CountedSame, CountSame DEF IInv, memory
  <1>4. ConnInv'
    BY DEF IInv, ConnInv, memory
  <1>5. RoundInv'
    <2>1. \A d \in Clients : Readable(d) => Readable(d)'
      BY DEF Readable
    <2>2. \A f \in copyset \ {listenfd} : fd[f] \in Clients
      BY DEF IInv, TypeOK, ConnInv
    <2>3. \A f \in copyset \ {listenfd} : Readable(fd[f])'
      BY <2>1, <2>2 DEF IInv, RoundInv, Readable
    <2> QED
      BY <2>3 DEF IInv, RoundInv, memory
  <1> QED
    BY <1>2, <1>3, <1>4, <1>5 DEF IInv

\* The user types, or a message is lost.
LEMMA OwnStep ==
    ASSUME IInv, NEW c \in Clients, Type(c) \/ WriteLost(c)
    PROVE  IInv'
  <1>1. UNCHANGED <<server, memory, network, said>>
    BY DEF Type, WriteLost
  <1>2. TypeOK' /\ MailType'
    <2>1. cl' \in [Clients -> {"off", "writing", "in", "leaving"} \cup Left]
      <3>1. cl \in [Clients -> {"off", "writing", "in", "leaving"} \cup Left]
        BY DEF IInv, TypeOK
      <3> QED
        BY <3>1 DEF Type, WriteLost, Written
    <2>2. type' \in [Clients -> 0 .. 2]
      <3>1. type \in [Clients -> 0 .. 2]
        BY DEF IInv, TypeOK
      <3>2. type' = type \/ \E n \in 0 .. 2 : type' = [type EXCEPT ![c] = n]
        BY DEF Type, WriteLost
      <3> QED
        BY <3>1, <3>2
    <2> QED
      BY <1>1, <2>1, <2>2 DEF IInv, TypeOK, MailType, network, memory
  <1>3. \A d \in Clients \ {c} : cl'[d] = cl[d] /\ type'[d] = type[d]
    BY DEF Type, WriteLost, Written, IInv, TypeOK
  <1>4. cl[c] \in {"writing", "in"} /\ cl'[c] \in {"writing", "in", "leaving"}
    BY DEF Type, WriteLost, Written, IInv, TypeOK
  <1>5. server = "up" => /\ cl[c] = "in" /\ cl'[c] = "writing"
                         /\ type'[c] \in {1, 2} /\ (type'[c] = 1 => said[c] <= Talks)
    BY DEF Type, WriteLost, IInv, TypeOK
  <1>6. LinkInv(c)'
    BY <1>1, <1>4, SameConn DEF IInv, ClientInv, LinkInv, network, Left
  <1>7. MailInv(c)'
    <2>1. Quits(c) <=> FALSE
      BY <1>4 DEF Quits
    <2>2. \A k \in 1 .. Len(inbox[c]) : Genuine(c, k)'
      BY <1>1, <2>1 DEF IInv, ClientInv, MailInv, Genuine, network
    <2>3. server = "up" => ~Quits(c)'
      BY <1>5 DEF Quits
    <2> QED
      BY <1>1, <2>2, <2>3 DEF IInv, ClientInv, MailInv, network
  <1>8. UserInv(c)'
    <2>1. said[c] <= Talks + 1
      BY <1>4 DEF IInv, ClientInv, UserInv
    <2>2. cl'[c] = "writing" => cl[c] = "in" /\ type'[c] \in {1, 2} /\ (type'[c] = 1 => said[c] <= Talks)
      BY DEF Type, WriteLost, Written, IInv, TypeOK
    <2>3. server = "up" /\ cl[c] = "in" => said[c] > 0
      BY DEF IInv, ClientInv, UserInv
    <2>4. said'[c] = said[c] /\ said[c] \in Nat /\ server' = server
      BY <1>1 DEF IInv, TypeOK
    <2> QED
      BY <1>5, <2>1, <2>2, <2>3, <2>4 DEF UserInv
  <1>9. server = "up" => (Counted(c)' <=> Counted(c))
    BY <1>1, <1>4, <1>5 DEF Counted, Accepted, QuitHeard, network
  <1>10. Readable(c) => Readable(c)'
    BY <1>1 DEF Readable, network
  <1> QED
    BY <1>1, <1>2, <1>3, <1>6, <1>7, <1>8, <1>9, <1>10, ClientFrame DEF ClientInv, network

\* A message is written.
LEMMA WriteStep ==
    ASSUME IInv, NEW c \in Clients, Write(c)
    PROVE  IInv'
  <1> DEFINE msg == [user |-> c, type |-> type[c], nr |-> said[c]]
  <1>1. UNCHANGED <<server, memory, fd, backlog, link, out, type>>
    BY DEF Write
  <1>2. /\ cl[c] = "writing" /\ server = "up" /\ Len(inbox[c]) < Buffer
        /\ cl'[c] = IF type[c] = 2 THEN "leaving" ELSE "in"
        /\ said'[c] = said[c] + 1 /\ inbox'[c] = Append(inbox[c], msg)
    BY DEF Write, Written, IInv, TypeOK, MailType
  <1>3. \A d \in Clients \ {c} : cl'[d] = cl[d] /\ said'[d] = said[d] /\ inbox'[d] = inbox[d]
    BY DEF Write, Written, IInv, TypeOK, MailType
  <1>4. /\ said[c] \in Nat /\ said[c] <= Talks + 1 /\ (type[c] # 2 => said[c] <= Talks)
        /\ type[c] \in 0 .. 2 /\ (type[c] = 0 <=> said[c] = 0) /\ ~Quits(c) /\ Talks \in Nat
    BY <1>2, ChatAssumption DEF IInv, ClientInv, UserInv, TypeOK, Quits
  <1>5. msg \in Message
    BY <1>4 DEF Message
  <1>6. inbox[c] \in Seq(Message)
    BY MailOf DEF IInv
  <1> HIDE DEF msg
  <1>7. /\ inbox'[c] \in Seq(Message) /\ Len(inbox'[c]) = Len(inbox[c]) + 1
        /\ \A k \in 1 .. Len(inbox[c]) : inbox'[c][k] = inbox[c][k]
        /\ inbox'[c][Len(inbox[c]) + 1] = msg
    BY <1>2, <1>5, <1>6, AppendProperties
  <1>8. MailType'
    BY <1>1, <1>5, <1>6 DEF Write, IInv, MailType, msg
  <1>9. TypeOK'
    <2>1. \A d \in Clients : inbox'[d] \in Seq(Message) /\ Len(inbox'[d]) <= Buffer
      <3>1. inbox'[c] \in Seq(Message) /\ Len(inbox'[c]) <= Buffer
        BY <1>2, <1>6, <1>7, ChatAssumption
      <3> QED
        BY <1>3, <3>1 DEF IInv, TypeOK
    <2>2. cl' \in [Clients -> {"off", "writing", "in", "leaving"} \cup Left]
      BY DEF IInv, TypeOK, Write, Written
    <2>3. said' \in [Clients -> 0 .. Talks + 2]
      BY <1>4 DEF IInv, TypeOK, Write
    <2> QED
      BY <1>1, <2>1, <2>2, <2>3 DEF IInv, TypeOK, memory
  <1>10. LinkInv(c)'
    <2>1. LinkInv(c) /\ link[c] # "none" /\ cl'[c] # "off" /\ cl'[c] \notin Left /\ cl[c] \notin Left
      BY <1>2 DEF IInv, ClientInv, LinkInv, Left
    <2>2. Waiting(c) => said'[c] = Len(inbox'[c])
      BY <1>2, <1>7, <2>1 DEF LinkInv
    <2> QED
      BY <1>1, <2>1, <2>2, SameConn DEF LinkInv
  <1>11. MailInv(c)'
    <2>1. MailInv(c) /\ Len(inbox[c]) \in Nat
      BY <1>6 DEF IInv, ClientInv
    <2>2. ASSUME NEW k \in 1 .. Len(inbox[c]) PROVE Genuine(c, k)'
      <3>1. Genuine(c, k) /\ inbox[c][k].type # 2
        BY <1>4, <2>1 DEF MailInv, Genuine
      <3>2. inbox'[c][k] = inbox[c][k]
        BY <1>7
      <3>3. said'[c] - Len(inbox'[c]) + k - 1 = said[c] - Len(inbox[c]) + k - 1
        BY <1>2, <1>4, <1>7, <2>1
      <3> QED
        BY <3>1, <3>2, <3>3 DEF Genuine
    <2>3. ASSUME NEW k, k = Len(inbox[c]) + 1 PROVE Genuine(c, k)'
      <3>1. inbox'[c][k] = msg /\ k = Len(inbox'[c]) /\ k \in Nat
        BY <1>7, <2>1, <2>3
      <3>2. said'[c] - Len(inbox'[c]) + k - 1 = said[c]
        <4>1. said'[c] = said[c] + 1 /\ said[c] \in Nat
          BY <1>2, <1>4
        <4> QED
          BY <3>1, <4>1
      <3>3. type[c] = 2 => Quits(c)'
        BY <1>2 DEF Quits
      <3>4. msg.user = c /\ msg.type = type[c] /\ msg.nr = said[c]
        BY DEF msg
      <3> QED
        BY <1>4, <3>1, <3>2, <3>3, <3>4 DEF Genuine
    <2>4. Quits(c)' => type[c] = 2
      BY <1>2 DEF Quits
    <2>5. inbox'[c][Len(inbox'[c])].type = type[c]
      BY <1>7 DEF msg
    <2>6. \A k \in 1 .. Len(inbox'[c]) : Genuine(c, k)'
      <3>1. \A k \in 1 .. Len(inbox[c]) + 1 : k \in 1 .. Len(inbox[c]) \/ k = Len(inbox[c]) + 1
        BY <2>1
      <3> QED
        BY <1>7, <2>2, <2>3, <3>1
    <2>7. Len(inbox'[c]) <= said'[c] /\ said'[c] > 0
      BY <1>2, <1>4, <1>7, <2>1 DEF MailInv
    <2> QED
      BY <2>4, <2>5, <2>6, <2>7 DEF MailInv
  <1>12. UserInv(c)'
    BY <1>1, <1>2, <1>4 DEF UserInv
  <1>13. Counted(c)' <=> Counted(c)
    <2>1. inbox'[c] # <<>>
      BY <1>6, <1>7
    <2>2. ~QuitHeard(c) /\ ~QuitHeard(c)'
      BY <1>2, <2>1 DEF QuitHeard
    <2> QED
      BY <1>1, <2>2 DEF Counted, Accepted
  <1>14. Readable(c)'
    BY <1>6, <1>7 DEF Readable
  <1> QED
    BY <1>1, <1>3, <1>8, <1>9, <1>10, <1>11, <1>12, <1>13, <1>14, ClientFrame DEF ClientInv

\* A message is shown.
LEMMA HearStep ==
    ASSUME IInv, NEW c \in Clients, Hear(c)
    PROVE  IInv'
  <1>1. UNCHANGED <<server, memory, fd, backlog, link, inbox, cl, type, said>>
    BY DEF Hear, clients
  <1>2. out[c] \in Seq(Message) /\ out[c] # <<>> /\ out'[c] = Tail(out[c])
    BY MailOf DEF Hear, IInv, MailType
  <1>3. \A d \in Clients \ {c} : out'[d] = out[d]
    BY DEF Hear, IInv, MailType
  <1>4. out'[c] \in Seq(Message) /\ Len(out'[c]) = Len(out[c]) - 1
    BY <1>2, HeadTailProperties
  <1>5. MailType'
    BY <1>1, <1>2, <1>4 DEF Hear, IInv, MailType
  <1>6. TypeOK'
    <2>1. \A d \in Clients : out'[d] \in Seq(Message) /\ Len(out'[d]) <= Buffer
      <3>1. Len(out[c]) \in Nat /\ Len(out[c]) <= Buffer
        BY <1>2 DEF IInv, TypeOK
      <3>2. out'[c] \in Seq(Message) /\ Len(out'[c]) <= Buffer
        BY <1>4, <3>1, ChatAssumption
      <3> QED
        BY <1>3, <3>2 DEF IInv, TypeOK
    <2> QED
      BY <1>1, <2>1 DEF IInv, TypeOK, memory
  <1>7. LinkInv(c) /\ MailInv(c) /\ UserInv(c)
    BY DEF IInv, ClientInv
  <1>8. LinkInv(c)'
    BY <1>1, <1>2, <1>7, SameConn DEF LinkInv
  <1>9. MailInv(c)'
    BY <1>1, <1>7 DEF MailInv, Genuine, Quits
  <1>10. UserInv(c)'
    BY <1>1, <1>7 DEF UserInv
  <1>11. Counted(c)' <=> Counted(c)
    BY <1>1 DEF Counted, Accepted, QuitHeard
  <1>12. Readable(c)' <=> Readable(c)
    BY <1>1 DEF Readable
  <1> QED
    BY <1>1, <1>3, <1>5, <1>6, <1>8, <1>9, <1>10, <1>11, <1>12, ClientFrame DEF ClientInv

\* A client ends.
LEMMA ExitStep ==
    ASSUME IInv, NEW c \in Clients, Leave(c) \/ Interrupt(c) \/ Down(c)
    PROVE  IInv'
  <1>1. PICK how \in Left :
            /\ Exit(c, how)
            /\ cl[c] \in {"writing", "in", "leaving"}
            /\ how = "left" <=> cl[c] = "leaving"
    BY DEF Leave, Interrupt, Down, Left
  <1>2. UNCHANGED <<server, memory, fd, backlog, inbox, out, type, said>>
    BY <1>1 DEF Exit
  <1>3. LinkInv(c) /\ MailInv(c) /\ UserInv(c)
    BY DEF IInv, ClientInv
  <1>4. link[c] = "open"
    BY <1>1, <1>3 DEF LinkInv, Left, IInv, TypeOK, Links
  <1>5. cl'[c] = how /\ link'[c] = IF out[c] = <<>> THEN "fin" ELSE "rst"
    BY <1>1, <1>4 DEF Exit, IInv, TypeOK
  <1>6. \A d \in Clients \ {c} : cl'[d] = cl[d] /\ link'[d] = link[d]
    BY <1>1 DEF Exit, IInv, TypeOK
  <1>7. TypeOK' /\ MailType'
    <2>1. cl' \in [Clients -> {"off", "writing", "in", "leaving"} \cup Left] /\ link' \in [Clients -> Links]
      BY <1>1 DEF Exit, IInv, TypeOK, Links
    <2> QED
      BY <1>2, <2>1 DEF IInv, TypeOK, MailType, memory
  <1>8. LinkInv(c)'
    BY <1>2, <1>3, <1>4, <1>5, SameConn DEF LinkInv, Left
  <1>9. Quits(c)' <=> Quits(c)
    BY <1>1, <1>5 DEF Quits, Left
  <1>10. MailInv(c)'
    BY <1>2, <1>3, <1>9 DEF MailInv, Genuine
  <1>11. UserInv(c)'
    BY <1>5 DEF UserInv, Left
  <1>12. Counted(c)' <=> Counted(c)
    BY <1>2, <1>4, <1>5, <1>9 DEF Counted, Accepted, QuitHeard, Quits
  <1>13. Readable(c)'
    BY <1>5 DEF Readable
  <1> QED
    BY <1>2, <1>6, <1>7, <1>8, <1>10, <1>11, <1>12, <1>13, ClientFrame DEF ClientInv

\* A client connects.
LEMMA ConnectStep ==
    ASSUME IInv, NEW c \in Clients, Connect(c)
    PROVE  IInv'
  <1>1. UNCHANGED <<server, memory, fd, inbox, out, type, said>>
    BY DEF Connect
  <1>2. /\ cl[c] = "off" /\ link[c] = "none" /\ cl'[c] = "writing" /\ link'[c] = "open"
        /\ \A d \in Clients \ {c} : cl'[d] = cl[d] /\ link'[d] = link[d]
    BY DEF Connect, IInv, TypeOK, ClientInv, LinkInv
  <1>3. LinkInv(c) /\ MailInv(c)
    BY DEF IInv, ClientInv
  <1>4. backlog \in Seq(Clients) /\ backlog' = Append(backlog, c)
    BY DEF Connect, IInv, TypeOK
  <1>5. /\ backlog' \in Seq(Clients) /\ Len(backlog') = Len(backlog) + 1 /\ Len(backlog) \in Nat
        /\ \A k \in 1 .. Len(backlog) : backlog'[k] = backlog[k]
        /\ backlog'[Len(backlog) + 1] = c
    BY <1>4, AppendProperties
  <1>6. \A d : Waiting(d)' <=> (Waiting(d) \/ d = c)
    BY <1>5 DEF Waiting
  <1>7. TypeOK' /\ MailType'
    <2>1. cl' \in [Clients -> {"off", "writing", "in", "leaving"} \cup Left] /\ link' \in [Clients -> Links]
      BY DEF Connect, IInv, TypeOK, Links
    <2> QED
      BY <1>1, <1>5, <2>1 DEF IInv, TypeOK, MailType, memory
  <1>8. ConnInv'
    <2>1. \A k \in 1 .. Len(backlog) : backlog[k] # c
      BY <1>2, <1>3 DEF LinkInv, Waiting
    <2>2. \A k, l \in 1 .. Len(backlog') : backlog'[k] = backlog'[l] => k = l
      BY <1>5, <2>1 DEF IInv, ConnInv
    <2> QED
      BY <1>1, <2>2 DEF IInv, ConnInv, memory
  <1>9. RoundInv'
    <2>1. \A f \in copyset \ {listenfd} : fd[f] \in Clients \ {c}
      BY <1>2, <1>3 DEF IInv, TypeOK, ConnInv, LinkInv, Holds
    <2>2. \A f \in copyset \ {listenfd} : Readable(fd[f])'
      BY <1>1, <1>2, <2>1 DEF IInv, RoundInv, Readable
    <2>3. backlog' # <<>>
      BY <1>5
    <2> QED
      BY <1>1, <2>2, <2>3 DEF IInv, RoundInv, memory
  <1>10. \A d \in Clients \ {c} : SameClient(d)
    BY <1>1, <1>2, <1>6 DEF SameClient, Holds
  <1>11. ClientInv(c)'
    <2>1. LinkInv(c)'
      <3>1. Holds(c)' <=> Holds(c)
        BY <1>1 DEF Holds
      <3>2. Waiting(c)' /\ ~Holds(c)' /\ said'[c] = 0 /\ out'[c] = <<>>
        BY <1>1, <1>2, <1>3, <1>6, <3>1 DEF LinkInv
      <3>3. Len(inbox'[c]) = 0
        <4>1. Len(inbox[c]) \in Nat
          BY MailOf DEF IInv
        <4> QED
          BY <1>1, <1>2, <1>3, <4>1 DEF LinkInv, MailInv
      <3> QED
        BY <1>2, <3>2, <3>3 DEF LinkInv, Left
    <2>2. ~Quits(c) /\ ~Quits(c)'
      BY <1>2 DEF Quits
    <2>3. MailInv(c)'
      BY <1>1, <1>3, <2>2 DEF MailInv, Genuine
    <2>4. UserInv(c)'
      BY <1>1, <1>2, <1>3, ChatAssumption DEF UserInv, LinkInv
    <2> QED
      BY <2>1, <2>3, <2>4 DEF ClientInv
  <1>12. Counted(c)' <=> Counted(c)
    BY <1>2, <1>6 DEF Counted, Accepted, Waiting
  <1>13. Count'
    BY <1>1, <1>10, <1>12, CountedSame, CountSame DEF IInv, memory
  <1>14. \A d \in Clients : ClientInv(d)'
    BY <1>1, <1>10, <1>11, ClientSame DEF IInv
  <1> QED
    BY <1>7, <1>8, <1>9, <1>13, <1>14 DEF IInv

\* The first client that waits is accepted and counted.
LEMMA AcceptStep ==
    ASSUME IInv, Accept
    PROVE  IInv'
  <1> USE FdNat
  <1>1. /\ server = "up" /\ todo = {} /\ listenfd \in copyset /\ copyset' = copyset \ {listenfd}
        /\ UNCHANGED <<server, todo, response, link, inbox, out, clients>>
        /\ active_users' = active_users + 1
    BY DEF Accept, Scanning
  <1>2. backlog \in Seq(Clients) /\ backlog # <<>> /\ backlog' = Tail(backlog)
    BY <1>1 DEF Accept, IInv, TypeOK, RoundInv
  <1>3. PICK h \in Clients : h = Head(backlog) /\ h = backlog[1]
    BY <1>2
  <1>4. /\ backlog' \in Seq(Clients) /\ Len(backlog') = Len(backlog) - 1 /\ Len(backlog) \in Nat
        /\ \A k \in 1 .. Len(backlog') : backlog'[k] = backlog[k + 1]
    BY <1>2, HeadTailProperties
  <1>5. \A d : Waiting(d)' <=> (Waiting(d) /\ d # h)
    <2>1. \A k \in 1 .. Len(backlog') : k + 1 \in 2 .. Len(backlog)
      BY <1>4
    <2>2. \A k \in 2 .. Len(backlog) : k - 1 \in 1 .. Len(backlog') /\ backlog'[k - 1] = backlog[k]
      BY <1>4
    <2>3. \A k \in 2 .. Len(backlog) : backlog[k] # h
      BY <1>2, <1>3, <1>4 DEF IInv, ConnInv
    <2>4. \A d : Waiting(d)' <=> \E k \in 2 .. Len(backlog) : backlog[k] = d
      BY <1>4, <2>1, <2>2 DEF Waiting
    <2>5. \A k \in 1 .. Len(backlog) : k = 1 \/ k \in 2 .. Len(backlog)
      BY <1>4
    <2>6. 1 \in 1 .. Len(backlog) /\ 2 .. Len(backlog) \subseteq 1 .. Len(backlog)
      BY <1>2, <1>4
    <2>7. \A d : Waiting(d) <=> d = h \/ \E k \in 2 .. Len(backlog) : backlog[k] = d
      BY <1>3, <2>5, <2>6 DEF Waiting
    <2> QED
      BY <2>3, <2>4, <2>7
  <1>6. Waiting(h) /\ ~Holds(h)
    <2>1. 1 \in 1 .. Len(backlog)
      BY <1>2
    <2>2. Waiting(h)
      BY <1>3, <2>1 DEF Waiting
    <2> QED
      BY <2>2 DEF IInv, ClientInv, LinkInv
  <1>7. PICK f \in Fd : fd[f] = NoClient /\ fd' = [fd EXCEPT ![f] = h] /\ readset' = readset \cup {f}
    <2> DEFINE free == {g \in Fd : fd[g] = NoClient}
    <2>1. free # {} /\ free \in SUBSET Nat
      BY <1>6, FreeLeft DEF IInv
    <2>2. Min(free) \in free
      <3> HIDE DEF free
      <3> QED
        BY <2>1, MinIn
    <2> QED
      BY <1>3, <2>2 DEF Accept
  <1>8. \A d \in Clients : Holds(d)' <=> (Holds(d) \/ d = h)
    BY <1>7, ChatAssumption DEF Holds, IInv, TypeOK
  <1>9. TypeOK' /\ MailType'
    <2>1. copyset' \subseteq readset' \cup {listenfd} /\ readset' \subseteq Fd
      BY <1>1, <1>7 DEF IInv, TypeOK
    <2>2. fd' \in [Fd -> Clients \cup {NoClient}]
      <3>1. fd \in [Fd -> Clients \cup {NoClient}]
        BY DEF IInv, TypeOK
      <3> QED
        BY <1>7, <3>1
    <2>3. active_users' \in Nat /\ todo' \subseteq readset'
      BY <1>1, <1>7 DEF IInv, TypeOK
    <2>4. UNCHANGED <<server, response, link, inbox, out, cl, type, said>>
      BY <1>1 DEF clients
    <2>5. backlog' \in Seq(Clients)
      BY <1>4
    <2> QED
      BY <2>1, <2>2, <2>3, <2>4, <2>5 DEF IInv, TypeOK, MailType
  <1>10. ConnInv'
    <2>1. readset' = {g \in Fd : fd'[g] # NoClient}
      BY <1>7, ChatAssumption DEF IInv, TypeOK, ConnInv
    <2>2. \A g, e \in Fd : fd'[g] = fd'[e] /\ fd'[g] # NoClient => g = e
      BY <1>6, <1>7 DEF IInv, TypeOK, ConnInv, Holds
    <2>3. \A k, l \in 1 .. Len(backlog') : backlog'[k] = backlog'[l] => k = l
      <3>1. \A k \in 1 .. Len(backlog') : k + 1 \in 1 .. Len(backlog)
        BY <1>4
      <3>2. \A k, l \in 1 .. Len(backlog') : backlog'[k] = backlog'[l] => k + 1 = l + 1
        BY <1>4, <3>1 DEF IInv, ConnInv
      <3> QED
        BY <3>2
    <2> QED
      BY <2>1, <2>2, <2>3 DEF ConnInv
  <1>11. RoundInv'
    <2>1. \A g \in copyset \ {listenfd} : g \in Fd /\ fd'[g] = fd[g]
      BY <1>7 DEF IInv, TypeOK, ConnInv
    <2> QED
      BY <1>1, <2>1 DEF IInv, RoundInv, Readable
  <1>12. \A d \in Clients \ {h} : SameClient(d)
    BY <1>1, <1>5, <1>8 DEF SameClient, clients
  <1>13. ClientInv(h)'
    <2>1. LinkInv(h) /\ MailInv(h) /\ UserInv(h)
      BY DEF IInv, ClientInv
    <2>2. LinkInv(h)'
      BY <1>1, <1>5, <1>6, <1>8, <2>1 DEF LinkInv, clients
    <2>3. MailInv(h)' /\ UserInv(h)'
      BY <1>1, <2>1 DEF MailInv, Genuine, Quits, UserInv, clients
    <2> QED
      BY <2>2, <2>3 DEF ClientInv
  <1>14. Count'
    <2>1. \A d \in Clients \ {h} : Counted(d)' <=> Counted(d)
      BY <1>12, CountedSame
    <2>2. ~Counted(h)
      BY <1>6 DEF Counted, Accepted, Waiting
    <2>3. Counted(h)'
      <3>1. ~Waiting(h)' /\ link'[h] # "none"
        BY <1>1, <1>5, <1>6 DEF IInv, ClientInv, LinkInv
      <3>2. ~QuitHeard(h)
        <4>1. ASSUME QuitHeard(h) PROVE FALSE
          <5>1. said[h] > 0 /\ said[h] = Len(inbox[h]) /\ inbox[h] = <<>>
            BY <1>1, <1>6, <4>1 DEF IInv, ClientInv, LinkInv, MailInv, QuitHeard, Quits
          <5>2. Len(<<>>) = 0
            OBVIOUS
          <5> QED
            BY <5>1, <5>2
        <4> QED
          BY <4>1
      <3> QED
        BY <1>1, <3>1, <3>2 DEF Counted, Accepted, Waiting, QuitHeard, clients
    <2>4. {d \in Clients : Counted(d)}' = {d \in Clients : Counted(d)} \cup {h}
      BY <2>1, <2>3
    <2>5. IsFiniteSet({d \in Clients : Counted(d)})
      BY ChatAssumption, FS_Subset
    <2>6. Cardinality({d \in Clients : Counted(d)} \cup {h}) = Cardinality({d \in Clients : Counted(d)}) + 1
      BY <2>2, <2>5, FS_AddElement
    <2> QED
      BY <1>1, <2>4, <2>6 DEF IInv, Count
  <1>15. \A d \in Clients : ClientInv(d)'
    BY <1>1, <1>12, <1>13, ClientSame DEF IInv
  <1> QED
    BY <1>9, <1>10, <1>11, <1>14, <1>15 DEF IInv

\* The sending side of a descriptor of a client.
LEMMA HolderOf ==
    ASSUME IInv, NEW f \in readset
    PROVE  /\ f \in Fd /\ fd[f] \in Clients /\ Holds(fd[f]) /\ ~Waiting(fd[f])
           /\ link[fd[f]] \in {"open", "fin", "rst", "dead"}
           /\ \A g \in readset : fd[g] = fd[f] => g = f
  <1>1. f \in Fd /\ fd[f] \in Clients /\ fd[f] # NoClient
    BY DEF IInv, TypeOK, ConnInv
  <1>2. Holds(fd[f])
    BY <1>1 DEF Holds
  <1>3. LinkInv(fd[f]) /\ link[fd[f]] \in Links
    BY <1>1 DEF IInv, ClientInv, TypeOK
  <1>4. \A g \in readset : fd[g] = fd[f] => g = f
    BY <1>1 DEF IInv, ConnInv
  <1> QED
    BY <1>1, <1>2, <1>3, <1>4 DEF LinkInv, Links

\* The server reads a message.
LEMMA ReceiveStep ==
    ASSUME IInv, NEW f \in Fd, Receive(f)
    PROVE  IInv'
  <1>1. /\ server = "up" /\ todo = {} /\ f \in copyset /\ f # listenfd /\ copyset' = copyset \ {f}
        /\ UNCHANGED <<server, readset, fd, backlog, link, out, clients>>
    BY DEF Receive, Scanning
  <1>2. f \in readset
    BY <1>1 DEF IInv, TypeOK
  <1>3. PICK c \in Clients : c = fd[f]
    BY <1>2, HolderOf
  <1>4. Holds(c) /\ ~Waiting(c) /\ link[c] # "none" /\ \A g \in readset : fd[g] = c => g = f
    BY <1>2, <1>3, HolderOf
  <1>5. inbox[c] \in Seq(Message) /\ inbox[c] # <<>>
    BY <1>3, MailOf DEF Receive, IInv
  <1>6. PICK msg \in Message : msg = Head(inbox[c]) /\ msg = inbox[c][1]
    BY <1>5
  <1>7. /\ inbox' = [inbox EXCEPT ![c] = Tail(@)]
        /\ active_users' = IF msg.type = 2 THEN active_users - 1 ELSE active_users
        /\ todo' = readset \ {f}
        /\ response' = IF todo' = {} THEN NoMessage ELSE msg
    BY <1>3, <1>6 DEF Receive, Announce
  <1>8. /\ inbox'[c] \in Seq(Message) /\ Len(inbox'[c]) = Len(inbox[c]) - 1 /\ Len(inbox[c]) \in Nat \ {0}
        /\ \A k \in 1 .. Len(inbox'[c]) : inbox'[c][k] = inbox[c][k + 1]
    <2>1. inbox'[c] = Tail(inbox[c])
      BY <1>7 DEF IInv, MailType
    <2> QED
      BY <1>5, <2>1, HeadTailProperties
  <1>9. \A d \in Clients \ {c} : inbox'[d] = inbox[d]
    BY <1>7 DEF IInv, MailType
  <1>10. LinkInv(c) /\ MailInv(c) /\ UserInv(c)
    BY DEF IInv, ClientInv
  <1>11. \A d \in Clients \ {c} : SameClient(d)
    BY <1>1, <1>9, SameConn DEF SameClient, clients
  <1>12. ClientInv(c)'
    <2>1. LinkInv(c)'
      <3>1. link[c] # "over"
        BY <1>4, <1>10 DEF LinkInv
      <3> QED
        BY <1>1, <1>4, <1>10, <3>1, SameConn DEF LinkInv, clients
    <2>2. MailInv(c)'
      <3>1. Quits(c)' <=> Quits(c)
        BY <1>1 DEF Quits, clients
      <3>2. ASSUME NEW k \in 1 .. Len(inbox'[c]) PROVE Genuine(c, k)'
        <4>1. k + 1 \in 1 .. Len(inbox[c]) /\ inbox'[c][k] = inbox[c][k + 1]
          BY <1>8
        <4>2. PICK j \in 1 .. Len(inbox[c]) : j = k + 1
          BY <4>1
        <4>3. Genuine(c, j)
          BY <1>10 DEF MailInv
        <4>4. said[c] \in Nat /\ said'[c] = said[c]
          BY <1>1 DEF IInv, TypeOK, clients
        <4>5. said[c] - Len(inbox[c]) + j - 1 = said'[c] - Len(inbox'[c]) + k - 1
          <5>1. k \in Int /\ Len(inbox[c]) \in Int /\ Len(inbox'[c]) = Len(inbox[c]) - 1
            BY <1>8
          <5> QED
            BY <4>2, <4>4, <5>1
        <4>6. j = Len(inbox[c]) <=> k = Len(inbox'[c])
          BY <1>8, <4>2
        <4> QED
          BY <3>1, <4>1, <4>2, <4>3, <4>5, <4>6 DEF Genuine
      <3>3. Len(inbox'[c]) <= said'[c]
        BY <1>1, <1>8, <1>10 DEF MailInv, IInv, TypeOK, clients
      <3>4. ASSUME inbox'[c] # <<>>, Quits(c) PROVE inbox'[c][Len(inbox'[c])].type = 2
        <4>1. Len(inbox'[c]) \in 1 .. Len(inbox'[c])
          BY <1>8, <3>4
        <4>2. inbox'[c][Len(inbox'[c])] = inbox[c][Len(inbox[c])]
          BY <1>8, <4>1
        <4> QED
          BY <1>1, <1>5, <1>10, <3>4, <4>2 DEF MailInv
      <3>5. server' = server /\ said' = said
        BY <1>1 DEF clients
      <3> QED
        BY <1>10, <3>1, <3>2, <3>3, <3>4, <3>5 DEF MailInv
    <2>3. UserInv(c)'
      BY <1>1, <1>10 DEF UserInv, clients
    <2> QED
      BY <2>1, <2>2, <2>3 DEF ClientInv
  <1>13. Accepted(c) /\ Accepted(c)'
    BY <1>1, <1>4 DEF Accepted, Waiting
  <1>14. Counted(c) /\ (Counted(c)' <=> msg.type # 2)
    <2>1. Genuine(c, 1)
      BY <1>8, <1>10 DEF MailInv
    <2>2. msg.type = 2 => Quits(c) /\ inbox'[c] = <<>>
      BY <1>6, <1>8, <2>1 DEF Genuine
    <2>3. msg.type # 2 /\ Quits(c) => inbox'[c] # <<>>
      <3> SUFFICES ASSUME Quits(c), inbox'[c] = <<>> PROVE msg.type = 2
        OBVIOUS
      <3>1. Len(inbox[c]) = 1
        BY <1>8
      <3> QED
        BY <1>1, <1>5, <1>6, <1>10, <3>1 DEF MailInv
    <2>4. QuitHeard(c)' <=> Quits(c) /\ inbox'[c] = <<>>
      BY <1>1 DEF QuitHeard, Quits, clients
    <2>5. ~QuitHeard(c)
      BY <1>5 DEF QuitHeard
    <2> QED
      BY <1>13, <2>2, <2>3, <2>4, <2>5 DEF Counted
  <1>15. \A d \in Clients \ {c} : Counted(d)' <=> Counted(d)
    BY <1>11, CountedSame
  <1>16. Count' /\ active_users' \in Nat
    <2>1. IsFiniteSet({d \in Clients : Counted(d)})
      BY ChatAssumption, FS_Subset
    <2>2. active_users = Cardinality({d \in Clients : Counted(d)}) /\ active_users \in Nat
      BY <1>1 DEF IInv, Count, TypeOK
    <2>3. CASE msg.type # 2
      <3>1. {d \in Clients : Counted(d)}' = {d \in Clients : Counted(d)}
        BY <1>14, <1>15, <2>3
      <3> QED
        BY <1>7, <2>2, <2>3, <3>1 DEF Count
    <2>4. CASE msg.type = 2
      <3>1. {d \in Clients : Counted(d)}' = {d \in Clients : Counted(d)} \ {c}
        BY <1>14, <1>15, <2>4
      <3>2. Cardinality({d \in Clients : Counted(d)} \ {c}) = Cardinality({d \in Clients : Counted(d)}) - 1
        BY <1>14, <2>1, FS_RemoveElement
      <3>3. Cardinality({d \in Clients : Counted(d)} \ {c}) \in Nat
        BY <2>1, FS_Subset, FS_CardinalityType
      <3> QED
        BY <1>7, <2>2, <2>4, <3>1, <3>2, <3>3 DEF Count
    <2> QED
      BY <2>3, <2>4
  <1>17. MailType'
    BY <1>1, <1>5, <1>7, <1>8 DEF IInv, MailType
  <1>18. TypeOK'
    <2>1. \A d \in Clients : inbox'[d] \in Seq(Message) /\ Len(inbox'[d]) <= Buffer
      <3>1. Len(inbox[c]) <= Buffer
        BY DEF IInv, TypeOK
      <3>2. inbox'[c] \in Seq(Message) /\ Len(inbox'[c]) <= Buffer
        BY <1>8, <3>1, ChatAssumption
      <3> QED
        BY <1>9, <3>2 DEF IInv, TypeOK
    <2>2. response' \in Message \cup {NoMessage}
      BY <1>7
    <2>3. copyset' \subseteq readset' \cup {listenfd} /\ todo' \subseteq readset'
      BY <1>1, <1>7 DEF IInv, TypeOK
    <2> QED
      BY <1>1, <1>16, <2>1, <2>2, <2>3 DEF IInv, TypeOK, clients
  <1>19. ConnInv'
    BY <1>1 DEF IInv, ConnInv
  <1>20. RoundInv'
    <2>1. \A g \in copyset' \ {listenfd} : g \in readset /\ fd[g] \in Clients \ {c}
      BY <1>1, <1>4, HolderOf DEF IInv, TypeOK
    <2>2. \A g \in copyset' \ {listenfd} : Readable(fd[g])'
      BY <1>1, <1>9, <2>1 DEF IInv, RoundInv, Readable
    <2> QED
      BY <1>1, <1>7, <2>2 DEF IInv, RoundInv
  <1>21. \A d \in Clients : ClientInv(d)'
    BY <1>1, <1>11, <1>12, ClientSame DEF IInv
  <1> QED
    BY <1>16, <1>17, <1>18, <1>19, <1>20, <1>21 DEF IInv

\* The server closes a connection whose client is gone.
LEMMA DropStep ==
    ASSUME IInv, NEW f \in Fd, Drop(f)
    PROVE  IInv'
  <1>1. /\ server = "up" /\ todo = {} /\ f \in copyset /\ f # listenfd /\ copyset' = copyset \ {f}
        /\ UNCHANGED <<server, todo, response, active_users, backlog, inbox, out, clients>>
    BY DEF Drop, Scanning
  <1>2. f \in readset
    BY <1>1 DEF IInv, TypeOK
  <1>3. PICK c \in Clients : c = fd[f]
    BY <1>2, HolderOf
  <1>4. Holds(c) /\ ~Waiting(c) /\ link[c] # "none" /\ \A g \in Fd : fd[g] = c => g = f
    BY <1>2, <1>3, ChatAssumption, HolderOf DEF IInv, ConnInv
  <1>5. inbox[c] = <<>> /\ readset' = readset \ {f}
        /\ fd' = [fd EXCEPT ![f] = NoClient] /\ link' = [link EXCEPT ![c] = "over"]
    BY <1>3 DEF Drop
  <1>6. link'[c] = "over" /\ \A d \in Clients \ {c} : link'[d] = link[d]
    BY <1>5 DEF IInv, TypeOK
  <1>7. \A d \in Clients : Holds(d)' <=> (Holds(d) /\ d # c)
    BY <1>3, <1>4, <1>5, ChatAssumption DEF IInv, TypeOK, Holds
  <1>8. cl[c] \in Left
    <2>1. link[c] \in {"fin", "rst", "dead"}
      BY <1>1, <1>3, <1>5 DEF IInv, RoundInv, Readable
    <2> QED
      BY <2>1 DEF IInv, ClientInv, LinkInv
  <1>9. \A d : Waiting(d)' <=> Waiting(d)
    BY <1>1 DEF Waiting
  <1>10. TypeOK' /\ MailType'
    <2>1. fd' \in [Fd -> Clients \cup {NoClient}] /\ link' \in [Clients -> Links]
      BY <1>5 DEF IInv, TypeOK, Links
    <2>2. copyset' \subseteq readset' \cup {listenfd} /\ todo' \subseteq readset' /\ readset' \subseteq Fd
      BY <1>1, <1>5 DEF IInv, TypeOK
    <2> QED
      BY <1>1, <2>1, <2>2 DEF IInv, TypeOK, MailType, clients
  <1>11. ConnInv'
    BY <1>1, <1>5 DEF IInv, ConnInv, TypeOK
  <1>12. RoundInv'
    <2>1. \A g \in copyset' \ {listenfd} : g \in readset \ {f} /\ fd[g] \in Clients \ {c}
      BY <1>1, <1>3, <1>4, HolderOf DEF IInv, TypeOK
    <2>2. \A g \in copyset' \ {listenfd} : fd'[g] = fd[g]
      BY <1>5, <2>1 DEF IInv, TypeOK
    <2>3. \A g \in copyset' \ {listenfd} : Readable(fd[g])
      BY <1>1 DEF IInv, RoundInv
    <2>4. \A g \in copyset' \ {listenfd} : inbox'[fd'[g]] # <<>> \/ link'[fd'[g]] \in {"fin", "rst", "dead"}
      BY <1>1, <1>6, <2>1, <2>2, <2>3 DEF Readable
    <2> QED
      BY <1>1, <2>4 DEF IInv, RoundInv, Readable
  <1>13. \A d \in Clients \ {c} : SameClient(d)
    BY <1>1, <1>6, <1>7, <1>9 DEF SameClient, clients
  <1>14. ClientInv(c)'
    <2>1. LinkInv(c) /\ MailInv(c) /\ UserInv(c)
      BY DEF IInv, ClientInv
    <2>2. LinkInv(c)'
      BY <1>1, <1>4, <1>5, <1>6, <1>7, <1>8, <1>9, <2>1 DEF LinkInv, clients
    <2>3. MailInv(c)' /\ UserInv(c)'
      BY <1>1, <2>1 DEF MailInv, Genuine, Quits, UserInv, clients
    <2> QED
      BY <2>2, <2>3 DEF ClientInv
  <1>15. Counted(c)' <=> Counted(c)
    BY <1>1, <1>4, <1>6 DEF Counted, Accepted, QuitHeard, clients
  <1>16. Count'
    BY <1>1, <1>13, <1>15, CountedSame, CountSame DEF IInv
  <1>17. \A d \in Clients : ClientInv(d)'
    BY <1>1, <1>13, <1>14, ClientSame DEF IInv
  <1> QED
    BY <1>10, <1>11, <1>12, <1>16, <1>17 DEF IInv

\* The server writes to the next client.
LEMMA SendStep ==
    ASSUME IInv, NEW j \in Fd, Send(j)
    PROVE  IInv'
  <1>1. /\ server = "up" /\ j \in todo /\ todo' = todo \ {j}
        /\ response' = IF todo' = {} THEN NoMessage ELSE response
        /\ UNCHANGED <<server, readset, copyset, active_users, fd, backlog, inbox, clients>>
    BY DEF Send, Sending
  <1>2. j \in readset /\ response \in Message
    BY <1>1 DEF IInv, TypeOK, RoundInv
  <1>3. PICK c \in Clients : c = fd[j]
    BY <1>2, HolderOf
  <1>4. Holds(c) /\ ~Waiting(c)
    BY <1>2, <1>3, HolderOf
  <1>5. \/ /\ link[c] = "open" /\ Len(out[c]) < Buffer /\ link' = link
           /\ out' = [out EXCEPT ![c] = Append(@, response)]
        \/ link[c] = "fin" /\ link' = [link EXCEPT ![c] = "dead"] /\ out' = out
    BY <1>3 DEF Send
  <1>6. \A d \in Clients \ {c} : link'[d] = link[d] /\ out'[d] = out[d]
    BY <1>5 DEF IInv, TypeOK, MailType
  <1>7. out[c] \in Seq(Message) /\ Append(out[c], response) \in Seq(Message)
        /\ Len(Append(out[c], response)) = Len(out[c]) + 1
    BY <1>2, MailOf, AppendProperties DEF IInv
  <1>8. MailType'
    BY <1>1, <1>5, <1>7 DEF IInv, MailType
  <1>9. TypeOK'
    <2>1. out'[c] \in Seq(Message) /\ Len(out'[c]) <= Buffer
      <3>1. out'[c] = out[c] \/ (out'[c] = Append(out[c], response) /\ Len(out[c]) < Buffer)
        BY <1>5 DEF IInv, MailType
      <3>2. Len(out[c]) <= Buffer /\ Len(out[c]) \in Nat
        BY <1>7 DEF IInv, TypeOK
      <3> QED
        BY <1>7, <3>1, <3>2, ChatAssumption
    <2>2. \A d \in Clients : out'[d] \in Seq(Message) /\ Len(out'[d]) <= Buffer
      BY <1>6, <2>1 DEF IInv, TypeOK
    <2>3. link' \in [Clients -> Links]
      BY <1>5 DEF IInv, TypeOK, Links
    <2>4. todo' \subseteq readset' /\ response' \in Message \cup {NoMessage}
      BY <1>1, <1>2 DEF IInv, TypeOK
    <2> QED
      BY <1>1, <2>2, <2>3, <2>4 DEF IInv, TypeOK, clients
  <1>10. ConnInv'
    BY <1>1 DEF IInv, ConnInv
  <1>11. RoundInv'
    <2>1. \A d \in Clients : Readable(d) => Readable(d)'
      BY <1>1, <1>5, <1>6 DEF Readable, IInv, TypeOK
    <2>2. \A g \in copyset \ {listenfd} : fd[g] \in Clients
      BY HolderOf DEF IInv, TypeOK
    <2>3. \A g \in copyset \ {listenfd} : Readable(fd[g])'
      BY <1>1, <2>1, <2>2 DEF IInv, RoundInv, Readable
    <2> QED
      BY <1>1, <2>3 DEF IInv, RoundInv
  <1>12. \A d \in Clients \ {c} : SameClient(d)
    BY <1>1, <1>6, SameConn DEF SameClient, clients
  <1>13. ClientInv(c)'
    <2>1. LinkInv(c) /\ MailInv(c) /\ UserInv(c)
      BY DEF IInv, ClientInv
    <2>2. link'[c] = link[c] \/ (link[c] = "fin" /\ link'[c] = "dead")
      BY <1>5 DEF IInv, TypeOK
    <2>3. LinkInv(c)'
      BY <1>1, <1>4, <1>5, <2>1, <2>2, SameConn DEF LinkInv, clients
    <2>4. MailInv(c)' /\ UserInv(c)'
      BY <1>1, <2>1 DEF MailInv, Genuine, Quits, UserInv, clients
    <2> QED
      BY <2>3, <2>4 DEF ClientInv
  <1>14. Counted(c)' <=> Counted(c)
    BY <1>1, <1>5 DEF Counted, Accepted, QuitHeard, clients, IInv, TypeOK
  <1>15. Count'
    BY <1>1, <1>12, <1>14, CountedSame, CountSame DEF IInv
  <1>16. \A d \in Clients : ClientInv(d)'
    BY <1>1, <1>12, <1>13, ClientSame DEF IInv
  <1> QED
    BY <1>8, <1>9, <1>10, <1>11, <1>15, <1>16 DEF IInv

-----------------------------------------------------------------------------
(* The invariant holds.                                                    *)

LEMMA InitIInv == Init => IInv
  <1> SUFFICES ASSUME Init PROVE IInv
    OBVIOUS
  <1> USE DEF Init
  <1>1. <<>> \in Seq(Message) /\ <<>> \in Seq(Clients) /\ Len(<<>>) = 0
    OBVIOUS
  <1>2. TypeOK /\ MailType
    BY <1>1, ChatAssumption DEF TypeOK, MailType, Links
  <1>3. ConnInv /\ RoundInv
    BY <1>1 DEF ConnInv, RoundInv
  <1>4. \A c \in Clients : ~Waiting(c) /\ ~Holds(c)
    BY <1>1, ChatAssumption DEF Waiting, Holds
  <1>5. \A c \in Clients : LinkInv(c)
    BY <1>4 DEF LinkInv, Left
  <1>6. \A c \in Clients : MailInv(c) /\ UserInv(c)
    BY <1>1 DEF MailInv, Quits, UserInv
  <1>7. Count
    <2>1. {c \in Clients : Counted(c)} = {}
      BY DEF Counted, Accepted
    <2>2. Cardinality({}) = 0
      BY FS_EmptySet
    <2> QED
      BY <2>1, <2>2 DEF Count
  <1> QED
    BY <1>2, <1>3, <1>5, <1>6, <1>7 DEF IInv, ClientInv

LEMMA NextIInv == IInv /\ [Next]_vars => IInv'
  <1> SUFFICES ASSUME IInv, [Next]_vars PROVE IInv'
    OBVIOUS
  <1>1. CASE Server
    BY <1>1, QuietStep, AcceptStep, ReceiveStep, DropStep, SendStep DEF Server
  <1>2. ASSUME NEW c \in Clients, Client(c) \/ User(c) PROVE IInv'
    BY <1>2, WriteStep, OwnStep, HearStep, ExitStep, ConnectStep DEF Client, User
  <1>3. CASE UNCHANGED vars
    <2>1. UNCHANGED <<server, readset, copyset, todo, response, active_users, fd, backlog, link,
                      inbox, out, cl, type, said>>
      BY <1>3 DEF vars, memory, network, clients
    <2>2. \A c \in Clients : SameClient(c)
      BY <2>1, SameConn DEF SameClient
    <2>3. TypeOK' /\ MailType' /\ ConnInv'
      BY <2>1 DEF IInv, TypeOK, MailType, ConnInv
    <2>4. RoundInv'
      BY <2>1 DEF IInv, RoundInv, Readable
    <2>5. Count' /\ \A c \in Clients : ClientInv(c)'
      BY <2>1, <2>2, CountedSame, CountSame, ClientSame DEF IInv
    <2> QED
      BY <2>3, <2>4, <2>5 DEF IInv
  <1> QED
    BY <1>1, <1>2, <1>3 DEF Next

\* Connections, descriptors, rounds of the loop and what clients have written fit
\* together in every state.
THEOREM Invariance == Spec => []IInv
  BY InitIInv, NextIInv, PTL DEF Spec

\* active_users counts every client in the room once, and beyond them only clients
\* whose leaving the server has not been told of, for any number of clients.
THEOREM CountExact == Spec => []CountInv
  <1>1. IInv => CountInv
    <2> SUFFICES ASSUME IInv, server = "up"
                 PROVE  active_users \in Cardinality(Staying) .. Cardinality(Staying) + Cardinality(Unheard)
      BY DEF IInv, CountInv
    <2>1. {c \in Clients : Counted(c)} = Staying \cup Unheard
      BY DEF Counted, QuitHeard, Staying, Unheard
    <2>2. Staying \cap Unheard = {}
      BY DEF Staying, Unheard
    <2>3. IsFiniteSet(Staying) /\ IsFiniteSet(Unheard)
      BY ChatAssumption, FS_Subset DEF Staying, Unheard
    <2>4. Cardinality(Staying) \in Nat /\ Cardinality(Unheard) \in Nat
      BY <2>3, FS_CardinalityType
    <2>5. Cardinality(Staying \cup Unheard) = Cardinality(Staying) + Cardinality(Unheard)
      <3>1. Cardinality(Staying \cup Unheard)
              = Cardinality(Staying) + Cardinality(Unheard) - Cardinality(Staying \cap Unheard)
        BY <2>3, FS_Union
      <3>2. Cardinality(Staying \cap Unheard) = 0
        BY <2>2, FS_EmptySet
      <3> QED
        BY <2>4, <3>1, <3>2
    <2>6. active_users = Cardinality(Staying) + Cardinality(Unheard)
      BY <2>1, <2>5 DEF IInv, Count
    <2> QED
      BY <2>4, <2>6
  <1> QED
    BY <1>1, Invariance, PTL

\* A write fails, and ends the server, only when it goes to a client that is gone.
THEOREM OnlyTheGoneFail == Spec => FailsOnlyOnGone
  <1>1. IInv /\ [Next]_vars =>
          [server # "failed" /\ server' = "failed" =>
             \E f \in readset : fd[f] \in Clients /\ cl[fd[f]] \in Left]_vars
    <2> SUFFICES ASSUME IInv, Next, server # "failed", server' = "failed"
                 PROVE  \E f \in readset : fd[f] \in Clients /\ cl[fd[f]] \in Left
      OBVIOUS
    <2>1. PICK j \in Fd : SendFails(j)
      <3>1. CASE Server
        BY <3>1 DEF Server, Select, Accept, Receive, Drop, Send
      <3>2. ASSUME NEW c \in Clients, Client(c) \/ User(c) PROVE FALSE
        BY <3>2 DEF Client, User, Write, WriteLost, Hear, Leave, Connect, Type, Interrupt, Down, Exit
      <3> QED
        BY <3>1, <3>2 DEF Next
    <2>2. j \in readset /\ link[fd[j]] \in {"rst", "dead"}
      BY <2>1 DEF SendFails, Sending, IInv, TypeOK
    <2>3. fd[j] \in Clients
      BY <2>2, HolderOf
    <2> QED
      BY <2>2, <2>3 DEF IInv, ClientInv, LinkInv
  <1> QED
    BY <1>1, Invariance, PTL DEF Spec, FailsOnlyOnGone

-----------------------------------------------------------------------------
(* The chat implements the room.                                           *)

\* The client's part of the room, as Room takes it from the state.
Status(c)  == IF cl[c] \in Left THEN "gone" ELSE IF Accepted(c) THEN "in" ELSE "out"
Spoken(c)  == said[c] - Len(inbox[c])
Pending(c) == IF \E f \in todo : fd[f] = c THEN <<response>> ELSE <<>>
Due(c)     == IF cl[c] \in Left THEN <<>> ELSE out[c] \o Pending(c)

SameRoom(c) == Status(c)' = Status(c) /\ Spoken(c)' = Spoken(c) /\ Due(c)' = Due(c)

\* Steps of the room, client by client.
LEMMA RoomStutter ==
    ASSUME \A d \in Clients : SameRoom(d)
    PROVE  UNCHANGED Room!roomVars
  BY DEF SameRoom, Room!roomVars, Status, Spoken, Due, Pending

LEMMA RoomEnter ==
    ASSUME NEW c \in Clients, Status(c) = "out",
           \A d \in Clients : /\ Status(d)' = IF d = c THEN "in" ELSE Status(d)
                              /\ Spoken(d)' = Spoken(d) /\ Due(d)' = Due(d)
    PROVE  Room!Enter(c)
  BY DEF Room!Enter, Status, Spoken, Due, Pending

LEMMA RoomSay ==
    ASSUME NEW c \in Clients, NEW t \in 0 .. 2, Spoken(c) = 0 <=> t = 0,
           \A d \in Clients :
              /\ Status(d)' = Status(d)
              /\ Spoken(d)' = IF d = c THEN Spoken(c) + 1 ELSE Spoken(d)
              /\ Due(d)' = IF d # c /\ Status(d) = "in"
                           THEN Append(Due(d), [user |-> c, type |-> t, nr |-> Spoken(c)])
                           ELSE Due(d)
    PROVE  Room!Say(c)
  BY DEF Room!Say, Status, Spoken, Due, Pending

LEMMA RoomShow ==
    ASSUME NEW c \in Clients, Due(c) # <<>>,
           \A d \in Clients : /\ Status(d)' = Status(d) /\ Spoken(d)' = Spoken(d)
                              /\ Due(d)' = IF d = c THEN Tail(Due(c)) ELSE Due(d)
    PROVE  Room!Show(c)
  BY DEF Room!Show, Status, Spoken, Due, Pending

LEMMA RoomLeave ==
    ASSUME NEW c \in Clients, Status(c) # "gone",
           \A d \in Clients : /\ Status(d)' = IF d = c THEN "gone" ELSE Status(d)
                              /\ Spoken(d)' = Spoken(d)
                              /\ Due(d)' = IF d = c THEN <<>> ELSE Due(d)
    PROVE  Room!Leave(c)
  BY DEF Room!Leave, Status, Spoken, Due, Pending

\* What does not matter to the room.
LEMMA RoomSame ==
    ASSUME NEW c \in Clients, cl'[c] \in Left <=> cl[c] \in Left, Accepted(c)' <=> Accepted(c),
           Spoken(c)' = Spoken(c), out'[c] = out[c], Pending(c)' = Pending(c)
    PROVE  SameRoom(c)
  BY DEF SameRoom, Status, Due

LEMMA Sequences ==
    ASSUME NEW S, NEW s \in Seq(S), NEW x \in S
    PROVE  /\ s \o <<>> = s /\ s \o <<x>> = Append(s, x)
           /\ s # <<>> => /\ s \o <<x>> # <<>>
                          /\ Tail(s \o <<x>>) = Tail(s) \o <<x>>
  <1>1. s \o <<>> = s /\ s \o <<x>> = Append(s, x)
    BY ConcatEmptySeq, AppendIsConcat
  <1>2. ASSUME s # <<>> PROVE s \o <<x>> # <<>> /\ Tail(s \o <<x>>) = Tail(s) \o <<x>>
    <2>1. Tail(s) \in Seq(S)
      BY <1>2, HeadTailProperties
    <2>2. Append(s, x) # <<>> /\ Tail(Append(s, x)) = Append(Tail(s), x)
      BY <1>2, AppendProperties, HeadTailAppend
    <2>3. Tail(s) \o <<x>> = Append(Tail(s), x)
      BY <2>1, AppendIsConcat
    <2> QED
      BY <1>1, <2>2, <2>3
  <1> QED
    BY <1>1, <1>2

\* Who is accepted changes with the queue of accept and with a first connection only.
LEMMA AcceptedSame ==
    ASSUME NEW c \in Clients, backlog' = backlog, link'[c] = "none" <=> link[c] = "none"
    PROVE  Accepted(c)' <=> Accepted(c)
  BY DEF Accepted

\* Steps of the server that the room does not see: nothing is read, accepted or
\* passed on.
LEMMA QuietRoom ==
    ASSUME IInv, Select \/ \E f \in Fd : SendFails(f) \/ Drop(f)
    PROVE  \A d \in Clients : SameRoom(d)
  <1> SUFFICES ASSUME NEW d \in Clients PROVE SameRoom(d)
    OBVIOUS
  <1>1. CASE Select \/ \E f \in Fd : SendFails(f)
    <2>1. UNCHANGED <<todo, response, network, clients>>
      BY <1>1 DEF Select, SendFails, memory
    <2>2. Accepted(d)' <=> Accepted(d)
      BY <2>1, AcceptedSame DEF network
    <2> QED
      BY <2>1, <2>2, RoomSame DEF Spoken, Pending, network, clients
  <1>2. ASSUME NEW f \in Fd, Drop(f) PROVE SameRoom(d)
    <2>1. UNCHANGED <<todo, response, backlog, inbox, out, clients>> /\ todo = {}
      BY <1>2 DEF Drop, Scanning
    <2>2. link'[d] = "none" <=> link[d] = "none"
      <3>1. f \in readset
        BY <1>2 DEF Drop, Scanning, IInv, TypeOK
      <3> QED
        BY <1>2, <3>1, HolderOf DEF Drop, IInv, TypeOK
    <2>3. Accepted(d)' <=> Accepted(d)
      BY <2>1, <2>2, AcceptedSame
    <2> QED
      BY <2>1, <2>3, RoomSame DEF Spoken, Pending, clients
  <1> QED
    BY <1>1, <1>2

\* A client enters the room when it is accepted, unless it has gone by then.
LEMMA AcceptRoom ==
    ASSUME IInv, Accept
    PROVE  Room!Next \/ \A d \in Clients : SameRoom(d)
  <1>1. /\ todo = {} /\ listenfd \in copyset /\ backlog' = Tail(backlog)
        /\ UNCHANGED <<todo, response, link, inbox, out, clients>>
    BY DEF Accept, Scanning
  <1>2. backlog \in Seq(Clients) /\ backlog # <<>>
    BY <1>1 DEF IInv, TypeOK, RoundInv
  <1>3. PICK h \in Clients : h = backlog[1]
    BY <1>2
  <1>4. /\ Len(backlog') = Len(backlog) - 1 /\ Len(backlog) \in Nat \ {0}
        /\ \A k \in 1 .. Len(backlog') : backlog'[k] = backlog[k + 1]
    BY <1>1, <1>2, HeadTailProperties
  <1>5. \A d : Waiting(d)' <=> (Waiting(d) /\ d # h)
    <2>1. \A k \in 1 .. Len(backlog') : k + 1 \in 1 .. Len(backlog) /\ k + 1 # 1
      BY <1>4
    <2>2. \A k \in 1 .. Len(backlog) : k # 1 => k - 1 \in 1 .. Len(backlog') /\ (k - 1) + 1 = k
      BY <1>4
    <2>3. 1 \in 1 .. Len(backlog)
      BY <1>4
    <2>4. \A k \in 1 .. Len(backlog) : backlog[k] = h => k = 1
      BY <1>3, <2>3 DEF IInv, ConnInv
    <2>5. ASSUME NEW d, Waiting(d)' PROVE Waiting(d) /\ d # h
      BY <1>4, <2>1, <2>4, <2>5 DEF Waiting
    <2>6. ASSUME NEW d, Waiting(d), d # h PROVE Waiting(d)'
      <3>1. PICK k \in 1 .. Len(backlog) : backlog[k] = d
        BY <2>6 DEF Waiting
      <3>2. k # 1
        BY <1>3, <2>6, <3>1
      <3> QED
        BY <1>4, <2>2, <3>1, <3>2 DEF Waiting
    <2> QED
      BY <2>5, <2>6
  <1>6. Waiting(h) /\ link[h] # "none"
    <2>1. Waiting(h)
      BY <1>3, <1>4 DEF Waiting
    <2> QED
      BY <2>1 DEF IInv, ClientInv, LinkInv
  <1>7. ~Accepted(h) /\ Accepted(h)'
    BY <1>1, <1>5, <1>6 DEF Accepted, Waiting
  <1>8. \A d \in Clients : d # h => (Accepted(d)' <=> Accepted(d))
    BY <1>1, <1>5 DEF Accepted, Waiting
  <1>9. \A d \in Clients : Pending(d)' = Pending(d) /\ Spoken(d)' = Spoken(d)
    BY <1>1 DEF Pending, Spoken, clients
  <1>10. \A d \in Clients : d # h => SameRoom(d)
    BY <1>1, <1>8, <1>9, RoomSame DEF clients
  <1>11. Due(h)' = Due(h)
    BY <1>1, <1>9 DEF Due, clients
  <1>12. CASE cl[h] \in Left
    <2>1. Status(h)' = Status(h)
      BY <1>1, <1>12 DEF Status, clients
    <2> QED
      BY <1>9, <1>10, <1>11, <2>1 DEF SameRoom
  <1>13. CASE cl[h] \notin Left
    <2>1. Status(h) = "out" /\ Status(h)' = "in"
      BY <1>1, <1>7, <1>13 DEF Status, clients
    <2>2. Room!Enter(h)
      BY <1>9, <1>10, <1>11, <2>1, RoomEnter DEF SameRoom
    <2> QED
      BY <2>2 DEF Room!Next
  <1> QED
    BY <1>12, <1>13

\* A message that is read is said to everybody in the room.
LEMMA ReceiveRoom ==
    ASSUME IInv, NEW f \in Fd, Receive(f)
    PROVE  Room!Next
  <1>1. /\ todo = {} /\ f \in copyset /\ f # listenfd
        /\ UNCHANGED <<readset, fd, backlog, link, out, clients>>
    BY DEF Receive, Scanning
  <1>2. f \in readset
    BY <1>1 DEF IInv, TypeOK
  <1>3. PICK c \in Clients : c = fd[f]
    BY <1>2, HolderOf
  <1>4. \A g \in readset : fd[g] = c <=> g = f
    BY <1>2, <1>3, HolderOf
  <1>5. inbox[c] \in Seq(Message) /\ inbox[c] # <<>> /\ said[c] \in Nat
    BY <1>3, MailOf DEF Receive, IInv, TypeOK
  <1>6. PICK msg \in Message : msg = Head(inbox[c]) /\ msg = inbox[c][1]
    BY <1>5
  <1>7. /\ inbox' = [inbox EXCEPT ![c] = Tail(@)]
        /\ todo' = readset \ {f}
        /\ response' = IF todo' = {} THEN NoMessage ELSE msg
    BY <1>3, <1>6 DEF Receive, Announce
  <1>8. Spoken(c) \in Int /\ Spoken(c)' = Spoken(c) + 1 /\ \A d \in Clients : d # c => Spoken(d)' = Spoken(d)
    <2>1. Len(inbox[c]) \in Nat /\ Len(Tail(inbox[c])) = Len(inbox[c]) - 1
      BY <1>5, HeadTailProperties
    <2>2. inbox'[c] = Tail(inbox[c]) /\ \A d \in Clients : d # c => inbox'[d] = inbox[d]
      BY <1>7 DEF IInv, MailType
    <2> QED
      BY <1>1, <1>5, <2>1, <2>2 DEF Spoken, clients
  <1>9. msg.type \in 0 .. 2 /\ (Spoken(c) = 0 <=> msg.type = 0)
        /\ msg = [user |-> c, type |-> msg.type, nr |-> Spoken(c)]
    <2>1. 1 \in 1 .. Len(inbox[c])
      BY <1>5
    <2>2. Genuine(c, 1)
      BY <2>1 DEF IInv, ClientInv, MailInv
    <2>3. msg.user = c /\ msg.nr = Spoken(c) /\ (msg.type = 0 <=> msg.nr = 0)
      <3>1. Len(inbox[c]) \in Nat
        BY <1>5
      <3>2. said[c] - Len(inbox[c]) + 1 - 1 = said[c] - Len(inbox[c])
        BY <1>5, <3>1
      <3> QED
        BY <1>6, <2>2, <3>2 DEF Genuine, Spoken
    <2> QED
      BY <2>3 DEF Message
  <1>10. \A d \in Clients : Status(d)' = Status(d)
    BY <1>1, AcceptedSame DEF Status, clients
  <1>11. ASSUME NEW d \in Clients
         PROVE  Due(d)' = IF d # c /\ Status(d) = "in" THEN Append(Due(d), msg) ELSE Due(d)
    <2>1. out[d] \in Seq(Message)
      BY MailOf DEF IInv
    <2>2. Pending(d) = <<>> /\ cl' = cl /\ out' = out /\ fd' = fd
      BY <1>1 DEF Pending, clients
    <2>3. CASE cl[d] \in Left
      BY <2>2, <2>3 DEF Due, Status
    <2>4. CASE cl[d] \notin Left /\ d # c /\ Status(d) = "in"
      <3>1. Holds(d)
        BY <2>4 DEF Status, Accepted, Waiting, IInv, ClientInv, LinkInv, TypeOK, Links
      <3>2. \E g \in todo' : fd'[g] = d
        <4>1. PICK g \in Fd : fd[g] = d
          BY <3>1 DEF Holds
        <4>2. g \in readset /\ g # f
          BY <1>3, <2>4, <4>1, ChatAssumption DEF IInv, ConnInv
        <4> QED
          BY <1>7, <2>2, <4>1, <4>2
      <3>3. Pending(d)' = <<msg>>
        BY <1>7, <3>2 DEF Pending
      <3>4. Due(d)' = out[d] \o <<msg>> /\ Due(d) = out[d] \o <<>>
        BY <2>2, <2>4, <3>3 DEF Due
      <3> QED
        BY <2>1, <2>4, <3>4, Sequences
    <2>5. CASE cl[d] \notin Left /\ ~(d # c /\ Status(d) = "in")
      <3>1. \A g \in todo' : fd'[g] # d
        <4>1. CASE d = c
          BY <1>4, <1>7, <2>2, <4>1
        <4>2. CASE Status(d) # "in"
          <5>1. ~Holds(d)
            BY <2>5, <4>2 DEF Status, Accepted, Waiting, IInv, ClientInv, LinkInv
          <5> QED
            BY <1>7, <2>2, <5>1 DEF Holds, IInv, TypeOK
        <4> QED
          BY <2>5, <4>1, <4>2
      <3>2. Pending(d)' = <<>>
        BY <3>1 DEF Pending
      <3> QED
        BY <2>2, <2>5, <3>2 DEF Due
    <2> QED
      BY <2>3, <2>4, <2>5
  <1>12. Room!Say(c)
    BY <1>8, <1>9, <1>10, <1>11, RoomSay
  <1> QED
    BY <1>12 DEF Room!Next

\* Passing it on to one client makes no difference.
LEMMA SendRoom ==
    ASSUME IInv, NEW j \in Fd, Send(j)
    PROVE  \A d \in Clients : SameRoom(d)
  <1>1. /\ j \in todo /\ todo' = todo \ {j}
        /\ response' = IF todo' = {} THEN NoMessage ELSE response
        /\ UNCHANGED <<fd, backlog, inbox, clients>>
    BY DEF Send, Sending
  <1>2. j \in readset /\ response \in Message
    BY <1>1 DEF IInv, TypeOK, RoundInv
  <1>3. PICK c \in Clients : c = fd[j]
    BY <1>2, HolderOf
  <1>4. \/ /\ link[c] = "open" /\ link' = link
           /\ out' = [out EXCEPT ![c] = Append(@, response)]
        \/ link[c] = "fin" /\ link' = [link EXCEPT ![c] = "dead"] /\ out' = out
    BY <1>3 DEF Send
  <1>5. \A d \in Clients : Accepted(d)' <=> Accepted(d)
    BY <1>1, <1>4, AcceptedSame DEF IInv, TypeOK
  <1>6. \A d \in Clients : Spoken(d)' = Spoken(d) /\ cl'[d] = cl[d]
    BY <1>1 DEF Spoken, clients
  <1>7. ASSUME NEW d \in Clients, d # c PROVE SameRoom(d)
    <2>1. out'[d] = out[d]
      BY <1>4, <1>7 DEF IInv, MailType
    <2>2. \A g \in todo : fd[g] = d => g # j
      BY <1>3, <1>7
    <2>3. Pending(d)' = Pending(d)
      BY <1>1, <2>2 DEF Pending
    <2> QED
      BY <1>5, <1>6, <2>1, <2>3, RoomSame
  <1>8. SameRoom(c)
    <2>1. Status(c)' = Status(c)
      BY <1>5, <1>6 DEF Status
    <2>2. CASE cl[c] \in Left
      BY <1>6, <2>1, <2>2 DEF SameRoom, Due
    <2>3. CASE cl[c] \notin Left
      <3>1. link[c] = "open"
        BY <1>4, <2>3 DEF IInv, ClientInv, LinkInv
      <3>2. out[c] \in Seq(Message) /\ out'[c] = Append(out[c], response)
        BY <1>4, <3>1, MailOf DEF IInv, MailType
      <3>3. Append(out[c], response) \in Seq(Message)
        BY <1>2, <3>2, AppendProperties
      <3>4. Pending(c) = <<response>>
        BY <1>1, <1>3 DEF Pending
      <3>5. Pending(c)' = <<>>
        <4>1. \A g \in todo \ {j} : fd[g] # c
          BY <1>2, <1>3, HolderOf DEF IInv, TypeOK
        <4> QED
          BY <1>1, <4>1 DEF Pending
      <3>6. Due(c) = out[c] \o <<response>> /\ Due(c)' = Append(out[c], response) \o <<>>
        BY <1>6, <2>3, <3>2, <3>4, <3>5 DEF Due
      <3>7. Due(c) = Append(out[c], response)
        BY <1>2, <3>2, <3>6, Sequences
      <3>8. Append(out[c], response) \o <<>> = Append(out[c], response)
        BY <3>3, ConcatEmptySeq
      <3> QED
        BY <1>6, <2>1, <3>6, <3>7, <3>8 DEF SameRoom
    <2> QED
      BY <2>2, <2>3
  <1> QED
    BY <1>7, <1>8

\* What a client does by itself: it is shown what is due, or it leaves, or nothing
\* changes for the room.
LEMMA ClientRoom ==
    ASSUME IInv, NEW c \in Clients, Client(c) \/ User(c)
    PROVE  Room!Next \/ \A d \in Clients : SameRoom(d)
  <1>1. todo' = todo /\ response' = response /\ fd' = fd
    BY DEF Client, User, Write, WriteLost, Hear, Leave, Connect, Type, Interrupt, Down, Exit, memory, network
  <1>2. \A d \in Clients : Pending(d)' = Pending(d)
    BY <1>1 DEF Pending
  <1>3. CASE Connect(c)
    <2>1. /\ cl[c] = "off" /\ backlog' = Append(backlog, c) /\ backlog \in Seq(Clients)
          /\ cl' = [cl EXCEPT ![c] = "writing"] /\ link' = [link EXCEPT ![c] = "open"]
          /\ UNCHANGED <<inbox, out, said>>
      BY <1>3 DEF Connect, IInv, TypeOK
    <2>2. /\ Len(backlog') = Len(backlog) + 1 /\ Len(backlog) \in Nat
          /\ \A k \in 1 .. Len(backlog) : backlog'[k] = backlog[k]
          /\ backlog'[Len(backlog) + 1] = c
      BY <2>1, AppendProperties
    <2>3. \A d : Waiting(d)' <=> (Waiting(d) \/ d = c)
      BY <2>2 DEF Waiting
    <2>4. link[c] = "none"
      BY <2>1 DEF IInv, ClientInv, LinkInv
    <2>5. \A d \in Clients : Accepted(d)' <=> Accepted(d)
      BY <2>1, <2>3, <2>4 DEF Accepted, Waiting, IInv, TypeOK
    <2>6. \A d \in Clients : cl'[d] \in Left <=> cl[d] \in Left
      BY <2>1 DEF IInv, TypeOK, Left
    <2> QED
      BY <1>2, <2>1, <2>5, <2>6, RoomSame DEF Spoken
  <1>4. CASE Type(c) \/ WriteLost(c)
    <2>1. UNCHANGED <<network, said>>
      BY <1>4 DEF Type, WriteLost
    <2>2. \A d \in Clients : cl'[d] \in Left <=> cl[d] \in Left
      BY <1>4 DEF Type, WriteLost, Written, IInv, TypeOK, Left
    <2>3. \A d \in Clients : Accepted(d)' <=> Accepted(d)
      BY <2>1, AcceptedSame DEF network
    <2> QED
      BY <1>2, <2>1, <2>2, <2>3, RoomSame DEF Spoken, network
  <1>5. CASE Write(c)
    <2>1. UNCHANGED <<link, backlog, out>> /\ said' = [said EXCEPT ![c] = @ + 1]
          /\ \E msg \in Message : inbox' = [inbox EXCEPT ![c] = Append(@, msg)]
      <3>1. type[c] \in 0 .. 2 /\ said[c] \in 0 .. Talks + 1
        BY <1>5, ChatAssumption DEF Write, IInv, TypeOK, ClientInv, UserInv
      <3>2. [user |-> c, type |-> type[c], nr |-> said[c]] \in Message
        BY <3>1 DEF Message
      <3> QED
        BY <1>5, <3>2 DEF Write
    <2>2. \A d \in Clients : cl'[d] \in Left <=> cl[d] \in Left
      BY <1>5 DEF Write, Written, IInv, TypeOK, Left
    <2>3. \A d \in Clients : Accepted(d)' <=> Accepted(d)
      BY <2>1, AcceptedSame
    <2>4. \A d \in Clients : Spoken(d)' = Spoken(d)
      <3>1. PICK msg \in Message : inbox' = [inbox EXCEPT ![c] = Append(@, msg)]
        BY <2>1
      <3>2. inbox[c] \in Seq(Message)
        BY MailOf DEF IInv
      <3>3. Len(Append(inbox[c], msg)) = Len(inbox[c]) + 1 /\ Len(inbox[c]) \in Nat
        BY <3>2, AppendProperties
      <3>4. said'[c] = said[c] + 1 /\ said[c] \in Nat /\ inbox'[c] = Append(inbox[c], msg)
        BY <2>1, <3>1 DEF IInv, TypeOK, MailType
      <3>5. \A d \in Clients : d # c => said'[d] = said[d] /\ inbox'[d] = inbox[d]
        BY <2>1, <3>1 DEF IInv, TypeOK, MailType
      <3>6. Spoken(c)' = Spoken(c)
        <4>1. said'[c] - Len(inbox'[c]) = said[c] - Len(inbox[c])
          BY <3>3, <3>4
        <4> QED
          BY <4>1 DEF Spoken
      <3>7. ASSUME NEW d \in Clients, d # c PROVE Spoken(d)' = Spoken(d)
        BY <3>5, <3>7 DEF Spoken
      <3> QED
        BY <3>6, <3>7
    <2> QED
      BY <1>2, <2>1, <2>2, <2>3, <2>4, RoomSame
  <1>6. CASE Hear(c)
    <2>1. /\ UNCHANGED <<backlog, link, inbox, cl, said>> /\ cl[c] = "in" /\ out[c] # <<>>
          /\ out' = [out EXCEPT ![c] = Tail(@)]
      BY <1>6 DEF Hear, clients
    <2>2. \A d \in Clients : Status(d)' = Status(d) /\ Spoken(d)' = Spoken(d)
      BY <2>1, AcceptedSame DEF Status, Spoken
    <2>3. \A d \in Clients : d # c => Due(d)' = Due(d)
      BY <1>2, <2>1 DEF Due, IInv, MailType
    <2>4. Due(c) # <<>> /\ Due(c)' = Tail(Due(c))
      <3>1. out[c] \in Seq(Message) /\ out'[c] = Tail(out[c])
        BY <2>1, MailOf DEF IInv, MailType
      <3>2. Due(c) = out[c] \o Pending(c) /\ Due(c)' = Tail(out[c]) \o Pending(c)
        BY <1>2, <2>1, <3>1 DEF Due, Left
      <3>3. Tail(out[c]) \in Seq(Message)
        BY <2>1, <3>1, HeadTailProperties
      <3>4. CASE todo = {}
        <4>1. Pending(c) = <<>>
          BY <3>4 DEF Pending
        <4> QED
          BY <2>1, <3>1, <3>2, <3>3, <4>1, ConcatEmptySeq
      <3>5. CASE todo # {}
        <4>1. Pending(c) = <<>> \/ (Pending(c) = <<response>> /\ response \in Message)
          BY <3>5 DEF Pending, IInv, RoundInv
        <4>2. CASE Pending(c) = <<>>
          BY <2>1, <3>1, <3>2, <3>3, <4>2, ConcatEmptySeq
        <4>3. CASE Pending(c) = <<response>> /\ response \in Message
          BY <2>1, <3>1, <3>2, <4>3, Sequences
        <4> QED
          BY <4>1, <4>2, <4>3
      <3> QED
        BY <3>4, <3>5
    <2>5. Room!Show(c)
      BY <2>2, <2>3, <2>4, RoomShow
    <2> QED
      BY <2>5 DEF Room!Next
  <1>7. CASE Leave(c) \/ Interrupt(c) \/ Down(c)
    <2>1. PICK how \in Left : Exit(c, how) /\ cl[c] \notin Left
      BY <1>7 DEF Leave, Interrupt, Down, Left
    <2>2. UNCHANGED <<backlog, inbox, out, said>> /\ cl' = [cl EXCEPT ![c] = how]
      BY <2>1 DEF Exit
    <2>3. Status(c) # "gone" /\ Status(c)' = "gone" /\ Due(c)' = <<>>
      BY <2>1, <2>2 DEF Status, Due, IInv, TypeOK
    <2>4. ASSUME NEW d \in Clients, d # c PROVE Status(d)' = Status(d) /\ Due(d)' = Due(d)
      <3>1. cl'[d] = cl[d] /\ link'[d] = link[d]
        BY <2>1, <2>4 DEF Exit, IInv, TypeOK
      <3>2. Accepted(d)' <=> Accepted(d)
        BY <2>2, <3>1, AcceptedSame
      <3> QED
        BY <1>2, <2>2, <3>1, <3>2 DEF Status, Due
    <2>5. \A d \in Clients : Spoken(d)' = Spoken(d)
      BY <2>2 DEF Spoken
    <2>6. Room!Leave(c)
      BY <2>3, <2>4, <2>5, RoomLeave
    <2> QED
      BY <2>6 DEF Room!Next
  <1> QED
    BY <1>3, <1>4, <1>5, <1>6, <1>7 DEF Client, User

\* What one client says every other client in the room is shown, all in the same
\* order, whatever the loop does in between and whoever leaves meanwhile.
THEOREM Implementation == Spec => ImplementsRoom
  <1>1. Init => Room!Init
    <2> SUFFICES ASSUME Init PROVE Room!Init
      OBVIOUS
    <2>1. \A c \in Clients : Status(c) = "out" /\ Spoken(c) = 0 /\ Due(c) = <<>>
      BY DEF Init, Status, Spoken, Due, Pending, Accepted, Left
    <2> QED
      BY <2>1 DEF Room!Init, Status, Spoken, Due, Pending
  <1>2. ASSUME IInv, [Next]_vars PROVE [Room!Next]_(Room!roomVars)
    <2>1. CASE Server
      BY <1>2, <2>1, QuietRoom, AcceptRoom, ReceiveRoom, SendRoom, RoomStutter DEF Server
    <2>2. ASSUME NEW c \in Clients, Client(c) \/ User(c) PROVE [Room!Next]_(Room!roomVars)
      BY <1>2, <2>2, ClientRoom, RoomStutter
    <2>3. CASE UNCHANGED vars
      <3>1. \A d \in Clients : SameRoom(d)
        BY <2>3 DEF vars, memory, network, clients, SameRoom, Status, Spoken, Due, Pending, Accepted
      <3> QED
        BY <3>1, RoomStutter
    <2> QED
      BY <1>2, <2>1, <2>2, <2>3 DEF Next
  <1> QED
    BY <1>1, <1>2, Invariance, PTL DEF Spec, ImplementsRoom, Room!Spec
=============================================================================
