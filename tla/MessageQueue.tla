---------------------------- MODULE MessageQueue ----------------------------
(***************************************************************************)
(* The chat of week10/main.c over a System V message queue.  Each process  *)
(* of the program forks: the parent sends what its user types, the child   *)
(* polls the queue for messages to its user and for acknowledgements.      *)
(*                                                                         *)
(* The queue belongs to the kernel: it holds messages in order, msgrcv     *)
(* takes the first one of a type, msgsnd blocks while it is full, and what *)
(* a process leaves in it stays.  The text of a message is left out.       *)
(***************************************************************************)
EXTENDS Integers, Sequences, FiniteSets, FiniteSetsExt, SequencesExt

CONSTANTS
    Procs,          \* processes of the program that are started
    user_id,        \* user_id[p]: the user at process p
    receiver_id,    \* receiver_id[p]: the user p writes to
    T_MSG,          \* offset of the types of acknowledgements
    Capacity,       \* bound: how many messages the queue holds
    Lines           \* bound: Lines[p]: how many lines are typed at process p

Users == {user_id[p] : p \in Procs} \cup {receiver_id[p] : p \in Procs}

\* No user's number is the type of the acknowledgements for another.
ASSUME QueueAssumption ==
    /\ IsFiniteSet(Procs)
    /\ T_MSG \in Nat /\ Capacity \in Nat \ {0} /\ Lines \in [Procs -> Nat]
    /\ user_id \in [Procs -> Nat \ {0}] /\ receiver_id \in [Procs -> Nat \ {0}]
    /\ \A u, v \in Users : u # T_MSG + v

VARIABLES
    exists,     \* the queue has been created
    queue,      \* the types of the messages in it, oldest first
    parent,     \* parent[p]: what the sending process of p is doing
    child,      \* child[p]: what the receiving process of p is doing
    typed,      \* typed[p]: how many lines were typed at p
    printed,    \* printed[p]: how many messages p's child has printed
    shown       \* shown[p]: how many acknowledgements p's child has printed

vars == <<exists, queue, parent, child, typed, printed, shown>>

TypeOK ==
    /\ exists \in BOOLEAN
    /\ queue \in Seq(Users \cup {T_MSG + u : u \in Users})
    /\ Len(queue) <= Capacity
    /\ queue # <<>> => exists
    /\ parent \in [Procs -> {"off", "open", "input", "sending", "gone"}]
    /\ child \in [Procs -> {"off", "texts", "print", "ack", "acks", "show", "gone"}]
    /\ \A p \in Procs : typed[p] \in 0 .. Lines[p]
    /\ printed \in [Procs -> Nat]
    /\ shown \in [Procs -> Nat]

Init ==
    /\ exists = FALSE
    /\ queue = <<>>
    /\ parent = [p \in Procs |-> "off"]
    /\ child = [p \in Procs |-> "off"]
    /\ typed = [p \in Procs |-> 0]
    /\ printed = [p \in Procs |-> 0]
    /\ shown = [p \in Procs |-> 0]

-----------------------------------------------------------------------------
(* The queue.                                                              *)

Positions(type) == {k \in DOMAIN queue : queue[k] = type}

Queued(type) == exists /\ Positions(type) # {}

\* Faulty variant: type 0, the first message whatever its type.
ReceiveFirst(type) == Queued(type) /\ queue' = Tail(queue)

\* msgrcv: the first message of the type leaves the queue.
Receive(type) ==
    /\ Queued(type)
    /\ queue' = RemoveAt(queue, Min(Positions(type)))

\* msgsnd without IPC_NOWAIT.
Send(type) == Len(queue) < Capacity /\ queue' = Append(queue, type)

-----------------------------------------------------------------------------
(* The parent.                                                             *)

\* The ids are entered and the process forks.
Fork(p) ==
    /\ parent[p] = "off"
    /\ parent' = [parent EXCEPT ![p] = "open"]
    /\ child' = [child EXCEPT ![p] = "texts"]
    /\ UNCHANGED <<exists, queue, typed, printed, shown>>

\* msgget with IPC_CREAT.
Open(p) ==
    /\ parent[p] = "open"
    /\ exists' = TRUE
    /\ parent' = [parent EXCEPT ![p] = "input"]
    /\ UNCHANGED <<queue, child, typed, printed, shown>>

\* The user has typed a line.
Type(p) ==
    /\ parent[p] = "input"
    /\ typed[p] < Lines[p]
    /\ typed' = [typed EXCEPT ![p] = @ + 1]
    /\ parent' = [parent EXCEPT ![p] = "sending"]
    /\ UNCHANGED <<exists, queue, child, printed, shown>>

SendText(p) ==
    /\ parent[p] = "sending"
    /\ Send(receiver_id[p])
    /\ parent' = [parent EXCEPT ![p] = "open"]
    /\ UNCHANGED <<exists, child, typed, printed, shown>>

\* The user types quit: the child gets SIGINT.
Quit(p) ==
    /\ parent[p] = "input"
    /\ parent' = [parent EXCEPT ![p] = "gone"]
    /\ child' = [child EXCEPT ![p] = "gone"]
    /\ UNCHANGED <<exists, queue, typed, printed, shown>>

\* getline reports the end of the input: the parent exits, and only it.
EndOfInput(p) ==
    /\ parent[p] = "input"
    /\ parent' = [parent EXCEPT ![p] = "gone"]
    /\ UNCHANGED <<exists, queue, child, typed, printed, shown>>

\* SIGINT from the terminal ends both.
Interrupt(p) ==
    /\ parent[p] \in {"open", "sending"}
    /\ parent' = [parent EXCEPT ![p] = "gone"]
    /\ child' = [child EXCEPT ![p] = "gone"]
    /\ UNCHANGED <<exists, queue, typed, printed, shown>>

-----------------------------------------------------------------------------
(* The child, one round of its loop after the other.  The queue is opened  *)
(* at the beginning of a round; while there is none, msgrcv fails.         *)

TakeText(p) ==
    /\ child[p] = "texts"
    /\ Receive(user_id[p])
    /\ child' = [child EXCEPT ![p] = "print"]
    /\ UNCHANGED <<exists, parent, typed, printed, shown>>

PrintText(p) ==
    /\ child[p] = "print"
    /\ printed' = [printed EXCEPT ![p] = @ + 1]
    /\ child' = [child EXCEPT ![p] = "ack"]
    /\ UNCHANGED <<exists, queue, parent, typed, shown>>

NoText(p) ==
    /\ child[p] = "texts"
    /\ ~Queued(user_id[p])
    /\ child' = [child EXCEPT ![p] = "acks"]
    /\ UNCHANGED <<exists, queue, parent, typed, printed, shown>>

\* Faulty variant: the user's own number is used.
AckTypeOwn(p) == T_MSG + user_id[p]

\* The acknowledgement goes to the user that p writes to, whoever sent the text.
AckType(p) == T_MSG + receiver_id[p]

SendAck(p) ==
    /\ child[p] = "ack"
    /\ Send(AckType(p))
    /\ child' = [child EXCEPT ![p] = "acks"]
    /\ UNCHANGED <<exists, parent, typed, printed, shown>>

TakeAck(p) ==
    /\ child[p] = "acks"
    /\ Receive(T_MSG + user_id[p])
    /\ child' = [child EXCEPT ![p] = "show"]
    /\ UNCHANGED <<exists, parent, typed, printed, shown>>

ShowAck(p) ==
    /\ child[p] = "show"
    /\ shown' = [shown EXCEPT ![p] = @ + 1]
    /\ child' = [child EXCEPT ![p] = "texts"]
    /\ UNCHANGED <<exists, queue, parent, typed, printed>>

\* Faulty variant: the round ends here only with an acknowledgement.
NoAckWaits(p) ==
    /\ child[p] = "acks"
    /\ ~exists
    /\ child' = [child EXCEPT ![p] = "texts"]
    /\ UNCHANGED <<exists, queue, parent, typed, printed, shown>>

NoAck(p) ==
    /\ child[p] = "acks"
    /\ ~Queued(T_MSG + user_id[p])
    /\ child' = [child EXCEPT ![p] = "texts"]
    /\ UNCHANGED <<exists, queue, parent, typed, printed, shown>>

-----------------------------------------------------------------------------

Parent(p) == Open(p) \/ SendText(p)
Child(p)  == \/ TakeText(p) \/ PrintText(p) \/ NoText(p)
             \/ SendAck(p) \/ TakeAck(p) \/ ShowAck(p) \/ NoAck(p)
User(p)   == Fork(p) \/ Type(p) \/ Quit(p) \/ EndOfInput(p) \/ Interrupt(p)

Next == \E p \in Procs : Parent(p) \/ Child(p) \/ User(p)

Spec == Init /\ [][Next]_vars

\* Both processes run.  A sender that waits for room is not promised a turn: the
\* kernel may let another one in first.
FairSpec == Spec /\ \A p \in Procs : WF_vars(Parent(p)) /\ WF_vars(Child(p))

-----------------------------------------------------------------------------
(* Properties.                                                             *)

At(u)       == {p \in Procs : user_id[p] = u}
WriteTo(u)  == {p \in Procs : receiver_id[p] = u}
InQueue(type) == Cardinality(Positions(type))

\* The sum of the numbers f[p], as the size of a set with f[p] elements for each p.
Total(f, P) == Cardinality(UNION {{p} \X (1 .. f[p]) : p \in P})

\* Of the processes of user u, or of those that write to u, the ones whose child is
\* doing what.
ChildrenAt(u, what) == {p \in At(u) : child[p] = what}
ChildrenTo(u, what) == {p \in WriteTo(u) : child[p] = what}
ParentsTo(u, what)  == {p \in WriteTo(u) : parent[p] = what}

\* msgsnd of the parent, msgrcv of the child: every line typed for user u is waiting
\* to be sent, in the queue, about to be printed, or was printed once; a sender and a
\* receiver that ended may each have lost the one in their hands.
QueueInv ==
    /\ TypeOK
    /\ \A u \in Users :
        LET lines     == Total(typed, WriteTo(u))
            accounted == InQueue(u) + Total(printed, At(u))
            inHands   == Cardinality(ParentsTo(u, "sending")) + Cardinality(ChildrenAt(u, "print"))
            ended     == Cardinality(ParentsTo(u, "gone")) + Cardinality(ChildrenAt(u, "gone"))
        IN  accounted + inHands \in (lines - ended) .. lines

\* "Send an ack message": for every text printed by a process that writes to u, user u
\* has shown an acknowledgement, is about to, or one is in the queue or about to be
\* sent; a child that was killed may have lost the one in its hands.  Only among
\* users who write to nobody else but each other is u also the sender of the text.
AcksMatch ==
    \A u \in Users :
        LET texts   == Total(printed, WriteTo(u))
            acks    == InQueue(T_MSG + u) + Total(shown, At(u))
            inHands == Cardinality(ChildrenTo(u, "ack")) + Cardinality(ChildrenAt(u, "show"))
            killed  == Cardinality(ChildrenTo(u, "gone")) + Cardinality(ChildrenAt(u, "gone"))
        IN  acks + inHands \in (texts - killed) .. texts

TypesOf(p) == {user_id[p], T_MSG + user_id[p]}

\* The queue is full, and what is in it is for children that have ended or would
\* first have to put an acknowledgement into it.
Jammed ==
    /\ Len(queue) = Capacity
    /\ \A p \in Procs : child[p] \notin {"off", "ack", "gone"} => \A type \in TypesOf(p) : ~Queued(type)

\* A child that polls for texts and acknowledgements in turn never lets one of its
\* user's lie in the queue for ever, unless the queue is jammed.
Delivered ==
    \A p \in Procs : \A type \in TypesOf(p) :
        Queued(type) /\ child[p] \notin {"off", "gone"}
            ~> ~Queued(type) \/ child[p] = "gone" \/ Jammed
=============================================================================
