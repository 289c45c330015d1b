------------------------------ MODULE ChatRoom ------------------------------
(***************************************************************************)
(* What the chat of week13 promises: whatever is said in the room is due   *)
(* to everybody else who is in it at that moment, in one step, and each    *)
(* client is shown what is due to it in that order.  Chat implements it.   *)
(***************************************************************************)
EXTENDS Integers, Sequences

CONSTANT Clients

VARIABLES
    status,     \* status[c]: "out" of the room so far, "in" it, "gone" for good
    spoken,     \* spoken[c]: how many messages of c the room has heard
    due         \* due[c]: what c has yet to be shown

roomVars == <<status, spoken, due>>

Init ==
    /\ status = [c \in Clients |-> "out"]
    /\ spoken = [c \in Clients |-> 0]
    /\ due = [c \in Clients |-> <<>>]

Enter(c) ==
    /\ status[c] = "out"
    /\ status' = [status EXCEPT ![c] = "in"]
    /\ UNCHANGED <<spoken, due>>

\* The next message of c, which may be gone by now.  The first one says that it
\* has joined, the others are chat or say that it has left.
Say(c) == \E type \in 0 .. 2 :
    /\ spoken[c] = 0 <=> type = 0
    /\ spoken' = [spoken EXCEPT ![c] = @ + 1]
    /\ due' = [d \in Clients |->
                 IF d # c /\ status[d] = "in"
                 THEN Append(due[d], [user |-> c, type |-> type, nr |-> spoken[c]])
                 ELSE due[d]]
    /\ UNCHANGED status

Show(c) ==
    /\ due[c] # <<>>
    /\ due' = [due EXCEPT ![c] = Tail(@)]
    /\ UNCHANGED <<status, spoken>>

Leave(c) ==
    /\ status[c] # "gone"
    /\ status' = [status EXCEPT ![c] = "gone"]
    /\ due' = [due EXCEPT ![c] = <<>>]
    /\ UNCHANGED spoken

Next == \E c \in Clients : Enter(c) \/ Say(c) \/ Show(c) \/ Leave(c)

Spec == Init /\ [][Next]_roomVars
=============================================================================
