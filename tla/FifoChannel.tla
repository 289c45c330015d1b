----------------------------- MODULE FifoChannel -----------------------------
(***************************************************************************)
(* What the queue of week15/main.c is for: producers hand numbers to       *)
(* consumers through a buffer of bounded size, first in, first out, with   *)
(* no number lost, invented or delivered twice.                            *)
(***************************************************************************)
EXTENDS Integers, Sequences

CONSTANTS Producers, Consumers, Capacity, Loops

VARIABLES
    buffer,     \* numbers put and not got yet
    sent,       \* sent[p]: how many numbers p has put
    received    \* received[c]: how many numbers c has got

chanVars == <<buffer, sent, received>>

Init ==
    /\ buffer = <<>>
    /\ sent = [p \in Producers |-> 0]
    /\ received = [c \in Consumers |-> 0]

\* Producer p puts its next number.
Put(p) ==
    /\ Len(buffer) < Capacity
    /\ sent[p] < Loops
    /\ buffer' = Append(buffer, sent[p])
    /\ sent' = [sent EXCEPT ![p] = @ + 1]
    /\ UNCHANGED received

\* Consumer c gets the oldest number.
Get(c) ==
    /\ buffer # <<>>
    /\ received[c] < Loops
    /\ buffer' = Tail(buffer)
    /\ received' = [received EXCEPT ![c] = @ + 1]
    /\ UNCHANGED sent

Next == (\E p \in Producers : Put(p)) \/ (\E c \in Consumers : Get(c))

Spec == Init /\ [][Next]_chanVars
=============================================================================
