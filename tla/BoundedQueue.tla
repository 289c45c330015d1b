---------------------------- MODULE BoundedQueue ----------------------------
(***************************************************************************)
(* The bounded queue of week15/main.c: a circular array shared by producer *)
(* and consumer threads, with one mutex and two condition variables, and   *)
(* main, which joins the threads and deletes the queue.  main creates one  *)
(* producer and one consumer; the module takes any number of each.         *)
(***************************************************************************)
EXTENDS Integers, Sequences, FiniteSets

CONSTANTS
    Producers,  \* threads that run produce
    Consumers,  \* threads that run consume
    Nobody,     \* marks a free mutex
    Capacity,   \* QSIZE, 5 in the code
    Loops       \* LOOP, 30 in the code

Threads == Producers \cup Consumers

ASSUME QueueAssumption ==
    /\ Capacity \in Nat \ {0}
    /\ Loops \in Nat
    /\ Producers \cap Consumers = {}
    /\ IsFiniteSet(Threads)
    /\ Nobody \notin Threads

VARIABLES
    put_index,  \* rear
    get_index,  \* front
    length,     \* size
    data,       \* the circular array
    lock,       \* the mutex: its holder, or Nobody
    not_full,   \* the threads waiting on each condition variable
    not_empty,
    pc,         \* pc[t]: next step of thread t
    i,          \* i[t]: its loop index
    deleted     \* main has called qdelete

queue   == <<put_index, get_index, length, data>>
conds   == <<not_full, not_empty>>
vars    == <<queue, lock, conds, pc, i, deleted>>

\* lock: about to lock the mutex; test: at the while with the mutex; wait: in
\* pthread_cond_wait; signal, unlock: the item is moved; exit: the loop is over.
Labels == {"lock", "test", "wait", "signal", "unlock", "exit"}
Slots  == 0 .. Capacity - 1

TypeOK ==
    /\ put_index \in Slots
    /\ get_index \in Slots
    /\ length \in 0 .. Capacity
    /\ data \in [Slots -> Nat]
    /\ lock \in Threads \cup {Nobody}
    /\ not_full \subseteq Producers
    /\ not_empty \subseteq Consumers
    /\ pc \in [Threads -> Labels]
    /\ i \in [Threads -> 0 .. Loops]
    /\ deleted \in BOOLEAN

\* qinit.  malloc leaves the array as it is: any numbers, 0 stands for them here
\* because no slot is read before it is written.
Init ==
    /\ put_index = 0
    /\ get_index = 0
    /\ length = 0
    /\ data = [s \in Slots |-> 0]
    /\ lock = Nobody
    /\ not_full = {}
    /\ not_empty = {}
    /\ pc = [t \in Threads |-> IF Loops = 0 THEN "exit" ELSE "lock"]
    /\ i = [t \in Threads |-> 0]
    /\ deleted = FALSE

-----------------------------------------------------------------------------

Go(t, from, to) ==
    /\ pc[t] = from
    /\ pc' = [pc EXCEPT ![t] = to]

Lock(t) ==
    /\ lock = Nobody
    /\ lock' = t
    /\ Go(t, "lock", "test")
    /\ UNCHANGED <<queue, conds, i, deleted>>

\* pthread_cond_wait(cond, &lock): the mutex is released and the thread is put
\* among the waiters in one step.
WaitNotFull(t) ==
    /\ length = Capacity
    /\ lock' = Nobody
    /\ not_full' = not_full \cup {t}
    /\ Go(t, "test", "wait")
    /\ UNCHANGED <<queue, not_empty, i, deleted>>

WaitNotEmpty(t) ==
    /\ length = 0
    /\ lock' = Nobody
    /\ not_empty' = not_empty \cup {t}
    /\ Go(t, "test", "wait")
    /\ UNCHANGED <<queue, not_full, i, deleted>>

\* The wait returns, with the mutex, to a thread that is no waiter any more.
Wake(t) ==
    /\ t \notin not_full \cup not_empty
    /\ lock = Nobody
    /\ lock' = t
    /\ Go(t, "wait", "test")
    /\ UNCHANGED <<queue, conds, i, deleted>>

\* Spurious wakeup, which POSIX allows.
Spurious(t) ==
    /\ t \in not_full \cup not_empty
    /\ not_full' = not_full \ {t}
    /\ not_empty' = not_empty \ {t}
    /\ UNCHANGED <<queue, lock, pc, i, deleted>>

\* Faulty variant: the test is an if, so a waiter that wakes up goes ahead.
PutUntested(t) ==
    /\ data' = [data EXCEPT ![put_index] = i[t]]
    /\ put_index' = (put_index + 1) % Capacity
    /\ length' = length + 1
    /\ Go(t, "test", "signal")
    /\ UNCHANGED <<get_index, lock, conds, i, deleted>>

\* put_data(queue, i) once there is room.
Put(t) ==
    /\ length # Capacity
    /\ data' = [data EXCEPT ![put_index] = i[t]]
    /\ put_index' = (put_index + 1) % Capacity
    /\ length' = length + 1
    /\ Go(t, "test", "signal")
    /\ UNCHANGED <<get_index, lock, conds, i, deleted>>

\* Faulty variant: length is not counted down before the signal.
GetUncounted(t) ==
    /\ length # 0
    /\ get_index' = (get_index + 1) % Capacity
    /\ Go(t, "test", "signal")
    /\ UNCHANGED <<put_index, length, data, lock, conds, i, deleted>>

\* get_data once there is an item: data[get_index] is what it returns.
Get(t) ==
    /\ length # 0
    /\ get_index' = (get_index + 1) % Capacity
    /\ length' = length - 1
    /\ Go(t, "test", "signal")
    /\ UNCHANGED <<put_index, data, lock, conds, i, deleted>>

\* pthread_cond_signal wakes at least one of the waiters, if there are any.
Signalled(before, after) ==
    /\ after \subseteq before
    /\ before # {} => after # before

\* Faulty variant: the consumer signals the other consumers.
SignalNotFullWrong(t) ==
    /\ not_empty' \in SUBSET not_empty
    /\ Signalled(not_empty, not_empty')
    /\ Go(t, "signal", "unlock")
    /\ UNCHANGED <<queue, lock, not_full, i, deleted>>

SignalNotFull(t) ==
    /\ not_full' \in SUBSET not_full
    /\ Signalled(not_full, not_full')
    /\ Go(t, "signal", "unlock")
    /\ UNCHANGED <<queue, lock, not_empty, i, deleted>>

SignalNotEmpty(t) ==
    /\ not_empty' \in SUBSET not_empty
    /\ Signalled(not_empty, not_empty')
    /\ Go(t, "signal", "unlock")
    /\ UNCHANGED <<queue, lock, not_full, i, deleted>>

\* Unlock, return to the loop of produce or consume, and exit after Loops rounds.
Unlock(t) ==
    /\ lock' = Nobody
    /\ i' = [i EXCEPT ![t] = @ + 1]
    /\ Go(t, "unlock", IF i[t] + 1 < Loops THEN "lock" ELSE "exit")
    /\ UNCHANGED <<queue, conds, deleted>>

\* main: both threads are joined, then the queue is deleted.
Delete ==
    /\ \A t \in Threads : pc[t] = "exit"
    /\ ~deleted
    /\ deleted' = TRUE
    /\ UNCHANGED <<queue, lock, conds, pc, i>>

-----------------------------------------------------------------------------

Produce(t) == WaitNotFull(t) \/ Put(t) \/ SignalNotEmpty(t)
Consume(t) == WaitNotEmpty(t) \/ Get(t) \/ SignalNotFull(t)
Thread(t)  ==
    \/ Lock(t) \/ Wake(t) \/ Unlock(t)
    \/ t \in Producers /\ Produce(t)
    \/ t \in Consumers /\ Consume(t)

Next == (\E t \in Threads : Thread(t) \/ Spurious(t)) \/ Delete

Spec == Init /\ [][Next]_vars

\* Every thread that can run is run, main too; no wakeup without a signal is
\* relied on.
FairSpec == Spec /\ WF_vars(Delete) /\ \A t \in Threads : WF_vars(Thread(t))

-----------------------------------------------------------------------------
(* Properties.                                                             *)

\* The mutex: only the thread that holds it is between lock and unlock.
MutexInv == \A t \in Threads : pc[t] \in {"test", "signal", "unlock"} <=> lock = t

\* 3.b, "modularly increase": front, rear and size agree, also after the indices
\* have gone round.
IndexInv == put_index = (get_index + length) % Capacity

\* A thread has rounds left unless it is at its end, and who waits for a condition
\* is in pthread_cond_wait.
PhaseInv ==
    /\ \A t \in Threads : pc[t] # "exit" <=> i[t] < Loops
    /\ \A t \in not_full \cup not_empty : pc[t] = "wait"

\* The threads of T that will move an item without being woken, and those about to
\* signal.
Eager(T, waiting) == {t \in T \ waiting :
    \/ pc[t] \in {"lock", "wait", "test"}
    \/ pc[t] \in {"signal", "unlock"} /\ i[t] + 1 < Loops}
Signalling(T) == {t \in T : pc[t] = "signal"}

\* While a consumer sleeps, each item has a consumer that will get it or a producer
\* that is about to signal; likewise for producers and room.
WakeInv ==
    /\ not_empty # {} =>
          length <= Cardinality(Eager(Consumers, not_empty)) + Cardinality(Signalling(Producers))
    /\ not_full # {} =>
          Capacity - length <= Cardinality(Eager(Producers, not_full)) + Cardinality(Signalling(Consumers))

\* All that the threads rely on: the mutex, the indices and the wakeups.
QueueInv == TypeOK /\ PhaseInv /\ MutexInv /\ IndexInv /\ WakeInv

\* A consumer may sleep while there are items only if somebody has been or will
\* be woken for them: a thread that is up and will look at the queue, or one that
\* is about to signal not_empty.  Likewise for producers and room.
NoLostWakeup ==
    /\ (not_empty # {} /\ length > 0) =>
          \/ \E c \in Consumers \ not_empty : pc[c] # "exit"
          \/ \E p \in Producers : pc[p] = "signal"
    /\ (not_full # {} /\ length < Capacity) =>
          \/ \E p \in Producers \ not_full : pc[p] # "exit"
          \/ \E c \in Consumers : pc[c] = "signal"

\* All threads get through their loops and the queue is deleted, unless spurious
\* wakeups never stop: the mutex does not promise a turn against a thread that
\* wakes up for nothing over and over.
Terminates == []<><<\E t \in Threads : Spurious(t)>>_vars \/ <>deleted

\* The queue implements the FIFO channel.
Channel == INSTANCE FifoChannel WITH
    buffer   <- [k \in 1 .. length |-> data[(get_index + k - 1) % Capacity]],
    sent     <- [p \in Producers |-> i[p] + IF pc[p] \in {"signal", "unlock"} THEN 1 ELSE 0],
    received <- [c \in Consumers |-> i[c] + IF pc[c] \in {"signal", "unlock"} THEN 1 ELSE 0]

ImplementsChannel == Channel!Spec
=============================================================================
