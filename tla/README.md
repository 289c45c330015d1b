# Verification of the system programming laboratory programs

TLA+ specifications of the concurrent programs of this repository, checked with
TLC, and proofs about them, checked with TLAPS. The repository is a collection of
independent programs (`pa1` to `pa3`, `week6` to `week15`). The reservation service
`pa3` is the largest concurrent one and has the most detailed model; the queue, the
two chats, the file transfer, the mini shell and the text search have one each.

## The parts of the repository

| Part | State | Operations | What is hard about it |
| --- | --- | --- | --- |
| **Reservation server** `pa3/pa3_server.c` | arrays `password`, `session`, `seats`, one mutex per seat; per thread `client_socket` and the query; descriptors | `main`: accept, create a thread; `client_handler`: read, handle, close; `login`, `book`, `confirm_booking`, `cancel_booking`, `logout` | threads share the arrays, two of which have no lock; arguments passed by address; failed reads and writes; clients that die |
| **Reservation client** `pa3/pa3_client.c` | its socket, the query it sent | connect, send, receive, `disconnect` at exit or on SIGINT | answers carry no identity; the exit handler sends one more query, maybe in the middle of one; reads whose result is not looked at |
| **Bounded queue** `week15/main.c` | circular array, two indices, `length`, a mutex, two condition variables | `put_data`, `get_data`, join, `qdelete` | lost and spurious wakeups, wrap-around, everybody waiting |
| **Chat** `week13/server.c`, `client.c` | set of descriptors, `active_users` | accept, read and broadcast, join, chat, quit | one loop serves everybody; a copy of the descriptor set is walked while descriptors close and open; clients that leave without `quit` |
| **Signals** `week8/main.c` | numbers sent and acknowledged | send, acknowledge, resend on `SIGALRM` | pending signals of a kind run together |
| **Message queue** `week10/main.c` | System V queue of bounded size, shared by all processes | parent: create, send; child: poll for texts, acknowledge, poll for acknowledgements | four processes start and end in any order; the types of texts and of acknowledgements share one range; a queue that is full of what nobody takes |
| **File transfer** `week11/server.c`, `client.c` | the byte stream of a connection, the files written | file name, acknowledgement, chunks, NUL end marker | a stream has no message boundaries; clients end in the middle; one connection at a time |
| **Mini shell** `pa2/main.c` and its commands; `week9/main.c`, `week6/main.c` | descriptors, two pairs of pipe ends that are used in turn, the global `pid` and `status`, process groups | parse, fork, redirect, wait, reap in a signal handler | order of waiting, descriptors closed twice or left open, a handler that acts on whatever stage was started last |
| **Text search** `pa1` | index of lines, query | index the file, four kinds of search | lines that the chunks of 4096 bytes cut; a pointer past the end of a line |
| **Monte Carlo** `week14/main.c` | one counter and a mutex | add, join | none left once the mutex is right |
| **Cron** `week7/cron.c` | table of jobs | compare with the clock, run | parsing of fields |

The programs do not interact with each other. Within `pa3`, clients and server
interact by one TCP connection per client, and the server's threads by the shared
arrays and mutexes.

What makes each modelled part correct:

* the **store**: a seat has at most one holder and changes hands only by being
  cancelled for its holder; booking and cancelling look like single steps; mutexes
  are always released; the list of `confirm_booking` is right; sessions and
  passwords, which have no lock, do not change once no login is under way;
* the **server process**: a connection has one thread of its own; no client ends
  the service of another; every query is answered; descriptors come back;
* the **client**: what it prints is the answer to what it asked;
* the **chat**: all clients see the same messages in the same order; the server
  goes on whoever comes and goes;
* the **queue**: first in, first out, nothing lost; nobody sleeps for ever;
* the **message queue chat**: every line is printed once and acknowledged once,
  whoever is started or ends when;
* the **file transfer**: a copy that is taken as complete is what the client sent,
  however the stream is cut; no client ends the server;
* the **shell**: each stage reads the stage before it; the prompt comes back, with
  the shell's own descriptors as before and no child left;
* the **text search**: the index has all lines and only lines; the answers have all
  places and only those.

## Modules

| Module | What it is |
| --- | --- |
| `SeatTable` | abstract: a table of seats on which each booking, cancellation and look is one step between call and return |
| `SeatStore` | the arrays, the mutexes and the operations of `pa3_server.c`, one shared access or mutex call per step |
| `SeatServer` | extends `SeatStore` with `main`, `client_handler`, descriptors and connections |
| `SeatSystem` | extends `SeatServer` with the processes of `pa3_client.c` |
| `SeatStoreProofs`, `SeatSystemProofs` | theorems about the three levels, and that `SeatStore` implements `SeatTable` |
| `FifoChannel` | abstract: producers hand numbers to consumers in order through a bounded buffer |
| `BoundedQueue` | `week15/main.c`, with any number of producers and consumers |
| `BoundedQueueProofs` | theorems about it, and that it implements `FifoChannel` |
| `ChatRoom` | abstract: what is said is due, in one step, to everybody else in the room |
| `Chat` | `week13/server.c` and `client.c` |
| `ChatProofs` | theorems about it, and that it implements `ChatRoom` |
| `MessageQueue` | `week10/main.c`: parents, children, the System V queue |
| `MessageQueueProofs` | theorems about it |
| `FileTransfer` | `week11/server.c` and `client.c` over a byte stream |
| `FileTransferProofs` | theorems about it |
| `Shell` | `pa2/main.c`: one line after the other, the stages, the terminal |
| `ShellProofs` | theorems about it |
| `TextSearch` | `pa1/main.c` and `mystring.c`: the index as a machine, the searches as functions |
| `TextSearchProofs` | that the index is right, the answers are exact and what crashes a query |
| `MC...` | instances for TLC; each `.cfg` is one run |

### The reservation store

`password`, `session`, `seats` and `lock` are the C arrays. `pc[t]` is the next
step of thread `t` inside `handle_query`, `q[t]` the query, `sock[t]` the
descriptor it came over, `i[t]` and `booked[t]` the loop of `confirm_booking`, and
`ok[t]` is `success`. Each operation of the code is a chain of labels:

* `login`: `login` (refused or not) - `check` (compare the password) -
  `register` (first login) - `open` (write `session`);
* `book`: `authorize` - `bookLock` - `bookTest` - `bookSet` - `unlock`;
* `cancel_booking`: `authorize` - `cancelPeek` (the read outside the mutex) -
  `cancelLock` - `cancelTest` - `cancelClear` - `unlock`;
* `confirm_booking`: `authorize` - (`confirmLock` - `confirmSeat`) per seat;
* `logout`: `authorize` - `logoutClear`; `case 0`: `terminate`.

A step makes one access to a shared array or one mutex call. Two reads of the same
element in one condition are one step: the second read of `is_logged_in` can differ
from the first only if another thread wrote in between, and then the outcome is one
that a single read before or after that write gives too, because the element only
changes between 0 and a descriptor. The read of a seat and the unlock after it are
one step in `ConfirmSeat`, as nothing may write the seat in between.

The module leaves open who calls: `Call` lets any idle thread start any query of the
set `Queries` over any descriptor of `Sockets`. `Queries` holds queries `pa3_client`
can send; users are in range because `validate_query` sends no others, so the range
test in `login` (which the code makes after it has indexed the array) never decides.
What holds of `SeatStore` therefore holds of every server built on it, and
`SeatServer` is shown to be one (`ImplementsStore`). That is all `ImplementsStore`
says: a query that is handled twice, because a read failed, is two legal calls of the
store. Whether the right query was answered is the question of `ReportTrue`. Likewise
`ImplementsTable` lets a look at the table end at any seat; what a list must hold is
said by `ConfirmExact`.

`login` tests `session` and `password` and writes them steps later, with no lock, so
two logins of one client that pass the tests together overwrite each other: both
connections are told that they are logged in, or both first logins register. The code
does not prevent this and no property says it does. `SessionHeld` and `PasswordHeld`
say how far it goes, with no restriction on who calls: `Pending(c)` are the logins of
`c` that have passed the test of line 49, and once there is none the session stays
until a logout; once none is about to write a password the password stays for ever,
and only logins that gave it are still on their way.

### The server and its clients

`main`, `slot` and `at`, `own` are the program counters and the variables
`client_socket` of `main` and of each thread. Because threads are created with
`&client_socket`, `StartWorker` reads whatever `slot` holds by then. `fd` maps
descriptors to connections, `link`, `inbox` and `out` are the kernel's side of a
connection as `read` and `write` report it (external to the repository). `cl` and
`said` are the client process and what it made of its last answer.

* Errors are followed where the code goes on: a `read` that returns -1 is handled
  as a query (`ReadError`), a write to a connection that is known to be broken
  raises SIGPIPE (`BrokenPipe`), `accept` without a descriptor ends the process
  (`AcceptFails`), `pthread_create` may fail unnoticed (`SpawnFails`; threads are
  neither joined nor detached, so `Threads` bounds how many are ever created).
* `ServedByOne` has two parts. `Alone`: no two threads work on one connection.
  `Attended`: every open descriptor has its thread, or is on its way to one through
  `client_socket`, as long as threads can be created. When `pthread_create` has failed,
  which `main` does not look at, a connection stays without a thread: the calm run does
  this with its third client, and the property does not deny it.
* Uninitialised locals (`q` before the first read, `slot` before the first accept)
  start with any value.
* A client that closes with an answer unread resets the connection (`rst`), one
  that has read everything ends it (`fin`).

### The queue

Each call of the pthread library and each critical section between two calls is a
step. `pthread_cond_wait` releases the mutex and joins the waiters in one step
(`WaitNotFull`, `WaitNotEmpty`), returns with the mutex (`Wake`), and may return
for no reason (`Spurious`); `pthread_cond_signal` wakes one waiter or more.

### The chat

`readset` and `copyset` are the sets of descriptors of `server.c`; `todo` is what the
loop over `readset` in `handle_client_data` has still to write `response` to. The
server is one process, but a broadcast is one step per write, because clients come
and go between two writes and a write may block (`Buffer` messages fit in one
direction of a connection). The loops go through the descriptors in ascending order
and `listenfd` is the lowest, so a round accepts before it reads (`Scanning`).
A client is connected (`Connect`), writes what its user typed (`Type`, `Write`), is
shown what arrives (`Hear`), and ends after `quit` (`Leave`), by an interrupt
(`Interrupt`) or because the server is gone (`Down`).

`ChatRoom` is reached by counting what is in `out[c]`, and the `response` that is
still to be written to `c`, as due to `c`: a broadcast of many writes is one step of
the room, taken when the server reads the message.

A client blocked in `write` does not read, and neither does the server. If both
buffers are full they wait for each other for good (`Stuck`): with buffers of one
message after a handful of messages, with the kernel's buffers when a user feeds a
file to the client. `Served` and `Dropped` say that this is the only way to hang. A
write to a client that has gone ends the server, by exit or by SIGPIPE;
`FailsOnlyOnGone` says that no other write does. Exits of `accept` and `select`, and of
a read that fails other than by a reset, are left out.

`active_users` counts up with a join and down with a quit that is read. `exit_handler`
should announce every exit (the comment at client.c:62-65), but it sends nothing: a
client that ends by ^C stays counted for ever. `CountInv` claims only what can hold:
everybody in the room counts once, and nobody is taken off twice, however the quit, the
end of the stream and a reset follow each other; the count may exceed the room by those
whose leaving was not read (`Unheard`).

### The message queue chat

Each process of the program is a parent that sends (`Type`, `SendText`) and a child
that goes round a loop: take a text (`TakeText`, `NoText`), print it (`PrintText`),
acknowledge it (`SendAck`), take an acknowledgement (`TakeAck`, `NoAck`), print it
(`ShowAck`). Taking and printing are separate steps, because a kill in between loses
what was taken. The queue belongs to the kernel and outlives both: it is a sequence of
types, from which `Receive` takes the first one of a type and which `Send` cannot
exceed. `msgrcv` of the child fails while no parent has created the queue (`exists`),
and the loop goes on. A process may be started twice for one user, and ends by `quit`
(both parts), by SIGINT (both), or at the end of its input (the parent only: the child
goes on polling). `QueueInv` and `AcksMatch` count texts and acknowledgements per user
over all processes that write to or read for the user; what is missing from the count
is bounded by the processes that ended, each of which may have held one.
Line 68 addresses an acknowledgement to the user the process *writes to*; the comment at
line 73 says "to the sender". They differ when a user writes to two others: in the run,
the second process of user 1 writes to user 3 and may take what user 2 has sent to
user 1; its acknowledgement goes to user 3, and user 2 gets none. `AcksMatch` counts
what the code does, and no property says that the sender is reached.
`Jammed` is the state in which `Delivered` may fail: the queue is full of what
no child will take before it has put an acknowledgement into it.

### The file transfer

`inbox[c]` is the stream from client `c`: `ReadName` and `ReadData` take any part of
its beginning that fits the buffer, so names, data and end markers are split and
joined in every way. A byte is NUL or a number; a name is one element of the stream,
because a client writes it in one call to a connection on which nothing else is on
the way (this is part of `TransferInv`, not an assumption). `Create` truncates the copy
and sends the ACK. The exits of the server's loop are all there: `AcceptFails`, a reset
while a name is read (`NameEnd`), a copy that cannot be opened (`CreateFails`), the
write of the ACK to a client that has gone with something unread (`Create`), and a
write to the copy that fails (`ReadData`, for the names in `NoRoom`), except for the
last chunk, whose write is not looked at: such a copy is lost unnoticed, and `CopyExact`
does not speak of it. `FailsOnlyOnFiles` says which of the exits happen: those of
`accept` and of the copies, and none that a client could cause. `TransferInv` is why:
after a reset was reported no name is left to be acknowledged. `SendFile` sends one buffer of the file: what is longer is cut off
by the client, and `CopyExact` compares the copy with what is sent (`Sent`), so it does
not judge the cut. The end
of a connection is `fin` (all was read), `rst` (the ACK was not), or `dead`.
`NameEnd` and `DataEnd` differ on purpose: the first loop of the server tells 0 from
-1, the second does not. The end marker and the next name may be read together when
the client is fast: then the server takes the name for data and both wait for ever
(`Glued`), which `Answered` names as the exception.

### The shell

`sh` and `tab[p]` map descriptor numbers to what they refer to, in the shell and in
stage `p`; a stage is named by the number of its line and its position. `fd1`, `fd2`,
`stdin_copy` and `stdout_copy` hold descriptor *numbers*, as in the code, so that
closing a number twice closes whatever has it by then (`Closed`), and `dup2` from a
closed one fails (`Dup2`). A pipe ends for its reader when no table refers to its
writing end (`Writer`).
`ReadLine` - `StartStage` - `SetGroup` - `ToFront` - `Wait` - `AfterStage` are the
steps of the loop over the stages, `EndLine` what follows it. `Handler` is
`sigchld_handler`; it may run between any two of these steps, and it acts on the
globals `pid` and `status`, that is, on the stage forked last. A stage sets up its
descriptors and calls exec (`Setup`), moves units of data from its input to its
output (`WriteUnit`, `ReadPipe`, `TypeInput`), and ends, is stopped (`TtyStop`,
`CtrlZ`) or killed (`CtrlC`, `Die`).
The shell waits for a stage before it starts the next one, so a stage that writes more
than a pipe holds never ends (`Overfull`); `LineEnds` says that this, a stage that
waits for the user, and a pipe held open by a stopped stage are the only reasons for
a line not to end. No property says more of a stage than that: `Handler` may kill one
that was never stopped, SIGTTIN may stop one that was to run in the foreground, and
`ShellInv` ties the stages to their pipes but not to the file of a `<`.

### The text search

`ReadChunk`, `IndexLine`, `PartialLine` and `ChunkDone` are the steps of `read_file`.
`pos` is the offset of the descriptor, `base` and `nbytes` the chunk; a line that the
chunk cuts off is read again from its start, one byte having been read in between to
see if the file goes on (`Back`). A line that is longer than the buffer is cut off
every time, and the loop never ends (`LongLine`, the exception of `Indexed`).
The string functions of `mystring.c` are operators on strings and offsets, recursive
ones as recursive functions; `Ask` parses a line of input and computes the answer,
over all lines of the index. `AnswersExact` compares it with a reference definition
in terms of where words start (`Expected`). `CrashOnly` says exactly when a line of
input, whatever it is, ends the program: with nothing indexed, or when `word1` of
`word1*word2` stands first as the last word of a line, where the second `nextWord`
returns NULL, or when `word1` is empty and a line has blanks only: the empty word stands
at the beginning of a line that begins with a blank, and no word follows it.

## Runs

| Run | Instance | Properties |
| --- | --- | --- |
| `MCSeatStore_any` | 2 threads, client ids 0 to 2, 1 seat and one number out of range; fair threads | `TypeOK`, `LockInv`, `SeatInv`, `SeatNeverStolen`, `ImplementsTable`, `Progress` |
| `MCSeatStore_exclusive` | 2 threads, 2 clients, 2 descriptors, 2 seats, 2 passwords; logins race freely | `ConfirmExact`, `SessionHeld`, `PasswordHeld` |
| `MCSeatSystem_any` | 2 clients, 2 threads, 2 descriptors; everything may happen at any time | `SystemTypeOK`, `ImplementsStore` |
| `MCSeatSystem_calm` | 3 clients, 2 threads, 4 descriptors | `ServedByOne`, `ReportTrue`, `LeavesConfirmed`, `EndsOnlyAtLimit` |
| `MCSeatSystem_live` | 2 clients, 2 threads, queries without mutex; fair | `Answered`, `Released` |
| `MCSeatSystem_slot` | as `any` | `ServedByOne` is violated: the first of two connections is lost |
| `MCBoundedQueue` | 2 producers, 2 consumers, capacity 2, 4 rounds each; fair | `QueueInv`, `NoLostWakeup`, `ImplementsChannel`, `Terminates` |
| `MCChat` | 3 clients that join and leave, buffers of 1; fair | `CountInv`, `FailsOnlyOnGone`, `ImplementsRoom`, `Served`, `Dropped` |
| `MCMessageQueue` | 3 users, one of whom starts the program twice and one never, a queue of 2; fair | `QueueInv`, `AcksMatch`, `Delivered` |
| `MCFileTransfer` | 2 clients that enter 3 names each, 5 files, a buffer of 2; fair | `TransferInv`, `CopyExact`, `FailsOnlyOnFiles`, `Answered` |
| `MCShell` | 2 lines out of 9, pipes of 1, 13 descriptors; fair | `ShellInv`, `PromptClean`, `LineEnds` |
| `MCTextSearch` | 3228 files, 18 inputs, a buffer of 6; fair | `IndexInv`, `AnswersExact`, `CrashOnly`, `Indexed` |

`TransferInv`, `QueueInv` (both) and `IndexInv` contain the type invariant of their
module, as do `CountInv` and `ShellInv`.

Why the bounds are enough. Two threads give every race of the store: its steps
depend on one other thread at most (the holder of a mutex, the thread that writes
between a test and its use), and the proofs cover any number. One seat is enough
where seats do not interact; two are needed for the loop of `confirm_booking`. Two
descriptors let the second be reused while the first is open; the fourth one in
`calm` keeps `accept` from failing. Three clients for two threads make
`pthread_create` fail. In the queue a capacity of 2 with 4 rounds of 2 producers
makes the indices go round four times and both conditions be waited for by two
threads at once. In the chat two receivers are needed to compare their order,
hence three clients; a buffer of one message makes every write block that can, and
descriptors are reused when a client comes after another has left. In the message
queue the second process of a user takes over what the first one left, and acknowledges
it to somebody else; a queue of two fills up. The files of the transfer are longer than
the buffer, empty, missing, not creatable and too long for the disk; three names per user let a name follow a transfer that follows a
transfer. The lines of the shell have up to three stages, the first pair of pipe ends being used again by the third, and 13
descriptors run out. The files of the text search are all pairs of lines of up to
three characters, lines of three words, two words around a tab, and lines shorter than, as
long as and longer than the buffer.
All other variables are bounded by the programs themselves:
a client sends one query at a time, loops count to `NUM_SEAT` or `LOOP`.

`SYMMETRY` is used for threads, descriptors and connections, which the modules only
compare for equality, and never in a run with a liveness property.
`CHECK_DEADLOCK FALSE` stands in the runs of programs that end or may wait for ever for
their users: those of `SeatSystem`, `Chat`, `MessageQueue`, `FileTransfer`, `Shell` and
`TextSearch`, and that of the queue.

### Environments

Three things the reservation server does not guard against are separated from its
other behaviour, so that the rest can be checked where they do not occur:

* **Spaced** (part of `CalmNext`): a connection is accepted only after the thread of
  the last one has read its argument. Without it two threads may serve one connection
  and none the other (`MCSeatSystem_slot`), line 242.
* **Calm**: moreover, clients are killed only while they wait for input. Without it
  a client killed with an answer unread ends the server by SIGPIPE, lines 191 and 179.
* **Exclusive** (for `ConfirmExact` only): while the bookings of a client are listed no
  other call books or cancels for this client. A client has one connection, but logins
  that race (lines 49 to 61), or a session that was left behind (line 193), let two act
  as one. Logins and logouts are not restricted.

Also outside the properties, because the code contradicts them plainly: client id 0
can book and leaves the seat free (line 73), password 0 leaves a client
unregistered (line 55), and a client that is gone stays logged in (line 193), so that
its descriptor's next user counts as logged in.

### Fairness

Threads, `main`, the servers of chat and file transfer, their clients while they
have something to read or to write, parents and children of the message queue, the
shell and the stages, and the text search are scheduled weakly fairly: each is a
thread or process of its own, and the system scheduler runs what can run. Nothing is assumed of users (they may never send, leave or be killed), of
arrivals, of signals without a sender, or of the order in which a mutex is handed
on: a pthread mutex may let one thread overtake another for ever. `Answered` and
`Released` therefore allow for the case that others keep sending for ever, `Progress`
says that *some* call returns, and `Terminates` allows for spurious wakeups without
end. Likewise a process of the message queue that waits for room may be overtaken for
ever, and a client of the file transfer waits while another one keeps the only
connection (`Kept`).

## Proofs

All theorems hold for every value of the constants that satisfies the assumptions of
their module: any number of threads, clients, seats, descriptors and connections
(`StoreAssumption`, `ServerAssumption`, `SystemAssumption`), any finite set of
producers and consumers and any capacity (`QueueAssumption`), any finite set of chat
clients and any size of the buffers (`ChatAssumption`), any finite set of processes
of the message queue chat, whoever writes to whom (the other
`QueueAssumption`), any clients, files and size of the buffer (`TransferAssumption`), any lines, programs,
sizes of the pipes and limit of descriptors above five (`ShellAssumption`), any files,
lines of input and size of the chunks (`FileAssumption`, `InputAssumption`). Each inductive invariant was
checked by TLC on a small instance before it was proved.

* `SeatStoreProofs`. `LockInv` and `SeatInv` are not inductive as they stand: that
  the thread at `unlock` releases the mutex it took needs the seat to be in range
  and the loop index to be what the label says. `PhaseInv` says for each label what
  is known of the query, of the loop index and of the list, and
  `IInv == TypeOK /\ PhaseInv /\ LockInv /\ SeatInv` is inductive (`Invariance`).
  `TypeStep`, `PhaseStep`, `LockStep` and `SeatStep` show one conjunct each, action
  by action; `Mutex` (two threads inside the same seat are the same thread) is what
  `SeatStep` rests on. From `IInv` follow `TypeCorrect`, `Locking`, `SeatsKnown` and,
  with `SeatChange`, the action property `NeverStolen`.
  `SessionKept` and `PasswordKept` hold of every behaviour of the store, logins that race
  included: a settled client has no call past the tests of `login`, a call that starts
  now fails them or brings the right password, so each step keeps what is settled.
  What `confirm_booking` has gathered `IInv` does not say. `ListInv` adds it for a store
  in which no other call books or cancels for the client meanwhile (`ExclusiveSpec`):
  below the loop index the list is what the client holds. `EInv` is inductive
  (`ExclusiveInvariance`), and `ListExact` follows.
  `Implementation` is the refinement of `SeatTable`. The step of the table happens
  where the code writes the seat (`BookSet`, `CancelClear`), looks at it (`BookTest`,
  `CancelPeek`, `CancelTest`, `ConfirmSeat`), or decides without looking; all others
  are stutters. `SeatInv` is what makes the write a step of the table.
* `SeatSystemProofs`: `SystemStore`, the system implements the store whatever the
  clients do, with neither *Spaced* nor *Calm*; and `SystemReservations`, which
  carries the theorems about the store over to the system. `SystemTypes` has the types
  of server, network and clients.
  The properties of connections hold of `CalmSpec` and need to know what is on the way.
  `HandInv`: while a descriptor is handed over in `client_socket`, nobody else uses it,
  and at most one thread is about to read it. `FdInv`: a descriptor stands for one open
  connection. `CallInv`: a thread is inside `handle_query` exactly while it serves.
  `TalkInv` goes through the states of a client (`Off`, `Ready`, `Asked`, `Leaving`,
  `Ended`) and says for each which queries (`None`, `One`, `Two`) and which answers are
  between it and the thread that serves it: two queries only if it was interrupted while
  it waited. Together they are inductive (`CalmInv`, `CalmInvariance`), and give
  `OneThreadEach` and `OnlyTheLimitEnds`. `Reports` and `Leaves` hold as long as an
  accept finds a free descriptor (`Enough`): without one `main` returns, the process
  ends, and its clients read the end of the stream instead of an answer.
  `EnoughLeft` shows by counting that with more descriptors than clients there always is
  one, hence `ReportsAndLeaves`; the calm run is such an instance.

* `BoundedQueueProofs`. `NoLostWakeup` is not inductive: it says that somebody is up,
  and that one may take the last item and go. `WakeInv` counts instead: while a
  consumer sleeps, there are at least as many consumers that will move an item
  without being woken (`Eager`) and producers about to signal (`Signalling`) as there
  are items, and likewise for room. A signal turns one who is about to signal into one
  who is eager; this is why the proof works with cardinalities, and why the set of
  threads is assumed to be finite. `QueueInv` is inductive (`Invariance`) and implies
  `NoLostWakeup` (`WakeupsKept`). For `Implementation` the abstract buffer is read off
  the ring from `get_index`: `Put` appends to it and `Get` takes its head because
  `IndexInv` ties the two indices and `length` together.
* `ChatProofs`. `IInv` has a part for each side of a connection. `ConnInv`: `readset` are
  the descriptors in use, each by one client, and nobody waits twice. `RoundInv`: what
  `select` has reported (`copyset`) stays readable until it is looked at, because only
  the server reads. `LinkInv` says where a client is (not connected, waiting to be
  accepted, open, over), `MailInv` that its unread messages are numbered, begin with its
  joining and can only end with its quit, `UserInv` what it may write next. Only with
  `MailInv` is a quit the last thing that is read of a client, so that `Count` (and with
  it `CountExact`) survives the end of its connection. `OnlyTheGoneFail` rests on
  `LinkInv`: a write fails on a connection in the state `rst` or `dead` only, which
  its client has left. That an accepted client gets a descriptor is a pigeonhole argument
  (`FreeLeft`), that the lowest free one exists an induction over the natural numbers
  by means of the well-founded inclusion of finite sets (`MinIn`).
  `Implementation` maps the read of a message to the room's `Say`: the part of the
  broadcast that is still to be written (`Pending`) counts as due, so that the writes,
  and all steps of the server's bookkeeping, are stutters (`RoomSame`).
* `MessageQueueProofs`. Both counts are inductive, once `Started` says that who has
  something to send has seen the queue: every step moves one message from one place of
  the count to the next, or from the hands of a process to those that ended. The sums over
  the processes of a user are cardinalities (`Total`): `Raised` and `Moved` say how one
  process changes them, `Turns` and `Dropped` how the number of processes in a state
  changes when one goes on or ends, `AppendedOne` and `RemovedOne` how `msgsnd` and
  `msgrcv` change the number of messages of a type, the latter by a bijection between the
  positions before and after. `TextsKept` and `AcksKept` follow from `Invariance`.
* `ShellProofs`. `ShellInv` (each program is connected to its neighbours) and
  `PromptClean` are about what descriptors refer to; that they are so depends on where
  the shell keeps the numbers. `PipesInv` says what it has open beside the terminal and
  under which of the numbers in `fd1` and `fd2`: `From` is the pair the current stage
  reads, `To` the one it writes to. The pairs are used in turn and never cleared within
  a line, so a stage whose `pipe` failed finds the old numbers there, which are closed
  or, by then, stand for copies of the terminal. That this does no harm needs a count:
  when `pipe` fails, at most one number is free; a stage closes two at most, the next
  takes up to two for its copies, and its `pipe` fails too (`LeakInv`, `Four`, `NoRoom`).
  Without it a stage could be given its own pipe to read. `NumbersInv` keeps all these
  numbers apart from 0, 1 and 2, so that closing one twice never takes the terminal from
  the shell, and restoring the terminal changes nothing (`RestoredTable`). `StageInv`:
  only the stage the shell waits for is set up or runs, every other one is reaped or was
  stopped. `OrderInv`: pipes and stages belong to lines and positions that were reached.
  The conjunction is inductive (`Invariance`), and gives `PipelinesConnected` and
  `PromptIsClean`. `StageStep` treats the steps of programs, handler and user alike,
  `StartEffect` what `dup`, `dup` and `pipe` do with the lowest free numbers, `PipedTable`
  what the child makes of them.
* `TextSearchProofs`. That the entries of the index are the lines says nothing about
  where the next chunk starts. `Position` adds it: `offset` is where the last entry
  ends, and reading goes on there, unless the rest of the file was seen and has no
  newline (`Resumes`). With it `IndexInv` is inductive (`IndexCorrect`).
  `Answers` and `Crashes` are about functions that go through a line recursively. Two
  lemmas make them accessible, both from the principle of the least number (`Least`,
  which follows from the well-foundedness of the natural numbers and needs no operator
  as a parameter): `Recursion`, that a function exists which at every position stops or
  goes on at a later one, so that the equation of the model's function holds, and
  `Downward`, that what holds of a position if it holds of all later ones holds of all.
  Then `SearchIs`, `SwordsIs`, `PhrasesIs` and `SplitIs` give the equations, and
  `IncludedIs`, `SwordIs`, `CwordIs`, `MwordIs`, `RegexpIs` and `RegexpCrashIs` say of
  each search what it finds. The searches go from word to word except in one place:
  after a hit `handle_sword` goes on one character later, within the word. This finds
  nothing new because what is left of the word there is shorter (`Fresh`,
  `FreshAfter`), or is the end of the line. `QueryInv` says what the program holds of
  the last line of input: its words are strings (`QueryIs`), and what was done with it
  is what `Crash` and `Answer` say, which stay the same because the index does
  (`SameAnswer`). With `IndexInv`, by which a line that was indexed is a string again
  (`TextIs`), it is inductive (`QueryCorrect`), and TLC has found it to hold on the
  instance of the run.
* `FileTransferProofs`. `TransferInv` is inductive (`Synchronised`): its part `Transfer`
  says what the bytes saved and unread are for each position of the client, and `Idle`
  that between two files at most a name is on the way. `Moved` shows that a read only
  shifts a part of the stream to the copy, `StreamGrows` that a write puts what is due
  at its end, and `MarkerPlace` that the end marker, which no file holds, stands only
  after the bytes of the file; `ChunkRead` concludes that a chunk that ends with it
  completes the copy. Its part on connections that are `dead` (`DeadInv`) says that no
  write of an ACK can meet one. `CopyIsExact` and `OnlyFilesFail` follow.

Only model-checked: liveness (temporal properties under fairness are out of the
prover's reach), that is `Progress`, `Answered` (twice), `Released`, `Terminates`,
`Served`, `Dropped`, `Delivered`, `LineEnds` and `Indexed`. All other properties of the
runs are theorems.

## Not modelled

* Of `pa3`: the text of answers beyond yes, no and bye; queries and answers that
  arrive in parts; `socket`, `bind`, `listen` and `connect` failing; a thread
  blocked in `read` on a descriptor that another thread closes (possible only after
  two threads got one connection); clients killed before they are accepted.
* Of `week13`: the text of messages, descriptors or backlog running out (`pa3` has
  this), `accept` and `select` failing, a read that fails other than by a reset (lines
  123 to 126: the server exits), the operator's SIGINT to the server, parts of messages, and a client whose
  input has ended, which goes round its loop for ever without effect.
* Of `week10`: texts; a `fork` that fails; users whose numbers differ by `T_MSG` (20)
  (`QueueAssumption`): a text is then taken for an acknowledgement.
* Of `week11`: files that hold a NUL byte (the server takes it for the end marker if a
  chunk ends with it), names longer than the buffer, `socket`, `bind`, `listen` and
  `connect` failing; errors of a connection whose other end has not gone.
* Of `pa2`: how a line is cut into words, redirections and arguments; the directory of
  `cd`; a `fork` that fails; the commands other than as programs that read, write and
  end: they are sequential and use the file system only.
* Of `pa1`: a line of input that is a single quote; the end of the input, at which
  `resolve_input` writes before its buffer (lines 142 to 144); files that cannot be
  opened; the layout of the output. For words and phrases that are empty or begin with a blank
  (`Proper`) the answers are modelled, but nothing is claimed of them. A word that is
  entered with a tab in it stands nowhere: the input is cut at spaces, the words of a
  line at tabs too. A phrase may have both.
* `week8` (two processes that count each other's signals): it would need a model of
  signal delivery that no other program here uses. `week9` and `week6`: one pipe and
  one command, which `Shell` has for pipelines of any length. `week14`: one counter
  under one mutex. `week7`: parsing of a table and comparison with the clock.

## Plan

Done: the reservation service, the queue, the chats, the file transfer, the shell and
the text search, with the proofs above. What is left, in this order:

1. Signals (`week8`) with pending signals as sets.
2. Parsing of lines (`pa2`) and of the table of jobs (`week7`) as functions.
