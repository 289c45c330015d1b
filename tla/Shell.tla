------------------------------- MODULE Shell -------------------------------
(***************************************************************************)
(* The mini shell pa2/main.c: a line is a pipeline of stages; the shell    *)
(* starts one stage after the other and waits for each, in the foreground  *)
(* of the terminal, until it ends or stops.  What is modelled: the         *)
(* descriptors of the shell and of the stages, the pipes, the global pid   *)
(* and status with the handler of SIGCHLD, the process groups, Ctrl-C and  *)
(* Ctrl-Z.  A unit of data is a line of text; a word is a whole word.      *)
(***************************************************************************)
EXTENDS Integers, Sequences, FiniteSets, FiniteSetsExt

CONSTANTS
    CmdLines,   \* what the user may enter: records [words, in, out]
    PATHS,      \* words that begin with '.'
    Output,     \* Output[w]: units that program w writes, for those that only write
    Missing,    \* words of programs that cannot be executed
    HeadLines,  \* units head reads
    FileUnits,  \* units a redirected file holds
    PipeSize,   \* units a pipe holds
    FdLimit,    \* descriptors a process may have
    MaxLines,   \* bound: lines entered
    MaxTyped,   \* bound: units typed to the programs
    MaxStopped  \* bound: Ctrl-Z while so many stopped stages are not reaped

EXECUTABLES == {"ls", "man", "grep", "sort", "awk", "bc"}
IMPLEMENTED == {"head", "tail", "cat", "cp", "mv", "rm", "pwd"}
BUILTINS    == {"cd", "exit"}

\* words[k] is the first word of stage k, "" if the stage is blank.
ASSUME ShellAssumption ==
    /\ CmdLines # {}
    /\ \A cmd \in CmdLines : /\ cmd.words \in Seq(STRING) /\ cmd.words # <<>>
                             /\ cmd.in \in {"none", "file", "missing"}
                             /\ cmd.out \in {"none", "file", "missing"}
    /\ \A w \in DOMAIN Output : Output[w] \in Nat
    /\ HeadLines \in Nat /\ FileUnits \in Nat
    /\ PipeSize \in Nat \ {0} /\ FdLimit \in Nat /\ FdLimit > 5
    /\ MaxLines \in Nat /\ MaxTyped \in Nat /\ MaxStopped \in Nat

Stages == (1 .. MaxLines) \X UNION {0 .. Len(cmd.words) - 1 : cmd \in CmdLines}
NoPid  == <<0, 0>>

\* What a descriptor refers to; a pipe is named by the stage that writes to it.
Object(e, k) == [end |-> e, pipe |-> k]
Tty  == Object("tty", NoPid)
File == Object("file", NoPid)

VARIABLES
    pc,         \* what the shell does next
    cmd,        \* the line it works on
    count,      \* how many lines were entered
    i,          \* the stage it works on, from 0
    sh,         \* sh[n]: what descriptor n of the shell refers to
    stdin_copy, stdout_copy, fd1, fd2,      \* descriptor numbers, or -1
    pid,        \* the stage forked last
    status,     \* "stopped" if the last status waited for says so, else "ended"
    chld,       \* SIGCHLD is pending for the shell
    fg,         \* the group in the foreground: "shell", or "line", that of this line
    st,         \* st[p]: the state of stage p
    tab,        \* tab[p]: the descriptors of p
    grouped,    \* the stages in the group of their line that are not reaped
    halted,     \* the stages that were ever stopped and are not reaped
    todo,       \* todo[p]: units p has to write
    rem,        \* rem[p]: units p may still read, -1: no limit
    buf,        \* buf[k]: units in pipe k, for the pipes there are
    typed       \* units typed to programs so far

desc   == <<sh, stdin_copy, stdout_copy, fd1, fd2>>
sig    == <<pid, status, chld>>
stages == <<st, tab, grouped, halted, todo, rem>>
vars   == <<pc, cmd, count, i, desc, sig, fg, stages, buf, typed>>

cur   == <<count, i>>

Last == i = Len(cmd.words) - 1

\* "left": stopped, and the shell has been told; "dying": SIGKILL was sent.
Alive == {"setup", "running", "stopped", "left", "dying"}

TypeOK ==
    /\ pc \in {"prompt", "start", "forked", "front", "wait", "after", "end", "gone"}
    /\ cmd \in CmdLines
    /\ count \in 0 .. MaxLines
    /\ i \in 0 .. Len(cmd.words) - 1
    /\ DOMAIN sh \subseteq 0 .. FdLimit - 1
    /\ {stdin_copy, stdout_copy, fd1[1], fd1[2], fd2[1], fd2[2]} \subseteq -1 .. FdLimit - 1
    /\ pid \in Stages \cup {NoPid}
    /\ status \in {"ended", "stopped"}
    /\ chld \in BOOLEAN
    /\ fg \in {"shell", "line"}
    /\ st \in [Stages -> Alive \cup {"none", "zombie", "reaped"}]
    /\ \A p \in Stages : (DOMAIN tab[p] # {}) <=> (st[p] \in Alive)
    /\ grouped \subseteq Stages /\ halted \subseteq Stages
    /\ todo \in [Stages -> Nat] /\ rem \in [Stages -> Nat \cup {-1}]
    /\ \A k \in DOMAIN buf : k \in Stages /\ buf[k] \in 0 .. PipeSize
    /\ typed \in 0 .. MaxTyped

Init ==
    /\ pc = "prompt"
    /\ cmd = (CHOOSE c \in CmdLines : TRUE)
    /\ count = 0
    /\ i = 0
    /\ sh = [n \in 0 .. 4 |-> Tty]
    /\ stdin_copy = 3 /\ stdout_copy = 4
    /\ fd1 = <<-1, -1>> /\ fd2 = <<-1, -1>>
    /\ pid = NoPid
    /\ status = "ended"
    /\ chld = FALSE
    /\ fg = "shell"
    /\ st = [p \in Stages |-> "none"]
    /\ tab = [p \in Stages |-> <<>>]
    /\ grouped = {} /\ halted = {}
    /\ todo = [p \in Stages |-> 0]
    /\ rem = [p \in Stages |-> 0]
    /\ buf = <<>>
    /\ typed = 0

-----------------------------------------------------------------------------
(* Descriptors.                                                            *)

With(t, n, o)   == [m \in DOMAIN t \cup {n} |-> IF m = n THEN o ELSE t[m]]
Free(t)         == (0 .. FdLimit - 1) \ DOMAIN t
NextFd(t)       == IF Free(t) = {} THEN -1 ELSE Min(Free(t))
Opened(t, o)    == IF Free(t) = {} THEN t ELSE With(t, NextFd(t), o)
Closed(t, N)    == [n \in DOMAIN t \ N |-> t[n]]
Dup2(t, n, to)  == IF n \in DOMAIN t THEN With(t, to, t[n]) ELSE t

\* The pipe that stage n of the line writes to, and the one it reads.
Out(n, f1, f2) == IF n % 2 = 1 THEN f2 ELSE f1

\* Faulty variant: the other pipe.
InSwapped(n, f1, f2) == IF n % 2 = 1 THEN f2 ELSE f1

In(n, f1, f2) == IF n % 2 = 1 THEN f1 ELSE f2

Writer(k) ==
    \/ Object("w", k) \in {sh[n] : n \in DOMAIN sh}
    \/ \E p \in Stages : Object("w", k) \in {tab[p][n] : n \in DOMAIN tab[p]}

-----------------------------------------------------------------------------
(* The shell.  A pending SIGCHLD is handled before its next step; only a   *)
(* waitpid that finds its stage returns first.                             *)

Runs(l) == pc = l /\ ~chld

\* parse_command.
TypeOfWord(w) ==
    CASE w \in EXECUTABLES -> "EXECUTABLE"
      [] w \in IMPLEMENTED -> "IMPLEMENT"
      [] w \in BUILTINS    -> "BUILTIN"
      [] w \in PATHS       -> "PATH"
      [] OTHER             -> "UNKNOWN"

\* A line is read and parsed.  A blank stage has no word to compare: the shell
\* crashes.  exit and cd count in the first stage only.
ReadLine ==
    /\ Runs("prompt")
    /\ count < MaxLines
    /\ cmd' \in CmdLines
    /\ count' = count + 1
    /\ i' = 0
    /\ pc' = CASE \E k \in DOMAIN cmd'.words : cmd'.words[k] = "" -> "gone"
               [] cmd'.words[1] = "exit" -> "gone"
               [] cmd'.words[1] = "cd" -> "prompt"
               [] \E k \in DOMAIN cmd'.words : TypeOfWord(cmd'.words[k]) = "UNKNOWN" -> "prompt"
               [] OTHER -> "start"
    /\ UNCHANGED <<desc, sig, fg, stages, buf, typed>>

\* getline fails at the end of the input.
EndOfInput ==
    /\ Runs("prompt")
    /\ pc' = "gone"
    /\ UNCHANGED <<cmd, count, i, desc, sig, fg, stages, buf, typed>>

\* dup, dup, pipe, fork.  Without two free descriptors pipe fails.
StartStage ==
    /\ Runs("start")
    /\ \E t1 \in {Opened(sh, sh[0])} : \E t2 \in {Opened(t1, sh[1])} :
       \E t3 \in {Opened(t2, Object("r", cur))} :
        LET r  == NextFd(t2)
            w  == NextFd(t3)
            ok == r # -1 /\ w # -1
            t  == IF ok THEN Opened(t3, Object("w", cur)) ELSE t2
        IN  /\ stdin_copy' = NextFd(sh)
            /\ stdout_copy' = NextFd(t1)
            /\ sh' = t
            /\ tab' = [tab EXCEPT ![cur] = t]
            /\ fd1' = IF ok /\ i % 2 = 0 THEN <<r, w>> ELSE fd1
            /\ fd2' = IF ok /\ i % 2 = 1 THEN <<r, w>> ELSE fd2
            /\ buf' = IF ok THEN With(buf, cur, 0) ELSE buf
    /\ st' = [st EXCEPT ![cur] = "setup"]
    /\ pc' = "forked"
    /\ UNCHANGED <<cmd, count, i, sig, fg, grouped, halted, todo, rem, typed>>

\* A group exists while a process in it has not been reaped.
GroupExists == \E p \in grouped : p[1] = count

\* pid and setpgid, which fails for a stage that has called exec, and for a group
\* that is gone: the stage stays in the group of the shell.
SetGroup ==
    /\ Runs("forked")
    /\ pid' = cur
    /\ grouped' = IF st[cur] = "setup" /\ (i = 0 \/ GroupExists)
                  THEN grouped \cup {cur} ELSE grouped
    /\ pc' = "front"
    /\ UNCHANGED <<cmd, count, i, desc, status, chld, fg, st, tab, halted, todo, rem, buf, typed>>

\* tcsetpgrp, which fails for a group that does not exist.
ToFront ==
    /\ Runs("front")
    /\ fg' = IF GroupExists THEN "line" ELSE "shell"
    /\ pc' = "wait"
    /\ UNCHANGED <<cmd, count, i, desc, sig, stages, buf, typed>>

Reap(p) ==
    /\ st' = [st EXCEPT ![p] = "reaped"]
    /\ grouped' = grouped \ {p}
    /\ halted' = halted \ {p}
    /\ status' = "ended"

\* waitpid with WUNTRACED; it fails if the handler has reaped the stage.
Wait ==
    /\ pc = "wait"
    /\ \/ st[pid] = "zombie" /\ Reap(pid)
       \/ /\ st[pid] = "stopped"
          /\ st' = [st EXCEPT ![pid] = "left"] /\ status' = "stopped"
          /\ UNCHANGED <<grouped, halted>>
       \/ st[pid] = "reaped" /\ UNCHANGED <<st, status, grouped, halted>>
    /\ pc' = "after"
    /\ UNCHANGED <<cmd, count, i, desc, pid, chld, fg, tab, todo, rem, buf, typed>>

\* The shell is in the foreground again; the pipe before this stage is closed for
\* reading, the one after it for writing.
Restored(t) == Dup2(Dup2(t, stdin_copy, 0), stdout_copy, 1)

\* Faulty variant: the shell keeps the pipe open for writing.
AfterStageReadOnly ==
    /\ Runs("after")
    /\ fg' = "shell"
    /\ sh' = Closed(Restored(sh), IF i # 0 THEN {In(i, fd1, fd2)[1]} ELSE {})
    /\ IF Last THEN pc' = "end" /\ i' = i ELSE pc' = "start" /\ i' = i + 1
    /\ UNCHANGED <<cmd, count, stdin_copy, stdout_copy, fd1, fd2, sig, stages, buf, typed>>

AfterStage ==
    /\ Runs("after")
    /\ fg' = "shell"
    /\ sh' = Closed(Restored(sh), (IF i # 0 THEN {In(i, fd1, fd2)[1]} ELSE {})
                              \cup (IF ~Last THEN {Out(i, fd1, fd2)[2]} ELSE {}))
    /\ IF Last THEN pc' = "end" /\ i' = i ELSE pc' = "start" /\ i' = i + 1
    /\ UNCHANGED <<cmd, count, stdin_copy, stdout_copy, fd1, fd2, sig, stages, buf, typed>>

\* All four descriptors are closed, those closed before too; then the copies, if
\* their numbers were not among them, are restored.
Remains(t) == UNION {{u[n].pipe : n \in DOMAIN u} : u \in {t} \cup {tab[p] : p \in Stages}}

\* Faulty variant: only the first pipe is closed.
EndLineHalf ==
    /\ Runs("end")
    /\ sh' = Restored(Closed(sh, {fd1[1], fd1[2]}))
    /\ buf' = [k \in DOMAIN buf \cap Remains(sh') |-> buf[k]]
    /\ fd1' = <<-1, -1>> /\ fd2' = <<-1, -1>>
    /\ pc' = "prompt"
    /\ UNCHANGED <<cmd, count, i, stdin_copy, stdout_copy, sig, fg, stages, typed>>

EndLine ==
    /\ Runs("end")
    /\ sh' = Restored(Closed(sh, {fd1[1], fd1[2], fd2[1], fd2[2]}))
    /\ buf' = [k \in DOMAIN buf \cap Remains(sh') |-> buf[k]]
    /\ fd1' = <<-1, -1>> /\ fd2' = <<-1, -1>>
    /\ pc' = "prompt"
    /\ UNCHANGED <<cmd, count, i, stdin_copy, stdout_copy, sig, fg, stages, typed>>

\* sigchld_handler: after a stop it kills the stage forked last, whichever that is
\* by then, and reaps it if it is dead already.
Handler ==
    /\ chld
    /\ pc # "gone"
    /\ chld' = FALSE
    /\ \/ /\ status = "stopped" /\ st[pid] \in Alive
          /\ st' = [st EXCEPT ![pid] = "dying"]
          /\ UNCHANGED <<tab, status, grouped, halted>>
       \/ /\ status = "stopped" /\ st[pid] \in Alive \cup {"zombie"}
          /\ tab' = [tab EXCEPT ![pid] = <<>>]
          /\ Reap(pid)
       \/ /\ status = "stopped" => st[pid] = "reaped"
          /\ UNCHANGED <<st, tab, status, grouped, halted>>
    /\ UNCHANGED <<pc, cmd, count, i, desc, pid, fg, todo, rem, buf, typed>>

-----------------------------------------------------------------------------
(* The stages.                                                             *)

\* The process ends: its descriptors are closed, the shell gets SIGCHLD.
Ends(p) ==
    /\ st' = [st EXCEPT ![p] = "zombie"]
    /\ tab' = [tab EXCEPT ![p] = <<>>]
    /\ todo' = [todo EXCEPT ![p] = 0]
    /\ rem' = [rem EXCEPT ![p] = 0]
    /\ chld' = TRUE
    /\ UNCHANGED <<pc, cmd, count, i, desc, pid, status, fg, grouped, halted, buf>>

\* The descriptors that the child sets up for its program: the pipes, then the
\* redirections of the first and the last stage.
Piped(t) ==
    LET f  == In(i, fd1, fd2)[1]
        g  == Out(i, fd1, fd2)[2]
        t1 == IF i # 0 THEN Closed(Dup2(t, f, 0), {f}) ELSE t
    IN  IF ~Last THEN Closed(Dup2(t1, g, 1), {g}) ELSE t1

FromFile == i = 0 /\ cmd.in # "none"
ToFile   == Last /\ cmd.out # "none"

Redirected(t) ==
    LET u == IF FromFile THEN With(t, 0, File) ELSE t
    IN  IF ToFile THEN With(u, 1, File) ELSE u

\* open fails, or the program cannot be executed, or it is a builtin.
SetupFails(p) ==
    \/ FromFile /\ cmd.in = "missing"
    \/ ToFile /\ cmd.out = "missing"
    \/ (FromFile \/ ToFile) /\ Free(Piped(tab[p])) = {}
    \/ cmd.words[i + 1] \in Missing
    \/ TypeOfWord(cmd.words[i + 1]) = "BUILTIN"

Setup(p) ==
    /\ st[p] = "setup"
    /\ typed' = typed
    /\ IF SetupFails(p) THEN Ends(p)
       ELSE LET w == cmd.words[i + 1]
                limit == IF w = "head" THEN HeadLines ELSE -1
            IN  /\ st' = [st EXCEPT ![p] = "running"]
                /\ tab' = [tab EXCEPT ![p] = Redirected(Piped(@))]
                /\ todo' = [todo EXCEPT ![p] = IF w \in DOMAIN Output THEN Output[w]
                                               ELSE IF ~FromFile THEN 0
                                               ELSE IF limit = -1 THEN FileUnits
                                               ELSE Min({limit, FileUnits})]
                /\ rem' = [rem EXCEPT ![p] = IF w \in DOMAIN Output \/ FromFile THEN 0 ELSE limit]
                /\ UNCHANGED <<pc, cmd, count, i, desc, sig, fg, grouped, halted, buf>>

\* A unit is written to the terminal, a file, or a pipe that has room.
WriteUnit(p) ==
    /\ st[p] = "running"
    /\ todo[p] > 0
    /\ LET o == tab[p][1]
       IN  IF o.end # "w" THEN buf' = buf
           ELSE buf[o.pipe] < PipeSize /\ buf' = [buf EXCEPT ![o.pipe] = @ + 1]
    /\ todo' = [todo EXCEPT ![p] = @ - 1]
    /\ UNCHANGED <<pc, cmd, count, i, desc, sig, fg, st, tab, grouped, halted, rem, typed>>

Reading(p, end) == st[p] = "running" /\ todo[p] = 0 /\ rem[p] # 0 /\ tab[p][0].end = end

GetUnit(p) ==
    /\ todo' = [todo EXCEPT ![p] = 1]
    /\ rem' = [rem EXCEPT ![p] = IF @ = -1 THEN -1 ELSE @ - 1]
    /\ UNCHANGED <<pc, cmd, count, i, desc, sig, fg, st, tab, grouped, halted>>

\* read from a pipe: a unit, or, empty and with no writer, its end.
ReadPipe(p) ==
    /\ Reading(p, "r")
    /\ typed' = typed
    /\ LET k == tab[p][0].pipe
       IN  \/ buf[k] > 0 /\ GetUnit(p) /\ buf' = [buf EXCEPT ![k] = @ - 1]
           \/ buf[k] = 0 /\ ~Writer(k) /\ Ends(p)

Finish(p) == st[p] = "running" /\ todo[p] = 0 /\ rem[p] = 0 /\ Ends(p) /\ typed' = typed

\* SIGKILL takes effect.
Die(p) == st[p] = "dying" /\ Ends(p) /\ typed' = typed

Stops(p) ==
    /\ st' = [st EXCEPT ![p] = "stopped"]
    /\ halted' = halted \cup {p}
    /\ chld' = TRUE
    /\ UNCHANGED <<pc, cmd, count, i, desc, pid, status, fg, tab, grouped, todo, rem, buf, typed>>

InFront(p) == IF fg = "line" THEN p \in grouped ELSE p \notin grouped

\* read from the terminal stops a stage that is not in the foreground.
TtyStop(p) == Reading(p, "tty") /\ ~InFront(p) /\ Stops(p)

-----------------------------------------------------------------------------
(* The user at the terminal.                                               *)

\* A unit or the end of the input for a program that reads the terminal.
TypeInput(p) ==
    /\ Reading(p, "tty")
    /\ InFront(p)
    /\ \/ typed < MaxTyped /\ GetUnit(p) /\ typed' = typed + 1 /\ buf' = buf
       \/ Ends(p) /\ typed' = typed

\* Ctrl-C and Ctrl-Z.  Before exec a stage still has the handlers of the shell.
CtrlC(p) == st[p] = "running" /\ InFront(p) /\ Ends(p) /\ typed' = typed
CtrlZ(p) == st[p] = "running" /\ InFront(p) /\ Cardinality(halted) < MaxStopped /\ Stops(p)

-----------------------------------------------------------------------------

Mini ==
    \/ StartStage \/ SetGroup \/ ToFront \/ Wait \/ AfterStage \/ EndLine \/ Handler

Stage(p) == Setup(p) \/ WriteUnit(p) \/ ReadPipe(p) \/ Finish(p) \/ Die(p) \/ TtyStop(p)

User(p) == TypeInput(p) \/ CtrlC(p) \/ CtrlZ(p)

Next == Mini \/ ReadLine \/ EndOfInput \/ \E p \in Stages : Stage(p) \/ User(p)

Spec == Init /\ [][Next]_vars

\* The shell and the stages run; the user does what he likes.
FairSpec == Spec /\ WF_vars(Mini) /\ \A p \in Stages : WF_vars(Stage(p))

-----------------------------------------------------------------------------
(* Properties.                                                             *)

\* The input and the output of a program.
Connected(p) ==
    LET before == <<p[1], p[2] - 1>>
        input  == tab[p][0]
        output == tab[p][1]
    IN  /\ {0, 1} \subseteq DOMAIN tab[p]
        /\ input = Object("r", before) \/ (input \in {Tty, File} /\ before \notin DOMAIN buf)
        /\ \/ output = Object("w", p)
           \/ output \in {Tty, File} /\ (Last \/ p \notin DOMAIN buf)
        /\ \A n \in DOMAIN tab[p] : tab[p][n] # Object("w", before)

\* "set pipe", "set redirection": a program that runs reads the pipe of the stage
\* before it and writes to its own, and the first and last ones the terminal or a
\* file, as long as pipe has not failed for want of descriptors; and no program
\* can keep the pipe it reads from ending.
ShellInv ==
    /\ TypeOK
    /\ \A p \in Stages : st[p] = "running" => Connected(p)

\* "close pipe and reset stdin, stdout": at the prompt, whatever was closed twice,
\* the shell still has its terminal, it holds no pipe, it has lost at most two
\* descriptors for each stage it started, and every stage it started has been
\* reaped, except for those that were stopped.
PromptClean ==
    pc = "prompt" =>
        LET started == {p \in Stages : st[p] # "none"}
        IN  /\ 0 .. 2 \subseteq DOMAIN sh
            /\ \A n \in DOMAIN sh : sh[n] = Tty
            /\ Cardinality(DOMAIN sh) <= 5 + 2 * Cardinality(started)
            /\ \A p \in started \ halted : st[p] = "reaped"

\* A program waits for the user.
WaitsForUser == \E p \in Stages : Reading(p, "tty")

\* A program has filled its pipe; the one that reads it is started when it has ended.
Overfull == \E p \in Stages :
    st[p] = "running" /\ todo[p] > 0 /\ tab[p][1].end = "w" /\ buf[tab[p][1].pipe] = PipeSize

\* The pipe a program reads is held open by one that was stopped and given up.
HeldOpen == \E p, q \in Stages :
    /\ Reading(p, "r") /\ st[q] = "left"
    /\ tab[q][1] = Object("w", tab[p][0].pipe)

\* Every line that was entered comes to its end and the prompt returns, unless the
\* last one is stuck for one of the three reasons.
LineEnds ==
    \/ <>[](WaitsForUser \/ Overfull \/ HeldOpen)
    \/ pc \notin {"prompt", "gone"} ~> pc \in {"prompt", "gone"}
=============================================================================
