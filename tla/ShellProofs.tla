----------------------------- MODULE ShellProofs -----------------------------
(***************************************************************************)
(* Proofs about Shell, for any lines, any number of stages and lines, any  *)
(* limit of descriptors and any sizes.  ShellInv and PromptClean are not   *)
(* inductive: they need to know which numbers the shell keeps for which    *)
(* pipes, that a pipe that failed in a line fails for the rest of it, and  *)
(* which stages can still be at work.                                      *)
(***************************************************************************)
EXTENDS Shell, WellFoundedInduction, FiniteSetTheorems, TLAPS

before  == <<count, i - 1>>
Started == {p \in Stages : st[p] # "none"}

\* The shell works on a line; it has forked the current stage; it has not yet waited.
Working  == {"start", "forked", "front", "wait", "after", "end"}
Forked   == {"forked", "front", "wait", "after"}
Awaiting == {"forked", "front", "wait"}

\* The pipe that the current stage reads, and the one it writes to.
From == In(i, fd1, fd2)
To   == Out(i, fd1, fd2)

\* The descriptors of the table t that refer to the terminal.
Ttys(t) == {n \in DOMAIN t : t[n] = Tty}

\* Where the shell is in its lines: the stages started are those up to the current one.
OrderInv ==
    /\ pc \in Working => cur \in Stages
    /\ pc \in {"front", "wait", "after", "end"} => pid = cur
    /\ status = "stopped" => pid \in Stages
    /\ \A p \in Started : \/ p[1] < count
                          \/ p[1] = count /\ (p[2] < i \/ (p[2] = i /\ pc # "start"))
    /\ IsFiniteSet(Started)
    /\ DOMAIN buf \subseteq Started

\* Only the stage the shell waits for is being set up, runs, or can have ended without
\* being reaped; the others were stopped once.
StageInv ==
    /\ DOMAIN tab = Stages
    /\ \A p \in Stages :
        /\ st[p] \in {"setup", "running"} => p = cur /\ pc \in Awaiting
        /\ st[p] \in {"stopped", "left"} => p \in halted
        /\ st[p] \in {"none", "reaped"} \/ p \in halted \/ (p = cur /\ pc \in Awaiting)
        /\ st[p] = "setup" => tab[p] = sh
        /\ \A n \in DOMAIN tab[p] : tab[p][n].end \in {"r", "w"} => tab[p][n].pipe \in DOMAIN buf

\* The numbers the shell keeps never stand for one of its first three descriptors, and
\* the copies, if they are open, are of the terminal.
NumbersInv ==
    /\ \A n \in 0 .. 2 : /\ n \in DOMAIN sh
                         /\ n \notin {stdin_copy, stdout_copy, fd1[1], fd1[2], fd2[1], fd2[2]}
    /\ pc \in {"prompt", "start"} /\ i = 0 => From = <<-1, -1>>
    /\ pc = "prompt" => fd1 = <<-1, -1>> /\ fd2 = <<-1, -1>>
    /\ pc \in Forked \cup {"end"} =>
        \A n \in {stdin_copy, stdout_copy} \cap DOMAIN sh : sh[n] = Tty

\* Descriptor n refers to one end of a pipe, and there is such a pipe.
Holds(n, e, k) == k \in DOMAIN buf /\ sh[n] = Object(e, k)

\* What the shell has open beside the terminal, and where.
PipesInv ==
    /\ pc = "prompt" => \A n \in DOMAIN sh : sh[n] = Tty
    /\ pc = "end" => \A n \in DOMAIN sh : sh[n] = Tty \/ n \in {To[1], To[2]}
    /\ pc \in {"start"} \cup Forked =>
        /\ before \in DOMAIN buf => From[1] \in DOMAIN sh /\ Holds(From[1], "r", before)
        /\ \A n \in DOMAIN sh : \/ sh[n] = Tty
                                \/ n = From[1] /\ Holds(n, "r", before)
                                \/ n = To[1] /\ pc # "start" /\ Holds(n, "r", cur)
                                \/ n = To[2] /\ pc # "start" /\ Holds(n, "w", cur)
    /\ pc \in Forked /\ cur \in DOMAIN buf =>
        /\ i # 0 => before \in DOMAIN buf
        /\ To[1] \in DOMAIN sh /\ Holds(To[1], "r", cur)
        /\ To[2] \in DOMAIN sh /\ Holds(To[2], "w", cur)

\* The shell loses two descriptors a stage at most; when pipe has failed, too few are
\* free for the next stage to have one.
LeakInv ==
    /\ Cardinality(Ttys(sh)) <= 5 + 2 * Cardinality(Started)
    /\ pc = "start" /\ i # 0 /\ before \notin DOMAIN buf => Cardinality(Free(sh)) <= 3
    /\ pc \in Forked /\ cur \notin DOMAIN buf => Cardinality(Free(sh)) <= 1

IInv == ShellInv /\ OrderInv /\ StageInv /\ NumbersInv /\ PipesInv /\ LeakInv

-----------------------------------------------------------------------------
(* Lemmas about the operators on descriptors.                              *)

\* A set of natural numbers has a least element: inclusion of the finite sets 0 .. n
\* is well founded.
LEMMA MinIn ==
    ASSUME NEW S \in SUBSET Nat, S # {}
    PROVE  Min(S) \in S
  <1> DEFINE T == {0 .. n : n \in S}
             R == StrictSubsetOrdering(Nat)
  <1>1. T \subseteq FiniteSubsetsOf(Nat)
    <2> SUFFICES ASSUME NEW n \in S PROVE 0 .. n \in FiniteSubsetsOf(Nat)
      OBVIOUS
    <2>1. IsFiniteSet(0 .. n) /\ 0 .. n \in SUBSET Nat
      BY FS_Interval
    <2> QED
      BY <2>1 DEF FiniteSubsetsOf
  <1>2. T # {} /\ IsWellFoundedOn(R, FiniteSubsetsOf(Nat))
    BY FS_StrictSubsetOrderingWellFounded
  <1>3. PICK a \in T : \A b \in T : <<b, a>> \notin R
    <2> HIDE DEF T, R
    <2> QED
      BY <1>1, <1>2, WFMin
  <1>4. PICK n \in S : a = 0 .. n
    BY <1>3
  <1>5. ASSUME NEW m \in S, m < n PROVE FALSE
    <2>1. n \in 0 .. n /\ n \notin 0 .. m
      BY <1>5
    <2>2. 0 .. m \in SUBSET Nat /\ 0 .. n \in SUBSET Nat /\ 0 .. m \subseteq 0 .. n /\ 0 .. m # 0 .. n
      BY <1>5, <2>1
    <2>3. <<0 .. m, 0 .. n>> \in R
      BY <2>2 DEF StrictSubsetOrdering
    <2> QED
      BY <1>3, <1>4, <2>3
  <1>6. \A m \in S : n <= m
    BY <1>5
  <1> QED
    BY <1>6 DEF Min


\* The lowest free number is free.
LEMMA NextFdFree ==
    ASSUME NEW t
    PROVE  /\ Free(t) = {} => NextFd(t) = -1
           /\ Free(t) # {} => NextFd(t) \in Free(t)
  <1>1. Free(t) \in SUBSET Nat
    BY ShellAssumption DEF Free
  <1> QED
    BY <1>1, MinIn DEF NextFd

\* What open, dup and pipe do to a table: the lowest free number is given away.
LEMMA OpenedTable ==
    ASSUME NEW t, NEW o
    PROVE  /\ Free(t) = {} => Opened(t, o) = t /\ NextFd(t) = -1
           /\ Free(t) # {} =>
                /\ NextFd(t) \in Free(t)
                /\ DOMAIN Opened(t, o) = DOMAIN t \cup {NextFd(t)}
                /\ Opened(t, o)[NextFd(t)] = o
                /\ \A n \in DOMAIN t : Opened(t, o)[n] = t[n] /\ n # NextFd(t)
                /\ Free(Opened(t, o)) = Free(t) \ {NextFd(t)}
  <1>1. CASE Free(t) = {}
    BY <1>1, NextFdFree DEF Opened
  <1>2. CASE Free(t) # {}
    <2>1. NextFd(t) \in Free(t) /\ NextFd(t) \notin DOMAIN t
      BY <1>2, NextFdFree DEF Free
    <2>2. Opened(t, o) = With(t, NextFd(t), o)
      BY <1>2 DEF Opened
    <2> QED
      BY <1>2, <2>1, <2>2 DEF With, Free
  <1> QED
    BY <1>1, <1>2

\* What two descriptors refer to is the same only for the same end of the same pipe.
LEMMA Objects ==
    /\ \A k : /\ Object("r", k) # Tty /\ Object("w", k) # Tty
              /\ Object("r", k) # File /\ Object("w", k) # File
    /\ \A k, l : /\ Object("r", k) # Object("w", l)
                 /\ Object("r", k) = Object("r", l) => k = l
                 /\ Object("w", k) = Object("w", l) => k = l
    /\ \A e, k : Object(e, k).end = e /\ Object(e, k).pipe = k
    /\ Tty.end = "tty" /\ File.end = "file" /\ Tty # File
  BY DEF Object, Tty, File

\* The pipe a stage reads is the one the stage before it writes to.
LEMMA Alternate ==
    ASSUME NEW n \in Nat, NEW f, NEW g
    PROVE  In(n + 1, f, g) = Out(n, f, g) /\ Out(n + 1, f, g) = In(n, f, g)
  BY DEF In, Out

\* Whether i is even or odd, one pair of numbers is read from and the other written to.
LEMMA Pairs ==
    ASSUME i \in Nat
    PROVE  (From = fd1 /\ To = fd2) \/ (From = fd2 /\ To = fd1)
  BY DEF From, To, In, Out

-----------------------------------------------------------------------------
(* dup, dup and pipe of a stage.                                           *)

\* The standard input and output of the shell are always the terminal.
LEMMA Terminal ==
    ASSUME IInv, pc \in {"prompt"} \cup Working
    PROVE  sh[0] = Tty /\ sh[1] = Tty
  <1>1. i \in Nat
    BY DEF IInv, ShellInv, TypeOK
  <1>2. ASSUME NEW n \in {0, 1} PROVE n \in DOMAIN sh /\ n \notin {From[1], To[1], To[2]}
    <2>1. n \in DOMAIN sh /\ n \notin {fd1[1], fd1[2], fd2[1], fd2[2]}
      BY <1>2 DEF IInv, NumbersInv
    <2> QED
      BY <1>1, <2>1, Pairs
  <1>3. ASSUME NEW n \in {0, 1} PROVE sh[n] = Tty
    <2>1. CASE pc = "prompt"
      BY <1>2, <2>1 DEF IInv, PipesInv
    <2>2. CASE pc = "end"
      BY <1>2, <2>2 DEF IInv, PipesInv
    <2>3. CASE pc \in {"start"} \cup Forked
      BY <1>2, <2>3 DEF IInv, PipesInv
    <2> QED
      BY <2>1, <2>2, <2>3 DEF Working, Forked
  <1> QED
    BY <1>3

\* One more descriptor, if a number is free.
LEMMA OneMore ==
    ASSUME NEW t, NEW o, NEW u, u = Opened(t, o), NEW a, a = NextFd(t)
    PROVE  /\ DOMAIN t \subseteq DOMAIN u /\ \A n \in DOMAIN t : u[n] = t[n]
           /\ \A n \in DOMAIN u : n \in DOMAIN t \/ (n = a /\ u[n] = o)
           /\ a = -1 \/ (a \in Free(t) /\ a \in DOMAIN u /\ u[a] = o)
           /\ DOMAIN u \subseteq DOMAIN t \cup Free(t)
           /\ Free(u) \subseteq Free(t) /\ a \notin Free(u)
           /\ Free(t) # {} => a # -1 /\ Free(t) = Free(u) \cup {a}
           /\ a # -1 => Free(t) # {}
           /\ -1 \notin Free(t)
           /\ \A n \in Free(t) : n \notin DOMAIN t
  <1>1. -1 \notin Free(t) /\ \A n \in Free(t) : n \notin DOMAIN t
    BY ShellAssumption DEF Free
  <1>2. CASE Free(t) = {}
    BY <1>1, <1>2, OpenedTable
  <1>3. CASE Free(t) # {}
    <2>1. /\ a \in Free(t)
          /\ DOMAIN u = DOMAIN t \cup {a}
          /\ u[a] = o
          /\ \A n \in DOMAIN t : u[n] = t[n] /\ n # a
          /\ Free(u) = Free(t) \ {a}
      BY <1>3, OpenedTable
    <2> QED
      BY <1>1, <1>3, <2>1
  <1> QED
    BY <1>2, <1>3

\* Two copies of the terminal.
LEMMA Copies ==
    ASSUME NEW t, NEW t1, NEW t2, t1 = Opened(t, Tty), t2 = Opened(t1, Tty),
           NEW a, NEW b, a = NextFd(t), b = NextFd(t1)
    PROVE  /\ DOMAIN t \subseteq DOMAIN t2 /\ \A n \in DOMAIN t : t2[n] = t[n]
           /\ \A n \in DOMAIN t2 : n \in DOMAIN t \/ (n \in {a, b} /\ t2[n] = Tty)
           /\ {a, b} \subseteq Free(t) \cup {-1}
           /\ DOMAIN t2 \subseteq DOMAIN t \cup Free(t)
           /\ Free(t2) \subseteq Free(t) \ {a, b}
           /\ Free(t2) # {} => a # b /\ a # -1 /\ b # -1
  <1>1. /\ DOMAIN t \subseteq DOMAIN t1 /\ \A n \in DOMAIN t : t1[n] = t[n]
        /\ \A n \in DOMAIN t1 : n \in DOMAIN t \/ (n = a /\ t1[n] = Tty)
        /\ a = -1 \/ (a \in Free(t) /\ a \in DOMAIN t1)
        /\ Free(t1) \subseteq Free(t) /\ a \notin Free(t1) /\ DOMAIN t1 \subseteq DOMAIN t \cup Free(t)
        /\ Free(t) # {} => a # -1
    BY OneMore
  <1>2. /\ DOMAIN t1 \subseteq DOMAIN t2 /\ \A n \in DOMAIN t1 : t2[n] = t1[n]
        /\ \A n \in DOMAIN t2 : n \in DOMAIN t1 \/ (n = b /\ t2[n] = Tty)
        /\ b = -1 \/ b \in Free(t1)
        /\ Free(t2) \subseteq Free(t1) /\ b \notin Free(t2) /\ DOMAIN t2 \subseteq DOMAIN t1 \cup Free(t1)
        /\ Free(t1) # {} => b # -1
    BY OneMore
  <1> QED
    BY <1>1, <1>2

\* The two ends of a pipe, when there is room for them.
LEMMA TwoEnds ==
    ASSUME NEW k, NEW t, NEW t1, NEW t2, t1 = Opened(t, Object("r", k)),
           t2 = Opened(t1, Object("w", k)),
           NEW r, NEW w, r = NextFd(t), w = NextFd(t1), r # -1, w # -1
    PROVE  /\ r \in Free(t) /\ w \in Free(t) /\ r # w
           /\ \A n \in DOMAIN t2 : n \in DOMAIN t \/ n \in {r, w}
           /\ DOMAIN t \subseteq DOMAIN t2 /\ \A n \in DOMAIN t : t2[n] = t[n]
           /\ r \in DOMAIN t2 /\ t2[r] = Object("r", k)
           /\ w \in DOMAIN t2 /\ t2[w] = Object("w", k)
  <1>1. /\ DOMAIN t \subseteq DOMAIN t1 /\ \A n \in DOMAIN t : t1[n] = t[n]
        /\ \A n \in DOMAIN t1 : n \in DOMAIN t \/ n = r
        /\ r \in Free(t) /\ r \in DOMAIN t1 /\ t1[r] = Object("r", k)
        /\ Free(t1) \subseteq Free(t) /\ r \notin Free(t1)
    BY OneMore
  <1>2. /\ DOMAIN t1 \subseteq DOMAIN t2 /\ \A n \in DOMAIN t1 : t2[n] = t1[n]
        /\ \A n \in DOMAIN t2 : n \in DOMAIN t1 \/ n = w
        /\ w \in Free(t1) /\ w \in DOMAIN t2 /\ t2[w] = Object("w", k)
    BY OneMore
  <1> QED
    BY <1>1, <1>2

\* When there is not, one number is free at most.
LEMMA NoRoom ==
    ASSUME NEW o, NEW t, NextFd(t) = -1 \/ NextFd(Opened(t, o)) = -1
    PROVE  IsFiniteSet(Free(t)) /\ Cardinality(Free(t)) <= 1
  <1>1. CASE Free(t) = {}
    BY <1>1, FS_EmptySet
  <1>2. CASE Free(t) # {}
    <2>1. PICK u : u = Opened(t, o)
      OBVIOUS
    <2>2. NextFd(t) # -1 /\ Free(t) = Free(u) \cup {NextFd(t)}
      BY <1>2, <2>1, OneMore
    <2>3. Free(u) = {}
      BY <2>1, <2>2, NextFdFree, OneMore
    <2>4. Free(t) = {NextFd(t)}
      BY <2>2, <2>3
    <2>5. IsFiniteSet({NextFd(t)}) /\ Cardinality({NextFd(t)}) = 1
      BY FS_Singleton
    <2> QED
      BY <2>4, <2>5
  <1> QED
    BY <1>1, <1>2

LEMMA FreeFinite ==
    ASSUME NEW t
    PROVE  IsFiniteSet(Free(t)) /\ Cardinality(Free(t)) \in Nat
  <1>1. 0 \in Int /\ FdLimit - 1 \in Int /\ Free(t) \subseteq 0 .. FdLimit - 1
    BY ShellAssumption DEF Free
  <1>2. IsFiniteSet(0 .. FdLimit - 1)
    BY <1>1, FS_Interval
  <1> QED
    BY <1>1, <1>2, FS_Subset, FS_CardinalityType

LEMMA AddOne ==
    ASSUME NEW S, IsFiniteSet(S), NEW x, x \notin S
    PROVE  IsFiniteSet(S \cup {x}) /\ Cardinality(S \cup {x}) = Cardinality(S) + 1
  BY FS_AddElement

LEMMA AddAny ==
    ASSUME NEW S, IsFiniteSet(S), NEW x
    PROVE  /\ IsFiniteSet(S \cup {x})
           /\ Cardinality(S) \in Nat /\ Cardinality(S \cup {x}) \in Nat
           /\ Cardinality(S \cup {x}) <= Cardinality(S) + 1
  <1>1. CASE x \in S
    <2>1. S \cup {x} = S
      BY <1>1
    <2>2. Cardinality(S) \in Nat
      BY FS_CardinalityType
    <2>3. IsFiniteSet(S \cup {x}) /\ Cardinality(S \cup {x}) = Cardinality(S)
      BY <2>1, Zenon
    <2> QED
      BY <2>2, <2>3
  <1>2. CASE x \notin S
    <2>1. IsFiniteSet(S \cup {x}) /\ Cardinality(S \cup {x}) = Cardinality(S) + 1
      BY <1>2, AddOne
    <2>2. Cardinality(S) \in Nat
      BY FS_CardinalityType
    <2> QED
      BY <2>1, <2>2
  <1> QED
    BY <1>1, <1>2

\* A set with four elements has more than three; a set has at most two more than another.
LEMMA Four ==
    ASSUME NEW S, IsFiniteSet(S), NEW a \in S, NEW b \in S, NEW c \in S, NEW d \in S,
           a # b, a # c, a # d, b # c, b # d, c # d
    PROVE  Cardinality(S) > 3
  <1>1. b \notin {a} /\ c \notin {a} \cup {b} /\ d \notin ({a} \cup {b}) \cup {c}
    OBVIOUS
  <1>2. Cardinality({a}) = 1 /\ IsFiniteSet({a})
    BY FS_Singleton
  <1>3. Cardinality({a} \cup {b}) = 2 /\ IsFiniteSet({a} \cup {b})
    BY <1>1, <1>2, AddOne
  <1>4. Cardinality(({a} \cup {b}) \cup {c}) = 3 /\ IsFiniteSet(({a} \cup {b}) \cup {c})
    BY <1>1, <1>3, AddOne
  <1>5. /\ Cardinality((({a} \cup {b}) \cup {c}) \cup {d}) = 4
        /\ IsFiniteSet((({a} \cup {b}) \cup {c}) \cup {d})
    BY <1>1, <1>4, AddOne
  <1>6. (({a} \cup {b}) \cup {c}) \cup {d} \subseteq S
    OBVIOUS
  <1>7. Cardinality((({a} \cup {b}) \cup {c}) \cup {d}) <= Cardinality(S) /\ Cardinality(S) \in Nat
    BY <1>6, FS_Subset, FS_CardinalityType
  <1> QED
    BY <1>5, <1>7

LEMMA TwoMore ==
    ASSUME NEW S, IsFiniteSet(S), NEW T, NEW a, NEW b, T \subseteq S \cup {a, b}
    PROVE  IsFiniteSet(T) /\ Cardinality(T) \in Nat /\ Cardinality(T) <= Cardinality(S) + 2
  <1>1. IsFiniteSet(S \cup {a}) /\ Cardinality(S \cup {a}) <= Cardinality(S) + 1
    BY AddAny
  <1>2. /\ IsFiniteSet((S \cup {a}) \cup {b})
        /\ Cardinality((S \cup {a}) \cup {b}) <= Cardinality(S) + 2
    <2>1. /\ IsFiniteSet((S \cup {a}) \cup {b})
          /\ Cardinality((S \cup {a}) \cup {b}) <= Cardinality(S \cup {a}) + 1
          /\ Cardinality(S \cup {a}) \in Nat /\ Cardinality((S \cup {a}) \cup {b}) \in Nat
      BY <1>1, AddAny
    <2>2. Cardinality(S) \in Nat
      BY AddAny
    <2> QED
      BY <1>1, <2>1, <2>2
  <1>3. T \subseteq (S \cup {a}) \cup {b}
    OBVIOUS
  <1> QED
    BY <1>2, <1>3, FS_Subset, FS_CardinalityType

\* What becomes of the descriptors: two copies, if there are numbers for them, and a
\* pipe, if there are numbers for it too.  When too few were free there is none.
Piping ==
    \E r, w \in Free(sh) \ {stdin_copy', stdout_copy'} :
        /\ r # w
        /\ To' = <<r, w>> /\ (i % 2 = 0 => fd1' = To' /\ fd2' = fd2)
                          /\ (i % 2 = 1 => fd1' = fd1 /\ fd2' = To')
        /\ r \in DOMAIN sh' /\ sh'[r] = Object("r", cur)
        /\ w \in DOMAIN sh' /\ sh'[w] = Object("w", cur)
        /\ \A n \in DOMAIN sh' : \/ n \in DOMAIN sh \/ n \in {r, w}
                                 \/ n \in {stdin_copy', stdout_copy'} /\ sh'[n] = Tty
        /\ buf' = With(buf, cur, 0)
        /\ Cardinality(Free(sh)) > 3

NoPiping ==
    /\ \A n \in DOMAIN sh' : n \in DOMAIN sh \/ (n \in {stdin_copy', stdout_copy'} /\ sh'[n] = Tty)
    /\ UNCHANGED <<buf, fd1, fd2>>
    /\ Cardinality(Free(sh')) <= 1

LEMMA StartEffect ==
    ASSUME IInv, StartStage
    PROVE  /\ DOMAIN sh \subseteq DOMAIN sh' /\ DOMAIN sh' \subseteq DOMAIN sh \cup Free(sh)
           /\ \A n \in DOMAIN sh : sh'[n] = sh[n]
           /\ tab' = [tab EXCEPT ![cur] = sh']
           /\ {stdin_copy', stdout_copy'} \subseteq Free(sh) \cup {-1}
           /\ Piping \/ NoPiping
  <1>1. sh[0] = Tty /\ sh[1] = Tty
    BY Terminal DEF StartStage, Runs, Working
  <1>2. PICK t1, t2, t3, t, r, w :
           /\ t1 = Opened(sh, Tty) /\ t2 = Opened(t1, Tty) /\ t3 = Opened(t2, Object("r", cur))
           /\ t = Opened(t3, Object("w", cur)) /\ r = NextFd(t2) /\ w = NextFd(t3)
           /\ stdin_copy' = NextFd(sh) /\ stdout_copy' = NextFd(t1)
           /\ \/ /\ r # -1 /\ w # -1 /\ sh' = t
                 /\ fd1' = (IF i % 2 = 0 THEN <<r, w>> ELSE fd1)
                 /\ fd2' = (IF i % 2 = 1 THEN <<r, w>> ELSE fd2)
                 /\ buf' = With(buf, cur, 0)
              \/ (r = -1 \/ w = -1) /\ sh' = t2 /\ UNCHANGED <<fd1, fd2, buf>>
           /\ tab' = [tab EXCEPT ![cur] = sh']
    BY <1>1 DEF StartStage
  <1>3. /\ DOMAIN sh \subseteq DOMAIN t2 /\ \A n \in DOMAIN sh : t2[n] = sh[n]
        /\ \A n \in DOMAIN t2 : n \in DOMAIN sh \/ (n \in {stdin_copy', stdout_copy'} /\ t2[n] = Tty)
        /\ {stdin_copy', stdout_copy'} \subseteq Free(sh) \cup {-1}
        /\ DOMAIN t2 \subseteq DOMAIN sh \cup Free(sh)
        /\ Free(t2) \subseteq Free(sh) \ {stdin_copy', stdout_copy'}
        /\ Free(t2) # {} => stdin_copy' # stdout_copy' /\ stdin_copy' # -1 /\ stdout_copy' # -1
    BY <1>2, Copies
  <1>4. CASE r # -1 /\ w # -1
    <2>1. /\ r \in Free(t2) /\ w \in Free(t2) /\ r # w
          /\ \A n \in DOMAIN t : n \in DOMAIN t2 \/ n \in {r, w}
          /\ DOMAIN t2 \subseteq DOMAIN t /\ \A n \in DOMAIN t2 : t[n] = t2[n]
          /\ r \in DOMAIN t /\ t[r] = Object("r", cur)
          /\ w \in DOMAIN t /\ t[w] = Object("w", cur)
      BY <1>2, <1>4, TwoEnds
    <2>2. /\ sh' = t /\ buf' = With(buf, cur, 0)
          /\ i % 2 = 0 => fd1' = <<r, w>> /\ fd2' = fd2
          /\ i % 2 = 1 => fd1' = fd1 /\ fd2' = <<r, w>>
      BY <1>2, <1>4
    <2>3. To' = <<r, w>> /\ i' = i /\ (i % 2 = 0 \/ i % 2 = 1)
      BY <2>2 DEF To, Out, StartStage, IInv, ShellInv, TypeOK
    <2>4. Cardinality(Free(sh)) > 3
      BY <1>3, <2>1, FreeFinite, Four
    <2>5. Piping
      BY <1>3, <2>1, <2>2, <2>3, <2>4 DEF Piping
    <2> QED
      BY <1>2, <1>3, <2>1, <2>2, <2>5
  <1>5. CASE r = -1 \/ w = -1
    <2>1. sh' = t2 /\ UNCHANGED <<fd1, fd2, buf>>
      BY <1>2, <1>5
    <2>2. Cardinality(Free(t2)) <= 1
      BY <1>2, <1>5, NoRoom
    <2>3. NoPiping
      BY <1>3, <2>1, <2>2 DEF NoPiping
    <2> QED
      BY <1>2, <1>3, <2>1, <2>3
  <1> QED
    BY <1>4, <1>5

-----------------------------------------------------------------------------
(* Steps that leave the shell where it is.                                 *)

\* Stage p, which is not over, goes from one state to another; it may lose or set up its
\* descriptors, and it is kept among the stopped ones unless it is reaped.
StageMoves(p, v) ==
    /\ st[p] \notin {"none", "reaped"} /\ v \in Alive \cup {"zombie", "reaped"}
    /\ UNCHANGED <<pc, count, i, desc, pid>> /\ DOMAIN buf' = DOMAIN buf
    /\ st' = [st EXCEPT ![p] = v]
    /\ DOMAIN tab' = Stages /\ \A q \in Stages \ {p} : tab'[q] = tab[q]
    /\ \A n \in DOMAIN tab'[p] : tab'[p][n].end \in {"r", "w"} => tab'[p][n].pipe \in DOMAIN buf
    /\ \A q \in halted : q \in halted' \/ (q = p /\ v = "reaped")
    /\ v \in {"stopped", "left"} => p \in halted'
    /\ v \in {"setup", "running"} => st[p] \in {"setup", "running"}
    /\ v = "setup" => st[p] = "setup" /\ tab'[p] = tab[p]
    /\ status' \in {status, "ended"}

LEMMA StageStep ==
    ASSUME IInv, NEW p \in Stages, NEW v, StageMoves(p, v)
    PROVE  OrderInv' /\ StageInv' /\ NumbersInv' /\ PipesInv' /\ LeakInv'
  <1>1. /\ \A q \in Stages \ {p} : st'[q] = st[q]
        /\ st'[p] = v /\ st[p] # "none" /\ v # "none"
    BY DEF StageMoves, IInv, ShellInv, TypeOK, Alive
  <1>2. Started' = Started
    BY <1>1 DEF Started
  <1>3. cur' = cur /\ before' = before /\ From' = From /\ To' = To /\ Free(sh') = Free(sh)
        /\ Ttys(sh') = Ttys(sh) /\ sh' = sh /\ pc' = pc /\ count' = count /\ i' = i /\ pid' = pid
        /\ stdin_copy' = stdin_copy /\ stdout_copy' = stdout_copy /\ fd1' = fd1 /\ fd2' = fd2
        /\ DOMAIN buf' = DOMAIN buf
    BY DEF StageMoves, desc, cur, before, From, To, In, Out, Free, Ttys
  <1>4. OrderInv'
    BY <1>2, <1>3 DEF StageMoves, IInv, OrderInv
  <1>5. StageInv'
    <2>1. DOMAIN tab' = Stages
      BY DEF StageMoves
    <2>2. ASSUME NEW q \in Stages
          PROVE  /\ st'[q] \in {"setup", "running"} => q = cur /\ pc \in Awaiting
                 /\ st'[q] \in {"stopped", "left"} => q \in halted'
                 /\ st'[q] \in {"none", "reaped"} \/ q \in halted' \/ (q = cur /\ pc \in Awaiting)
                 /\ st'[q] = "setup" => tab'[q] = sh
                 /\ \A n \in DOMAIN tab'[q] :
                      tab'[q][n].end \in {"r", "w"} => tab'[q][n].pipe \in DOMAIN buf
      <3>1. CASE q # p
        BY <1>1, <3>1 DEF StageMoves, IInv, StageInv
      <3>2. CASE q = p
        BY <1>1, <3>2 DEF StageMoves, IInv, StageInv
      <3> QED
        BY <3>1, <3>2
    <2> QED
      BY <1>3, <2>1, <2>2 DEF StageInv
  <1>6. NumbersInv'
    BY <1>3 DEF IInv, NumbersInv
  <1>7. PipesInv'
    BY <1>3 DEF IInv, PipesInv, Holds
  <1>8. LeakInv'
    BY <1>2, <1>3 DEF IInv, LeakInv
  <1> QED
    BY <1>4, <1>5, <1>6, <1>7, <1>8

\* The programs that run stay connected as they were, but for the one that moves.
LEMMA OthersConnected ==
    ASSUME IInv, NEW p \in Stages, NEW v, StageMoves(p, v), cmd' = cmd,
           v = "running" => Connected(p)'
    PROVE  \A q \in Stages : st'[q] = "running" => Connected(q)'
  <1>1. CASE v = "running"
    <2>1. \A q \in Stages : st'[q] = "running" => q = p
      BY <1>1 DEF StageMoves, IInv, StageInv, ShellInv, TypeOK
    <2> QED
      BY <1>1, <2>1
  <1>2. CASE v # "running"
    <2> SUFFICES ASSUME NEW q \in Stages, st'[q] = "running" PROVE Connected(q)'
      OBVIOUS
    <2>1. q # p /\ st[q] = "running"
      BY <1>2 DEF StageMoves, IInv, ShellInv, TypeOK
    <2>2. tab'[q] = tab[q] /\ DOMAIN buf' = DOMAIN buf /\ (Last' <=> Last)
      BY <2>1 DEF StageMoves, Last
    <2> QED
      BY <2>1, <2>2 DEF IInv, ShellInv, Connected
  <1> QED
    BY <1>1, <1>2

LEMMA StageTypes ==
    ASSUME IInv, NEW p \in Stages, NEW v, StageMoves(p, v), UNCHANGED <<cmd, fg>>,
           chld' \in BOOLEAN, (DOMAIN tab'[p] # {}) <=> (v \in Alive),
           grouped' \subseteq Stages, halted' \subseteq Stages,
           todo' \in [Stages -> Nat], rem' \in [Stages -> Nat \cup {-1}],
           \A k \in DOMAIN buf : buf'[k] \in 0 .. PipeSize, typed' \in 0 .. MaxTyped
    PROVE  TypeOK'
  <1>1. TypeOK
    BY DEF IInv, ShellInv
  <1>2. pc' = pc /\ count' = count /\ i' = i /\ pid' = pid /\ sh' = sh
        /\ stdin_copy' = stdin_copy /\ stdout_copy' = stdout_copy /\ fd1' = fd1 /\ fd2' = fd2
    BY DEF StageMoves, desc
  <1>3. st' \in [Stages -> Alive \cup {"none", "zombie", "reaped"}] /\ status' \in {"ended", "stopped"}
    BY <1>1 DEF StageMoves, TypeOK
  <1>4. \A q \in Stages : (DOMAIN tab'[q] # {}) <=> (st'[q] \in Alive)
    BY <1>1 DEF StageMoves, TypeOK
  <1>5. \A k \in DOMAIN buf' : k \in Stages /\ buf'[k] \in 0 .. PipeSize
    BY <1>1 DEF StageMoves, TypeOK
  <1> QED
    BY <1>1, <1>2, <1>3, <1>4, <1>5 DEF TypeOK

\* A process ends.
LEMMA EndsStep ==
    ASSUME IInv, NEW p \in Stages, st[p] \notin {"none", "reaped"}, Ends(p),
           typed' \in 0 .. MaxTyped
    PROVE  IInv'
  <1>1. TypeOK /\ DOMAIN tab = Stages
    BY DEF IInv, ShellInv, StageInv
  <1>2. /\ \A q \in Stages \ {p} : tab'[q] = tab[q]
        /\ DOMAIN tab'[p] = {} /\ DOMAIN tab' = Stages
    BY <1>1 DEF Ends
  <1>3. StageMoves(p, "zombie")
    BY <1>2 DEF Ends, StageMoves
  <1>4. todo' \in [Stages -> Nat] /\ rem' \in [Stages -> Nat \cup {-1}]
    BY <1>1 DEF Ends, TypeOK
  <1>5. /\ chld' \in BOOLEAN /\ UNCHANGED <<cmd, fg, grouped, halted, buf>>
        /\ grouped \subseteq Stages /\ halted \subseteq Stages
        /\ \A k \in DOMAIN buf : buf[k] \in 0 .. PipeSize
    BY <1>1 DEF Ends, TypeOK
  <1>6. TypeOK'
    BY <1>2, <1>3, <1>4, <1>5, StageTypes DEF Alive
  <1>7. \A q \in Stages : st'[q] = "running" => Connected(q)'
    BY <1>3, <1>5, OthersConnected
  <1> QED
    BY <1>3, <1>6, <1>7, StageStep DEF IInv, ShellInv

\* A process is stopped.
LEMMA StopsStep ==
    ASSUME IInv, NEW p \in Stages, st[p] = "running", Stops(p)
    PROVE  IInv'
  <1>1. TypeOK /\ DOMAIN tab = Stages
    BY DEF IInv, ShellInv, StageInv
  <1>2. \A n \in DOMAIN tab[p] : tab[p][n].end \in {"r", "w"} => tab[p][n].pipe \in DOMAIN buf
    BY DEF IInv, StageInv
  <1>3. StageMoves(p, "stopped")
    BY <1>1, <1>2 DEF Stops, StageMoves, Alive
  <1>4. /\ chld' \in BOOLEAN /\ UNCHANGED <<cmd, fg, tab, grouped, todo, rem, buf, typed>>
        /\ grouped \subseteq Stages /\ halted' \subseteq Stages
        /\ todo \in [Stages -> Nat] /\ rem \in [Stages -> Nat \cup {-1}]
        /\ typed \in 0 .. MaxTyped /\ DOMAIN tab[p] # {}
        /\ \A k \in DOMAIN buf : buf[k] \in 0 .. PipeSize
    BY <1>1 DEF Stops, TypeOK, Alive
  <1>5. TypeOK'
    BY <1>3, <1>4, StageTypes DEF Alive
  <1>6. \A q \in Stages : st'[q] = "running" => Connected(q)'
    BY <1>3, <1>4, OthersConnected
  <1> QED
    BY <1>3, <1>5, <1>6, StageStep DEF IInv, ShellInv

\* A program that runs goes on, with its table as it is.
LEMMA RunsOn ==
    ASSUME IInv, NEW p \in Stages, st[p] = "running",
           UNCHANGED <<pc, cmd, count, i, desc, sig, fg, st, tab, grouped, halted>>,
           todo' \in [Stages -> Nat], rem' \in [Stages -> Nat \cup {-1}],
           DOMAIN buf' = DOMAIN buf, \A k \in DOMAIN buf : buf'[k] \in 0 .. PipeSize,
           typed' \in 0 .. MaxTyped
    PROVE  IInv'
  <1>1. TypeOK /\ DOMAIN tab = Stages
    BY DEF IInv, ShellInv, StageInv
  <1>2. \A n \in DOMAIN tab[p] : tab[p][n].end \in {"r", "w"} => tab[p][n].pipe \in DOMAIN buf
    BY DEF IInv, StageInv
  <1>3. /\ chld' \in BOOLEAN /\ DOMAIN tab[p] # {} /\ tab' = tab
        /\ grouped' \subseteq Stages /\ halted' \subseteq Stages
    BY <1>1 DEF TypeOK, Alive, sig
  <1>4. st' = [st EXCEPT ![p] = "running"]
    BY <1>1 DEF TypeOK
  <1>5. StageMoves(p, "running")
    BY <1>1, <1>2, <1>4 DEF StageMoves, Alive, sig
  <1>6. TypeOK'
    BY <1>3, <1>5, StageTypes DEF Alive
  <1>7. Connected(p)'
    BY <1>3 DEF Connected, Last, IInv, ShellInv
  <1>8. \A q \in Stages : st'[q] = "running" => Connected(q)'
    BY <1>5, <1>7, OthersConnected
  <1>9. OrderInv' /\ StageInv' /\ NumbersInv' /\ PipesInv' /\ LeakInv'
    BY <1>5, StageStep
  <1> QED
    BY <1>6, <1>8, <1>9 DEF IInv, ShellInv

-----------------------------------------------------------------------------
(* The steps of the stages and of the user.                                *)

LEMMA WriteStep ==
    ASSUME IInv, NEW p \in Stages, WriteUnit(p)
    PROVE  IInv'
  <1>1. st[p] = "running" /\ todo[p] > 0 /\ TypeOK /\ Connected(p)
    BY DEF WriteUnit, IInv, ShellInv
  <1>2. todo' \in [Stages -> Nat] /\ rem' \in [Stages -> Nat \cup {-1}] /\ typed' \in 0 .. MaxTyped
    <2>1. todo \in [Stages -> Nat] /\ rem \in [Stages -> Nat \cup {-1}] /\ typed \in 0 .. MaxTyped
      BY <1>1 DEF TypeOK
    <2>2. UNCHANGED <<rem, typed>> /\ todo' = [todo EXCEPT ![p] = todo[p] - 1]
      BY DEF WriteUnit
    <2>3. todo[p] - 1 \in Nat
      BY <1>1, <2>1
    <2> QED
      BY <2>1, <2>2, <2>3
  <1>3. DOMAIN buf' = DOMAIN buf /\ \A k \in DOMAIN buf : buf'[k] \in 0 .. PipeSize
    <2>1. CASE tab[p][1].end # "w"
      BY <1>1, <2>1 DEF WriteUnit, TypeOK
    <2>2. CASE tab[p][1].end = "w"
      <3>1. tab[p][1] = Object("w", p) /\ 1 \in DOMAIN tab[p]
        BY <1>1, <2>2, Objects DEF Connected
      <3>2. tab[p][1].pipe = p /\ p \in DOMAIN buf
        BY <3>1, <2>2, Objects DEF IInv, StageInv
      <3>3. buf[p] < PipeSize /\ buf' = [buf EXCEPT ![p] = @ + 1] /\ buf[p] \in 0 .. PipeSize
        BY <1>1, <2>2, <3>2 DEF WriteUnit, TypeOK
      <3>4. buf[p] + 1 \in 0 .. PipeSize
        BY <3>3, ShellAssumption
      <3> QED
        BY <1>1, <3>2, <3>3, <3>4 DEF TypeOK
    <2> QED
      BY <2>1, <2>2
  <1> QED
    BY <1>1, <1>2, <1>3, RunsOn DEF WriteUnit

\* A unit is taken from a pipe or from the terminal.
LEMMA GetStep ==
    ASSUME IInv, NEW p \in Stages, st[p] = "running", rem[p] # 0, GetUnit(p),
           DOMAIN buf' = DOMAIN buf, \A k \in DOMAIN buf : buf'[k] \in 0 .. PipeSize,
           typed' \in 0 .. MaxTyped
    PROVE  IInv'
  <1>1. todo' \in [Stages -> Nat] /\ rem' \in [Stages -> Nat \cup {-1}]
    <2>1. todo \in [Stages -> Nat] /\ rem \in [Stages -> Nat \cup {-1}]
      BY DEF IInv, ShellInv, TypeOK
    <2>2. rem[p] \in Nat \cup {-1} /\ (rem[p] # -1 => rem[p] - 1 \in Nat)
      BY <2>1
    <2> QED
      BY <2>1, <2>2 DEF GetUnit
  <1> QED
    BY <1>1, RunsOn DEF GetUnit

LEMMA ReadStep ==
    ASSUME IInv, NEW p \in Stages, ReadPipe(p)
    PROVE  IInv'
  <1>1. st[p] = "running" /\ rem[p] # 0 /\ tab[p][0].end = "r" /\ typed' \in 0 .. MaxTyped
        /\ TypeOK /\ Connected(p)
    BY DEF ReadPipe, Reading, IInv, ShellInv, TypeOK
  <1>2. 0 \in DOMAIN tab[p] /\ tab[p][0].pipe \in DOMAIN buf
    BY <1>1 DEF Connected, IInv, StageInv
  <1>3. PICK k \in DOMAIN buf : k = tab[p][0].pipe
    BY <1>2
  <1>4. CASE buf[k] > 0 /\ GetUnit(p) /\ buf' = [buf EXCEPT ![k] = @ - 1]
    <2>1. buf[k] \in 0 .. PipeSize
      BY <1>1 DEF TypeOK
    <2>2. buf[k] - 1 \in 0 .. PipeSize
      BY <1>4, <2>1, ShellAssumption
    <2>3. DOMAIN buf' = DOMAIN buf /\ \A l \in DOMAIN buf : buf'[l] \in 0 .. PipeSize
      BY <1>1, <1>4, <2>2 DEF TypeOK
    <2> QED
      BY <1>1, <1>4, <2>3, GetStep
  <1>5. CASE Ends(p)
    BY <1>1, <1>5, EndsStep
  <1> QED
    BY <1>3, <1>4, <1>5 DEF ReadPipe

LEMMA TypeStep ==
    ASSUME IInv, NEW p \in Stages, TypeInput(p)
    PROVE  IInv'
  <1>1. st[p] = "running" /\ rem[p] # 0 /\ TypeOK
    BY DEF TypeInput, Reading, IInv, ShellInv
  <1>2. CASE typed < MaxTyped /\ GetUnit(p) /\ typed' = typed + 1 /\ buf' = buf
    <2>1. typed' \in 0 .. MaxTyped /\ \A k \in DOMAIN buf : buf'[k] \in 0 .. PipeSize
      BY <1>1, <1>2, ShellAssumption DEF TypeOK
    <2> QED
      BY <1>1, <1>2, <2>1, GetStep
  <1>3. CASE Ends(p) /\ typed' = typed
    BY <1>1, <1>3, EndsStep DEF TypeOK
  <1> QED
    BY <1>2, <1>3 DEF TypeInput

LEMMA EndOrStop ==
    ASSUME IInv, NEW p \in Stages, Finish(p) \/ Die(p) \/ CtrlC(p) \/ TtyStop(p) \/ CtrlZ(p)
    PROVE  IInv'
  <1>1. typed \in 0 .. MaxTyped
    BY DEF IInv, ShellInv, TypeOK
  <1>2. CASE Finish(p) \/ Die(p) \/ CtrlC(p)
    BY <1>1, <1>2, EndsStep DEF Finish, Die, CtrlC
  <1>3. CASE TtyStop(p) \/ CtrlZ(p)
    BY <1>3, StopsStep DEF TtyStop, CtrlZ, Reading
  <1> QED
    BY <1>2, <1>3

-----------------------------------------------------------------------------
(* The child sets up its descriptors.                                      *)

\* What the shell's table holds while a stage is forked; the stage has a copy of it.
LEMMA ForkedTable ==
    ASSUME IInv, pc \in Forked
    PROVE  /\ i \in Nat /\ cur \in Stages /\ sh[0] = Tty /\ sh[1] = Tty
           /\ \A n \in 0 .. 2 : n \in DOMAIN sh /\ n \notin {From[1], To[1], To[2]}
           /\ before # cur /\ (i = 0 => before \notin DOMAIN buf)
           /\ i # 0 /\ cur \in DOMAIN buf => before \in DOMAIN buf
           /\ before \in DOMAIN buf => From[1] \in DOMAIN sh /\ sh[From[1]] = Object("r", before)
           /\ cur \in DOMAIN buf =>
                /\ To[1] \in DOMAIN sh /\ sh[To[1]] = Object("r", cur)
                /\ To[2] \in DOMAIN sh /\ sh[To[2]] = Object("w", cur)
           /\ \A n \in DOMAIN sh :
                \/ sh[n] = Tty
                \/ before \in DOMAIN buf /\ n = From[1] /\ sh[n] = Object("r", before)
                \/ cur \in DOMAIN buf /\ n = To[1] /\ sh[n] = Object("r", cur)
                \/ cur \in DOMAIN buf /\ n = To[2] /\ sh[n] = Object("w", cur)
  <1>1. i \in Nat
    BY DEF IInv, ShellInv, TypeOK
  <1>2. cur \in Stages /\ sh[0] = Tty /\ sh[1] = Tty
    BY Terminal DEF IInv, OrderInv, Working, Forked
  <1>3. \A n \in 0 .. 2 : n \in DOMAIN sh /\ n \notin {From[1], To[1], To[2]}
    BY <1>1, Pairs DEF IInv, NumbersInv
  <1>4. before # cur
    BY <1>1 DEF before, cur
  <1>5. i = 0 => before \notin DOMAIN buf
    <2>1. DOMAIN buf \subseteq Stages
      BY DEF IInv, ShellInv, TypeOK
    <2>2. \A p \in Stages : p[2] >= 0
      BY ShellAssumption DEF Stages
    <2>3. before[2] = i - 1
      BY DEF before
    <2> QED
      BY <2>1, <2>2, <2>3
  <1>6. PipesInv /\ pc # "start"
    BY DEF IInv, Forked
  <1> QED
    BY <1>1, <1>2, <1>3, <1>4, <1>5, <1>6 DEF PipesInv, Holds

LEMMA PipedTable ==
    ASSUME IInv, pc \in Forked, NEW t, t = Piped(sh)
    PROVE  /\ {0, 1} \subseteq DOMAIN t
           /\ t[0] = Object("r", before) \/ (t[0] = Tty /\ before \notin DOMAIN buf)
           /\ t[1] = Object("w", cur) \/ (t[1] = Tty /\ (Last \/ cur \notin DOMAIN buf))
           /\ \A n \in DOMAIN t : \E m \in DOMAIN sh : t[n] = sh[m]
  <1> DEFINE f  == From[1]
             g  == To[2]
             t1 == IF i # 0 THEN Closed(Dup2(sh, f, 0), {f}) ELSE sh
  <1>1. t = IF ~Last THEN Closed(Dup2(t1, g, 1), {g}) ELSE t1
    BY DEF Piped, From, To
  <1>2. /\ 0 \in DOMAIN sh /\ 1 \in DOMAIN sh /\ sh[0] = Tty /\ sh[1] = Tty
        /\ f \notin {0, 1} /\ g \notin {0, 1}
    BY ForkedTable
  <1>3. /\ 0 \in DOMAIN t1 /\ 1 \in DOMAIN t1
        /\ \A n \in DOMAIN t1 \ {0} : n \in DOMAIN sh /\ t1[n] = sh[n] /\ (i # 0 => n # f)
        /\ \A n \in DOMAIN sh : n \in DOMAIN t1 \/ (i # 0 /\ n = f)
        /\ t1[0] = Tty \/ (i # 0 /\ f \in DOMAIN sh /\ t1[0] = sh[f])
        /\ i # 0 /\ f \in DOMAIN sh => t1[0] = sh[f]
    <2>1. CASE i = 0
      BY <1>2, <2>1
    <2>2. CASE i # 0
      <3>1. t1 = Closed(Dup2(sh, f, 0), {f}) /\ f # 0
        BY <1>2, <2>2
      <3> HIDE DEF t1, f
      <3>2. CASE f \notin DOMAIN sh
        <4>1. DOMAIN t1 = DOMAIN sh /\ \A m \in DOMAIN sh : t1[m] = sh[m]
          BY <3>1, <3>2 DEF Closed, Dup2, With
        <4> QED
          BY <1>2, <3>2, <4>1
      <3>3. CASE f \in DOMAIN sh
        <4>1. /\ DOMAIN t1 = (DOMAIN sh \cup {0}) \ {f} /\ t1[0] = sh[f]
              /\ \A m \in DOMAIN sh \ {f, 0} : t1[m] = sh[m]
          BY <3>1, <3>3 DEF Closed, Dup2, With
        <4> QED
          BY <1>2, <2>2, <3>1, <3>3, <4>1
      <3> QED
        BY <3>2, <3>3
    <2> QED
      BY <2>1, <2>2
  <1> HIDE DEF t1, f, g
  <1>4. t1[0] = Object("r", before) \/ (t1[0] = Tty /\ before \notin DOMAIN buf)
    <2>1. CASE before \in DOMAIN buf
      BY <1>3, <2>1, ForkedTable DEF f, g
    <2>2. CASE before \notin DOMAIN buf
      <3>1. i = 0 \/ cur \notin DOMAIN buf
        BY <2>2, ForkedTable DEF f, g
      <3> QED
        BY <1>3, <2>2, <3>1, ForkedTable DEF f, g
    <2> QED
      BY <2>1, <2>2
  <1>5. /\ cur \in DOMAIN buf => g \in DOMAIN t1 /\ t1[g] = Object("w", cur)
        /\ cur \notin DOMAIN buf /\ g \in DOMAIN t1 => t1[g] = Tty
    <2>1. CASE cur \in DOMAIN buf
      <3>1. g \in DOMAIN sh /\ sh[g] = Object("w", cur)
        BY <2>1, ForkedTable DEF f, g
      <3>2. i # 0 => g # f
        BY <2>1, <3>1, ForkedTable, Objects DEF f, g
      <3> QED
        BY <1>2, <1>3, <2>1, <3>1, <3>2
    <2>2. CASE cur \notin DOMAIN buf /\ g \in DOMAIN t1
      <3>1. g \in DOMAIN sh /\ t1[g] = sh[g] /\ (i # 0 => g # f)
        BY <1>2, <1>3, <2>2
      <3> QED
        BY <2>2, <3>1, ForkedTable DEF f, g
    <2> QED
      BY <2>1, <2>2
  <1>6. CASE Last
    BY <1>1, <1>2, <1>3, <1>4, <1>6
  <1>7. CASE ~Last /\ g \notin DOMAIN t1
    <2>1. DOMAIN t = DOMAIN t1 /\ \A n \in DOMAIN t : t[n] = t1[n]
      BY <1>1, <1>2, <1>7 DEF Closed, Dup2, With
    <2> QED
      BY <1>2, <1>3, <1>4, <1>5, <1>7, <2>1
  <1>8. CASE ~Last /\ g \in DOMAIN t1
    <2>1. /\ DOMAIN t = (DOMAIN t1 \cup {1}) \ {g} /\ t[1] = t1[g]
          /\ \A n \in DOMAIN t1 \ {g, 1} : t[n] = t1[n]
      BY <1>1, <1>2, <1>8 DEF Closed, Dup2, With
    <2> QED
      BY <1>2, <1>3, <1>4, <1>5, <1>8, <2>1
  <1> QED
    BY <1>6, <1>7, <1>8

LEMMA RedirectedTable ==
    ASSUME NEW t, {0, 1} \subseteq DOMAIN t, NEW u, u = Redirected(t)
    PROVE  /\ DOMAIN u = DOMAIN t
           /\ u[0] = IF FromFile THEN File ELSE t[0]
           /\ u[1] = IF ToFile THEN File ELSE t[1]
           /\ \A n \in DOMAIN t : u[n] = File \/ u[n] = t[n]
  BY DEF Redirected, With

\* The program that is started is connected, and holds only pipes that there are.
LEMMA SetupTable ==
    ASSUME IInv, NEW p \in Stages, st[p] = "setup", NEW u, u = Redirected(Piped(tab[p]))
    PROVE  /\ p = cur /\ {0, 1} \subseteq DOMAIN u
           /\ u[0] = Object("r", before) \/ (u[0] \in {Tty, File} /\ before \notin DOMAIN buf)
           /\ u[1] = Object("w", cur) \/ (u[1] \in {Tty, File} /\ (Last \/ cur \notin DOMAIN buf))
           /\ \A n \in DOMAIN u : /\ u[n] # Object("w", before)
                                  /\ u[n].end \in {"r", "w"} => u[n].pipe \in DOMAIN buf
  <1>1. p = cur /\ pc \in Forked /\ tab[p] = sh
    BY DEF IInv, StageInv, Awaiting, Forked
  <1>2. PICK t : t = Piped(sh)
    OBVIOUS
  <1>3. /\ {0, 1} \subseteq DOMAIN t
        /\ t[0] = Object("r", before) \/ (t[0] = Tty /\ before \notin DOMAIN buf)
        /\ t[1] = Object("w", cur) \/ (t[1] = Tty /\ (Last \/ cur \notin DOMAIN buf))
        /\ \A n \in DOMAIN t : \E m \in DOMAIN sh : t[n] = sh[m]
    BY <1>1, <1>2, PipedTable
  <1>4. /\ DOMAIN u = DOMAIN t
        /\ u[0] = IF FromFile THEN File ELSE t[0]
        /\ u[1] = IF ToFile THEN File ELSE t[1]
        /\ \A n \in DOMAIN t : u[n] = File \/ u[n] = t[n]
    BY <1>1, <1>2, <1>3, RedirectedTable
  <1>5. u[0] = Object("r", before) \/ (u[0] \in {Tty, File} /\ before \notin DOMAIN buf)
    <2>1. FromFile => before \notin DOMAIN buf
      BY <1>1, ForkedTable DEF FromFile
    <2> QED
      BY <1>3, <1>4, <2>1
  <1>6. u[1] = Object("w", cur) \/ (u[1] \in {Tty, File} /\ (Last \/ cur \notin DOMAIN buf))
    <2>1. ToFile => Last
      BY DEF ToFile
    <2> QED
      BY <1>3, <1>4, <2>1
  <1>7. ASSUME NEW n \in DOMAIN sh
        PROVE  /\ sh[n] # Object("w", before)
               /\ sh[n].end \in {"r", "w"} => sh[n].pipe \in DOMAIN buf
    <2>1. before # cur
      BY <1>1, ForkedTable
    <2>2. \/ sh[n] = Tty
          \/ before \in DOMAIN buf /\ sh[n] = Object("r", before)
          \/ cur \in DOMAIN buf /\ (sh[n] = Object("r", cur) \/ sh[n] = Object("w", cur))
      BY <1>1, ForkedTable
    <2> QED
      BY <2>1, <2>2, Objects
  <1>8. ASSUME NEW n \in DOMAIN u
        PROVE  /\ u[n] # Object("w", before)
               /\ u[n].end \in {"r", "w"} => u[n].pipe \in DOMAIN buf
    <2>1. u[n] = File \/ \E m \in DOMAIN sh : u[n] = sh[m]
      BY <1>3, <1>4
    <2> QED
      BY <1>7, <2>1, Objects
  <1> QED
    BY <1>1, <1>3, <1>4, <1>5, <1>6, <1>8

LEMMA SetupStep ==
    ASSUME IInv, NEW p \in Stages, Setup(p)
    PROVE  IInv'
  <1>1. st[p] = "setup" /\ typed' = typed /\ TypeOK /\ DOMAIN tab = Stages
    BY DEF Setup, IInv, ShellInv, StageInv
  <1>2. CASE SetupFails(p)
    <2>1. Ends(p) /\ typed' \in 0 .. MaxTyped
      BY <1>1, <1>2 DEF Setup, TypeOK
    <2> QED
      BY <1>1, <2>1, EndsStep
  <1>3. CASE ~SetupFails(p)
    <2>1. PICK u : u = Redirected(Piped(tab[p]))
      OBVIOUS
    <2>2. /\ st' = [st EXCEPT ![p] = "running"] /\ tab' = [tab EXCEPT ![p] = u]
          /\ UNCHANGED <<pc, cmd, count, i, desc, sig, fg, grouped, halted, buf>>
      BY <1>1, <1>3, <2>1 DEF Setup
    <2>3. /\ p = cur /\ {0, 1} \subseteq DOMAIN u
          /\ u[0] = Object("r", before) \/ (u[0] \in {Tty, File} /\ before \notin DOMAIN buf)
          /\ u[1] = Object("w", cur) \/ (u[1] \in {Tty, File} /\ (Last \/ cur \notin DOMAIN buf))
          /\ \A n \in DOMAIN u : /\ u[n] # Object("w", before)
                                 /\ u[n].end \in {"r", "w"} => u[n].pipe \in DOMAIN buf
      BY <1>1, <2>1, SetupTable
    <2>4. tab'[p] = u /\ DOMAIN tab' = Stages /\ \A q \in Stages \ {p} : tab'[q] = tab[q]
      BY <1>1, <2>2
    <2>5. StageMoves(p, "running")
      BY <1>1, <2>2, <2>3, <2>4 DEF StageMoves, Alive, sig
    <2>6. todo' \in [Stages -> Nat] /\ rem' \in [Stages -> Nat \cup {-1}]
      <3> DEFINE w     == cmd.words[i + 1]
                 limit == IF w = "head" THEN HeadLines ELSE -1
                 units == IF w \in DOMAIN Output THEN Output[w]
                          ELSE IF ~FromFile THEN 0
                          ELSE IF limit = -1 THEN FileUnits
                          ELSE Min({limit, FileUnits})
      <3>1. limit \in Nat \cup {-1}
        BY ShellAssumption
      <3>2. limit # -1 => Min({limit, FileUnits}) \in Nat
        <4>1. ASSUME limit # -1 PROVE {limit, FileUnits} \in SUBSET Nat /\ {limit, FileUnits} # {}
          BY <3>1, <4>1, ShellAssumption
        <4>2. ASSUME limit # -1 PROVE Min({limit, FileUnits}) \in {limit, FileUnits}
          BY <4>1, <4>2, MinIn
        <4> QED
          BY <4>1, <4>2
      <3>3. units \in Nat
        BY <3>2, ShellAssumption
      <3>4. /\ todo' = [todo EXCEPT ![p] = units]
            /\ rem' = [rem EXCEPT ![p] = IF w \in DOMAIN Output \/ FromFile THEN 0 ELSE limit]
        BY <1>1, <1>3 DEF Setup
      <3> HIDE DEF limit, units, w
      <3> QED
        BY <1>1, <3>1, <3>3, <3>4 DEF TypeOK
    <2>7. /\ chld' \in BOOLEAN /\ DOMAIN tab'[p] # {}
          /\ grouped' \subseteq Stages /\ halted' \subseteq Stages
          /\ typed' \in 0 .. MaxTyped /\ \A k \in DOMAIN buf : buf'[k] \in 0 .. PipeSize
      BY <1>1, <2>2, <2>3, <2>4 DEF TypeOK, sig
    <2>8. TypeOK'
      BY <2>2, <2>5, <2>6, <2>7, StageTypes DEF Alive
    <2>9. Connected(p)'
      <3>1. <<p[1], p[2] - 1>> = before /\ (Last' <=> Last) /\ buf' = buf
        BY <2>2, <2>3 DEF cur, before, Last
      <3> QED
        BY <2>3, <2>4, <3>1 DEF Connected
    <2>10. \A q \in Stages : st'[q] = "running" => Connected(q)'
      BY <2>2, <2>5, <2>9, OthersConnected
    <2> QED
      BY <2>5, <2>8, <2>10, StageStep DEF IInv, ShellInv
  <1> QED
    BY <1>2, <1>3

-----------------------------------------------------------------------------
(* The steps of the shell.                                                 *)

LEMMA HandlerStep ==
    ASSUME IInv, Handler
    PROVE  IInv'
  <1>1. TypeOK /\ DOMAIN tab = Stages /\ StageInv
    BY DEF IInv, ShellInv, StageInv
  <1>2. CASE UNCHANGED <<st, tab, status, grouped, halted>>
    <2>1. UNCHANGED <<pc, cmd, count, i, desc, pid, status, fg, st, tab, halted, todo, rem, buf, typed,
                      grouped>> /\ chld' = FALSE
      BY <1>2 DEF Handler
    <2>2. /\ TypeOK' /\ (\A p \in Stages : st'[p] = "running" => Connected(p)')
      BY <2>1 DEF IInv, ShellInv, TypeOK, Connected, Last, desc
    <2>3. OrderInv' /\ StageInv'
      BY <2>1 DEF IInv, OrderInv, StageInv, Started, cur, desc
    <2>4. NumbersInv' /\ PipesInv' /\ LeakInv'
      BY <2>1 DEF IInv, NumbersInv, PipesInv, LeakInv, Started, Holds, From, To, In, Out, cur, before,
                  Free, Ttys, desc
    <2> QED
      BY <2>2, <2>3, <2>4 DEF IInv, ShellInv
  <1>3. ASSUME status = "stopped" PROVE pid \in Stages
    BY <1>3 DEF IInv, OrderInv
  <1>4. CASE /\ status = "stopped" /\ st[pid] \in Alive
             /\ st' = [st EXCEPT ![pid] = "dying"]
             /\ UNCHANGED <<tab, status, grouped, halted>>
    <2>1. PICK p \in Stages : p = pid
      BY <1>3, <1>4
    <2>2. StageMoves(p, "dying")
      BY <1>1, <1>4, <2>1 DEF StageMoves, StageInv, Handler, Alive
    <2>3. UNCHANGED <<cmd, fg, tab, grouped, halted, todo, rem, buf, typed>> /\ chld' \in BOOLEAN
      BY <1>4 DEF Handler
    <2>4. TypeOK'
      BY <1>1, <1>4, <2>1, <2>2, <2>3, StageTypes DEF TypeOK, Alive
    <2>5. \A q \in Stages : st'[q] = "running" => Connected(q)'
      BY <2>2, <2>3, OthersConnected
    <2> QED
      BY <2>2, <2>4, <2>5, StageStep DEF IInv, ShellInv
  <1>5. CASE /\ status = "stopped" /\ st[pid] \in Alive \cup {"zombie"}
             /\ tab' = [tab EXCEPT ![pid] = <<>>]
             /\ Reap(pid)
    <2>1. PICK p \in Stages : p = pid
      BY <1>3, <1>5
    <2>2. DOMAIN tab'[p] = {} /\ DOMAIN tab' = Stages /\ \A q \in Stages \ {p} : tab'[q] = tab[q]
      BY <1>1, <1>5, <2>1
    <2>3. UNCHANGED <<cmd, fg, todo, rem, buf, typed>> /\ chld' \in BOOLEAN
      BY <1>5 DEF Handler
    <2>4. StageMoves(p, "reaped")
      BY <1>5, <2>1, <2>2, <2>3 DEF StageMoves, Reap, Handler, Alive
    <2>5. TypeOK'
      BY <1>1, <1>5, <2>2, <2>3, <2>4, StageTypes DEF TypeOK, Alive, Reap
    <2>6. \A q \in Stages : st'[q] = "running" => Connected(q)'
      BY <2>3, <2>4, OthersConnected
    <2> QED
      BY <2>4, <2>5, <2>6, StageStep DEF IInv, ShellInv
  <1> QED
    BY <1>2, <1>4, <1>5 DEF Handler

\* setpgid, tcsetpgrp: the shell goes on, nothing else changes that matters.
LEMMA GoOn ==
    ASSUME IInv, pc \in {"forked", "front"}, pc' \in {"front", "wait"}, pid' = cur,
           UNCHANGED <<cmd, count, i, desc, status, chld, st, tab, halted, todo, rem, buf, typed>>,
           grouped' \subseteq Stages, fg' \in {"shell", "line"}
    PROVE  IInv'
  <1>1. cur \in Stages
    BY DEF IInv, OrderInv, Working
  <1>2. TypeOK'
    BY <1>1 DEF IInv, ShellInv, TypeOK, desc
  <1>3. \A p \in Stages : st'[p] = "running" => Connected(p)'
    BY DEF IInv, ShellInv, Connected, Last
  <1>4. cur' = cur /\ before' = before /\ From' = From /\ To' = To /\ Started' = Started
        /\ Free(sh') = Free(sh) /\ Ttys(sh') = Ttys(sh) /\ sh' = sh /\ i' = i /\ count' = count
        /\ stdin_copy' = stdin_copy /\ stdout_copy' = stdout_copy /\ fd1' = fd1 /\ fd2' = fd2
    BY DEF desc, cur, before, From, To, In, Out, Started, Free, Ttys
  <1>5. OrderInv'
    BY <1>1, <1>4 DEF IInv, OrderInv
  <1>6. StageInv'
    BY <1>4 DEF IInv, StageInv, Awaiting
  <1>7. NumbersInv'
    BY <1>4 DEF IInv, NumbersInv, Forked
  <1>8. PipesInv'
    BY <1>4 DEF IInv, PipesInv, Holds, Forked
  <1>9. LeakInv'
    BY <1>4 DEF IInv, LeakInv, Forked
  <1> QED
    BY <1>2, <1>3, <1>5, <1>6, <1>7, <1>8, <1>9 DEF IInv, ShellInv

LEMMA SetGroupStep == ASSUME IInv, SetGroup PROVE IInv'
  <1>1. /\ pc = "forked" /\ pc' = "front" /\ pid' = cur /\ fg' = fg
        /\ UNCHANGED <<cmd, count, i, desc, status, chld, st, tab, halted, todo, rem, buf, typed>>
        /\ grouped' \subseteq grouped \cup {cur}
    BY DEF SetGroup, Runs
  <1>2. cur \in Stages /\ grouped \subseteq Stages /\ fg \in {"shell", "line"}
    BY <1>1 DEF IInv, OrderInv, ShellInv, TypeOK, Working
  <1> QED
    BY <1>1, <1>2, GoOn

LEMMA ToFrontStep == ASSUME IInv, ToFront PROVE IInv'
  <1>1. /\ pc = "front" /\ pc' = "wait" /\ fg' \in {"shell", "line"}
        /\ UNCHANGED <<cmd, count, i, desc, sig, stages, buf, typed>>
    BY DEF ToFront, Runs
  <1>2. pid = cur /\ grouped \subseteq Stages
    BY <1>1 DEF IInv, OrderInv, ShellInv, TypeOK
  <1> QED
    BY <1>1, <1>2, GoOn DEF sig, stages

\* The stage is over, or stopped, which the shell takes for the same.
LEMMA WaitStep ==
    ASSUME IInv, Wait
    PROVE  IInv'
  <1>1. /\ TypeOK /\ pc = "wait" /\ pc' = "after" /\ pid = cur /\ cur \in Stages
        /\ UNCHANGED <<cmd, count, i, desc, pid, chld, fg, tab, todo, rem, buf, typed>>
    BY DEF Wait, IInv, ShellInv, OrderInv, Working
  <1>2. /\ \A p \in Stages \ {cur} : st'[p] = st[p]
        /\ \/ st[cur] = "zombie" /\ st'[cur] = "reaped" /\ status' = "ended"
           \/ st[cur] = "stopped" /\ st'[cur] = "left" /\ status' = "stopped" /\ halted' = halted
           \/ st[cur] = "reaped" /\ st'[cur] = "reaped" /\ status' = status
        /\ st' \in [Stages -> Alive \cup {"none", "zombie", "reaped"}]
    BY <1>1 DEF Wait, Reap, TypeOK, Alive
  <1>3. \A p \in Stages \ {cur} : p \in halted => p \in halted'
    BY <1>1 DEF Wait, Reap
  <1>4. status' \in {"ended", "stopped"} /\ grouped' \subseteq Stages /\ halted' \subseteq Stages
    BY <1>1, <1>2 DEF Wait, Reap, TypeOK
  <1>5. TypeOK'
    <2>1. \A p \in Stages : (DOMAIN tab'[p] # {}) <=> (st'[p] \in Alive)
      BY <1>1, <1>2 DEF TypeOK, Alive
    <2> QED
      BY <1>1, <1>2, <1>4, <2>1 DEF TypeOK, desc
  <1>6. cur' = cur /\ before' = before /\ From' = From /\ To' = To /\ Started' = Started
        /\ Free(sh') = Free(sh) /\ Ttys(sh') = Ttys(sh) /\ sh' = sh /\ i' = i /\ count' = count
        /\ stdin_copy' = stdin_copy /\ stdout_copy' = stdout_copy /\ fd1' = fd1 /\ fd2' = fd2
    BY <1>1, <1>2 DEF desc, cur, before, From, To, In, Out, Started, Free, Ttys
  <1>7. StageInv'
    <2>1. ASSUME NEW p \in Stages
          PROVE  /\ st'[p] \notin {"setup", "running"}
                 /\ st'[p] \in {"stopped", "left"} => p \in halted'
                 /\ st'[p] \in {"none", "reaped"} \/ p \in halted'
      <3>1. CASE p = cur
        BY <1>2, <3>1 DEF IInv, StageInv
      <3>2. CASE p # cur
        BY <1>2, <1>3, <3>2 DEF IInv, StageInv
      <3> QED
        BY <3>1, <3>2
    <2> QED
      BY <1>1, <1>6, <2>1 DEF IInv, StageInv
  <1>8. \A p \in Stages : st'[p] = "running" => Connected(p)'
    BY <1>6, <1>7, <1>1 DEF StageInv, Awaiting
  <1>9. OrderInv'
    BY <1>1, <1>6 DEF IInv, OrderInv
  <1>10. NumbersInv'
    BY <1>1, <1>6 DEF IInv, NumbersInv, Forked
  <1>11. PipesInv'
    BY <1>1, <1>6 DEF IInv, PipesInv, Holds, Forked
  <1>12. LeakInv'
    BY <1>1, <1>6 DEF IInv, LeakInv, Forked
  <1> QED
    BY <1>5, <1>7, <1>8, <1>9, <1>10, <1>11, <1>12 DEF IInv, ShellInv

\* Between two lines nothing runs.
LEMMA NoneRuns ==
    ASSUME IInv, pc \notin Awaiting, NEW p \in Stages
    PROVE  /\ st[p] \notin {"setup", "running"}
           /\ st[p] \in {"none", "reaped"} \/ p \in halted
  BY DEF IInv, StageInv

LEMMA ReadLineStep ==
    ASSUME IInv, ReadLine
    PROVE  IInv'
  <1>1. /\ TypeOK /\ pc = "prompt" /\ pc' \in {"prompt", "start", "gone"} /\ count < MaxLines
        /\ cmd' \in CmdLines /\ count' = count + 1 /\ i' = 0
        /\ UNCHANGED <<desc, sig, fg, stages, buf, typed>>
    BY DEF ReadLine, Runs, IInv, ShellInv
  <1>2. count' \in 1 .. MaxLines /\ i' \in 0 .. Len(cmd'.words) - 1 /\ count \in Nat
    <2>1. cmd'.words \in Seq(STRING) /\ cmd'.words # <<>>
      BY <1>1, ShellAssumption
    <2>2. Len(cmd'.words) \in Nat \ {0}
      BY <2>1
    <2> QED
      BY <1>1, <2>2, ShellAssumption DEF TypeOK
  <1>3. cur' \in Stages
    BY <1>1, <1>2 DEF cur, Stages
  <1>4. TypeOK'
    <2>1. /\ pc' \in {"prompt", "start", "forked", "front", "wait", "after", "end", "gone"}
          /\ cmd' \in CmdLines /\ count' \in 0 .. MaxLines /\ i' \in 0 .. Len(cmd'.words) - 1
      BY <1>1, <1>2
    <2>2. UNCHANGED <<sh, stdin_copy, stdout_copy, fd1, fd2, pid, status, chld, fg, st, tab, grouped,
                      halted, todo, rem, buf, typed>>
      BY <1>1 DEF desc, sig, stages
    <2> QED
      BY <1>1, <2>1, <2>2 DEF TypeOK
  <1>5. UNCHANGED <<sh, stdin_copy, stdout_copy, fd1, fd2, pid, status, st, tab, halted, buf>>
        /\ Started' = Started /\ Ttys(sh') = Ttys(sh)
    BY <1>1 DEF desc, sig, stages, Started, Ttys
  <1>6. StageInv' /\ \A p \in Stages : st'[p] = "running" => Connected(p)'
    <2>1. pc \notin Awaiting
      BY <1>1 DEF Awaiting
    <2> QED
      BY <1>5, <2>1, NoneRuns DEF IInv, StageInv
  <1>7. OrderInv'
    <2>1. ASSUME NEW p \in Started PROVE p[1] < count'
      <3>1. p[1] \in Nat /\ p[1] <= count
        BY <1>2, <1>1 DEF IInv, OrderInv, Started, Stages
      <3> QED
        BY <1>1, <1>2, <3>1
    <2> QED
      BY <1>1, <1>3, <1>5, <2>1 DEF IInv, OrderInv
  <1>8. NumbersInv'
    BY <1>1, <1>5 DEF IInv, NumbersInv, From, In, Forked
  <1>9. before' \notin DOMAIN buf'
    <2>1. \A p \in DOMAIN buf : p[1] <= count
      BY <1>1, <1>2 DEF IInv, OrderInv, Started, Stages
    <2>2. before'[1] = count + 1
      BY <1>1 DEF before
    <2> QED
      BY <1>2, <1>5, <2>1, <2>2
  <1>10. PipesInv'
    BY <1>1, <1>5, <1>9 DEF IInv, PipesInv, Forked
  <1>11. LeakInv'
    BY <1>1, <1>5 DEF IInv, LeakInv, Forked
  <1> QED
    BY <1>4, <1>6, <1>7, <1>8, <1>10, <1>11 DEF IInv, ShellInv

LEMMA EndOfInputStep ==
    ASSUME IInv, EndOfInput
    PROVE  IInv'
  <1>1. /\ TypeOK /\ pc = "prompt" /\ pc' = "gone"
        /\ UNCHANGED <<cmd, count, i, desc, sig, fg, stages, buf, typed>>
    BY DEF EndOfInput, Runs, IInv, ShellInv
  <1>2. TypeOK'
    BY <1>1 DEF TypeOK, desc, sig, stages
  <1>3. UNCHANGED <<count, i, sh, stdin_copy, stdout_copy, fd1, fd2, pid, status, st, tab, halted, buf>>
        /\ Started' = Started /\ Ttys(sh') = Ttys(sh) /\ cur' = cur
    BY <1>1 DEF desc, sig, stages, Started, Ttys, cur
  <1>4. StageInv' /\ \A p \in Stages : st'[p] = "running" => Connected(p)'
    <2>1. pc \notin Awaiting
      BY <1>1 DEF Awaiting
    <2> QED
      BY <1>3, <2>1, NoneRuns DEF IInv, StageInv
  <1>5. OrderInv'
    BY <1>1, <1>3 DEF IInv, OrderInv, Working
  <1>6. NumbersInv' /\ PipesInv' /\ LeakInv'
    BY <1>1, <1>3 DEF IInv, NumbersInv, PipesInv, LeakInv, Forked
  <1> QED
    BY <1>2, <1>4, <1>5, <1>6 DEF IInv, ShellInv

\* To restore the terminal changes nothing: no stage has ever taken it from the shell.
LEMMA RestoredTable ==
    ASSUME NEW t, 0 \in DOMAIN t, 1 \in DOMAIN t, t[0] = Tty, t[1] = Tty,
           \A n \in {stdin_copy, stdout_copy} \cap DOMAIN t : t[n] = Tty
    PROVE  DOMAIN Restored(t) = DOMAIN t /\ \A n \in DOMAIN t : Restored(t)[n] = t[n]
  BY DEF Restored, Dup2, With

\* The table of the shell after it has closed some numbers, none of them 0, 1 or 2.
LEMMA LessOpen ==
    ASSUME IInv, pc \in {"after", "end"}, NEW N, \A n \in 0 .. 2 : n \notin N, NEW t,
           \/ t = Closed(Restored(sh), N)
           \/ t = Restored(Closed(sh, N))
    PROVE  DOMAIN t = DOMAIN sh \ N /\ \A n \in DOMAIN t : t[n] = sh[n]
  <1>1. /\ sh[0] = Tty /\ sh[1] = Tty /\ 0 \in DOMAIN sh /\ 1 \in DOMAIN sh /\ 0 \notin N /\ 1 \notin N
        /\ \A n \in {stdin_copy, stdout_copy} \cap DOMAIN sh : sh[n] = Tty
    BY Terminal DEF IInv, NumbersInv, Working, Forked
  <1>2. CASE t = Closed(Restored(sh), N)
    <2>1. DOMAIN Restored(sh) = DOMAIN sh /\ \A n \in DOMAIN sh : Restored(sh)[n] = sh[n]
      BY <1>1, RestoredTable
    <2> QED
      BY <1>2, <2>1 DEF Closed
  <1>3. CASE t = Restored(Closed(sh, N))
    <2>1. PICK u : u = Closed(sh, N)
      OBVIOUS
    <2>2. DOMAIN u = DOMAIN sh \ N /\ \A n \in DOMAIN u : u[n] = sh[n]
      BY <2>1 DEF Closed
    <2>3. DOMAIN Restored(u) = DOMAIN u /\ \A n \in DOMAIN u : Restored(u)[n] = u[n]
      BY <1>1, <2>2, RestoredTable
    <2> QED
      BY <1>3, <2>1, <2>2, <2>3
  <1> QED
    BY <1>2, <1>3

LEMMA TtysFinite ==
    ASSUME NEW t, DOMAIN t \subseteq 0 .. FdLimit - 1
    PROVE  IsFiniteSet(Ttys(t)) /\ Cardinality(Ttys(t)) \in Nat
  <1>1. 0 \in Int /\ FdLimit - 1 \in Int /\ Ttys(t) \subseteq 0 .. FdLimit - 1
    BY ShellAssumption DEF Ttys
  <1> QED
    BY <1>1, FS_Interval, FS_Subset, FS_CardinalityType

\* Of the terminal it has no more descriptors than before.
LEMMA TtysLess ==
    ASSUME IInv, NEW t, DOMAIN t \subseteq DOMAIN sh, \A n \in DOMAIN t : t[n] = sh[n]
    PROVE  Cardinality(Ttys(t)) <= 5 + 2 * Cardinality(Started)
  <1>1. DOMAIN sh \subseteq 0 .. FdLimit - 1 /\ DOMAIN t \subseteq 0 .. FdLimit - 1
    BY DEF IInv, ShellInv, TypeOK
  <1>2. /\ IsFiniteSet(Ttys(sh)) /\ Cardinality(Ttys(sh)) \in Nat
        /\ Cardinality(Ttys(t)) \in Nat
    BY <1>1, TtysFinite
  <1>3. Ttys(t) \subseteq Ttys(sh)
    BY DEF Ttys
  <1>4. Cardinality(Ttys(t)) <= Cardinality(Ttys(sh))
    BY <1>2, <1>3, FS_Subset
  <1>5. Cardinality(Ttys(sh)) <= 5 + 2 * Cardinality(Started)
    BY DEF IInv, LeakInv
  <1>6. Cardinality(Started) \in Nat
    <2>1. IsFiniteSet(Started)
      BY DEF IInv, OrderInv
    <2> QED
      BY <2>1, FS_CardinalityType
  <1> QED
    BY <1>2, <1>4, <1>5, <1>6

LEMMA EndLineStep ==
    ASSUME IInv, EndLine
    PROVE  IInv'
  <1>1. /\ TypeOK /\ pc = "end" /\ pc' = "prompt" /\ i \in Nat
        /\ sh' = Restored(Closed(sh, {fd1[1], fd1[2], fd2[1], fd2[2]}))
        /\ buf' = [k \in DOMAIN buf \cap Remains(sh') |-> buf[k]]
        /\ fd1' = <<-1, -1>> /\ fd2' = <<-1, -1>>
        /\ UNCHANGED <<cmd, count, i, stdin_copy, stdout_copy, sig, fg, stages, typed>>
    <2>1. TypeOK
      BY DEF IInv, ShellInv
    <2>2. i \in Nat
      BY <2>1 DEF TypeOK
    <2> QED
      BY <2>1, <2>2 DEF EndLine, Runs
  <1>2. /\ DOMAIN sh' = DOMAIN sh \ {fd1[1], fd1[2], fd2[1], fd2[2]}
        /\ \A n \in DOMAIN sh' : sh'[n] = sh[n]
    <2>1. \A n \in 0 .. 2 : n \notin {fd1[1], fd1[2], fd2[1], fd2[2]}
      BY DEF IInv, NumbersInv
    <2> QED
      BY <1>1, <2>1, LessOpen
  <1>3. UNCHANGED <<pid, status, chld, st, tab, grouped, halted, todo, rem>> /\ Started' = Started
        /\ cur' = cur
    BY <1>1 DEF sig, stages, Started, cur
  <1>4. DOMAIN buf' \subseteq DOMAIN buf /\ \A k \in DOMAIN buf' : buf'[k] = buf[k]
    BY <1>1
  <1>5. TypeOK'
    <2>1. DOMAIN sh' \subseteq 0 .. FdLimit - 1 /\ -1 \in -1 .. FdLimit - 1
      <3>1. DOMAIN sh \subseteq 0 .. FdLimit - 1
        BY <1>1 DEF TypeOK
      <3>2. -1 \in -1 .. FdLimit - 1
        BY ShellAssumption
      <3> QED
        BY <1>2, <3>1, <3>2
    <2>2. {stdin_copy', stdout_copy', fd1'[1], fd1'[2], fd2'[1], fd2'[2]} \subseteq -1 .. FdLimit - 1
      BY <1>1, <2>1 DEF TypeOK
    <2> QED
      BY <1>1, <1>3, <1>4, <2>1, <2>2 DEF TypeOK
  <1>6. OrderInv'
    BY <1>1, <1>3, <1>4 DEF IInv, OrderInv, Working
  <1>7. StageInv' /\ \A p \in Stages : st'[p] = "running" => Connected(p)'
    <2>1. pc \notin Awaiting
      BY <1>1 DEF Awaiting
    <2>2. ASSUME NEW p \in Stages, NEW n \in DOMAIN tab[p], tab[p][n].end \in {"r", "w"}
          PROVE  tab[p][n].pipe \in DOMAIN buf'
      <3>1. tab[p][n].pipe \in DOMAIN buf
        BY <2>2 DEF IInv, StageInv
      <3>2. tab[p][n].pipe \in Remains(sh')
        BY DEF Remains
      <3> QED
        BY <1>1, <3>1, <3>2
    <2> QED
      BY <1>3, <2>1, <2>2, NoneRuns DEF IInv, StageInv
  <1>8. NumbersInv'
    <2>1. \A n \in 0 .. 2 : n \in DOMAIN sh'
                            /\ n \notin {stdin_copy', stdout_copy', fd1'[1], fd1'[2], fd2'[1], fd2'[2]}
      BY <1>1, <1>2 DEF IInv, NumbersInv
    <2> QED
      BY <1>1, <2>1 DEF NumbersInv, From, In, Forked
  <1>9. PipesInv'
    <2>1. \A n \in DOMAIN sh' : n \notin {To[1], To[2]}
      BY <1>1, <1>2, Pairs
    <2> QED
      BY <1>1, <1>2, <2>1 DEF IInv, PipesInv, Forked
  <1>10. LeakInv'
    <2>1. Cardinality(Ttys(sh')) <= 5 + 2 * Cardinality(Started)
      BY <1>2, TtysLess
    <2> QED
      BY <1>1, <1>3, <2>1 DEF LeakInv, Forked
  <1> QED
    BY <1>5, <1>6, <1>7, <1>8, <1>9, <1>10 DEF IInv, ShellInv

LEMMA AfterStageStep ==
    ASSUME IInv, AfterStage
    PROVE  IInv'
  <1> DEFINE N == (IF i # 0 THEN {From[1]} ELSE {}) \cup (IF ~Last THEN {To[2]} ELSE {})
  <1>1. /\ pc = "after" /\ fg' = "shell"
        /\ sh' = Closed(Restored(sh), N)
        /\ \/ Last /\ pc' = "end" /\ i' = i
           \/ ~Last /\ pc' = "start" /\ i' = i + 1
        /\ UNCHANGED <<cmd, count, stdin_copy, stdout_copy, fd1, fd2, sig, stages, buf, typed>>
    BY DEF AfterStage, Runs, From, To
  <1>2. TypeOK /\ i \in Nat /\ i \in 0 .. Len(cmd.words) - 1 /\ cmd \in CmdLines /\ pc \in Forked
    <2>1. TypeOK
      BY DEF IInv, ShellInv
    <2>2. i \in 0 .. Len(cmd.words) - 1 /\ cmd \in CmdLines
      BY <2>1 DEF TypeOK
    <2> QED
      BY <1>1, <2>1, <2>2 DEF Forked
  <1>3. \A n \in 0 .. 2 : n \notin N
    BY <1>2, ForkedTable
  <1>4. DOMAIN sh' = DOMAIN sh \ N /\ \A n \in DOMAIN sh' : sh'[n] = sh[n]
    <2>1. sh' = Closed(Restored(sh), N) /\ pc \in {"after", "end"}
      BY <1>1
    <2> HIDE DEF N
    <2> QED
      BY <1>3, <2>1, LessOpen
  <1>5. /\ \A n \in N : n \in {From[1], To[2]}
        /\ i # 0 => From[1] \in N
        /\ ~Last => To[2] \in N
        /\ \A n \in N : (i # 0 /\ n = From[1]) \/ (~Last /\ n = To[2])
    OBVIOUS
  <1> HIDE DEF N
  <1>6. UNCHANGED <<pid, status, chld, st, tab, grouped, halted, todo, rem, buf>> /\ Started' = Started
    BY <1>1 DEF sig, stages, Started
  <1>7. i' \in 0 .. Len(cmd.words) - 1 /\ i' \in Nat
    <2>1. CASE Last
      BY <1>1, <1>2, <2>1
    <2>2. CASE ~Last
      <3>1. Len(cmd.words) \in Nat
        BY <1>2, ShellAssumption
      <3> QED
        BY <1>1, <1>2, <2>2, <3>1 DEF Last
    <2> QED
      BY <2>1, <2>2
  <1>8. TypeOK'
    BY <1>1, <1>2, <1>4, <1>6, <1>7 DEF TypeOK
  <1>9. OrderInv'
    <2>1. cur' \in Stages
      <3>1. count \in 1 .. MaxLines
        BY <1>2, ForkedTable DEF cur, Stages
      <3> QED
        BY <1>1, <1>2, <1>7, <3>1 DEF cur, Stages
    <2>2. \A p \in Started : p[1] < count \/ (p[1] = count /\ (p[2] < i' \/ (p[2] = i' /\ pc' # "start")))
      <3>1. \A p \in Started : p[2] \in Int
        BY ShellAssumption DEF Started, Stages
      <3>2. \A p \in Started : p[1] < count \/ (p[1] = count /\ (p[2] < i \/ p[2] = i))
        BY DEF IInv, OrderInv
      <3> QED
        BY <1>1, <1>2, <3>1, <3>2
    <2>3. pid = cur /\ (pc' = "end" => cur' = cur)
      BY <1>1 DEF IInv, OrderInv, cur
    <2> QED
      BY <1>1, <1>6, <2>1, <2>2, <2>3 DEF IInv, OrderInv
  <1>10. StageInv' /\ \A p \in Stages : st'[p] = "running" => Connected(p)'
    <2>1. pc \notin Awaiting
      BY <1>1 DEF Awaiting
    <2> QED
      BY <1>6, <2>1, NoneRuns DEF IInv, StageInv
  <1>11. NumbersInv'
    <2>1. \A n \in 0 .. 2 : n \in DOMAIN sh'
                            /\ n \notin {stdin_copy', stdout_copy', fd1'[1], fd1'[2], fd2'[1], fd2'[2]}
      BY <1>1, <1>3, <1>4 DEF IInv, NumbersInv
    <2>2. pc' = "start" => i' # 0
      BY <1>1, <1>2
    <2>3. \A n \in {stdin_copy', stdout_copy'} \cap DOMAIN sh' : sh'[n] = Tty
      BY <1>1, <1>2, <1>4 DEF IInv, NumbersInv
    <2> QED
      BY <1>1, <2>1, <2>2, <2>3 DEF NumbersInv
  <1>12. CASE Last
    <2>1. pc' = "end" /\ i' = i /\ To' = To
      BY <1>1, <1>12 DEF To, Out
    <2>2. ASSUME NEW n \in DOMAIN sh' PROVE sh'[n] = Tty \/ n \in {To'[1], To'[2]}
      <3>1. n \in DOMAIN sh /\ sh'[n] = sh[n] /\ n \notin N
        BY <1>4
      <3>2. i = 0 => before \notin DOMAIN buf
        BY <1>2, ForkedTable
      <3>3. \/ sh[n] = Tty
            \/ before \in DOMAIN buf /\ n = From[1]
            \/ n \in {To[1], To[2]}
        BY <1>2, <3>1, ForkedTable
      <3> QED
        BY <1>5, <2>1, <3>1, <3>2, <3>3
    <2>3. PipesInv'
      BY <2>1, <2>2 DEF PipesInv, Forked
    <2>4. Cardinality(Ttys(sh')) <= 5 + 2 * Cardinality(Started)
      BY <1>4, TtysLess
    <2>5. LeakInv'
      BY <1>6, <2>1, <2>4 DEF LeakInv, Forked
    <2> QED
      BY <1>8, <1>9, <1>10, <1>11, <2>3, <2>5 DEF IInv, ShellInv
  <1>13. CASE ~Last
    <2>1. pc' = "start" /\ i' = i + 1 /\ count' = count /\ fd1' = fd1 /\ fd2' = fd2 /\ buf' = buf
      BY <1>1, <1>13
    <2>2. From' = To /\ To' = From
      BY <1>2, <2>1, Alternate DEF From, To
    <2>3. before' = cur
      BY <1>2, <2>1 DEF before, cur
    <2>4. ASSUME NEW n \in DOMAIN sh'
          PROVE  sh'[n] = Tty \/ (n = To[1] /\ cur \in DOMAIN buf /\ sh'[n] = Object("r", cur))
      <3>1. n \in DOMAIN sh /\ sh'[n] = sh[n] /\ n \notin N
        BY <1>4
      <3>2. i = 0 => before \notin DOMAIN buf
        BY <1>2, ForkedTable
      <3>3. \/ sh[n] = Tty
            \/ before \in DOMAIN buf /\ n = From[1]
            \/ n = To[1] /\ cur \in DOMAIN buf /\ sh[n] = Object("r", cur)
            \/ n = To[2]
        BY <1>2, <3>1, ForkedTable
      <3> QED
        BY <1>5, <1>13, <3>1, <3>2, <3>3
    <2>5. cur \in DOMAIN buf => To[1] \in DOMAIN sh' /\ sh'[To[1]] = Object("r", cur)
      <3> HAVE cur \in DOMAIN buf
      <3>1. /\ To[1] \in DOMAIN sh /\ sh[To[1]] = Object("r", cur)
            /\ sh[To[2]] = Object("w", cur)
            /\ i # 0 => sh[From[1]] = Object("r", before)
            /\ before # cur
        BY <1>2, ForkedTable
      <3>2. To[1] # To[2] /\ (i # 0 => To[1] # From[1])
        BY <3>1, Objects
      <3>3. To[1] \notin N
        BY <1>5, <3>2
      <3> QED
        BY <1>4, <3>1, <3>3
    <2>6. PipesInv'
      BY <2>1, <2>2, <2>3, <2>4, <2>5 DEF PipesInv, Holds, Forked
    <2>7. Cardinality(Ttys(sh')) <= 5 + 2 * Cardinality(Started)
      BY <1>4, TtysLess
    <2>8. cur \notin DOMAIN buf => Cardinality(Free(sh')) <= 3
      <3>1. Free(sh') \subseteq Free(sh) \cup {From[1], To[2]}
        BY <1>4, <1>5 DEF Free
      <3>2. Cardinality(Free(sh')) <= Cardinality(Free(sh)) + 2 /\ Cardinality(Free(sh')) \in Nat
        BY <3>1, FreeFinite, TwoMore
      <3>3. cur \notin DOMAIN buf => Cardinality(Free(sh)) <= 1
        BY <1>2 DEF IInv, LeakInv
      <3> QED
        BY <3>2, <3>3, FreeFinite
    <2>9. LeakInv'
      BY <1>6, <2>1, <2>3, <2>7, <2>8 DEF LeakInv, Forked
    <2> QED
      BY <1>8, <1>9, <1>10, <1>11, <2>6, <2>9 DEF IInv, ShellInv
  <1> QED
    BY <1>12, <1>13

LEMMA StartStageStep ==
    ASSUME IInv, StartStage
    PROVE  IInv'
  <1>1. /\ TypeOK /\ pc = "start" /\ pc' = "forked" /\ st' = [st EXCEPT ![cur] = "setup"]
        /\ UNCHANGED <<cmd, count, i, sig, fg, grouped, halted, todo, rem, typed>>
    BY DEF StartStage, Runs, IInv, ShellInv
  <1>2. /\ DOMAIN sh \subseteq DOMAIN sh' /\ DOMAIN sh' \subseteq DOMAIN sh \cup Free(sh)
        /\ \A n \in DOMAIN sh : sh'[n] = sh[n]
        /\ tab' = [tab EXCEPT ![cur] = sh']
        /\ {stdin_copy', stdout_copy'} \subseteq Free(sh) \cup {-1}
        /\ Piping \/ NoPiping
    BY StartEffect
  <1>3. /\ cur \in Stages /\ i \in Nat /\ before # cur /\ cur' = cur /\ before' = before
        /\ DOMAIN tab = Stages /\ DOMAIN buf \subseteq Stages
    BY <1>1 DEF IInv, OrderInv, StageInv, TypeOK, cur, before, Working
  <1>4. cur \notin Started /\ cur \notin DOMAIN buf
    <2>1. cur[1] = count /\ cur[2] = i
      BY DEF cur
    <2>2. count \in Nat
      BY <1>1, ShellAssumption DEF TypeOK
    <2>3. cur \notin Started
      BY <1>1, <1>3, <2>1, <2>2 DEF IInv, OrderInv
    <2> QED
      BY <2>3 DEF IInv, OrderInv
  <1>5. /\ st'[cur] = "setup" /\ \A p \in Stages \ {cur} : st'[p] = st[p]
        /\ tab'[cur] = sh' /\ DOMAIN tab' = Stages /\ \A p \in Stages \ {cur} : tab'[p] = tab[p]
        /\ Started' = Started \cup {cur}
    BY <1>1, <1>2, <1>3 DEF TypeOK, Started
  <1>6. UNCHANGED <<pid, status, chld>>
    BY <1>1 DEF sig
  \* The pipe, if there is one.
  <1>7. /\ From' = From
        /\ \/ /\ To'[1] \in Free(sh) \ {stdin_copy', stdout_copy'} /\ To'[1] \in DOMAIN sh'
              /\ To'[2] \in Free(sh) \ {stdin_copy', stdout_copy'} /\ To'[2] \in DOMAIN sh'
              /\ sh'[To'[1]] = Object("r", cur) /\ sh'[To'[2]] = Object("w", cur)
              /\ {fd1', fd2'} \subseteq {fd1, fd2, To'}
              /\ \A n \in DOMAIN sh' : \/ n \in DOMAIN sh \/ n \in {To'[1], To'[2]}
                                       \/ n \in {stdin_copy', stdout_copy'} /\ sh'[n] = Tty
              /\ DOMAIN buf' = DOMAIN buf \cup {cur} /\ buf'[cur] = 0
              /\ \A k \in DOMAIN buf : buf'[k] = buf[k]
              /\ Cardinality(Free(sh)) > 3
           \/ /\ \A n \in DOMAIN sh' : \/ n \in DOMAIN sh
                                       \/ n \in {stdin_copy', stdout_copy'} /\ sh'[n] = Tty
              /\ UNCHANGED <<buf, fd1, fd2>>
              /\ Cardinality(Free(sh')) <= 1
    <2>1. CASE Piping
      <3>1. PICK r, w \in Free(sh) \ {stdin_copy', stdout_copy'} :
              /\ To' = <<r, w>> /\ (i % 2 = 0 => fd1' = To' /\ fd2' = fd2)
                                /\ (i % 2 = 1 => fd1' = fd1 /\ fd2' = To')
              /\ r \in DOMAIN sh' /\ sh'[r] = Object("r", cur)
              /\ w \in DOMAIN sh' /\ sh'[w] = Object("w", cur)
              /\ \A n \in DOMAIN sh' : \/ n \in DOMAIN sh \/ n \in {r, w}
                                       \/ n \in {stdin_copy', stdout_copy'} /\ sh'[n] = Tty
              /\ buf' = With(buf, cur, 0)
              /\ Cardinality(Free(sh)) > 3
        BY <2>1 DEF Piping
      <3>2. i % 2 = 0 \/ i % 2 = 1
        BY <1>3
      <3>3. From' = From /\ {fd1', fd2'} \subseteq {fd1, fd2, To'}
        BY <1>1, <3>1, <3>2 DEF From, In
      <3>4. /\ DOMAIN buf' = DOMAIN buf \cup {cur} /\ buf'[cur] = 0
            /\ \A k \in DOMAIN buf : buf'[k] = buf[k]
        BY <1>4, <3>1 DEF With
      <3>5. To'[1] = r /\ To'[2] = w
        BY <3>1
      <3> QED
        BY <3>1, <3>3, <3>4, <3>5
    <2>2. CASE NoPiping
      BY <1>1, <2>2 DEF NoPiping, From, In
    <2> QED
      BY <1>2, <2>1, <2>2
  <1>8. {fd1', fd2'} \subseteq {fd1, fd2, To'} /\ (To' \in {fd1, fd2} \/ {To'[1], To'[2]} \subseteq Free(sh))
    BY <1>1, <1>3, <1>7 DEF To, Out
  <1>9. \A n \in Free(sh) : n \in 0 .. FdLimit - 1 /\ n \notin DOMAIN sh
    BY DEF Free
  <1>10. TypeOK'
    <2>1. DOMAIN sh' \subseteq 0 .. FdLimit - 1
      BY <1>1, <1>2, <1>9 DEF TypeOK
    <2>2. {stdin_copy', stdout_copy', fd1'[1], fd1'[2], fd2'[1], fd2'[2]} \subseteq -1 .. FdLimit - 1
      <3>1. \A n \in Free(sh) \cup {-1} : n \in -1 .. FdLimit - 1
        BY <1>9, ShellAssumption
      <3>2. {To'[1], To'[2]} \subseteq -1 .. FdLimit - 1
        BY <1>1, <1>8, <3>1 DEF TypeOK
      <3>3. {stdin_copy', stdout_copy'} \subseteq -1 .. FdLimit - 1
        BY <1>2, <3>1
      <3>4. {fd1[1], fd1[2], fd2[1], fd2[2]} \subseteq -1 .. FdLimit - 1
        BY <1>1 DEF TypeOK
      <3>5. {fd1'[1], fd1'[2]} \subseteq -1 .. FdLimit - 1
        BY <1>8, <3>2, <3>4
      <3>6. {fd2'[1], fd2'[2]} \subseteq -1 .. FdLimit - 1
        BY <1>8, <3>2, <3>4
      <3> QED
        BY <3>3, <3>5, <3>6
    <2>3. st' \in [Stages -> Alive \cup {"none", "zombie", "reaped"}]
      BY <1>1, <1>3 DEF TypeOK, Alive
    <2>4. \A p \in Stages : (DOMAIN tab'[p] # {}) <=> (st'[p] \in Alive)
      <3>1. DOMAIN sh' # {}
        BY <1>2 DEF IInv, NumbersInv
      <3>2. \A p \in Stages : (DOMAIN tab[p] # {}) <=> (st[p] \in Alive)
        BY <1>1 DEF TypeOK
      <3> QED
        BY <1>5, <3>1, <3>2 DEF Alive
    <2>5. \A k \in DOMAIN buf' : k \in Stages /\ buf'[k] \in 0 .. PipeSize
      <3>1. 0 \in 0 .. PipeSize
        BY ShellAssumption
      <3>2. ASSUME NEW k \in DOMAIN buf'
            PROVE  (k \in DOMAIN buf /\ buf'[k] = buf[k]) \/ (k = cur /\ buf'[k] = 0)
        BY <1>7
      <3>3. \A k \in DOMAIN buf : buf[k] \in 0 .. PipeSize
        BY <1>1 DEF TypeOK
      <3> QED
        BY <1>3, <3>1, <3>2, <3>3
    <2> QED
      BY <1>1, <1>6, <2>1, <2>2, <2>3, <2>4, <2>5 DEF TypeOK
  <1>11. OrderInv'
    <2>1. \A p \in Started' : p[1] < count \/ (p[1] = count /\ (p[2] < i \/ p[2] = i))
      <3>1. cur[1] = count /\ cur[2] = i
        BY DEF cur
      <3> QED
        BY <1>5, <3>1 DEF IInv, OrderInv
    <2>2. IsFiniteSet(Started')
      BY <1>5, FS_AddElement DEF IInv, OrderInv
    <2>3. DOMAIN buf' \subseteq Started'
      BY <1>5, <1>7 DEF IInv, OrderInv
    <2> QED
      BY <1>1, <1>3, <1>6, <2>1, <2>2, <2>3 DEF IInv, OrderInv
  \* What the shell has open was open before, or is a copy, or one end of the pipe.
  <1>12. /\ \A n \in DOMAIN sh : sh[n] = Tty \/ (before \in DOMAIN buf /\ n = From[1] /\ sh[n] = Object("r", before))
         /\ before \in DOMAIN buf => From[1] \in DOMAIN sh /\ sh[From[1]] = Object("r", before)
    BY <1>1 DEF IInv, PipesInv, Holds
  <1>13. ASSUME NEW n \in DOMAIN sh'
         PROVE  \/ sh'[n] = Tty
                \/ before \in DOMAIN buf /\ n = From[1] /\ sh'[n] = Object("r", before)
                \/ cur \in DOMAIN buf' /\ n = To'[1] /\ sh'[n] = Object("r", cur)
                \/ cur \in DOMAIN buf' /\ n = To'[2] /\ sh'[n] = Object("w", cur)
    <2>1. CASE n \in DOMAIN sh
      BY <1>2, <1>12, <2>1
    <2>2. CASE n \notin DOMAIN sh
      BY <1>7, <2>2
    <2> QED
      BY <2>1, <2>2
  <1>14. StageInv'
    <2>1. DOMAIN buf \subseteq DOMAIN buf'
      BY <1>7
    <2>2. ASSUME NEW p \in Stages
          PROVE  /\ st'[p] \in {"setup", "running"} => p = cur
                 /\ st'[p] \in {"stopped", "left"} => p \in halted
                 /\ st'[p] \in {"none", "reaped"} \/ p \in halted \/ p = cur
                 /\ st'[p] = "setup" => tab'[p] = sh'
                 /\ \A n \in DOMAIN tab'[p] : tab'[p][n].end \in {"r", "w"} => tab'[p][n].pipe \in DOMAIN buf'
      <3>1. CASE p = cur
        <4>1. \A n \in DOMAIN sh' : sh'[n].end \in {"r", "w"} => sh'[n].pipe \in DOMAIN buf'
          BY <1>13, <2>1, Objects
        <4> QED
          BY <1>5, <3>1, <4>1
      <3>2. CASE p # cur
        <4>1. pc \notin Awaiting
          BY <1>1 DEF Awaiting
        <4> QED
          BY <1>5, <2>1, <3>2, <4>1 DEF IInv, StageInv
      <3> QED
        BY <3>1, <3>2
    <2> QED
      BY <1>1, <1>3, <1>5, <2>2 DEF StageInv, Awaiting
  <1>15. \A p \in Stages : st'[p] = "running" => Connected(p)'
    <2>1. pc \notin Awaiting
      BY <1>1 DEF Awaiting
    <2> QED
      BY <1>5, <2>1, NoneRuns
  <1>16. NumbersInv'
    <2>1. ASSUME NEW n \in 0 .. 2
          PROVE  /\ n \in DOMAIN sh'
                 /\ n \notin {stdin_copy', stdout_copy', fd1'[1], fd1'[2], fd2'[1], fd2'[2]}
      <3>1. n \in DOMAIN sh /\ n \notin {fd1[1], fd1[2], fd2[1], fd2[2]} /\ n \notin Free(sh) /\ n # -1
        BY <1>9 DEF IInv, NumbersInv
      <3>2. n \notin {To'[1], To'[2]}
        BY <1>8, <3>1
      <3> QED
        BY <1>2, <1>8, <3>1, <3>2
    <2>2. \A n \in {stdin_copy', stdout_copy'} \cap DOMAIN sh' : sh'[n] = Tty
      <3> SUFFICES ASSUME NEW n \in {stdin_copy', stdout_copy'}, n \in DOMAIN sh' PROVE sh'[n] = Tty
        OBVIOUS
      <3>1. n \notin DOMAIN sh
        BY <1>1, <1>2, <1>9 DEF TypeOK
      <3> QED
        BY <1>7, <3>1
    <2> QED
      BY <1>1, <2>1, <2>2 DEF NumbersInv
  <1>17. cur \in DOMAIN buf' =>
            /\ i # 0 => before \in DOMAIN buf
            /\ To'[1] \in DOMAIN sh' /\ sh'[To'[1]] = Object("r", cur)
            /\ To'[2] \in DOMAIN sh' /\ sh'[To'[2]] = Object("w", cur)
    <2>1. Cardinality(Free(sh)) > 3 /\ i # 0 => before \in DOMAIN buf
      BY <1>1, FreeFinite DEF IInv, LeakInv
    <2> QED
      BY <1>4, <1>7, <2>1
  <1>18. PipesInv'
    <2>1. \A k : k \in DOMAIN buf' <=> k \in DOMAIN buf \/ (k = cur /\ cur \in DOMAIN buf')
      BY <1>7
    <2>2. before \in DOMAIN buf' <=> before \in DOMAIN buf
      BY <1>3, <2>1
    <2>3. before \in DOMAIN buf => From[1] \in DOMAIN sh' /\ sh'[From[1]] = Object("r", before)
      BY <1>2, <1>12
    <2>4. PipesInv' <=>
            /\ before \in DOMAIN buf' => From[1] \in DOMAIN sh' /\ sh'[From[1]] = Object("r", before)
            /\ \A n \in DOMAIN sh' :
                \/ sh'[n] = Tty
                \/ n = From[1] /\ before \in DOMAIN buf' /\ sh'[n] = Object("r", before)
                \/ n = To'[1] /\ cur \in DOMAIN buf' /\ sh'[n] = Object("r", cur)
                \/ n = To'[2] /\ cur \in DOMAIN buf' /\ sh'[n] = Object("w", cur)
            /\ cur \in DOMAIN buf' =>
                /\ i # 0 => before \in DOMAIN buf'
                /\ To'[1] \in DOMAIN sh' /\ sh'[To'[1]] = Object("r", cur)
                /\ To'[2] \in DOMAIN sh' /\ sh'[To'[2]] = Object("w", cur)
      BY <1>1, <1>3, <1>7 DEF PipesInv, Holds, Forked
    <2> QED
      BY <1>13, <1>17, <2>2, <2>3, <2>4
  <1>19. LeakInv'
    <2>1. Ttys(sh') \subseteq Ttys(sh) \cup {stdin_copy', stdout_copy'}
      <3> SUFFICES ASSUME NEW n \in DOMAIN sh', sh'[n] = Tty, n \notin {stdin_copy', stdout_copy'}
                   PROVE  n \in DOMAIN sh /\ sh[n] = Tty
        BY DEF Ttys
      <3>1. n \in DOMAIN sh
        BY <1>7, Objects
      <3> QED
        BY <1>2, <3>1
    <2>2. /\ IsFiniteSet(Ttys(sh)) /\ Cardinality(Ttys(sh)) \in Nat
          /\ Cardinality(Ttys(sh')) \in Nat
      BY <1>1, <1>10, TtysFinite DEF TypeOK
    <2>3. Cardinality(Ttys(sh')) <= Cardinality(Ttys(sh)) + 2
      BY <2>1, <2>2, TwoMore
    <2>4. Cardinality(Ttys(sh)) <= 5 + 2 * Cardinality(Started) /\ Cardinality(Started) \in Nat
      BY FS_CardinalityType DEF IInv, LeakInv, OrderInv
    <2>5. Cardinality(Started') = Cardinality(Started) + 1
      BY <1>4, <1>5, AddOne DEF IInv, OrderInv
    <2>6. Cardinality(Ttys(sh')) <= 5 + 2 * Cardinality(Started')
      BY <2>2, <2>3, <2>4, <2>5
    <2>7. cur \notin DOMAIN buf' => Cardinality(Free(sh')) <= 1
      BY <1>7
    <2> QED
      BY <1>1, <1>3, <2>6, <2>7 DEF LeakInv
  <1> QED
    BY <1>10, <1>11, <1>14, <1>15, <1>16, <1>18, <1>19 DEF IInv, ShellInv

-----------------------------------------------------------------------------
(* The theorems.                                                           *)

LEMMA InitInv == Init => IInv
  <1> SUFFICES ASSUME Init PROVE IInv
    OBVIOUS
  <1>1. TypeOK
    <2>1. cmd \in CmdLines
      BY ShellAssumption DEF Init
    <2>2. 0 \in 0 .. Len(cmd.words) - 1
      <3>1. cmd.words \in Seq(STRING) /\ cmd.words # <<>>
        BY <2>1, ShellAssumption
      <3>2. Len(cmd.words) \in Nat \ {0}
        BY <3>1
      <3> QED
        BY <3>2
    <2>3. DOMAIN sh \subseteq 0 .. FdLimit - 1
      BY ShellAssumption DEF Init
    <2>4. {stdin_copy, stdout_copy, fd1[1], fd1[2], fd2[1], fd2[2]} \subseteq -1 .. FdLimit - 1
      BY ShellAssumption DEF Init
    <2>5. \A p \in Stages : (DOMAIN tab[p] # {}) <=> (st[p] \in Alive)
      BY DEF Init, Alive
    <2>6. /\ st \in [Stages -> Alive \cup {"none", "zombie", "reaped"}]
          /\ todo \in [Stages -> Nat] /\ rem \in [Stages -> Nat \cup {-1}]
          /\ DOMAIN buf = {} /\ typed \in 0 .. MaxTyped /\ count \in 0 .. MaxLines
      BY ShellAssumption DEF Init
    <2>7. /\ pc = "prompt" /\ i = 0 /\ pid = NoPid /\ status = "ended" /\ chld = FALSE /\ fg = "shell"
          /\ grouped = {} /\ halted = {}
      BY DEF Init
    <2> QED
      BY <2>1, <2>2, <2>3, <2>4, <2>5, <2>6, <2>7 DEF TypeOK
  <1>2. Started = {} /\ DOMAIN buf = {} /\ pc = "prompt"
    BY DEF Init, Started
  <1>3. OrderInv
    BY <1>2, FS_EmptySet DEF Init, OrderInv, Working
  <1>4. StageInv /\ \A p \in Stages : st[p] = "running" => Connected(p)
    BY DEF Init, StageInv
  <1>5. NumbersInv
    BY DEF Init, NumbersInv, From, In, Forked
  <1>6. PipesInv
    BY DEF Init, PipesInv, Forked
  <1>7. LeakInv
    <2>1. Ttys(sh) = 0 .. 4
      BY DEF Init, Ttys
    <2>2. Cardinality(0 .. 4) = 5
      <3>1. PICK a \in Int, b \in Int : a = 0 /\ b = 4
        OBVIOUS
      <3>2. Cardinality(a .. b) = IF a > b THEN 0 ELSE b - a + 1
        BY FS_Interval
      <3> QED
        BY <3>1, <3>2
    <2>3. Cardinality(Started) = 0
      BY <1>2, FS_EmptySet
    <2> QED
      BY <1>2, <2>1, <2>2, <2>3 DEF LeakInv, Forked
  <1> QED
    BY <1>1, <1>3, <1>4, <1>5, <1>6, <1>7 DEF IInv, ShellInv

LEMMA StutterInv == ASSUME IInv, UNCHANGED vars PROVE IInv'
  <1>1. UNCHANGED <<pc, cmd, count, i, sh, stdin_copy, stdout_copy, fd1, fd2, pid, status, chld, fg,
                    st, tab, grouped, halted, todo, rem, buf, typed>>
    BY DEF vars, desc, sig, stages
  <1>2. TypeOK' /\ \A p \in Stages : st'[p] = "running" => Connected(p)'
    BY <1>1 DEF IInv, ShellInv, TypeOK, Connected, Last
  <1>3. OrderInv' /\ StageInv'
    BY <1>1 DEF IInv, OrderInv, StageInv, Started, cur
  <1>4. NumbersInv' /\ PipesInv' /\ LeakInv'
    BY <1>1 DEF IInv, NumbersInv, PipesInv, LeakInv, Started, Holds, From, To, In, Out, cur, before,
                Free, Ttys
  <1> QED
    BY <1>2, <1>3, <1>4 DEF IInv, ShellInv

LEMMA NextInv == ASSUME IInv, [Next]_vars PROVE IInv'
  <1>1. CASE Mini
    BY <1>1, StartStageStep, SetGroupStep, ToFrontStep, WaitStep, AfterStageStep, EndLineStep,
       HandlerStep DEF Mini
  <1>2. CASE ReadLine \/ EndOfInput
    BY <1>2, ReadLineStep, EndOfInputStep
  <1>3. ASSUME NEW p \in Stages, Stage(p) PROVE IInv'
    BY <1>3, SetupStep, WriteStep, ReadStep, EndOrStop DEF Stage
  <1>4. ASSUME NEW p \in Stages, User(p) PROVE IInv'
    BY <1>4, TypeStep, EndOrStop DEF User
  <1>5. CASE UNCHANGED vars
    BY <1>5, StutterInv
  <1> QED
    BY <1>1, <1>2, <1>3, <1>4, <1>5 DEF Next

LEMMA Invariance == Spec => []IInv
  BY InitInv, NextInv, PTL DEF Spec

\* Every program that runs is connected to its neighbours in the line, or, when pipe has
\* failed or at the two ends, to the terminal or a file; whatever is typed, stopped or
\* interrupted, and however few descriptors are left.
THEOREM PipelinesConnected == Spec => []ShellInv
  <1>1. IInv => ShellInv
    BY DEF IInv
  <1> QED
    BY <1>1, Invariance, PTL

\* Back at the prompt the shell has its terminal and no pipe, has lost at most two
\* descriptors a stage, and has reaped every stage but those that were stopped.
THEOREM PromptIsClean == Spec => []PromptClean
  <1>1. ASSUME IInv PROVE PromptClean
    <2> SUFFICES ASSUME pc = "prompt"
                 PROVE  /\ 0 .. 2 \subseteq DOMAIN sh
                        /\ \A n \in DOMAIN sh : sh[n] = Tty
                        /\ Cardinality(DOMAIN sh) <= 5 + 2 * Cardinality(Started)
                        /\ \A p \in Started \ halted : st[p] = "reaped"
      BY DEF PromptClean, Started
    <2>1. \A n \in DOMAIN sh : sh[n] = Tty
      BY <1>1 DEF IInv, PipesInv
    <2>2. Ttys(sh) = DOMAIN sh
      BY <2>1 DEF Ttys
    <2>3. Cardinality(DOMAIN sh) <= 5 + 2 * Cardinality(Started)
      BY <1>1, <2>2 DEF IInv, LeakInv
    <2>4. 0 .. 2 \subseteq DOMAIN sh
      BY <1>1 DEF IInv, NumbersInv
    <2>5. \A p \in Started \ halted : st[p] = "reaped"
      BY <1>1, NoneRuns DEF Awaiting, Started
    <2> QED
      BY <2>1, <2>3, <2>4, <2>5
  <1> QED
    BY <1>1, Invariance, PTL
=============================================================================
