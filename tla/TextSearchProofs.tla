-------------------------- MODULE TextSearchProofs --------------------------
(***************************************************************************)
(* The text search, for every file, every line of input and every size of  *)
(* the buffer: the index is right, the answers are exact, and a line of    *)
(* input crashes the program only where CrashOnly says.                    *)
(*                                                                         *)
(* The searches go through a line by recursive functions.  Such a function *)
(* is defined by a choice, so a lemma first shows that one exists          *)
(* (Recursion), and what it returns is proved downwards from the end of    *)
(* the line (Downward), both from the principle of the least number.       *)
(***************************************************************************)
EXTENDS TextSearch, TLAPS, WellFoundedInduction, SequenceTheorems

-----------------------------------------------------------------------------
(* The index.                                                              *)

Nodes == [offset : Nat, size : Nat, lineNum : Nat]
Modes == {"NONE", "SWORD", "MWORD", "CWORD", "REGEXP", "EXIT"}

\* What the types say of the numbers and the index.
Ranges ==
    /\ pc \in {"read", "index", "input", "exited", "crashed"}
    /\ file \in Seq(STRING)
    /\ pos \in Nat /\ base \in Nat /\ nbytes \in Nat /\ start \in Nat /\ offset \in Nat
    /\ pos <= Len(file) /\ base + nbytes <= Len(file) /\ offset <= Len(file)
    /\ start <= nbytes /\ nbytes <= BUFSIZE
    /\ index \in Seq(Nodes)

LEMMA TypeRanges == TypeOK <=> Ranges /\ file \in Files /\ query.mode \in Modes
<1>1. file \in Files => file \in Seq(STRING) /\ Len(file) \in Nat BY FileAssumption
<1>2. BUFSIZE \in Nat BY FileAssumption
<1>3. {pos, base + nbytes, offset} \subseteq 0 .. Len(file) <=>
        /\ pos \in 0 .. Len(file) /\ base + nbytes \in 0 .. Len(file) /\ offset \in 0 .. Len(file)
  OBVIOUS
<1>4. TypeOK => Ranges /\ file \in Files /\ query.mode \in Modes
  BY <1>1, <1>2, <1>3 DEF TypeOK, Ranges, Nodes, Modes
<1>5. ASSUME Ranges, file \in Files, query.mode \in Modes PROVE TypeOK
  <2>1. /\ pos \in 0 .. Len(file) /\ base + nbytes \in 0 .. Len(file) /\ offset \in 0 .. Len(file)
        /\ base \in 0 .. Len(file) /\ nbytes \in 0 .. BUFSIZE /\ start \in 0 .. nbytes
    BY <1>1, <1>2, <1>5 DEF Ranges
  <2>2. QED BY <1>3, <1>5, <2>1 DEF TypeOK, Ranges, Nodes, Modes
<1>6. QED BY <1>4, <1>5

LEMMA TypeRangesNext ==
    TypeOK' <=> Ranges' /\ (file \in Files)' /\ (query.mode \in Modes)'
BY TypeRanges, PTL

\* The invariant holds of the empty index.
LEMMA InitIndexInv == Init => IndexInv
<1> SUFFICES ASSUME Init PROVE IndexInv OBVIOUS
<1> USE FileAssumption DEF Init
<1>1. TypeOK
  <2>1. BUFSIZE \in Nat /\ Len(file) \in Nat /\ index \in Seq(Nodes) OBVIOUS
  <2>2. Ranges BY <2>1 DEF Ranges
  <2>3. QED BY <2>2, TypeRanges DEF NoQuery, Modes
<1>2. Position BY <1>1 DEF Position, Resumes, IndexedUpTo
<1>3. \A k \in 1 .. Len(index) : IsLine(k) OBVIOUS
<1>4. QED BY <1>1, <1>2, <1>3 DEF IndexInv

\* read_file, the beginning of its loop: the chunk is taken from where the
\* descriptor stands, and the end of the file ends the loop.
LEMMA ReadChunkKeeps == ASSUME IndexInv, ReadChunk PROVE IndexInv'
<1>0. Ranges /\ file \in Files /\ query.mode \in Modes BY TypeRanges DEF IndexInv
<1> USE FileAssumption DEF IndexInv, ReadChunk
<1>1. TypeOK'
  <2>1. Ranges' BY <1>0 DEF Ranges
  <2>2. QED BY <1>0, <2>1, TypeRangesNext
<1>2. Position' /\ (pc' = "input" => NoLineAfter(IndexedUpTo)')
  BY <1>0 DEF Ranges, Position, Resumes, IndexedUpTo, NoLineAfter, EndOf
<1>3. \A k \in 1 .. Len(index') : IsLine(k)'
  BY DEF IsLine, EndOf
<1>4. QED BY <1>1, <1>2, <1>3

\* The next line of the chunk gets the entry of a line.
LEMMA IndexLineKeeps == ASSUME IndexInv, IndexLine PROVE IndexInv'
<1>0. Ranges /\ file \in Files /\ query.mode \in Modes BY TypeRanges DEF IndexInv
<1> USE FileAssumption DEF IndexInv, Char
<1>1. PICK end \in start .. nbytes - 1 :
        /\ Char(end) = Newline
        /\ \A e \in start .. end - 1 : Char(e) # Newline
        /\ index' = Append(index, [offset |-> offset, size |-> end - start + 1,
                                   lineNum |-> Len(index) + 1])
        /\ offset' = offset + (end - start + 1)
        /\ start' = end + 1
  BY DEF IndexLine
<1>2. /\ pc = "index" /\ pc' = pc /\ file' = file /\ pos' = pos
      /\ base' = base /\ nbytes' = nbytes
  BY DEF IndexLine
<1> DEFINE node == [offset |-> offset, size |-> end - start + 1, lineNum |-> Len(index) + 1]
<1>3. node \in Nodes /\ EndOf(node) = base + end + 1
  BY <1>0, <1>1, <1>2 DEF Ranges, Nodes, Position, EndOf
<1>4. /\ Len(index') = Len(index) + 1
      /\ index'[Len(index) + 1] = node
      /\ \A k \in 1 .. Len(index) : index'[k] = index[k]
      /\ index' \in Seq(Nodes) /\ index' # <<>>
  BY <1>0, <1>1, <1>3 DEF Ranges
<1>5. TypeOK'
  <2>1. Ranges' BY <1>0, <1>1, <1>2, <1>3, <1>4 DEF Ranges, Position
  <2>2. query' = query BY DEF IndexLine
  <2>3. QED BY <1>0, <1>2, <2>1, <2>2, TypeRangesNext
<1>6. Position'
  <2>1. offset' = EndOf(node)
    BY <1>0, <1>1, <1>2, <1>3 DEF Ranges, Position
  <2>2. IndexedUpTo' = EndOf(node)
    BY <1>0, <1>4 DEF IndexedUpTo, Ranges
  <2>3. QED BY <1>0, <1>1, <1>2, <2>1, <2>2 DEF Ranges, Position
<1>7. ASSUME NEW k \in 1 .. Len(index') PROVE IsLine(k)'
  <2>1. CASE k \in 1 .. Len(index)
    <3>1. IsLine(k) BY <2>1
    <3>2. index'[k] = index[k] /\ (k # 1 => index'[k - 1] = index[k - 1])
      <4>1. Len(index) \in Nat BY <1>0 DEF Ranges
      <4>2. k # 1 => k - 1 \in 1 .. Len(index) BY <2>1, <4>1
      <4>3. QED BY <1>4, <2>1, <4>2
    <3>3. QED BY <3>1, <3>2, <1>2 DEF IsLine, EndOf
  <2>2. CASE k = Len(index) + 1
    <3>1. index'[k] = node BY <1>4, <2>2
    <3>2. node.offset = IF k = 1 THEN 0 ELSE EndOf(index'[k - 1])
      <4>1. Len(index) \in Nat BY <1>0 DEF Ranges
      <4>2. CASE index = <<>>
        BY <2>2, <4>2 DEF Position, IndexedUpTo
      <4>3. CASE index # <<>>
        <5>1. Len(index) # 0 BY <1>0, <4>3 DEF Ranges
        <5>2. k # 1 /\ k - 1 = Len(index) /\ k - 1 \in 1 .. Len(index)
          BY <5>1, <4>1, <2>2
        <5>3. index'[k - 1] = index[Len(index)] BY <5>2, <1>4
        <5>4. QED BY <5>2, <5>3, <4>3 DEF Position, IndexedUpTo
      <4>4. QED BY <4>2, <4>3
    <3>3. EndOf(node) <= Len(file) /\ node.offset < EndOf(node)
      BY <1>0, <1>1, <1>2, <1>3 DEF Ranges, Position
    <3>4. file[EndOf(node)] = Newline
      BY <1>1, <1>3 
    <3>5. ASSUME NEW j \in node.offset + 1 .. EndOf(node) - 1 PROVE file[j] # Newline
      <4>1. j - 1 - base \in start .. end - 1 /\ base + (j - 1 - base) + 1 = j
        BY <1>0, <1>1, <1>2, <1>3 DEF Ranges, Position
      <4>2. QED BY <4>1, <1>1
    <3>6. QED
      BY <1>2, <2>2, <3>1, <3>2, <3>3, <3>4, <3>5 DEF IsLine
  <2>3. QED BY <1>0, <1>4, <2>1, <2>2 DEF Ranges
<1>8. QED BY <1>2, <1>5, <1>6, <1>7

\* A line that the chunk cuts off is read again from its start, or the file ends
\* with it.
LEMMA PartialLineKeeps == ASSUME IndexInv, PartialLine PROVE IndexInv'
<1>0. Ranges /\ file \in Files /\ query.mode \in Modes BY TypeRanges DEF IndexInv
<1> USE FileAssumption DEF IndexInv, PartialLine
<1>1. TypeOK'
  <2>1. Ranges' BY <1>0 DEF Ranges, Position, Back
  <2>2. QED BY <1>0, <2>1, TypeRangesNext
<1>2. Resumes'
  <2>1. CASE pos < Len(file)
    BY <1>0, <2>1 DEF Ranges, Position, Resumes, Back
  <2>2. CASE ~(pos < Len(file))
    <3>1. pos' = Len(file)
      BY <1>0, <2>2 DEF Ranges, Position, Back
    <3>2. ASSUME NEW j \in offset + 1 .. Len(file) PROVE file[j] # Newline
      <4>1. j - 1 - base \in start .. nbytes - 1 /\ base + (j - 1 - base) + 1 = j
        BY <1>0, <2>2 DEF Ranges, Position
      <4>2. QED BY <4>1 DEF Char
    <3>3. QED BY <3>1, <3>2 DEF Resumes, NoLineAfter
  <2>3. QED BY <2>1, <2>2
<1>3. pos' <= Len(file)
  BY <1>0 DEF Ranges, Position, Back
<1>4. Position'
  BY <1>2, <1>3 DEF Position, IndexedUpTo, EndOf
<1>5. \A k \in 1 .. Len(index') : IsLine(k)'
  BY DEF IsLine, EndOf
<1>6. QED BY <1>1, <1>4, <1>5

\* The rest of a line of input is one of the kinds of queries.
LEMMA ModesOfInput == ASSUME NEW input PROVE resolve_input(input).mode \in Modes
BY DEF resolve_input, Modes

\* Steps that leave the reading alone.
LEMMA OthersKeep ==
    ASSUME IndexInv, ChunkDone \/ (\E input \in Inputs : Ask(input)) \/ UNCHANGED vars
    PROVE  IndexInv'
<1>0. Ranges /\ file \in Files /\ query.mode \in Modes BY TypeRanges DEF IndexInv
<1> USE FileAssumption DEF IndexInv
<1>1. /\ UNCHANGED <<file, pos, base, nbytes, start, offset, index>>
      /\ pc' \in {"read", "index", "input", "exited", "crashed"}
  BY <1>0 DEF ChunkDone, Ask, vars, reading, Ranges
<1>2. \/ pc' = pc
      \/ pc = "index" /\ start = nbytes /\ pc' = "read"
      \/ pc = "input" /\ pc' \in {"exited", "crashed"}
  BY DEF ChunkDone, Ask, vars
<1>3. query'.mode \in Modes
  BY <1>0, ModesOfInput DEF ChunkDone, Ask, vars
<1>4. TypeOK'
  <2>1. Ranges' BY <1>0, <1>1 DEF Ranges
  <2>2. QED BY <1>0, <1>1, <1>3, <2>1, TypeRangesNext
<1>5. Position' /\ (pc' \in {"input", "exited", "crashed"} => NoLineAfter(IndexedUpTo)')
  BY <1>1, <1>2 DEF Position, Resumes, IndexedUpTo, NoLineAfter, EndOf
<1>6. \A k \in 1 .. Len(index') : IsLine(k)'
  BY <1>1 DEF IsLine, EndOf
<1>7. QED BY <1>4, <1>5, <1>6

\* The index is right in every reachable state: for every file and every size of
\* the buffer, its entries are the lines of the file in order, and in the end none
\* that a newline ends is left out.
THEOREM IndexCorrect == Spec => []IndexInv
<1>1. IndexInv /\ [Next]_vars => IndexInv'
  BY ReadChunkKeeps, IndexLineKeeps, PartialLineKeeps, OthersKeep DEF Next, read_file
<1>2. QED BY InitIndexInv, <1>1, PTL DEF Spec

-----------------------------------------------------------------------------
(* Induction over the positions of a line.                                 *)

\* The least-number principle, for a set in place of a predicate.
LEMMA Least ==
    ASSUME NEW S, S \subseteq Nat, S # {}
    PROVE  \E m \in S : \A n \in S : m <= n
  <1> DEFINE R == OpToRel(<, Nat)
  <1>1. IsWellFoundedOn(R, Nat)
    BY NatLessThanWellFounded
  <1>2. \A x, y \in Nat : x < y => <<x, y>> \in R
    BY DEF OpToRel
  <1> HIDE DEF R
  <1>3. PICK m \in S : \A y \in S : ~ (<<y, m>> \in R)
    BY <1>1, WFMin
  <1>4. ASSUME NEW n \in S PROVE m <= n
    <2>1. m \in Nat /\ n \in Nat /\ ~ (n < m)
      BY <1>2, <1>3
    <2> QED
      BY <2>1
  <1> QED
    BY <1>4

\* What holds of a position if it holds of all after it, holds of all of them.
LEMMA Downward ==
    ASSUME NEW N \in Nat, NEW S,
           \A q \in 0 .. N : (\A r \in q + 1 .. N : r \in S) => q \in S
    PROVE  0 .. N \subseteq S
  <1> DEFINE Bad == {n \in 0 .. N : N - n \notin S}
  <1>1. SUFFICES Bad = {}
    <2>1. ASSUME NEW q \in 0 .. N PROVE q \in S
      <3>1. N - q \in 0 .. N /\ N - (N - q) = q
        OBVIOUS
      <3> QED
        BY <1>1, <3>1
    <2> QED
      BY <2>1
  <1>2. SUFFICES ASSUME Bad # {} PROVE FALSE
    OBVIOUS
  <1>3. PICK m \in Bad : \A n \in Bad : m <= n
    <2>1. Bad \subseteq Nat
      OBVIOUS
    <2> HIDE DEF Bad
    <2> QED
      BY <1>2, <2>1, Least
  <1>4. N - m \in 0 .. N /\ N - m \notin S
    OBVIOUS
  <1>5. ASSUME NEW r \in (N - m) + 1 .. N PROVE r \in S
    <2>1. N - r \in 0 .. N /\ N - r < m /\ N - (N - r) = r
      OBVIOUS
    <2> QED
      BY <1>3, <2>1
  <1> QED
    BY <1>4, <1>5

\* f has the value last where the recursion ends; elsewhere what c makes of its value
\* at the next place.
Solves(f, N, B, last, nxt, c) ==
    f = [q \in 0 .. N |-> IF q \in B THEN last[q] ELSE c[q][f[nxt[q]]]]

\* A function that goes on to a later position exists.
LEMMA Recursion ==
    ASSUME NEW N \in Nat, NEW T, NEW last \in [0 .. N -> T], NEW B, NEW nxt,
           NEW c \in [0 .. N -> [T -> T]],
           \A q \in 0 .. N : q \notin B => nxt[q] \in q + 1 .. N
    PROVE  \E f \in [0 .. N -> T] : Solves(f, N, B, last, nxt, c)
  <1> DEFINE From(f, k) == \A q \in k .. N : f[q] = IF q \in B THEN last[q] ELSE c[q][f[nxt[q]]]
             S == {k \in 0 .. N : \E f \in [k .. N -> T] : From(f, k)}
  <1>1. ASSUME NEW k \in 0 .. N, \A r \in k + 1 .. N : r \in S
        PROVE  k \in S
    <2>1. PICK g \in [k + 1 .. N -> T] : From(g, k + 1)
      <3>1. CASE k = N
        <4> DEFINE e == [q \in k + 1 .. N |-> last[0]]
        <4>1. e \in [k + 1 .. N -> T] /\ From(e, k + 1)
          BY <3>1
        <4> QED
          BY <4>1
      <3>2. CASE k # N
        <4>1. k + 1 \in S
          <5>1. k + 1 \in k + 1 .. N
            BY <3>2
          <5> HIDE DEF S
          <5> QED
            BY <1>1, <5>1
        <4> QED
          BY <4>1
      <3> QED
        BY <3>1, <3>2
    <2> DEFINE v == IF k \in B THEN last[k] ELSE c[k][g[nxt[k]]]
               h == [q \in k .. N |-> IF q = k THEN v ELSE g[q]]
    <2>2. v \in T
      <3>1. CASE k \in B
        BY <3>1
      <3>2. CASE k \notin B
        <4>1. nxt[k] \in k + 1 .. N
          BY <3>2
        <4>2. g[nxt[k]] \in T /\ c[k] \in [T -> T]
          BY <4>1
        <4> QED
          BY <3>2, <4>2
      <3> QED
        BY <3>1, <3>2
    <2>3. h \in [k .. N -> T]
      <3>1. \A q \in k .. N : q # k => q \in k + 1 .. N
        OBVIOUS
      <3> QED
        BY <2>2, <3>1
    <2>4. ASSUME NEW q \in k .. N
          PROVE  h[q] = IF q \in B THEN last[q] ELSE c[q][h[nxt[q]]]
      <3>1. q \notin B => nxt[q] \in k + 1 .. N /\ h[nxt[q]] = g[nxt[q]]
        OBVIOUS
      <3>2. CASE q = k
        BY <3>1, <3>2
      <3>3. CASE q # k
        <4>1. q \in k + 1 .. N /\ h[q] = g[q]
          BY <3>3
        <4>2. g[q] = IF q \in B THEN last[q] ELSE c[q][g[nxt[q]]]
          BY <2>1, <4>1
        <4> QED
          BY <3>1, <4>1, <4>2
      <3> QED
        BY <3>2, <3>3
    <2> QED
      BY <2>3, <2>4
  <1>2. 0 \in S
    <2> HIDE DEF S
    <2>1. 0 .. N \subseteq S
      BY <1>1, Downward
    <2> QED
      BY <2>1
  <1>3. PICK f \in [0 .. N -> T] : From(f, 0)
    BY <1>2
  <1>4. f = [q \in 0 .. N |-> IF q \in B THEN last[q] ELSE c[q][f[nxt[q]]]]
    BY <1>3
  <1> QED
    BY <1>4 DEF Solves

-----------------------------------------------------------------------------
(* mystring.c.                                                             *)

\* Characters of the file and of its lines, whose capitals have become small letters.
Chars   == STRING \cup {Lowered[c] : c \in DOMAIN Lowered}
Strings == Seq(Chars)

\* The least number of a set.
LEMMA FirstIs ==
    ASSUME NEW S, S \subseteq Nat, S # {}
    PROVE  First(S) \in S /\ \A m \in S : First(S) <= m
  BY Least DEF First

\* A part of a string.
LEMMA Part ==
    ASSUME NEW T, NEW s \in Seq(T), NEW p \in 0 .. Len(s), NEW e \in p .. Len(s)
    PROVE  /\ SubSeq(s, p + 1, e) \in Seq(T) /\ Len(SubSeq(s, p + 1, e)) = e - p
           /\ \A k \in 1 .. e - p : SubSeq(s, p + 1, e)[k] = s[p + k]
  <1>1. Len(s) \in Nat /\ p + 1 \in Int /\ e \in Int
    BY LenProperties
  <1>2. \A k \in p + 1 .. e : s[k] \in T
    <2>1. \A k \in p + 1 .. e : k \in 1 .. Len(s)
      BY <1>1
    <2> QED
      BY <2>1, ElementOfSeq
  <1>3. /\ SubSeq(s, p + 1, e) \in Seq(T)
        /\ Len(SubSeq(s, p + 1, e)) = IF p + 1 <= e THEN e - (p + 1) + 1 ELSE 0
        /\ \A k \in 1 .. e - (p + 1) + 1 : SubSeq(s, p + 1, e)[k] = s[p + 1 + k - 1]
    BY <1>1, <1>2, SubSeqProperties
  <1>4. e - (p + 1) + 1 = e - p /\ (p + 1 <= e \/ e - p = 0)
    BY <1>1
  <1>5. \A k \in 1 .. e - p : p + 1 + k - 1 = p + k
    BY <1>1
  <1> QED
    BY <1>3, <1>4, <1>5

\* A word ends before the next blank or at the end of the string.
LEMMA WordEndIs ==
    ASSUME NEW s \in Strings, NEW p \in 0 .. Len(s)
    PROVE  /\ WordEnd(s, p) \in p .. Len(s)
           /\ WordEnd(s, p) = Len(s) \/ s[WordEnd(s, p) + 1] \in Blanks
           /\ \A k \in p .. WordEnd(s, p) - 1 : s[k + 1] \notin Blanks
  <1> DEFINE E == {e \in p .. Len(s) : e = Len(s) \/ s[e + 1] \in Blanks}
  <1>1. Len(s) \in Nat /\ Len(s) \in E /\ E \subseteq Nat
    BY LenProperties DEF Strings
  <1>2. WordEnd(s, p) \in E /\ \A m \in E : WordEnd(s, p) <= m
    <2> HIDE DEF E
    <2>1. First(E) \in E /\ \A m \in E : First(E) <= m
      BY <1>1, FirstIs
    <2> QED
      BY <2>1 DEF WordEnd, E
  <1>3. ASSUME NEW k \in p .. WordEnd(s, p) - 1
        PROVE  s[k + 1] \notin Blanks
    <2>1. k \in p .. Len(s) /\ ~ (WordEnd(s, p) <= k)
      BY <1>1, <1>2
    <2> QED
      BY <1>2, <2>1
  <1> QED
    BY <1>2, <1>3

\* nextWord goes to the next word or to the end of the string.
LEMMA NextWordIs ==
    ASSUME NEW s \in Strings, NEW p \in 0 .. Len(s) - 1
    PROVE  /\ nextWord(s, p) \in p + 1 .. Len(s)
           /\ nextWord(s, p) = Len(s) \/ nextWord(s, p) \in Starts(s)
           /\ \A r \in Starts(s) : p < r => nextWord(s, p) <= r
  <1> DEFINE W == WordEnd(s, p)
             E == {e \in W .. Len(s) : e = Len(s) \/ s[e + 1] \notin Blanks}
             n == nextWord(s, p)
  <1>1. Len(s) \in Nat /\ p \in 0 .. Len(s) /\ p # Len(s)
    BY LenProperties DEF Strings
  <1>2. /\ W \in p .. Len(s)
        /\ W = Len(s) \/ s[W + 1] \in Blanks
        /\ \A k \in p .. W - 1 : s[k + 1] \notin Blanks
    BY <1>1, WordEndIs
  <1>3. n \in E /\ \A m \in E : n <= m
    <2>1. Len(s) \in E /\ E \subseteq Nat
      BY <1>1, <1>2
    <2>2. n = First(E)
      BY <1>1 DEF nextWord
    <2> HIDE DEF E, n
    <2> QED
      BY <2>1, <2>2, FirstIs
  <1> HIDE DEF W, n
  <1>4. ASSUME NEW k \in W .. n - 1
        PROVE  s[k + 1] \in Blanks
    <2>1. k \in W .. Len(s) /\ ~ (n <= k)
      BY <1>1, <1>2, <1>3
    <2> QED
      BY <1>3, <2>1
  <1>5. n \in p + 1 .. Len(s)
    <2>1. n # p
      <3>1. CASE W = p
        BY <1>1, <1>2, <1>3, <3>1
      <3>2. CASE W # p
        BY <1>1, <1>2, <1>3, <3>2
      <3> QED
        BY <3>1, <3>2
    <2> QED
      BY <1>1, <1>2, <1>3, <2>1
  <1>6. n = Len(s) \/ n \in Starts(s)
    <2>1. SUFFICES ASSUME n # Len(s) PROVE n \in Starts(s)
      OBVIOUS
    <2>2. s[n + 1] \notin Blanks
      BY <1>3, <2>1
    <2>3. n # W
      BY <1>2, <2>1, <2>2
    <2>4. n - 1 \in W .. n - 1 /\ (n - 1) + 1 = n
      BY <1>1, <1>2, <1>3, <2>3
    <2>5. s[n] \in Blanks
      BY <1>4, <2>4
    <2> QED
      BY <1>1, <1>5, <2>1, <2>2, <2>5 DEF Starts
  <1>7. ASSUME NEW r \in Starts(s), p < r
        PROVE  n <= r
    <2>1. r \in 0 .. Len(s) - 1 /\ s[r + 1] \notin Blanks /\ s[r] \in Blanks
      BY <1>7, <1>1 DEF Starts
    <2>2. SUFFICES ASSUME r < n PROVE FALSE
      BY <1>1, <1>5, <2>1
    <2>3. CASE r <= W
      <3>1. r - 1 \in p .. W - 1 /\ (r - 1) + 1 = r
        BY <1>1, <1>2, <1>7, <2>1, <2>3
      <3> QED
        BY <1>2, <2>1, <3>1
    <2>4. CASE W < r
      <3>1. r \in W .. n - 1
        BY <1>1, <1>2, <1>5, <2>1, <2>2, <2>4
      <3> QED
        BY <1>4, <2>1, <3>1
    <2> QED
      BY <1>1, <1>2, <2>1, <2>3, <2>4
  <1> QED
    BY <1>5, <1>6, <1>7 DEF n

\* The word at p is w if w stands there, as a whole.
LEMMA WordIs ==
    ASSUME NEW s \in Strings, NEW p \in 0 .. Len(s), NEW w \in Strings
    PROVE  /\ Word(s, p) = w <=> IsWord(w, s, p)
           /\ Word(s, p) \in Strings /\ Len(Word(s, p)) = WordEnd(s, p) - p
  <1> DEFINE e == WordEnd(s, p)
  <1>1. Len(s) \in Nat /\ Len(w) \in Nat /\ DOMAIN w = 1 .. Len(w)
    BY LenProperties DEF Strings
  <1>2. /\ e \in p .. Len(s)
        /\ e = Len(s) \/ s[e + 1] \in Blanks
        /\ \A k \in p .. e - 1 : s[k + 1] \notin Blanks
    BY WordEndIs
  <1> HIDE DEF e
  <1>3. /\ Word(s, p) \in Strings /\ Len(Word(s, p)) = e - p
        /\ Word(s, p) = SubSeq(s, p + 1, e)
        /\ \A k \in 1 .. e - p : Word(s, p)[k] = s[p + k]
    BY <1>2, Part DEF Word, e, Strings
  <1>4. ASSUME Word(s, p) = w
        PROVE  IsWord(w, s, p)
    <2>1. p + Len(w) = e
      BY <1>1, <1>2, <1>3, <1>4
    <2>2. \A k \in 1 .. Len(w) : w[k] \notin Blanks
      <3>1. ASSUME NEW k \in 1 .. Len(w) PROVE w[k] \notin Blanks
        <4>1. p + k - 1 \in p .. e - 1 /\ (p + k - 1) + 1 = p + k /\ k \in 1 .. e - p
          BY <1>1, <2>1
        <4> QED
          BY <1>2, <1>3, <1>4, <4>1
      <3> QED
        BY <3>1
    <2>3. SubSeq(s, p + 1, p + Len(w)) = w
      BY <1>3, <1>4, <2>1
    <2> QED
      BY <1>1, <1>2, <2>1, <2>2, <2>3 DEF IsWord, IsPhrase, IsAt
  <1>5. ASSUME IsWord(w, s, p)
        PROVE  Word(s, p) = w
    <2> DEFINE x == p + Len(w)
    <2>1. /\ x \in p .. Len(s) /\ SubSeq(s, p + 1, x) = w
          /\ x = Len(s) \/ s[x + 1] \in Blanks
          /\ \A k \in 1 .. Len(w) : w[k] \notin Blanks
      BY <1>1, <1>5 DEF IsWord, IsPhrase, IsAt
    <2>2. \A k \in 1 .. x - p : w[k] = s[p + k]
      <3>1. x \in p .. Len(s)
        BY <2>1
      <3> HIDE DEF x
      <3>2. \A k \in 1 .. x - p : SubSeq(s, p + 1, x)[k] = s[p + k]
        BY <3>1, Part DEF Strings
      <3> QED
        BY <2>1, <3>2
    <2>3. ~ (e < x)
      <3>1. SUFFICES ASSUME e < x PROVE FALSE
        OBVIOUS
      <3>2. e - p + 1 \in 1 .. Len(w) /\ e - p + 1 \in 1 .. x - p /\ p + (e - p + 1) = e + 1 /\ e # Len(s)
        BY <1>1, <1>2, <2>1, <3>1
      <3> QED
        BY <1>2, <2>1, <2>2, <3>2
    <2>4. ~ (x < e)
      <3>1. SUFFICES ASSUME x < e PROVE FALSE
        OBVIOUS
      <3>2. x \in p .. e - 1 /\ x # Len(s)
        BY <1>1, <1>2, <2>1, <3>1
      <3> QED
        BY <1>2, <2>1, <3>2
    <2>5. x = e
      BY <1>1, <1>2, <2>3, <2>4
    <2> QED
      BY <1>3, <2>1, <2>5
  <1> QED
    BY <1>3, <1>4, <1>5 DEF e

-----------------------------------------------------------------------------
(* isincluded.                                                             *)

\* The words of s from p on that are w.
Found(w, s, p) == {r \in Starts(s) : p <= r /\ IsWord(w, s, r)}

\* The function that isincluded defines.
Search(w, s) ==
    CHOOSE from : from = [q \in 0 .. Len(s) |->
        IF q = Len(s) THEN NULL ELSE IF Word(s, q) = w THEN q ELSE from[nextWord(s, q)]]

\* The search exists, and is what isincluded makes of it.
LEMMA SearchIs ==
    ASSUME NEW s \in Strings, NEW w \in Strings, NEW p \in 0 .. Len(s)
    PROVE  isincluded(w, s, p) =
               IF p = Len(s) THEN NULL
               ELSE IF Word(s, p) = w THEN p ELSE isincluded(w, s, nextWord(s, p))
  <1> DEFINE N == Len(s)
             T == 0 .. N \cup {NULL}
             B == {q \in 0 .. N : q = N \/ Word(s, q) = w}
             last == [q \in 0 .. N |-> IF q = N THEN NULL ELSE q]
             nxt == [q \in 0 .. N |-> nextWord(s, q)]
             c == [q \in 0 .. N |-> [t \in T |-> t]]
  <1>1. N \in Nat
    BY LenProperties DEF Strings
  <1>2. last \in [0 .. N -> T] /\ c \in [0 .. N -> [T -> T]]
    OBVIOUS
  <1>3. ASSUME NEW q \in 0 .. N, q \notin B
        PROVE  nxt[q] \in q + 1 .. N
    <2>1. q \in 0 .. Len(s) - 1
      BY <1>1, <1>3
    <2> QED
      BY <2>1, NextWordIs
  <1>4. PICK f \in [0 .. N -> T] : f = [q \in 0 .. N |-> IF q \in B THEN last[q] ELSE c[q][f[nxt[q]]]]
    <2>1. \A q \in 0 .. N : q \notin B => nxt[q] \in q + 1 .. N
      BY <1>3
    <2> HIDE DEF N, T, B, last, nxt, c
    <2>2. \E f \in [0 .. N -> T] : Solves(f, N, B, last, nxt, c)
      BY <1>1, <1>2, <2>1, Recursion
    <2> QED
      BY <2>2 DEF Solves
  <1>5. f = [q \in 0 .. Len(s) |-> IF q = Len(s) THEN NULL ELSE IF Word(s, q) = w THEN q ELSE f[nextWord(s, q)]]
    <2>1. ASSUME NEW q \in 0 .. N
          PROVE  f[q] = IF q = N THEN NULL ELSE IF Word(s, q) = w THEN q ELSE f[nextWord(s, q)]
      <3>1. CASE q \in B
        <4>1. f[q] = last[q]
          BY <1>4, <3>1
        <4> QED
          BY <3>1, <4>1
      <3>2. CASE q \notin B
        <4>1. nextWord(s, q) \in 0 .. N
          BY <1>1, <1>3, <3>2
        <4>2. f[nextWord(s, q)] \in T
          BY <1>4, <4>1
        <4>3. f[q] = c[q][f[nxt[q]]]
          BY <1>4, <3>2
        <4>4. f[q] = f[nextWord(s, q)]
          BY <4>2, <4>3
        <4> QED
          BY <3>2, <4>4
      <3> QED
        BY <3>1, <3>2
    <2> QED
      BY <1>4, <2>1
  <1>6. Search(w, s) = [q \in 0 .. Len(s) |->
            IF q = Len(s) THEN NULL ELSE IF Word(s, q) = w THEN q ELSE Search(w, s)[nextWord(s, q)]]
    BY <1>5 DEF Search
  <1>7. \A q : isincluded(w, s, q) = Search(w, s)[q]
    BY DEF isincluded, Search
  <1>8. Search(w, s)[p] = IF p = Len(s) THEN NULL
                          ELSE IF Word(s, p) = w THEN p ELSE Search(w, s)[nextWord(s, p)]
    BY <1>6
  <1> QED
    BY <1>7, <1>8

\* A place from which the search gives a word of the string and not the end of one.
Fresh(w, s, p) == p = Len(s) \/ p \in Starts(s) \/ Word(s, p) # w

\* isincluded goes to the first place where the word stands.
LEMMA IncludedIs ==
    ASSUME NEW s \in Strings, NEW w \in Strings, NEW p \in 0 .. Len(s), Fresh(w, s, p)
    PROVE  IF Found(w, s, p) = {} THEN isincluded(w, s, p) = NULL
           ELSE isincluded(w, s, p) \in Found(w, s, p) /\ \A r \in Found(w, s, p) : isincluded(w, s, p) <= r
  <1> DEFINE Right(q) ==
                 IF Found(w, s, q) = {} THEN isincluded(w, s, q) = NULL
                 ELSE isincluded(w, s, q) \in Found(w, s, q) /\ \A r \in Found(w, s, q) : isincluded(w, s, q) <= r
             S == {q \in 0 .. Len(s) : Fresh(w, s, q) => Right(q)}
  <1>1. Len(s) \in Nat
    BY LenProperties DEF Strings
  <1>2. ASSUME NEW q \in 0 .. Len(s), \A r \in q + 1 .. Len(s) : r \in S, Fresh(w, s, q)
        PROVE  Right(q)
    <2>1. CASE q = Len(s)
      <3>1. Found(w, s, q) = {}
        BY <1>1, <2>1 DEF Found, Starts
      <3> QED
        BY <2>1, <3>1, SearchIs
    <2>2. CASE q # Len(s) /\ Word(s, q) = w
      <3>1. isincluded(w, s, q) = q
        BY <2>2, SearchIs
      <3>2. q \in Starts(s) /\ IsWord(w, s, q)
        BY <1>2, <2>2, WordIs DEF Fresh
      <3>3. q \in Found(w, s, q) /\ \A r \in Found(w, s, q) : q <= r
        BY <1>1, <3>2 DEF Found
      <3> QED
        BY <3>1, <3>3
    <2>3. CASE q # Len(s) /\ Word(s, q) # w
      <3> DEFINE n == nextWord(s, q)
      <3>1. q \in 0 .. Len(s) - 1
        BY <1>1, <2>3
      <3>2. /\ n \in q + 1 .. Len(s)
            /\ n = Len(s) \/ n \in Starts(s)
            /\ \A r \in Starts(s) : q < r => n <= r
        BY <3>1, NextWordIs
      <3>3. isincluded(w, s, q) = isincluded(w, s, n)
        BY <2>3, SearchIs
      <3> HIDE DEF n
      <3>4. Fresh(w, s, n) /\ n \in S
        BY <1>2, <3>2 DEF Fresh
      <3>5. Found(w, s, q) = Found(w, s, n)
        <4>1. ASSUME NEW r \in Starts(s), IsWord(w, s, r)
              PROVE  q <= r <=> n <= r
          <5>1. r \in Nat /\ q \in Nat /\ n \in Nat /\ q < n
            BY <1>1, <3>2 DEF Starts
          <5>2. r # q
            BY <2>3, <4>1, WordIs
          <5> QED
            BY <3>2, <5>1, <5>2
        <4> QED
          BY <4>1 DEF Found
      <3> QED
        BY <3>3, <3>4, <3>5
    <2> QED
      BY <2>1, <2>2, <2>3
  <1>3. 0 .. Len(s) \subseteq S
    <2>1. ASSUME NEW q \in 0 .. Len(s), \A r \in q + 1 .. Len(s) : r \in S
          PROVE  q \in S
      BY <1>2, <2>1
    <2> HIDE DEF S
    <2> QED
      BY <1>1, <2>1, Downward
  <1> QED
    BY <1>3

\* isincluded returns NULL or a position that is not before the one it was given.
LEMMA IncludedRange ==
    ASSUME NEW s \in Strings, NEW w \in Strings, NEW p \in 0 .. Len(s)
    PROVE  isincluded(w, s, p) \in p .. Len(s) - 1 \/ isincluded(w, s, p) = NULL
  <1> DEFINE S == {q \in 0 .. Len(s) : isincluded(w, s, q) \in q .. Len(s) - 1 \/ isincluded(w, s, q) = NULL}
  <1>1. Len(s) \in Nat
    BY LenProperties DEF Strings
  <1>2. ASSUME NEW q \in 0 .. Len(s), \A r \in q + 1 .. Len(s) : r \in S
        PROVE  q \in S
    <2>1. CASE q = Len(s) \/ Word(s, q) = w
      BY <1>1, <2>1, SearchIs
    <2>2. CASE q # Len(s) /\ Word(s, q) # w
      <3>1. q \in 0 .. Len(s) - 1
        BY <1>1, <2>2
      <3>2. nextWord(s, q) \in q + 1 .. Len(s)
        BY <3>1, NextWordIs
      <3>3. nextWord(s, q) \in S
        BY <1>2, <3>2
      <3>4. isincluded(w, s, q) = isincluded(w, s, nextWord(s, q))
        BY <2>2, SearchIs
      <3> HIDE DEF NULL
      <3> QED
        BY <1>1, <3>2, <3>3, <3>4
    <2> QED
      BY <2>1, <2>2
  <1>3. 0 .. Len(s) \subseteq S
    <2> HIDE DEF S
    <2> QED
      BY <1>1, <1>2, Downward
  <1> QED
    BY <1>3

-----------------------------------------------------------------------------
(* handle_sword.                                                           *)

\* The loop of handle_sword, as SwordAt defines it.
Swords(w, s) ==
    CHOOSE from : from = [p \in 0 .. Len(s) |->
        IF isincluded(w, s, p) = NULL THEN {}
        ELSE {isincluded(w, s, p)} \cup from[isincluded(w, s, p) + 1]]

\* What follows when isincluded has returned at.
SwordsWith(w, s, at) == IF at = NULL THEN {} ELSE {at} \cup Swords(w, s)[at + 1]

\* The loop of handle_sword exists, and is what SwordAt makes of it.
LEMMA SwordsIs ==
    ASSUME NEW s \in Strings, NEW w \in Strings, NEW p \in 0 .. Len(s)
    PROVE  Swords(w, s)[p] = SwordsWith(w, s, isincluded(w, s, p))
  <1> DEFINE N == Len(s)
             at(q) == isincluded(w, s, q)
             T == SUBSET (0 .. N)
             B == {q \in 0 .. N : at(q) = NULL}
             last == [q \in 0 .. N |-> {}]
             nxt == [q \in 0 .. N |-> at(q) + 1]
             c == [q \in 0 .. N |-> [t \in T |-> IF q \in B THEN t ELSE {at(q)} \cup t]]
  <1>1. N \in Nat
    BY LenProperties DEF Strings
  <1>2. ASSUME NEW q \in 0 .. N, q \notin B
        PROVE  at(q) \in 0 .. N /\ nxt[q] \in q + 1 .. N
    <2>1. at(q) \in q .. Len(s) - 1
      BY <1>2, IncludedRange
    <2> QED
      BY <1>1, <2>1
  <1>3. last \in [0 .. N -> T] /\ c \in [0 .. N -> [T -> T]]
    <2>1. ASSUME NEW q \in 0 .. N, NEW t \in T
          PROVE  (IF q \in B THEN t ELSE {at(q)} \cup t) \in T
      BY <1>2
    <2> HIDE DEF T, at, B
    <2>2. c \in [0 .. N -> [T -> T]]
      BY <2>1
    <2>3. last \in [0 .. N -> T]
      BY DEF T
    <2> QED
      BY <2>2, <2>3
  <1>4. PICK f \in [0 .. N -> T] : f = [q \in 0 .. N |-> IF q \in B THEN last[q] ELSE c[q][f[nxt[q]]]]
    <2>1. \A q \in 0 .. N : q \notin B => nxt[q] \in q + 1 .. N
      BY <1>2
    <2> HIDE DEF N, T, B, last, nxt, c
    <2>2. \E f \in [0 .. N -> T] : Solves(f, N, B, last, nxt, c)
      BY <1>1, <1>3, <2>1, Recursion
    <2> QED
      BY <2>2 DEF Solves
  <1>5. f = [q \in 0 .. Len(s) |-> IF isincluded(w, s, q) = NULL THEN {}
                                   ELSE {isincluded(w, s, q)} \cup f[isincluded(w, s, q) + 1]]
    <2>1. ASSUME NEW q \in 0 .. N
          PROVE  f[q] = IF at(q) = NULL THEN {} ELSE {at(q)} \cup f[at(q) + 1]
      <3>1. CASE q \in B
        <4>1. f[q] = last[q]
          BY <1>4, <3>1
        <4> QED
          BY <3>1, <4>1
      <3>2. CASE q \notin B
        <4>1. nxt[q] \in 0 .. N
          BY <1>1, <1>2, <3>2
        <4>2. f[nxt[q]] \in T
          BY <1>4, <4>1
        <4>3. f[q] = c[q][f[nxt[q]]]
          BY <1>4, <3>2
        <4>4. c[q][f[nxt[q]]] = {at(q)} \cup f[nxt[q]]
          <5> HIDE DEF T, at, B, nxt
          <5> QED
            BY <3>2, <4>2
        <4> QED
          BY <3>2, <4>3, <4>4
      <3> QED
        BY <3>1, <3>2
    <2> QED
      BY <1>4, <2>1
  <1>6. Swords(w, s) = [q \in 0 .. Len(s) |->
            IF isincluded(w, s, q) = NULL THEN {}
            ELSE {isincluded(w, s, q)} \cup Swords(w, s)[isincluded(w, s, q) + 1]]
    BY <1>5 DEF Swords
  <1> QED
    BY <1>6 DEF SwordsWith

\* After a place where the word stands the string goes on with less than the word.
LEMMA FreshAfter ==
    ASSUME NEW s \in Strings, NEW w \in Strings, w # <<>>, NEW p \in Starts(s), IsWord(w, s, p)
    PROVE  p + 1 \in 0 .. Len(s) /\ Fresh(w, s, p + 1)
  <1>1. Len(s) \in Nat /\ p \in 0 .. Len(s) /\ p + 1 \in 0 .. Len(s)
    BY LenProperties DEF Strings, Starts
  <1>2. Word(s, p) = w /\ Len(w) = WordEnd(s, p) - p
    BY <1>1, WordIs
  <1>3. Len(w) \in Nat \ {0}
    BY EmptySeq DEF Strings
  <1>4. WordEnd(s, p) \in p .. Len(s) /\ \A k \in p .. WordEnd(s, p) - 1 : s[k + 1] \notin Blanks
    BY <1>1, WordEndIs
  <1>5. /\ WordEnd(s, p + 1) \in p + 1 .. Len(s)
        /\ \A k \in p + 1 .. WordEnd(s, p + 1) - 1 : s[k + 1] \notin Blanks
    BY <1>1, WordEndIs
  <1>6. WordEnd(s, p + 1) <= WordEnd(s, p)
    <2>1. SUFFICES ASSUME WordEnd(s, p) < WordEnd(s, p + 1) PROVE FALSE
      BY <1>1, <1>4, <1>5
    <2>2. WordEnd(s, p) \in p + 1 .. WordEnd(s, p + 1) - 1 /\ WordEnd(s, p) # Len(s)
      BY <1>1, <1>2, <1>3, <1>4, <1>5, <2>1
    <2>3. s[WordEnd(s, p) + 1] \in Blanks
      BY <1>1, <2>2, WordEndIs
    <2> QED
      BY <1>5, <2>2, <2>3
  <1>7. Len(Word(s, p + 1)) = WordEnd(s, p + 1) - (p + 1)
    BY <1>1, WordIs
  <1>8. Len(Word(s, p + 1)) # Len(w)
    BY <1>1, <1>2, <1>4, <1>5, <1>6, <1>7
  <1> QED
    BY <1>1, <1>8 DEF Fresh

\* The search begins at the start of the string.
LEMMA FreshAtStart ==
    ASSUME NEW s \in Strings, NEW w \in Strings, w # <<>>
    PROVE  Fresh(w, s, 0)
  <1>1. Len(s) \in Nat
    BY LenProperties DEF Strings
  <1>2. SUFFICES ASSUME 0 # Len(s), Word(s, 0) = w PROVE 0 \in Starts(s)
    BY DEF Fresh
  <1>3. SUFFICES s[1] \notin Blanks
    BY <1>1, <1>2 DEF Starts
  <1>4. Len(w) = WordEnd(s, 0) - 0 /\ Len(w) \in Nat \ {0}
    BY <1>1, <1>2, WordIs, EmptySeq DEF Strings
  <1>5. WordEnd(s, 0) \in 0 .. Len(s) /\ \A k \in 0 .. WordEnd(s, 0) - 1 : s[k + 1] \notin Blanks
    BY <1>1, WordEndIs
  <1>6. 0 \in 0 .. WordEnd(s, 0) - 1 /\ 0 + 1 = 1
    BY <1>4, <1>5
  <1> QED
    BY <1>5, <1>6

\* handle_sword finds every place where the word stands.
LEMMA SwordIs ==
    ASSUME NEW s \in Strings, NEW w \in Strings, w # <<>>
    PROVE  SwordAt(w, s) = {p \in Starts(s) : IsWord(w, s, p)}
  <1> DEFINE S == {q \in 0 .. Len(s) : Fresh(w, s, q) => Swords(w, s)[q] = Found(w, s, q)}
  <1>1. Len(s) \in Nat
    BY LenProperties DEF Strings
  <1>2. ASSUME NEW q \in 0 .. Len(s), \A r \in q + 1 .. Len(s) : r \in S, Fresh(w, s, q)
        PROVE  Swords(w, s)[q] = Found(w, s, q)
    <2> DEFINE at == isincluded(w, s, q)
    <2>1. CASE Found(w, s, q) = {}
      <3>1. at = NULL
        BY <1>2, <2>1, IncludedIs
      <3> QED
        BY <2>1, <3>1, SwordsIs DEF SwordsWith
    <2>2. CASE Found(w, s, q) # {}
      <3>1. at \in Found(w, s, q) /\ \A r \in Found(w, s, q) : at <= r
        BY <1>2, <2>2, IncludedIs
      <3>2. at \in Starts(s) /\ IsWord(w, s, at) /\ q <= at /\ at \in Nat
        BY <1>1, <3>1 DEF Found, Starts
      <3>3. Swords(w, s)[q] = {at} \cup Swords(w, s)[at + 1]
        <4>1. at # NULL
          BY <3>2 DEF NULL
        <4>2. Swords(w, s)[q] = SwordsWith(w, s, at)
          BY SwordsIs
        <4> QED
          BY <4>1, <4>2 DEF SwordsWith
      <3> HIDE DEF at
      <3>4. at + 1 \in q + 1 .. Len(s) /\ Fresh(w, s, at + 1)
        BY <1>1, <3>2, FreshAfter
      <3>5. Swords(w, s)[at + 1] = Found(w, s, at + 1)
        BY <1>2, <3>4
      <3>6. Found(w, s, q) = {at} \cup Found(w, s, at + 1)
        <4>1. ASSUME NEW r \in Starts(s), IsWord(w, s, r)
              PROVE  q <= r <=> r = at \/ at + 1 <= r
          <5>1. r \in Nat /\ q \in Nat
            BY <1>1 DEF Starts
          <5>2. q <= r => at <= r
            BY <3>1, <4>1 DEF Found
          <5> QED
            BY <3>2, <5>1, <5>2
        <4> QED
          BY <3>2, <4>1 DEF Found
      <3> QED
        BY <3>3, <3>5, <3>6
    <2> QED
      BY <2>1, <2>2
  <1>3. 0 .. Len(s) \subseteq S
    <2>1. ASSUME NEW q \in 0 .. Len(s), \A r \in q + 1 .. Len(s) : r \in S
          PROVE  q \in S
      BY <1>2, <2>1
    <2> HIDE DEF S
    <2> QED
      BY <1>1, <2>1, Downward
  <1>4. Fresh(w, s, 0)
    BY FreshAtStart
  <1>5. Swords(w, s)[0] = Found(w, s, 0)
    BY <1>1, <1>3, <1>4
  <1>6. SwordAt(w, s) = Swords(w, s)[0]
    BY DEF SwordAt, Swords
  <1>7. Found(w, s, 0) = {p \in Starts(s) : IsWord(w, s, p)}
    BY <1>1 DEF Found, Starts
  <1> QED
    BY <1>5, <1>6, <1>7

-----------------------------------------------------------------------------
(* handle_cword.                                                           *)

\* issubstring goes to the first place where the phrase stands.
LEMMA SubstringIs ==
    ASSUME NEW s \in Strings, NEW w, w # <<>>, NEW p \in 0 .. Len(s)
    PROVE  /\ issubstring(w, s, p) = NULL <=> \A q \in p .. Len(s) - 1 : ~ IsAt(w, s, q)
           /\ p # Len(s) => (issubstring(w, s, p) = p <=> IsAt(w, s, p))
  <1> DEFINE at == {q \in p .. Len(s) - 1 : w # <<>> /\ IsAt(w, s, q)}
  <1>1. Len(s) \in Nat /\ at \subseteq Nat
    BY LenProperties DEF Strings
  <1>2. issubstring(w, s, p) = IF at = {} THEN NULL ELSE First(at)
    BY DEF issubstring
  <1>3. at # {} => First(at) \in at /\ \A m \in at : First(at) <= m
    <2> HIDE DEF at
    <2> QED
      BY <1>1, FirstIs
  <1>4. at # {} => issubstring(w, s, p) \in at
    BY <1>2, <1>3
  <1>5. issubstring(w, s, p) = NULL <=> at = {}
    <2>1. NULL \notin at
      BY <1>1 DEF NULL
    <2> HIDE DEF at
    <2> QED
      BY <1>2, <1>4, <2>1
  <1>6. ASSUME p # Len(s), IsAt(w, s, p)
        PROVE  issubstring(w, s, p) = p
    <2>1. p \in at
      BY <1>1, <1>6
    <2>2. First(at) <= p /\ First(at) \in at /\ issubstring(w, s, p) = First(at)
      <3> HIDE DEF at
      <3> QED
        BY <1>2, <1>3, <2>1
    <2>3. First(at) \in p .. Len(s) - 1
      BY <2>2
    <2> HIDE DEF at
    <2> QED
      BY <1>1, <2>2, <2>3
  <1>7. ASSUME issubstring(w, s, p) = p
        PROVE  IsAt(w, s, p)
    <2>1. p # NULL
      BY <1>1 DEF NULL
    <2>2. p \in at
      BY <1>4, <1>5, <1>7, <2>1
    <2> QED
      BY <2>2
  <1> QED
    BY <1>5, <1>6, <1>7

\* Where a phrase may end.
Ends(s, p) == p = Len(s) \/ s[p + 1] \in Blanks

\* The place at p, if the phrase stands there.
Here(w, s, p) == IF issubstring(w, s, p) = p /\ Ends(s, p + Len(w)) THEN {p} ELSE {}

\* The loop of handle_cword, as CwordAt defines it.
Phrases(w, s) ==
    CHOOSE from : from = [p \in 0 .. Len(s) |->
        IF p = Len(s) \/ issubstring(w, s, p) = NULL THEN {}
        ELSE Here(w, s, p) \cup from[nextWord(s, p)]]

\* The loop of handle_cword exists, and is what CwordAt makes of it.
LEMMA PhrasesIs ==
    ASSUME NEW s \in Strings, NEW w, NEW p \in 0 .. Len(s)
    PROVE  /\ p = Len(s) \/ issubstring(w, s, p) = NULL => Phrases(w, s)[p] = {}
           /\ p # Len(s) /\ issubstring(w, s, p) # NULL =>
                 Phrases(w, s)[p] = Here(w, s, p) \cup Phrases(w, s)[nextWord(s, p)]
  <1> DEFINE N == Len(s)
             T == SUBSET (0 .. N)
             B == {q \in 0 .. N : q = N \/ issubstring(w, s, q) = NULL}
             last == [q \in 0 .. N |-> {}]
             nxt == [q \in 0 .. N |-> nextWord(s, q)]
             c == [q \in 0 .. N |-> [t \in T |-> Here(w, s, q) \cup t]]
  <1>1. N \in Nat
    BY LenProperties DEF Strings
  <1>2. ASSUME NEW q \in 0 .. N, q \notin B
        PROVE  nxt[q] \in q + 1 .. N
    <2>1. q \in 0 .. Len(s) - 1
      BY <1>1, <1>2
    <2> QED
      BY <2>1, NextWordIs
  <1>3. last \in [0 .. N -> T] /\ c \in [0 .. N -> [T -> T]]
    <2>1. ASSUME NEW q \in 0 .. N, NEW t \in T
          PROVE  Here(w, s, q) \cup t \in T
      BY DEF Here
    <2> HIDE DEF T
    <2>2. c \in [0 .. N -> [T -> T]]
      BY <2>1
    <2>3. last \in [0 .. N -> T]
      BY DEF T
    <2> QED
      BY <2>2, <2>3
  <1>4. PICK f \in [0 .. N -> T] : f = [q \in 0 .. N |-> IF q \in B THEN last[q] ELSE c[q][f[nxt[q]]]]
    <2>1. \A q \in 0 .. N : q \notin B => nxt[q] \in q + 1 .. N
      BY <1>2
    <2> HIDE DEF N, T, B, last, nxt, c
    <2>2. \E f \in [0 .. N -> T] : Solves(f, N, B, last, nxt, c)
      BY <1>1, <1>3, <2>1, Recursion
    <2> QED
      BY <2>2 DEF Solves
  <1>5. f = [q \in 0 .. Len(s) |-> IF q = Len(s) \/ issubstring(w, s, q) = NULL THEN {}
                                   ELSE Here(w, s, q) \cup f[nextWord(s, q)]]
    <2>1. ASSUME NEW q \in 0 .. N
          PROVE  f[q] = IF q = N \/ issubstring(w, s, q) = NULL THEN {}
                        ELSE Here(w, s, q) \cup f[nextWord(s, q)]
      <3>1. CASE q \in B
        <4>1. f[q] = last[q]
          BY <1>4, <3>1
        <4> QED
          BY <3>1, <4>1
      <3>2. CASE q \notin B
        <4>1. nxt[q] \in 0 .. N
          BY <1>1, <1>2, <3>2
        <4>2. f[nxt[q]] \in T
          BY <1>4, <4>1
        <4>3. f[q] = c[q][f[nxt[q]]]
          BY <1>4, <3>2
        <4>4. c[q][f[nxt[q]]] = Here(w, s, q) \cup f[nxt[q]]
          <5> HIDE DEF T, nxt
          <5> QED
            BY <4>2
        <4> QED
          BY <3>2, <4>3, <4>4
      <3> QED
        BY <3>1, <3>2
    <2> QED
      BY <1>4, <2>1
  <1>6. Phrases(w, s) = [q \in 0 .. Len(s) |->
            IF q = Len(s) \/ issubstring(w, s, q) = NULL THEN {}
            ELSE Here(w, s, q) \cup Phrases(w, s)[nextWord(s, q)]]
    BY <1>5 DEF Phrases
  <1> QED
    BY <1>6

\* handle_cword finds every word of the string at which the phrase stands.
LEMMA CwordIs ==
    ASSUME NEW s \in Strings, NEW w \in Strings, w # <<>>, w[1] \notin Blanks
    PROVE  CwordAt(w, s) = {p \in Starts(s) : IsPhrase(w, s, p)}
  <1> DEFINE Rest(q) == {r \in Starts(s) : q <= r /\ IsPhrase(w, s, r)}
             Begins(q) == q \in Starts(s) \cup {0, Len(s)}
             S == {q \in 0 .. Len(s) : Begins(q) => Phrases(w, s)[q] = Rest(q)}
  <1>1. Len(s) \in Nat /\ Len(w) \in Nat \ {0}
    BY LenProperties, EmptySeq DEF Strings
  <1>2. ASSUME NEW q \in 0 .. Len(s), \A r \in q + 1 .. Len(s) : r \in S, Begins(q)
        PROVE  Phrases(w, s)[q] = Rest(q)
    <2>1. CASE q = Len(s)
      <3>1. Rest(q) = {}
        BY <1>1, <2>1 DEF Starts
      <3> QED
        BY <2>1, <3>1, PhrasesIs
    <2>2. CASE q # Len(s) /\ issubstring(w, s, q) = NULL
      <3>1. \A r \in q .. Len(s) - 1 : ~ IsAt(w, s, r)
        BY <2>2, SubstringIs
      <3>2. Rest(q) = {}
        <4>1. \A r \in Starts(s) : q <= r => r \in q .. Len(s) - 1
          BY <1>1 DEF Starts
        <4> QED
          BY <3>1, <4>1 DEF IsPhrase
      <3> QED
        BY <2>2, <3>2, PhrasesIs
    <2>3. CASE q # Len(s) /\ issubstring(w, s, q) # NULL
      <3> DEFINE n == nextWord(s, q)
      <3>1. q \in 0 .. Len(s) - 1
        BY <1>1, <2>3
      <3>2. /\ n \in q + 1 .. Len(s)
            /\ n = Len(s) \/ n \in Starts(s)
            /\ \A r \in Starts(s) : q < r => n <= r
        BY <3>1, NextWordIs
      <3>3. Phrases(w, s)[q] = Here(w, s, q) \cup Phrases(w, s)[n]
        BY <2>3, PhrasesIs
      <3> HIDE DEF n
      <3>4. Phrases(w, s)[n] = Rest(n)
        <4>1. Begins(n) /\ n \in S
          BY <1>2, <3>2
        <4> QED
          BY <4>1
      <3>5. IsPhrase(w, s, q) => q \in Starts(s)
        <4>1. SUFFICES ASSUME IsPhrase(w, s, q), q = 0 PROVE s[1] \notin Blanks
          BY <1>1, <1>2, <2>3, <3>1 DEF Starts
        <4>2. 0 + Len(w) \in 0 .. Len(s) /\ SubSeq(s, 0 + 1, 0 + Len(w)) = w
          BY <1>1, <4>1 DEF IsPhrase, IsAt
        <4>3. 1 \in 1 .. (0 + Len(w)) - 0 /\ 0 \in 0 .. Len(s)
          BY <1>1
        <4>4. w[1] = s[0 + 1]
          BY <4>2, <4>3, Part DEF Strings
        <4> QED
          BY <4>4
      <3>6. Here(w, s, q) = IF IsPhrase(w, s, q) THEN {q} ELSE {}
        <4>1. issubstring(w, s, q) = q <=> IsAt(w, s, q)
          BY <2>3, SubstringIs
        <4> QED
          BY <4>1 DEF Here, IsPhrase, Ends
      <3>7. Rest(q) = Here(w, s, q) \cup Rest(n)
        <4>1. ASSUME NEW r \in Starts(s)
              PROVE  q <= r <=> r = q \/ n <= r
          <5>1. r \in Nat /\ q \in Nat /\ n \in Nat /\ q < n
            BY <1>1, <3>2 DEF Starts
          <5> QED
            BY <3>2, <5>1
        <4> QED
          BY <3>5, <3>6, <4>1
      <3> QED
        BY <3>3, <3>4, <3>7
    <2> QED
      BY <2>1, <2>2, <2>3
  <1>3. 0 .. Len(s) \subseteq S
    <2>1. ASSUME NEW q \in 0 .. Len(s), \A r \in q + 1 .. Len(s) : r \in S
          PROVE  q \in S
      BY <1>2, <2>1
    <2> HIDE DEF S
    <2> QED
      BY <1>1, <2>1, Downward
  <1>4. Phrases(w, s)[0] = Rest(0)
    BY <1>1, <1>3
  <1>5. CwordAt(w, s) = Phrases(w, s)[0]
    BY DEF CwordAt, Phrases, Here, Ends
  <1>6. Rest(0) = {p \in Starts(s) : IsPhrase(w, s, p)}
    BY <1>1 DEF Starts
  <1> QED
    BY <1>4, <1>5, <1>6

-----------------------------------------------------------------------------
(* handle_mword and handle_regexp.                                         *)

\* The search from the start of the string finds the word if it has it.
LEMMA HasIs ==
    ASSUME NEW s \in Strings, NEW w \in Strings, w # <<>>
    PROVE  isincluded(w, s, 0) # NULL <=> \E p \in Starts(s) : IsWord(w, s, p)
  <1>1. Len(s) \in Nat /\ 0 \in 0 .. Len(s) /\ Fresh(w, s, 0)
    BY LenProperties, FreshAtStart DEF Strings
  <1>2. IF Found(w, s, 0) = {} THEN isincluded(w, s, 0) = NULL
        ELSE isincluded(w, s, 0) \in Found(w, s, 0)
    BY <1>1, IncludedIs
  <1>3. NULL \notin Found(w, s, 0)
    BY <1>1 DEF Found, Starts, NULL
  <1>4. Found(w, s, 0) # {} <=> \E p \in Starts(s) : IsWord(w, s, p)
    BY <1>1 DEF Found, Starts
  <1> QED
    BY <1>2, <1>3, <1>4

\* handle_mword finds the lines that have every word.
LEMMA MwordIs ==
    ASSUME NEW s \in Strings, NEW words \in Seq(Strings), \A k \in DOMAIN words : words[k] # <<>>
    PROVE  MwordIn(words, s) <=> \A k \in DOMAIN words : \E p \in Starts(s) : IsWord(words[k], s, p)
  <1>1. ASSUME NEW k \in DOMAIN words
        PROVE  isincluded(words[k], s, 0) # NULL <=> \E p \in Starts(s) : IsWord(words[k], s, p)
    <2>1. words[k] \in Strings
      BY LenProperties, ElementOfSeq
    <2> QED
      BY <2>1, HasIs
  <1> QED
    BY <1>1 DEF MwordIn

\* Where word1 stands first, and the two words after it.
LEMMA FirstOf ==
    ASSUME NEW s \in Strings, NEW w \in Strings, w # <<>>, isincluded(w, s, 0) # NULL
    PROVE  LET p == isincluded(w, s, 0)
               n == nextWord(s, p)
           IN  /\ p \in Starts(s) /\ IsWord(w, s, p)
               /\ \A r \in Starts(s) : IsWord(w, s, r) => p <= r
               /\ n \in p + 1 .. Len(s)
               /\ n = Len(s) \/ n \in Starts(s)
               /\ \A r \in Starts(s) : p < r => n <= r
  <1> DEFINE p == isincluded(w, s, 0)
  <1>1. Len(s) \in Nat /\ 0 \in 0 .. Len(s) /\ Fresh(w, s, 0)
    BY LenProperties, FreshAtStart DEF Strings
  <1>2. p \in Found(w, s, 0) /\ \A r \in Found(w, s, 0) : p <= r
    BY <1>1, IncludedIs
  <1>3. p \in Starts(s) /\ IsWord(w, s, p) /\ \A r \in Starts(s) : IsWord(w, s, r) => p <= r
    BY <1>1, <1>2 DEF Found, Starts
  <1>4. p \in 0 .. Len(s) - 1
    BY <1>3 DEF Starts
  <1> HIDE DEF p
  <1>5. /\ nextWord(s, p) \in p + 1 .. Len(s)
        /\ nextWord(s, p) = Len(s) \/ nextWord(s, p) \in Starts(s)
        /\ \A r \in Starts(s) : p < r => nextWord(s, p) <= r
    BY <1>4, NextWordIs
  <1> QED
    BY <1>3, <1>5 DEF p

\* Where the search for word2 begins: two words after word1, or nowhere.
LEMMA AfterIs ==
    ASSUME NEW s \in Strings, NEW w \in Strings, w # <<>>, isincluded(w, s, 0) # NULL
    PROVE  LET n == nextWord(s, isincluded(w, s, 0))
           IN  IF n = Len(s) THEN AfterFirst(w, s) = NULL
               ELSE /\ n \in Starts(s)
                    /\ AfterFirst(w, s) \in n + 1 .. Len(s)
                    /\ AfterFirst(w, s) = Len(s) \/ AfterFirst(w, s) \in Starts(s)
                    /\ \A r \in Starts(s) : n < r => AfterFirst(w, s) <= r
  <1> DEFINE n == nextWord(s, isincluded(w, s, 0))
  <1>1. Len(s) \in Nat
    BY LenProperties DEF Strings
  <1>2. n \in Nat /\ n \in 0 .. Len(s) /\ (n = Len(s) \/ n \in Starts(s))
    <2>1. isincluded(w, s, 0) \in Nat
      BY <1>1, FirstOf DEF Starts
    <2> QED
      BY <1>1, <2>1, FirstOf
  <1>3. AfterFirst(w, s) = nextWord(s, n)
    BY DEF AfterFirst
  <1> HIDE DEF n
  <1>4. CASE n = Len(s)
    BY <1>3, <1>4 DEF nextWord, n
  <1>5. CASE n # Len(s)
    <2>1. n \in 0 .. Len(s) - 1
      BY <1>1, <1>2, <1>5
    <2> QED
      BY <1>2, <1>3, <1>5, <2>1, NextWordIs DEF n
  <1> QED
    BY <1>4, <1>5 DEF n

\* handle_regexp crashes where a word1 that is not empty stands first as the last word.
LEMMA RegexpCrashIs ==
    ASSUME NEW s \in Strings, NEW words \in Seq(Strings), words[1] \in Strings, words[1] # <<>>
    PROVE  RegexpCrash(words, s) <=>
               \E p \in Starts(s) :
                   /\ IsWord(words[1], s, p)
                   /\ \A r \in Starts(s) : r <= p /\ (IsWord(words[1], s, r) => r = p)
  <1> DEFINE w == words[1]
             f == isincluded(w, s, 0)
             n == nextWord(s, f)
             Last(p) == \A r \in Starts(s) : r <= p /\ (IsWord(w, s, r) => r = p)
  <1> HIDE DEF w
  <1>1. w \in Strings /\ w # <<>> /\ Len(s) \in Nat
    BY LenProperties DEF Strings, w
  <1>2. Starts(s) \subseteq 0 .. Len(s) - 1
    BY DEF Starts
  <1>3. ASSUME f # NULL, AfterFirst(w, s) = NULL
        PROVE  f \in Starts(s) /\ IsWord(w, s, f) /\ Last(f)
    <2>1. /\ f \in Starts(s) /\ IsWord(w, s, f)
          /\ \A r \in Starts(s) : IsWord(w, s, r) => f <= r
          /\ \A r \in Starts(s) : f < r => n <= r
      BY <1>1, <1>3, FirstOf
    <2>2. n = Len(s)
      <3>1. n \in Nat
        BY <1>1, <1>2, <1>3, FirstOf
      <3>2. SUFFICES ASSUME n # Len(s) PROVE FALSE
        OBVIOUS
      <3>3. NULL \in n + 1 .. Len(s)
        BY <1>1, <1>3, <3>2, AfterIs
      <3> QED
        BY <3>1, <3>3 DEF NULL
    <2> HIDE DEF f, n
    <2>3. ASSUME NEW r \in Starts(s)
          PROVE  r <= f /\ (IsWord(w, s, r) => r = f)
      <3>1. r \in 0 .. Len(s) - 1 /\ f \in 0 .. Len(s) - 1
        BY <1>2, <2>1
      <3>2. r <= f
        BY <1>1, <2>1, <2>2, <3>1
      <3> QED
        BY <1>1, <2>1, <3>1, <3>2
    <2> QED
      BY <2>1, <2>3
  <1>4. ASSUME NEW p \in Starts(s), IsWord(w, s, p), Last(p)
        PROVE  f # NULL /\ AfterFirst(w, s) = NULL
    <2>1. f # NULL
      BY <1>1, <1>4, HasIs
    <2>2. f = p
      <3>1. f \in Starts(s) /\ IsWord(w, s, f)
        BY <1>1, <2>1, FirstOf
      <3> QED
        BY <1>4, <3>1
    <2>3. n = Len(s)
      <3>1. n \in p + 1 .. Len(s) /\ (n = Len(s) \/ n \in Starts(s))
        BY <1>1, <2>1, <2>2, FirstOf
      <3>2. ~ (n \in Starts(s))
        BY <1>1, <1>2, <1>4, <3>1
      <3> QED
        BY <3>1, <3>2
    <2> QED
      BY <1>1, <2>1, <2>3, AfterIs
  <1>5. RegexpCrash(words, s) <=> f # NULL /\ AfterFirst(w, s) = NULL
    BY DEF RegexpCrash, w
  <1>6. RegexpCrash(words, s) <=> \E p \in Starts(s) : IsWord(w, s, p) /\ Last(p)
    BY <1>3, <1>4, <1>5
  <1> QED
    BY <1>6 DEF w

\* The empty word stands at the beginning of a line with a blank there, and the word
\* after it is the first one; without one handle_regexp crashes.
LEMMA EmptyCrashIs ==
    ASSUME NEW s \in Strings, NEW words, words[1] = <<>>
    PROVE  RegexpCrash(words, s) <=> s # <<>> /\ Starts(s) = {}
  <1> DEFINE w == <<>>
             n == nextWord(s, 0)
  <1>1. /\ Len(s) \in Nat /\ (Len(s) = 0 <=> s = <<>>) /\ 0 \in 0 .. Len(s)
        /\ w \in Strings /\ Len(w) = 0 /\ DOMAIN w = {}
    <2>1. w \in Strings
      BY DEF Strings
    <2>2. Len(s) \in Nat /\ (Len(s) = 0 <=> s = <<>>)
      BY LenProperties, EmptySeq DEF Strings
    <2> QED
      BY <2>1, <2>2
  <1>2. RegexpCrash(words, s) <=> isincluded(w, s, 0) # NULL /\ AfterFirst(w, s) = NULL
    BY DEF RegexpCrash
  <1>3. CASE s = <<>>
    <2>1. isincluded(w, s, 0) = NULL
      BY <1>1, <1>3, SearchIs
    <2> QED
      BY <1>2, <1>3, <2>1
  <1>4. CASE 0 \in Starts(s)
    <2>1. Found(w, s, 0) = {}
      <3>1. ASSUME NEW r \in Starts(s) PROVE ~ IsWord(w, s, r)
        <4>1. r \in 0 .. Len(s) - 1 /\ r + Len(w) = r /\ s[r + 1] \notin Blanks
          BY <1>1 DEF Starts
        <4> QED
          BY <1>1, <4>1 DEF IsWord, IsPhrase
      <3> QED
        BY <3>1 DEF Found
    <2>2. isincluded(w, s, 0) = NULL
      BY <1>1, <1>4, <2>1, IncludedIs DEF Fresh
    <2> QED
      BY <1>2, <1>4, <2>2
  <1>5. CASE s # <<>> /\ 0 \notin Starts(s)
    <2>1. 0 \in 0 .. Len(s) - 1 /\ 0 # Len(s)
      BY <1>1, <1>5
    <2>2. s[0 + 1] \in Blanks
      BY <1>5, <2>1 DEF Starts
    <2>3. Word(s, 0) = w
      <3>1. SubSeq(s, 0 + 1, 0 + Len(w)) = w
        BY <1>1
      <3>2. IsWord(w, s, 0)
        BY <1>1, <2>1, <2>2, <3>1 DEF IsWord, IsPhrase, IsAt
      <3> QED
        BY <1>1, <3>2, WordIs
    <2>4. isincluded(w, s, 0) = 0
      BY <1>1, <2>1, <2>3, SearchIs
    <2>5. /\ n \in 0 + 1 .. Len(s)
          /\ n = Len(s) \/ n \in Starts(s)
          /\ \A r \in Starts(s) : 0 < r => n <= r
      BY <2>1, NextWordIs
    <2>6. AfterFirst(w, s) = nextWord(s, n)
      BY <2>4 DEF AfterFirst
    <2> HIDE DEF n
    <2>7. CASE n = Len(s)
      <3>1. AfterFirst(w, s) = NULL
        BY <2>6, <2>7 DEF nextWord
      <3>2. ASSUME NEW r \in Starts(s) PROVE FALSE
        <4>1. r \in 0 .. Len(s) - 1 /\ r # 0
          BY <1>5 DEF Starts
        <4> QED
          BY <1>1, <2>5, <2>7, <4>1
      <3> QED
        BY <1>2, <1>5, <2>4, <3>1, <3>2 DEF NULL
    <2>8. CASE n # Len(s)
      <3>1. n \in 0 .. Len(s) - 1 /\ n \in Starts(s)
        BY <1>1, <2>5, <2>8
      <3>2. nextWord(s, n) \in n + 1 .. Len(s)
        BY <3>1, NextWordIs
      <3>3. AfterFirst(w, s) # NULL
        BY <1>1, <2>6, <3>1, <3>2 DEF NULL
      <3> QED
        BY <1>2, <3>1, <3>3
    <2> QED
      BY <2>7, <2>8
  <1> QED
    BY <1>3, <1>4, <1>5

\* Otherwise it finds word1, another word and word2 in this order.
LEMMA RegexpIs ==
    ASSUME NEW s \in Strings, NEW words \in Seq(Strings), ~ RegexpCrash(words, s),
           words[1] \in Strings, words[1] # <<>>, words[2] \in Strings, words[2] # <<>>
    PROVE  RegexpIn(words, s) <=>
               \E p, m, r \in Starts(s) :
                   p < m /\ m < r /\ IsWord(words[1], s, p) /\ IsWord(words[2], s, r)
  <1> DEFINE w == words[1]
             x == words[2]
             f == isincluded(w, s, 0)
             n == nextWord(s, f)
             a == AfterFirst(w, s)
             Between(p, m, r) == p < m /\ m < r /\ IsWord(w, s, p) /\ IsWord(x, s, r)
  <1> HIDE DEF w, x
  <1>1. w \in Strings /\ w # <<>> /\ x \in Strings /\ x # <<>> /\ Len(s) \in Nat
    BY LenProperties DEF Strings, w, x
  <1>2. Starts(s) \subseteq 0 .. Len(s) - 1
    BY DEF Starts
  <1>3. RegexpIn(words, s) <=> f # NULL /\ isincluded(x, s, a) # NULL
    BY DEF RegexpIn, w, x
  <1>4. CASE f = NULL
    <2>1. \A p \in Starts(s) : ~ IsWord(w, s, p)
      BY <1>1, <1>4, HasIs
    <2> QED
      BY <1>3, <1>4, <2>1 DEF w
  <1>5. CASE f # NULL
    <2>1. /\ f \in Starts(s) /\ IsWord(w, s, f)
          /\ \A r \in Starts(s) : IsWord(w, s, r) => f <= r
          /\ n \in f + 1 .. Len(s)
          /\ \A r \in Starts(s) : f < r => n <= r
      BY <1>1, <1>5, FirstOf
    <2>2. n # Len(s)
      <3>1. a # NULL
        BY <1>5 DEF RegexpCrash, w
      <3> QED
        BY <1>1, <1>5, <3>1, AfterIs
    <2>3. /\ n \in Starts(s) /\ a \in n + 1 .. Len(s)
          /\ a = Len(s) \/ a \in Starts(s)
          /\ \A r \in Starts(s) : n < r => a <= r
      BY <1>1, <1>5, <2>2, AfterIs
    <2> HIDE DEF f, n, a
    <2>4. a \in 0 .. Len(s) /\ Fresh(x, s, a)
      BY <1>1, <1>2, <2>3 DEF Fresh
    <2>5. isincluded(x, s, a) # NULL <=> Found(x, s, a) # {}
      <3>1. NULL \notin Found(x, s, a)
        BY <1>2 DEF Found, NULL
      <3> QED
        BY <1>1, <2>4, <3>1, IncludedIs
    <2>6. ASSUME NEW r \in Found(x, s, a)
          PROVE  r \in Starts(s) /\ Between(f, n, r)
      <3>1. r \in Starts(s) /\ a <= r /\ IsWord(x, s, r)
        BY DEF Found
      <3>2. f < n /\ n < r
        BY <1>1, <1>2, <2>1, <2>3, <3>1
      <3> QED
        BY <2>1, <3>1, <3>2
    <2>7. ASSUME NEW p \in Starts(s), NEW m \in Starts(s), NEW r \in Starts(s), Between(p, m, r)
          PROVE  r \in Found(x, s, a)
      <3>1. f <= p
        BY <2>1, <2>7
      <3>2. n <= m
        BY <1>1, <1>2, <2>1, <2>7, <3>1
      <3>3. a <= r
        BY <1>1, <1>2, <2>3, <2>7, <3>2
      <3> QED
        BY <2>7, <3>3 DEF Found
    <2>8. Found(x, s, a) # {} <=> \E p, m, r \in Starts(s) : Between(p, m, r)
      BY <2>1, <2>3, <2>6, <2>7
    <2> QED
      BY <1>3, <1>5, <2>5, <2>8 DEF w, x
  <1> QED
    BY <1>4, <1>5

-----------------------------------------------------------------------------
(* resolve_input.                                                          *)

\* Where the word at p of a line of input ends.
SpaceEnd(s, p) == First({e \in p .. Len(s) : e = Len(s) \/ s[e + 1] = " "})

\* The words of the line from p on.
Splits(s) ==
    CHOOSE from : from = [p \in 0 .. Len(s) |->
        IF p = Len(s) THEN <<>>
        ELSE <<SubSeq(s, p + 1, SpaceEnd(s, p))>>
             \o (IF SpaceEnd(s, p) = Len(s) THEN <<>> ELSE from[SpaceEnd(s, p) + 1])]

\* The words of a line of input are strings.
LEMMA SplitIs ==
    ASSUME NEW s \in Strings
    PROVE  Split(s) \in Seq(Strings)
  <1> DEFINE N == Len(s)
             e(q) == SpaceEnd(s, q)
             word(q) == SubSeq(s, q + 1, e(q))
             T == Seq(Strings)
             B == {q \in 0 .. N : q = N \/ e(q) = N}
             last == [q \in 0 .. N |-> IF q = N THEN <<>> ELSE <<word(q)>> \o <<>>]
             nxt == [q \in 0 .. N |-> e(q) + 1]
             c == [q \in 0 .. N |-> [t \in T |-> <<word(q)>> \o t]]
  <1>1. N \in Nat
    BY LenProperties DEF Strings
  <1>2. ASSUME NEW q \in 0 .. N
        PROVE  e(q) \in q .. N
    <2> DEFINE E == {k \in q .. N : k = N \/ s[k + 1] = " "}
    <2>1. E \subseteq Nat /\ N \in E
      <3> HIDE DEF N
      <3>1. N \in q .. N /\ q .. N \subseteq Nat
        BY <1>1
      <3> QED
        BY <3>1
    <2>2. e(q) = First(E)
      BY DEF SpaceEnd
    <2>3. e(q) \in E
      <3> HIDE DEF E, e, N
      <3> QED
        BY <2>1, <2>2, FirstIs
    <2> QED
      BY <2>3
  <1>3. \A q \in 0 .. N : q \notin B => nxt[q] \in q + 1 .. N
    <2>1. ASSUME NEW q \in 0 .. N, q \notin B
          PROVE  e(q) + 1 \in q + 1 .. N
      <3>1. e(q) \in q .. N /\ e(q) # N
        BY <1>2, <2>1
      <3> HIDE DEF e, N
      <3> QED
        BY <1>1, <3>1
    <2> QED
      BY <2>1
  <1>4. ASSUME NEW q \in 0 .. N
        PROVE  <<word(q)>> \in T
    <2>1. word(q) \in Strings
      BY <1>2, Part DEF Strings
    <2> HIDE DEF word
    <2> QED
      BY <2>1
  <1>5. last \in [0 .. N -> T] /\ c \in [0 .. N -> [T -> T]]
    <2> HIDE DEF word, e, N
    <2>1. <<>> \in T
      OBVIOUS
    <2>2. \A q \in 0 .. N : \A t \in T : <<word(q)>> \o t \in T
      BY <1>4, ConcatProperties
    <2> HIDE DEF T
    <2> QED
      BY <2>1, <2>2
  <1>6. PICK f \in [0 .. N -> T] : f = [q \in 0 .. N |-> IF q \in B THEN last[q] ELSE c[q][f[nxt[q]]]]
    <2> HIDE DEF N, T, B, last, nxt, c
    <2>1. \E f \in [0 .. N -> T] : Solves(f, N, B, last, nxt, c)
      BY <1>1, <1>3, <1>5, Recursion
    <2> QED
      BY <2>1 DEF Solves
  <1>7. f = [q \in 0 .. N |-> IF q = N THEN <<>>
                              ELSE <<word(q)>> \o (IF e(q) = N THEN <<>> ELSE f[e(q) + 1])]
    <2>1. ASSUME NEW q \in 0 .. N
          PROVE  f[q] = IF q = N THEN <<>> ELSE <<word(q)>> \o (IF e(q) = N THEN <<>> ELSE f[e(q) + 1])
      <3>1. CASE q \in B
        <4>1. f[q] = last[q]
          BY <1>6, <3>1
        <4> HIDE DEF word, e, N
        <4> QED
          BY <3>1, <4>1
      <3>2. CASE q \notin B
        <4>1. nxt[q] = e(q) + 1 /\ nxt[q] \in 0 .. N
          BY <1>1, <1>3, <3>2
        <4>2. f[nxt[q]] \in T
          BY <1>6, <4>1
        <4>3. f[q] = c[q][f[nxt[q]]]
          BY <1>6, <3>2
        <4>4. c[q][f[nxt[q]]] = <<word(q)>> \o f[nxt[q]]
          <5> HIDE DEF T, nxt, word
          <5> QED
            BY <4>2
        <4> HIDE DEF word, e, N, nxt, c
        <4> QED
          BY <3>2, <4>1, <4>3, <4>4
      <3> QED
        BY <3>1, <3>2
    <2> HIDE DEF word, e, N
    <2> QED
      BY <1>6, <2>1
  <1>8. Splits(s) = CHOOSE g : g = [q \in 0 .. N |-> IF q = N THEN <<>>
                              ELSE <<word(q)>> \o (IF e(q) = N THEN <<>> ELSE g[e(q) + 1])]
    BY DEF Splits
  <1> DEFINE G == Splits(s)
  <1>9. G = [q \in 0 .. N |-> IF q = N THEN <<>>
                              ELSE <<word(q)>> \o (IF e(q) = N THEN <<>> ELSE G[e(q) + 1])]
    <2> HIDE DEF word, e, N
    <2> QED
      BY <1>7, <1>8
  <1> DEFINE S == {q \in 0 .. N : G[q] \in T}
  <1> HIDE DEF G
  <1>10. ASSUME NEW q \in 0 .. N, \A r \in q + 1 .. N : r \in S
         PROVE  q \in S
    <2>1. CASE q = N
      BY <1>9, <2>1
    <2>2. CASE q # N
      <3>1. e(q) # N => e(q) + 1 \in q + 1 .. N
        BY <1>3, <2>2
      <3> DEFINE t == IF e(q) = N THEN <<>> ELSE G[e(q) + 1]
      <3>2. t \in T
        BY <1>10, <3>1
      <3>3. <<word(q)>> \o t \in T
        BY <1>4, <3>2, ConcatProperties
      <3> HIDE DEF word, e, T
      <3> QED
        BY <1>9, <2>2, <3>3
    <2> QED
      BY <2>1, <2>2
  <1>11. 0 .. N \subseteq S
    <2> HIDE DEF S, N
    <2> QED
      BY <1>1, <1>10, Downward
  <1>12. G[0] \in T
    BY <1>1, <1>11
  <1> QED
    BY <1>12 DEF Split, Splits, SpaceEnd, G

\* The lines of the input are strings.
LEMMA StringsOf ==
    ASSUME NEW s \in Seq(STRING)
    PROVE  s \in Strings
  BY SeqMonotonic DEF Strings, Chars

\* What is left of a string without its first and its last character.
LEMMA Inner ==
    ASSUME NEW s \in Strings, NEW c, s # <<>>, s[1] = c, s # <<c>>
    PROVE  SubSeq(s, 2, Len(s) - 1) \in Strings
  <1>1. s \in Seq(Chars) /\ Len(s) \in Nat
    BY LenProperties DEF Strings
  <1>2. Len(s) # 0
    BY <1>1, EmptySeq
  <1>3. Len(s) # 1
    <2> SUFFICES ASSUME Len(s) = 1
                 PROVE  s = <<c>>
      OBVIOUS
    <2>1. c \in Chars
      BY <1>1, ElementOfSeq
    <2>2. <<c>> \in Seq(Chars) /\ Len(<<c>>) = 1 /\ <<c>>[1] = c
      BY <2>1
    <2>3. \A k \in 1 .. Len(s) : s[k] = <<c>>[k]
      BY <2>2
    <2> QED
      BY <1>1, <2>2, <2>3, SeqEqual
  <1> DEFINE N == Len(s)
  <1> HIDE DEF N
  <1>4. N \in Nat /\ N # 0 /\ N # 1
    BY <1>1, <1>2, <1>3 DEF N
  <1>5. 1 \in 0 .. N /\ N - 1 \in 1 .. N /\ 1 + 1 = 2
    BY <1>4
  <1>6. SubSeq(s, 1 + 1, N - 1) \in Seq(Chars)
    BY <1>1, <1>5, Part DEF N
  <1> QED
    BY <1>5, <1>6 DEF N, Strings

\* The parts of a string before and after the character that a search found.
LEMMA Around ==
    ASSUME NEW s \in Strings, NEW sub, issubstring(sub, s, 0) # NULL
    PROVE  /\ SubSeq(s, 1, issubstring(sub, s, 0)) \in Strings
           /\ SubSeq(s, issubstring(sub, s, 0) + 2, Len(s)) \in Strings
  <1> DEFINE N == Len(s)
             at == {k \in 0 .. N - 1 : sub # <<>> /\ IsAt(sub, s, k)}
             e == issubstring(sub, s, 0)
  <1>1. s \in Seq(Chars) /\ N \in Nat
    BY LenProperties DEF Strings
  <1>2. e = IF at = {} THEN NULL ELSE First(at)
    BY DEF issubstring
  <1>3. at \subseteq 0 .. N - 1
    OBVIOUS
  <1>4. e # NULL
    OBVIOUS
  <1> HIDE DEF at, e
  <1>5. at \subseteq Nat
    <2> HIDE DEF N
    <2>1. 0 .. N - 1 \subseteq Nat
      BY <1>1
    <2> QED
      BY <1>3, <2>1
  <1>6. e \in at
    BY <1>2, <1>4, <1>5, FirstIs
  <1>7. e \in 0 .. N - 1
    BY <1>3, <1>6
  <1>8. /\ 0 \in 0 .. N /\ e \in 0 .. N /\ 0 + 1 = 1
        /\ e + 1 \in 0 .. N /\ N \in e + 1 .. N /\ (e + 1) + 1 = e + 2
    <2> HIDE DEF N
    <2> QED
      BY <1>1, <1>7
  <1>9. SubSeq(s, 0 + 1, e) \in Seq(Chars) /\ SubSeq(s, (e + 1) + 1, N) \in Seq(Chars)
    <2> HIDE DEF N
    <2> QED
      BY <1>1, <1>8, Part DEF N
  <1> QED
    BY <1>8, <1>9 DEF e, Strings

\* What is entered is the end of the program or one of four kinds of query, whose words
\* are strings.
LEMMA QueryIs ==
    ASSUME NEW input \in Inputs
    PROVE  LET q == resolve_input(input)
           IN  \/ q.mode = "EXIT"
               \/ q.mode = "MWORD" /\ q.words \in Seq(Strings)
               \/ q.mode \in {"SWORD", "CWORD"} /\ q.words \in Seq(Strings) /\ DOMAIN q.words = {1}
               \/ q.mode = "REGEXP" /\ q.words \in Seq(Strings) /\ DOMAIN q.words = {1, 2}
  <1> DEFINE N == Len(input)
             star == issubstring(<<"*">>, input, 0)
  <1>1. input \in Seq(STRING) /\ input # <<"\"">> /\ N \in Nat
    BY InputAssumption, LenProperties
  <1>2. input \in Strings
    BY <1>1, StringsOf
  <1>3. ASSUME NEW p \in 0 .. N, NEW e \in p .. N
        PROVE  SubSeq(input, p + 1, e) \in Strings
    BY <1>1, <1>2, Part DEF Strings
  <1>4. ASSUME NEW x \in Strings
        PROVE  <<x>> \in Seq(Strings) /\ DOMAIN <<x>> = {1}
    OBVIOUS
  <1>5. ASSUME NEW x \in Strings, NEW y \in Strings
        PROVE  <<x, y>> \in Seq(Strings) /\ DOMAIN <<x, y>> = {1, 2}
    <2>1. <<x, y>> \in Seq(Strings) /\ Len(<<x, y>>) = 2
      OBVIOUS
    <2>2. DOMAIN <<x, y>> = 1 .. 2
      BY <2>1, LenProperties
    <2> QED
      BY <2>1, <2>2
  <1>6. ASSUME input # <<>>, input[1] = "\""
        PROVE  SubSeq(input, 2, N - 1) \in Strings
    <2>1. input # <<"\"">>
      BY <1>1
    <2> QED
      BY <1>2, <1>6, <2>1, Inner
  <1>7. ASSUME star # NULL
        PROVE  SubSeq(input, 1, star) \in Strings /\ SubSeq(input, star + 2, N) \in Strings
    BY <1>2, <1>7, Around
  <1>8. Split(input) \in Seq(Strings)
    BY <1>2, SplitIs
  <1> QED
    BY <1>2, <1>4, <1>5, <1>6, <1>7, <1>8 DEF resolve_input

\* A line that was indexed is a string again.
LEMMA TextIs ==
    ASSUME IndexInv, NEW node \in Lines
    PROVE  extractLine(node) \in Strings
  <1>1. Ranges
    BY TypeRanges DEF IndexInv
  <1>2. PICK k \in 1 .. Len(index) : node = index[k]
    BY <1>1, LenProperties DEF Lines, Ranges
  <1>3. node \in Nodes /\ IsLine(k)
    BY <1>1, <1>2, ElementOfSeq DEF IndexInv, Ranges
  <1> DEFINE e == node.offset + node.size
             line == SubSeq(file, node.offset + 1, e)
             text == IF line[Len(line)] = Newline THEN SubSeq(line, 1, Len(line) - 1) ELSE line
  <1>4. /\ file \in Seq(STRING) /\ Len(file) \in Nat
        /\ node.offset \in 0 .. Len(file) /\ e \in node.offset .. Len(file) /\ e - node.offset \in Nat \ {0}
    <2>1. file \in Seq(STRING) /\ Len(file) \in Nat
      BY <1>1, LenProperties DEF Ranges
    <2>2. node.offset \in Nat /\ node.size \in Nat
      BY <1>3 DEF Nodes
    <2>3. node.offset < e /\ e <= Len(file)
      BY <1>2, <1>3 DEF IsLine, EndOf
    <2> DEFINE a == node.offset
               z == node.size
               n == Len(file)
    <2> HIDE DEF a, z, n
    <2>4. a \in 0 .. n /\ a + z \in a .. n /\ (a + z) - a \in Nat \ {0}
      BY <2>1, <2>2, <2>3 DEF a, z, n
    <2> QED
      BY <2>1, <2>4 DEF a, z, n
  <1>5. line \in Seq(STRING) /\ Len(line) \in Nat \ {0}
    <2> HIDE DEF e
    <2> QED
      BY <1>4, Part
  <1>6. text \in Seq(STRING)
    <2> HIDE DEF line
    <2>1. 0 \in 0 .. Len(line) /\ Len(line) - 1 \in 0 .. Len(line) /\ 0 + 1 = 1
      BY <1>5
    <2>2. SubSeq(line, 0 + 1, Len(line) - 1) \in Seq(STRING)
      BY <1>5, <2>1, Part
    <2> QED
      BY <1>5, <2>1, <2>2
  <1>7. extractLine(node) = [j \in DOMAIN text |-> IF text[j] \in DOMAIN Lowered THEN Lowered[text[j]] ELSE text[j]]
    BY DEF extractLine
  <1> HIDE DEF text
  <1>8. DOMAIN text = 1 .. Len(text) /\ Len(text) \in Nat /\ \A j \in 1 .. Len(text) : text[j] \in STRING
    BY <1>6, LenProperties, ElementOfSeq
  <1>9. extractLine(node) \in [1 .. Len(text) -> Chars]
    BY <1>7, <1>8 DEF Chars
  <1> QED
    BY <1>8, <1>9, SeqDef DEF Strings

\* The words of a query of each kind.
Words(q) ==
    \/ q.mode = "MWORD" /\ q.words \in Seq(Strings)
    \/ q.mode \in {"SWORD", "CWORD"} /\ q.words \in Seq(Strings) /\ DOMAIN q.words = {1}
    \/ q.mode = "REGEXP" /\ q.words \in Seq(Strings) /\ DOMAIN q.words = {1, 2}

\* What matches the same texts is found in the same lines.
LEMMA SameLines ==
    ASSUME NEW f, NEW g, \A s \in Texts : f[s] <=> g[s]
    PROVE  LinesWith(f) = LinesWith(g)
  <1>1. \A node \in Lines : extractLine(node) \in Texts
    BY DEF Texts
  <1>2. \A node \in Lines : f[extractLine(node)] <=> g[extractLine(node)]
    BY <1>1
  <1>3. {n \in Lines : f[extractLine(n)]} = {n \in Lines : g[extractLine(n)]}
    BY <1>2
  <1> QED
    BY <1>3 DEF LinesWith

\* The answer is the one that is expected.
LEMMA AnswerIs ==
    ASSUME IndexInv, NEW q, Words(q), Proper(q), ~ Crash(q)
    PROVE  Answer(q) = Expected(q)
  <1>1. \A s \in Texts : s \in Strings
    BY TextIs DEF Texts
  <1>2. ASSUME NEW k \in DOMAIN q.words
        PROVE  q.words[k] \in Strings /\ q.words[k] # <<>> /\ q.words[k][1] \notin Blanks
    <2>1. q.words \in Seq(Strings)
      BY DEF Words
    <2> QED
      BY <2>1, LenProperties, ElementOfSeq DEF Proper
  <1>3. CASE q.mode = "SWORD"
    <2>1. 1 \in DOMAIN q.words
      BY <1>3 DEF Words
    <2>2. \A s \in Texts : SwordAt(q.words[1], s) = {p \in Starts(s) : IsWord(q.words[1], s, p)}
      BY <1>1, <1>2, <2>1, SwordIs
    <2>3. [s \in Texts |-> SwordAt(q.words[1], s)]
              = [s \in Texts |-> {p \in Starts(s) : IsWord(q.words[1], s, p)}]
      BY <2>2
    <2> QED
      BY <1>3, <2>3 DEF Answer, Expected
  <1>4. CASE q.mode = "CWORD"
    <2>1. 1 \in DOMAIN q.words
      BY <1>4 DEF Words
    <2>2. \A s \in Texts : CwordAt(q.words[1], s) = {p \in Starts(s) : IsPhrase(q.words[1], s, p)}
      BY <1>1, <1>2, <2>1, CwordIs
    <2>3. [s \in Texts |-> CwordAt(q.words[1], s)]
              = [s \in Texts |-> {p \in Starts(s) : IsPhrase(q.words[1], s, p)}]
      BY <2>2
    <2> QED
      BY <1>4, <2>3 DEF Answer, Expected
  <1>5. CASE q.mode = "MWORD"
    <2>1. q.words \in Seq(Strings)
      BY DEF Words
    <2>2. \A s \in Texts : MwordIn(q.words, s)
              <=> \A k \in DOMAIN q.words : \E p \in Starts(s) : IsWord(q.words[k], s, p)
      BY <1>1, <1>2, <2>1, MwordIs
    <2> DEFINE All(s) == \A k \in DOMAIN q.words : \E p \in Starts(s) : IsWord(q.words[k], s, p)
               f == [s \in Texts |-> MwordIn(q.words, s)]
               g == [s \in Texts |-> All(s)]
    <2>3. \A s \in Texts : f[s] <=> g[s]
      <3>1. \A s \in Texts : MwordIn(q.words, s) <=> All(s)
        BY <2>2
      <3> HIDE DEF All
      <3> QED
        BY <3>1
    <2>4. LinesWith(f) = LinesWith(g)
      <3> HIDE DEF f, g
      <3> QED
        BY <2>3, SameLines
    <2> QED
      BY <1>5, <2>4 DEF Answer, Expected
  <1>6. CASE q.mode = "REGEXP"
    <2> DEFINE Between(s) == \E p, m, r \in Starts(s) :
                   p < m /\ m < r /\ IsWord(q.words[1], s, p) /\ IsWord(q.words[2], s, r)
    <2>1. q.words \in Seq(Strings) /\ 1 \in DOMAIN q.words /\ 2 \in DOMAIN q.words
      BY <1>6 DEF Words
    <2>2. \A s \in Texts : ~ RegexpCrash(q.words, s)
      BY <1>6 DEF Crash, Texts
    <2>3. \A s \in Texts : RegexpIn(q.words, s) <=> Between(s)
      BY <1>1, <1>2, <2>1, <2>2, RegexpIs
    <2> DEFINE f == [s \in Texts |-> RegexpIn(q.words, s)]
               g == [s \in Texts |-> Between(s)]
    <2>4. \A s \in Texts : f[s] <=> g[s]
      <3> HIDE DEF Between
      <3> QED
        BY <2>3
    <2>5. LinesWith(f) = LinesWith(g)
      <3> HIDE DEF f, g
      <3> QED
        BY <2>4, SameLines
    <2> QED
      BY <1>6, <2>5 DEF Answer, Expected
  <1> QED
    BY <1>3, <1>4, <1>5, <1>6 DEF Words

\* What Crash says of the lines.
LEMMA CrashIs ==
    ASSUME IndexInv, NEW q, Words(q)
    PROVE  LET OnlyLast(s) == \E p \in Starts(s) :
                   /\ IsWord(q.words[1], s, p)
                   /\ \A r \in Starts(s) : r <= p /\ (IsWord(q.words[1], s, r) => r = p)
               OnlyBlanks(s) == q.words[1] = <<>> /\ s # <<>> /\ Starts(s) = {}
               Fatal(s) == OnlyLast(s) \/ OnlyBlanks(s)
           IN  Crash(q) <=> \/ index = <<>>
                            \/ q.mode = "REGEXP" /\ LinesWith([s \in Texts |-> Fatal(s)]) # {}
  <1> DEFINE OnlyLast(s) == \E p \in Starts(s) :
                 /\ IsWord(q.words[1], s, p)
                 /\ \A r \in Starts(s) : r <= p /\ (IsWord(q.words[1], s, r) => r = p)
             OnlyBlanks(s) == q.words[1] = <<>> /\ s # <<>> /\ Starts(s) = {}
             Fatal(s) == OnlyLast(s) \/ OnlyBlanks(s)
  <1>1. ASSUME q.mode = "REGEXP", NEW node \in Lines
        PROVE  RegexpCrash(q.words, extractLine(node)) <=> Fatal(extractLine(node))
    <2> DEFINE s == extractLine(node)
    <2>1. q.words \in Seq(Strings) /\ 1 \in DOMAIN q.words
      BY <1>1 DEF Words
    <2>2. q.words[1] \in Strings
      BY <2>1, LenProperties, ElementOfSeq
    <2>3. s \in Strings
      BY TextIs
    <2> HIDE DEF s
    <2>4. CASE q.words[1] # <<>>
      <3>1. RegexpCrash(q.words, s) <=> OnlyLast(s)
        BY <2>1, <2>2, <2>3, <2>4, RegexpCrashIs
      <3> QED
        BY <2>4, <3>1 DEF s
    <2>5. CASE q.words[1] = <<>>
      <3>1. RegexpCrash(q.words, s) <=> OnlyBlanks(s)
        BY <2>3, <2>5, EmptyCrashIs
      <3>2. OnlyLast(s) => OnlyBlanks(s)
        <4>1. ASSUME NEW p \in Starts(s) PROVE ~ IsWord(<<>>, s, p)
          <5>1. p + Len(<<>>) = p /\ Len(s) \in Nat /\ p \in 0 .. Len(s) - 1 /\ s[p + 1] \notin Blanks
            BY <2>3, LenProperties DEF Starts, Strings
          <5> QED
            BY <5>1 DEF IsWord, IsPhrase
        <4> QED
          BY <2>5, <4>1
      <3> QED
        BY <3>1, <3>2 DEF s
    <2> QED
      BY <2>4, <2>5
  <1>2. LinesWith([s \in Texts |-> Fatal(s)]) # {} <=> \E node \in Lines : Fatal(extractLine(node))
    <2> HIDE DEF Fatal
    <2>1. \A node \in Lines : extractLine(node) \in Texts
      BY DEF Texts
    <2> QED
      BY <2>1 DEF LinesWith
  <1>3. Crash(q) <=> \/ index = <<>>
                     \/ q.mode = "REGEXP" /\ LinesWith([s \in Texts |-> Fatal(s)]) # {}
    <2> HIDE DEF Fatal
    <2> QED
      BY <1>1, <1>2 DEF Crash
  <1> QED
    BY <1>3

-----------------------------------------------------------------------------
(* The answers.                                                            *)

\* What the program holds of the last line of input.
QueryInv ==
    /\ pc \in {"read", "index"} => query = NoQuery
    /\ query = NoQuery \/ query.mode = "EXIT" \/ Words(query)
    /\ query # NoQuery /\ pc = "input" => query.mode # "EXIT" /\ ~ Crash(query) /\ answer = Answer(query)
    /\ pc = "crashed" => query # NoQuery /\ Crash(query)
    /\ pc = "exited" => query.mode = "EXIT"

\* The crash and the answer depend on the file and the index alone.
LEMMA SameAnswer ==
    ASSUME NEW q, UNCHANGED <<file, index>>, query' = q
    PROVE  (Crash(query)' <=> Crash(q)) /\ Answer(query)' = Answer(q)
  <1>1. Lines' = Lines
    BY DEF Lines
  <1>2. ASSUME NEW node
        PROVE  extractLine(node)' = extractLine(node)
    BY DEF extractLine
  <1>3. Texts' = Texts
    BY <1>1, <1>2 DEF Texts
  <1>4. Crash(query)' <=> Crash(q)
    BY <1>1, <1>2 DEF Crash
  <1>5. ASSUME NEW f
        PROVE  Places(f)' = Places(f) /\ LinesWith(f)' = LinesWith(f)
    BY <1>1, <1>2 DEF Places, LinesWith
  <1>6. Answer(query)' = Answer(q)
    BY <1>3, <1>5 DEF Answer
  <1> QED
    BY <1>4, <1>6

\* Reading the file and asking keep what is said of the last line of input.
LEMMA QueryInvariant == ASSUME IndexInv, QueryInv, [Next]_vars PROVE QueryInv'
  <1>1. CASE UNCHANGED vars
    <2>1. UNCHANGED <<pc, file, index, query, answer>>
      BY <1>1 DEF vars, reading
    <2> QED
      BY <2>1, SameAnswer DEF QueryInv, Words
  <1>2. CASE read_file
    <2>1. pc \in {"read", "index"} /\ pc' \in {"read", "index", "input"} /\ query' = query
      BY <1>2 DEF read_file, ReadChunk, IndexLine, PartialLine, ChunkDone
    <2> QED
      BY <2>1 DEF QueryInv
  <1>3. ASSUME NEW input \in Inputs, Ask(input)
        PROVE  QueryInv'
    <2> DEFINE q == resolve_input(input)
    <2>1. /\ query' = q /\ UNCHANGED <<file, index>>
          /\ IF q.mode = "EXIT" THEN pc' = "exited" /\ answer' = {}
             ELSE IF Crash(q) THEN pc' = "crashed" /\ answer' = {}
             ELSE pc' = "input" /\ answer' = Answer(q)
      BY <1>3 DEF Ask, reading
    <2>2. q.mode = "EXIT" \/ Words(q)
      BY QueryIs DEF Words
    <2>3. q # NoQuery
      BY <2>2 DEF NoQuery, Words
    <2> HIDE DEF q
    <2>4. (Crash(query)' <=> Crash(q)) /\ Answer(query)' = Answer(q)
      BY <2>1, SameAnswer
    <2> QED
      BY <2>1, <2>2, <2>3, <2>4 DEF QueryInv, Words
  <1> QED
    BY <1>1, <1>2, <1>3 DEF Next

\* In every reachable state it holds, and the index is right.
LEMMA QueryCorrect == Spec => [](IndexInv /\ QueryInv)
  <1>1. Init => QueryInv
    BY DEF Init, QueryInv
  <1> QED
    BY <1>1, QueryInvariant, IndexCorrect, PTL DEF Spec

\* handle_sword, handle_mword, handle_cword, handle_regexp: for every file, every size
\* of the buffer and every line of input, the answer has every place where the word or
\* the phrase stands, or every line with the words of the query in it, and no other.
THEOREM Answers == Spec => []AnswersExact
  <1>1. IndexInv /\ QueryInv => AnswersExact
    BY AnswerIs DEF QueryInv, AnswersExact
  <1> QED
    BY <1>1, QueryCorrect, PTL

\* main: whatever is entered, it ends the program by a crash exactly if no line was
\* indexed, or if word1 of word1*word2 stands first as the last word of an indexed line,
\* or word1 is empty and an indexed line has blanks only.
THEOREM Crashes == Spec => []CrashOnly
  <1>1. ASSUME IndexInv, QueryInv, query.mode \notin {"NONE", "EXIT"}
        PROVE  Words(query) /\ (pc = "crashed" <=> Crash(query))
    <2>1. query # NoQuery
      BY <1>1 DEF NoQuery
    <2>2. pc \in {"input", "crashed"}
      BY <1>1, <2>1 DEF QueryInv, IndexInv, TypeOK
    <2> QED
      BY <1>1, <2>1, <2>2 DEF QueryInv
  <1>2. IndexInv /\ QueryInv => CrashOnly
    BY <1>1, CrashIs DEF CrashOnly
  <1> QED
    BY <1>2, QueryCorrect, PTL
=============================================================================
