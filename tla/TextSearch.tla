----------------------------- MODULE TextSearch -----------------------------
(***************************************************************************)
(* The text search of pa1: main.c reads a file in chunks and indexes its   *)
(* lines, then answers the lines of its input: a word, several words, a    *)
(* phrase in quotes, or word1*word2; mystring.c has the string functions.  *)
(*                                                                         *)
(* A string is a sequence of characters without its NUL; a pointer into it *)
(* is its offset, from 0 to the length.  The file does not change.         *)
(***************************************************************************)
EXTENDS Integers, Sequences

CONSTANTS
    Files,      \* contents the file may have
    Inputs,     \* lines that may be entered
    Lowered,    \* Lowered[c]: the small letter for a capital c
    BUFSIZE     \* bytes read at a time

Newline == "\n"
Blanks  == {" ", "\t"}
NULL    == -1
PA1EXIT == <<"P", "A", "1", "E", "X", "I", "T">>

ASSUME FileAssumption == Files \subseteq Seq(STRING) /\ BUFSIZE \in Nat \ {0}

\* A line that begins with a quote has a second character.
ASSUME InputAssumption == Inputs \subseteq Seq(STRING) \ {<<"\"">>}

VARIABLES
    pc,         \* "read" or "index" a chunk, wait for "input", or the end
    file,       \* the contents of the file
    pos,        \* offset of the file descriptor
    base,       \* where the chunk in buffer begins
    nbytes,     \* its length
    start,      \* where its next line begins
    offset,     \* offset in the file of the next line
    index,      \* indexList
    query,      \* mode and words of the last line of input
    answer      \* what was written for it: <<line>> or <<line, offset in it>>

reading == <<pos, base, nbytes, start, offset, index>>
vars    == <<pc, file, reading, query, answer>>

NoQuery == [mode |-> "NONE", words |-> <<>>]

TypeOK ==
    /\ pc \in {"read", "index", "input", "exited", "crashed"}
    /\ file \in Files
    /\ {pos, base + nbytes, offset} \subseteq 0 .. Len(file)
    /\ base \in 0 .. Len(file) /\ nbytes \in 0 .. BUFSIZE /\ start \in 0 .. nbytes
    /\ index \in Seq([offset : Nat, size : Nat, lineNum : Nat])
    /\ query.mode \in {"NONE", "SWORD", "MWORD", "CWORD", "REGEXP", "EXIT"}

Init ==
    /\ pc = "read"
    /\ file \in Files
    /\ pos = 0 /\ base = 0 /\ nbytes = 0 /\ start = 0 /\ offset = 0
    /\ index = <<>>
    /\ query = NoQuery
    /\ answer = {}

-----------------------------------------------------------------------------
(* read_file.                                                              *)

\* read of at most BUFSIZE bytes.
ReadChunk ==
    /\ pc = "read"
    /\ LET n == IF Len(file) - pos < BUFSIZE THEN Len(file) - pos ELSE BUFSIZE
       IN  /\ pc' = IF n = 0 THEN "input" ELSE "index"
           /\ base' = pos /\ nbytes' = n /\ start' = 0
           /\ pos' = pos + n
    /\ UNCHANGED <<file, offset, index, query, answer>>

Char(e) == file[base + e + 1]

\* The next line of the chunk gets its entry.
IndexLine ==
    /\ pc = "index"
    /\ \E end \in start .. nbytes - 1 :
        /\ Char(end) = Newline
        /\ \A e \in start .. end - 1 : Char(e) # Newline
        /\ LET size == end - start + 1
           IN  /\ index' = Append(index, [offset |-> offset, size |-> size, lineNum |-> Len(index) + 1])
               /\ offset' = offset + size
        /\ start' = end + 1
    /\ UNCHANGED <<pc, file, pos, base, nbytes, query, answer>>

\* Faulty variants: without counting it; without reading it.
BackUncounted(size) == IF pos < Len(file) THEN pos + 2 - size ELSE pos
BackUnread(size)    == pos + 1 - size

\* Where the reading of a line that the chunk cuts off goes on: one byte more is
\* read, and if there is one, the descriptor goes back to the start of the line.
Back(size) == IF pos < Len(file) THEN pos + 1 - size ELSE pos

PartialLine ==
    /\ pc = "index"
    /\ start < nbytes
    /\ \A e \in start .. nbytes - 1 : Char(e) # Newline
    /\ pos' = Back(nbytes - start + 1)
    /\ pc' = "read"
    /\ UNCHANGED <<file, base, nbytes, start, offset, index, query, answer>>

ChunkDone ==
    /\ pc = "index"
    /\ start = nbytes
    /\ pc' = "read"
    /\ UNCHANGED <<file, reading, query, answer>>

-----------------------------------------------------------------------------
(* mystring.c.                                                             *)

First(S) == CHOOSE n \in S : \A m \in S : n <= m

\* The end of the word at p, or p if there is a blank.
WordEnd(s, p) == First({e \in p .. Len(s) : e = Len(s) \/ s[e + 1] \in Blanks})
Word(s, p)    == SubSeq(s, p + 1, WordEnd(s, p))

\* Faulty variant: one blank only.
NextWordOneBlank(s, p) ==
    IF p = Len(s) THEN NULL
    ELSE IF WordEnd(s, p) = Len(s) THEN Len(s) ELSE WordEnd(s, p) + 1

nextWord(s, p) ==
    IF p = Len(s) THEN NULL
    ELSE First({e \in WordEnd(s, p) .. Len(s) : e = Len(s) \/ s[e + 1] \notin Blanks})

isincluded(word, s, p) ==
    LET from[q \in 0 .. Len(s)] ==
            IF q = Len(s) THEN NULL
            ELSE IF Word(s, q) = word THEN q ELSE from[nextWord(s, q)]
    IN  from[p]

IsAt(sub, s, p) == p + Len(sub) <= Len(s) /\ SubSeq(s, p + 1, p + Len(sub)) = sub

issubstring(sub, s, p) ==
    LET at == {q \in p .. Len(s) - 1 : sub # <<>> /\ IsAt(sub, s, q)}
    IN  IF at = {} THEN NULL ELSE First(at)

-----------------------------------------------------------------------------
(* resolve_input.                                                          *)

\* The words of the line, each up to the next space.
Split(input) ==
    LET spaces(p) == {e \in p .. Len(input) : e = Len(input) \/ input[e + 1] = " "}
        from[p \in 0 .. Len(input)] ==
            IF p = Len(input) THEN <<>>
            ELSE LET e == First(spaces(p))
                 IN  <<SubSeq(input, p + 1, e)>> \o (IF e = Len(input) THEN <<>> ELSE from[e + 1])
    IN  from[0]

resolve_input(input) ==
    LET star  == issubstring(<<"*">>, input, 0)
        space == issubstring(<<" ">>, input, 0)
        Query(mode, words) == [mode |-> mode, words |-> words]
    IN  IF input = PA1EXIT THEN Query("EXIT", <<>>)
        ELSE IF input # <<>> /\ input[1] = "\"" THEN Query("CWORD", <<SubSeq(input, 2, Len(input) - 1)>>)
        ELSE IF star # NULL
             THEN Query("REGEXP", <<SubSeq(input, 1, star), SubSeq(input, star + 2, Len(input))>>)
        ELSE IF space = NULL THEN Query("SWORD", <<input>>)
        ELSE Query("MWORD", Split(input))

-----------------------------------------------------------------------------
(* The answers, line by line.  The lines are read one after the other from *)
(* the offset of the first one.                                            *)

\* The newline becomes the end of the string, and capitals small letters.
extractLine(node) ==
    LET line == SubSeq(file, node.offset + 1, node.offset + node.size)
        text == IF line[Len(line)] = Newline THEN SubSeq(line, 1, Len(line) - 1) ELSE line
    IN  [k \in DOMAIN text |-> IF text[k] \in DOMAIN Lowered THEN Lowered[text[k]] ELSE text[k]]

Lines == {index[k] : k \in DOMAIN index}

SwordAt(word, s) ==
    LET from[p \in 0 .. Len(s)] ==
            LET at == isincluded(word, s, p)
            IN  IF at = NULL THEN {} ELSE {at} \cup from[at + 1]
    IN  from[0]

CwordAt(phrase, s) ==
    LET Ends(p) == p = Len(s) \/ s[p + 1] \in Blanks
        from[p \in 0 .. Len(s)] ==
            LET at == issubstring(phrase, s, p)
            IN  IF p = Len(s) \/ at = NULL THEN {}
                ELSE (IF at = p /\ Ends(p + Len(phrase)) THEN {p} ELSE {}) \cup from[nextWord(s, p)]
    IN  from[0]

MwordIn(words, s) == \A k \in DOMAIN words : isincluded(words[k], s, 0) # NULL

\* Where the search for word2 begins; the second nextWord may return NULL.
\* Faulty variant: the word in between is not passed over.
AfterFirstNext(word1, s) == nextWord(s, isincluded(word1, s, 0))

AfterFirst(word1, s) == nextWord(s, nextWord(s, isincluded(word1, s, 0)))

RegexpCrash(words, s) == isincluded(words[1], s, 0) # NULL /\ AfterFirst(words[1], s) = NULL

RegexpIn(words, s) ==
    /\ isincluded(words[1], s, 0) # NULL
    /\ isincluded(words[2], s, AfterFirst(words[1], s)) # NULL

\* Without a line there is no first offset to seek to; with no word after word1 there
\* is nowhere to search word2.
Crash(q) ==
    \/ index = <<>>
    \/ q.mode = "REGEXP" /\ \E node \in Lines : RegexpCrash(q.words, extractLine(node))

\* The lines for which match holds; the offsets that at gives for each line.
Texts == {extractLine(node) : node \in Lines}
LinesWith(match) == {<<node.lineNum>> : node \in {n \in Lines : match[extractLine(n)]}}
Places(at) == UNION {{<<node.lineNum, p>> : p \in at[extractLine(node)]} : node \in Lines}

Answer(q) ==
    CASE q.mode = "SWORD"  -> Places([s \in Texts |-> SwordAt(q.words[1], s)])
      [] q.mode = "MWORD"  -> LinesWith([s \in Texts |-> MwordIn(q.words, s)])
      [] q.mode = "CWORD"  -> Places([s \in Texts |-> CwordAt(q.words[1], s)])
      [] q.mode = "REGEXP" -> LinesWith([s \in Texts |-> RegexpIn(q.words, s)])

Ask(input) ==
    LET q == resolve_input(input)
    IN  /\ pc = "input"
        /\ query' = q
        /\ IF q.mode = "EXIT" THEN pc' = "exited" /\ answer' = {}
           ELSE IF Crash(q) THEN pc' = "crashed" /\ answer' = {}
           ELSE pc' = "input" /\ answer' = Answer(q)
        /\ UNCHANGED <<file, reading>>

-----------------------------------------------------------------------------

read_file == ReadChunk \/ IndexLine \/ PartialLine \/ ChunkDone

Next == read_file \/ \E input \in Inputs : Ask(input)

Spec == Init /\ [][Next]_vars

\* The program runs; the user enters lines when he likes.
FairSpec == Spec /\ WF_vars(read_file)

-----------------------------------------------------------------------------
(* Properties.                                                             *)

EndOf(node) == node.offset + node.size

\* Entry k is a line, and begins where the one before it ends.
IsLine(k) ==
    LET node == index[k]
    IN  /\ node.lineNum = k
        /\ node.offset = IF k = 1 THEN 0 ELSE EndOf(index[k - 1])
        /\ node.offset < EndOf(node) /\ EndOf(node) <= Len(file)
        /\ file[EndOf(node)] = Newline
        /\ \A j \in node.offset + 1 .. EndOf(node) - 1 : file[j] # Newline

NoLineAfter(n) == \A j \in n + 1 .. Len(file) : file[j] # Newline

\* Where the last indexed line ends.
IndexedUpTo == IF index = <<>> THEN 0 ELSE EndOf(index[Len(index)])

\* What is left of the file is read again from the start of its first line, unless
\* it was seen to its end and holds no newline.
Resumes == pos = offset \/ (pos = Len(file) /\ NoLineAfter(offset))

Position ==
    /\ offset = IndexedUpTo
    /\ pc = "index" => pos = base + nbytes /\ offset = base + start
    /\ pc # "index" => Resumes

\* read_file: wherever the chunks cut the file, the entries of the index are its
\* lines, one after the other from its beginning, and in the end every line that a
\* newline ends has its entry.
IndexInv ==
    /\ TypeOK
    /\ Position
    /\ \A k \in 1 .. Len(index) : IsLine(k)
    /\ pc \in {"input", "exited", "crashed"} => NoLineAfter(IndexedUpTo)

\* The words of a string, by where they begin; the phrase and the word there.  No
\* word of a string has a blank in it, as one that is entered with a tab has.
Starts(s)  == {p \in 0 .. Len(s) - 1 : s[p + 1] \notin Blanks /\ (p = 0 \/ s[p] \in Blanks)}
IsPhrase(w, s, p) == IsAt(w, s, p) /\ (p + Len(w) = Len(s) \/ s[p + Len(w) + 1] \in Blanks)
IsWord(w, s, p)   == IsPhrase(w, s, p) /\ \A k \in DOMAIN w : w[k] \notin Blanks

\* Lines of input whose words and phrases are not empty and do not begin with a blank.
Proper(q) == \A k \in DOMAIN q.words : q.words[k] # <<>> /\ q.words[k][1] \notin Blanks

Expected(q) ==
    LET Has(w, s) == \E p \in Starts(s) : IsWord(w, s, p)
        Between(s) == \E p, m, r \in Starts(s) :
                          p < m /\ m < r /\ IsWord(q.words[1], s, p) /\ IsWord(q.words[2], s, r)
    IN  CASE q.mode = "SWORD"  -> Places([s \in Texts |-> {p \in Starts(s) : IsWord(q.words[1], s, p)}])
          [] q.mode = "CWORD"  -> Places([s \in Texts |-> {p \in Starts(s) : IsPhrase(q.words[1], s, p)}])
          [] q.mode = "MWORD"  -> LinesWith([s \in Texts |-> \A k \in DOMAIN q.words : Has(q.words[k], s)])
          [] q.mode = "REGEXP" -> LinesWith([s \in Texts |-> Between(s)])

\* handle_sword, handle_mword, handle_cword, handle_regexp: the answer has every
\* place where the word or the phrase stands, or every line with all the words, or
\* with word1, another word and word2 in this order, and nothing else.
AnswersExact ==
    pc = "input" /\ query # NoQuery /\ Proper(query) => answer = Expected(query)

\* Whatever is entered, it ends the program by a crash exactly if no line was indexed,
\* or if nothing follows the word after word1 of word1*word2: word1 stands first as the
\* last word of a line, or is empty and the line has blanks only.
CrashOnly ==
    query.mode \notin {"NONE", "EXIT"} =>
        LET OnlyLast(s) == \E p \in Starts(s) :
                /\ IsWord(query.words[1], s, p)
                /\ \A r \in Starts(s) : r <= p /\ (IsWord(query.words[1], s, r) => r = p)
            OnlyBlanks(s) == query.words[1] = <<>> /\ s # <<>> /\ Starts(s) = {}
            Fatal(s) == OnlyLast(s) \/ OnlyBlanks(s)
        IN  pc = "crashed" <=> \/ index = <<>>
                               \/ query.mode = "REGEXP" /\ LinesWith([s \in Texts |-> Fatal(s)]) # {}

\* A line that is not shorter than the buffer and does not end the file.
LongLine ==
    \E k \in 0 .. Len(file) - BUFSIZE - 1 :
        /\ k = 0 \/ file[k] = Newline
        /\ \A j \in k + 1 .. k + BUFSIZE : file[j] # Newline

\* The indexing of a file comes to its end, unless the file has such a line.
Indexed == LongLine \/ <>(pc \notin {"read", "index"})
=============================================================================
