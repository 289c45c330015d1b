---------------------------- MODULE MCTextSearch ----------------------------
(***************************************************************************)
(* Model checking of TextSearch over bounded files and inputs.             *)
(***************************************************************************)
EXTENDS TextSearch, TLC

Strings(n, C) == UNION {[1 .. k -> C] : k \in 0 .. n}
Line(s) == s \o <<Newline>>

\* Two short lines with or without an unterminated rest; lines of three words, or two around a
\* tab; lines about as long as the buffer; no line at all.
Short  == {Line(s) : s \in Strings(3, {"a", "A", " "})}
Words3 == {Line(<<x, " ", y, " ", z>>) : x, z \in {"a", "b"}, y \in {"a", "b", " "}}
Tabbed == {Line(<<x, "\t", "a">>) : x \in {"a", "b"}}
Long   == UNION {{[k \in 1 .. n |-> "a"], Line([k \in 1 .. n |-> "a"])} : n \in 5 .. 7}
SomeFiles ==
    {x \o y \o r : x \in Short, y \in Short, r \in {<<>>, <<"a">>}}
    \cup {Line(<<"a", "b">>) \o x : x \in Words3} \cup Tabbed \cup Long
    \cup {Line(<<>>) \o x : x \in Long} \cup {<<>>, <<"a">>}

SomeInputs == {
    <<>>, <<"a">>, <<"A">>, <<"a", "a">>, <<"a", " ", "b">>, <<" ", "a">>, <<"b", "\t", "a">>,
    <<"a", " ", "a", "a">>, <<"\"", "a", "\"">>, <<"\"", "a", " ", "a", "\"">>,
    <<"\"", "\"">>, <<"a", "*", "a">>, <<"a", "*", "b">>, <<"*">>,
    <<"*", "a">>, <<" ", "*", "a">>, <<" ", "a", "*", "a">>, PA1EXIT}

SomeLowered == "A" :> "a"
=============================================================================
