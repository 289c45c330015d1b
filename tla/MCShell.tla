------------------------------ MODULE MCShell ------------------------------
(***************************************************************************)
(* Model checking of Shell on a small instance.                            *)
(***************************************************************************)
EXTENDS Shell, TLC

Cmd(words, from, to) == [words |-> words, in |-> from, out |-> to]

SomeLines == {
    Cmd(<<"cat">>, "none", "none"),
    Cmd(<<"ls", "cat", "head">>, "none", "file"),
    Cmd(<<"man", "cat">>, "none", "none"),
    Cmd(<<"cat", "exit">>, "file", "missing"),
    Cmd(<<"./lost", "cat">>, "none", "none"),
    Cmd(<<"ls", "none">>, "none", "none"),
    Cmd(<<"ls", "">>, "none", "none"),
    Cmd(<<"cd">>, "none", "none"),
    Cmd(<<"exit">>, "none", "none")}

\* man writes more than a pipe holds.
SomeOutput == "ls" :> 1 @@ "man" :> 2
=============================================================================
