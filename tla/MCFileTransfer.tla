--------------------------- MODULE MCFileTransfer ---------------------------
(***************************************************************************)
(* Model checking of FileTransfer on small instances.                      *)
(***************************************************************************)
EXTENDS FileTransfer

CONSTANTS c1, c2, long, empty, missing, locked, full

\* A file that is longer than the buffer, an empty one, one the client does not
\* have, one whose copy the server cannot open and one for which it has no room.
SomeFiles == {long, empty, missing, locked, full}
SomeText  == [f \in {long, empty, locked, full} |-> IF f = empty THEN <<>> ELSE <<1, 2, 3>>]
=============================================================================
