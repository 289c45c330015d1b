--------------------------- MODULE MCMessageQueue ---------------------------
(***************************************************************************)
(* Model checking of MessageQueue on a small instance.                     *)
(***************************************************************************)
EXTENDS MessageQueue, TLC

CONSTANTS a, b, again

\* Users 1 and 2 write to each other; user 1 starts the program a second time to
\* write to user 3, who never comes, and may get there what user 2 has written.
UserOf   == a :> 1 @@ b :> 2 @@ again :> 1
Receiver == a :> 2 @@ b :> 1 @@ again :> 3
Typed    == a :> 2 @@ b :> 1 @@ again :> 1
=============================================================================
