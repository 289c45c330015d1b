--------------------------- MODULE MCBoundedQueue ---------------------------
(***************************************************************************)
(* Model checking of BoundedQueue on small instances.                      *)
(***************************************************************************)
EXTENDS BoundedQueue

CONSTANTS p1, p2, c1, c2

=============================================================================
