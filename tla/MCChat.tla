------------------------------- MODULE MCChat -------------------------------
(***************************************************************************)
(* Model checking of Chat on small instances.                              *)
(***************************************************************************)
EXTENDS Chat

CONSTANTS c1, c2, c3
=============================================================================
