---------------------------- MODULE MCLifecycle ----------------------------
(***************************************************************************)
(* Lifecycle on two objects.                                               *)
(***************************************************************************)
EXTENDS Lifecycle
CONSTANTS p1, p2
=============================================================================
