----------------------------- MODULE MCGateway ------------------------------
(***************************************************************************)
(* Gateway on one file with one node and one handle.                       *)
(*                                                                         *)
(* Bound, where a configuration names it: nothing is left to say once the  *)
(* file is raced, which it then stays.                                     *)
(***************************************************************************)
EXTENDS Gateway, TLC
CONSTANTS p1, n1, h1, i1, i2
MCSymmetry == Permutations(Inodes)
MCBound == raced # Paths
=============================================================================
