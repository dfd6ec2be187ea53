---------------------------- MODULE MCWriteBack ----------------------------
(***************************************************************************)
(* WriteBack on one file, with one or two nodes, handles and inodes; the   *)
(* configurations choose the workload and the property.  Nodes, handles    *)
(* and inodes are interchangeable (never used with a liveness property).   *)
(*                                                                         *)
(* Bound, where a configuration names it: nothing is left to say once      *)
(* every file is raced, which it then stays.                               *)
(***************************************************************************)
EXTENDS WriteBack, TLC
CONSTANTS p1, n1, n2, h1, h2, i1, i2
MCSymmetry == Permutations(Nodes) \cup Permutations(Handles) \cup Permutations(Inodes)
MCBound == raced # Paths
=============================================================================
