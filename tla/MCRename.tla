------------------------------ MODULE MCRename ------------------------------
(***************************************************************************)
(* Rename on two names with one node and one handle; the inodes of the     *)
(* staging directory are interchangeable, and so are the names.            *)
(*                                                                         *)
(* Bounds: nobody asks for attributes; nothing is left to say once both    *)
(* names are raced, which they then stay; and of the crashes only the ones *)
(* during or after a rename, and after them only the daemon's work.        *)
(***************************************************************************)
EXTENDS Rename, TLC
CONSTANTS p1, p2, n1, h1, i1, i2
MCSymmetry == Permutations(Inodes) \cup Permutations(Paths)
MCBound ==
  /\ raced # Paths
  /\ crashes > 0 => renames > 0 /\ \A n \in Nodes : node[n] = None
=============================================================================
