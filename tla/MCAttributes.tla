---------------------------- MODULE MCAttributes ----------------------------
(***************************************************************************)
(* Attributes on two files and a directory; the files and the requests     *)
(* under way are interchangeable.  Bounds: at most one path has lost an    *)
(* update; while two requests are under way the synchronisation is not,    *)
(* and other paths have no row.                                            *)
(***************************************************************************)
EXTENDS Attributes, TLC
CONSTANTS f1, f2, d1, c1, c2
MCAsked == {{}, {"uid"}, {"mode", "gid"}}
MCBound ==
  /\ \A p, q \in raced : p = q
  /\ (\A c \in Calls : call[c] # None) =>
       /\ sync = None
       /\ \A p \in Paths : xattrs[p] # None => \E c \in Calls : p \in {call[c].path, call[c].to}
MCSymmetry == Permutations(Files) \cup Permutations(Calls)
=============================================================================
