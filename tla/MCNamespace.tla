---------------------------- MODULE MCNamespace ----------------------------
(***************************************************************************)
(* Namespace with a directory in a directory, a file in each, and a second *)
(* directory of which LIKE says that it is the first.                      *)
(***************************************************************************)
EXTENDS Namespace
CONSTANTS a, ab, c, f, g
MCAbove == [p \in {a, ab, c, f, g} |-> CASE p = f -> {a, ab} [] p \in {ab, g} -> {a} [] OTHER -> {}]
MCRank  == [p \in {a, ab, c, f, g} |-> CASE p = a -> 1 [] p = ab -> 2 [] p = f -> 3 [] p = g -> 4 [] p = c -> 5]
MCLike  == [d \in {a, ab, c} |-> IF d = c THEN {a, c} ELSE {d}]
=============================================================================
