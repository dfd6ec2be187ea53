---------------------------- MODULE MCChunkCache ----------------------------
(***************************************************************************)
(* ChunkCache on one or two chunks; the configurations choose the readers, *)
(* the limit and what happens besides reading.  Readers, files and chunk   *)
(* numbers are interchangeable (never used with a liveness property).      *)
(***************************************************************************)
EXTENDS ChunkCache, TLC
CONSTANTS f1, f2, c0, c1, c2, r1, r2, r3
MCSymmetry == Permutations(Files) \cup Permutations(Ids) \cup Permutations(Readers)
=============================================================================
