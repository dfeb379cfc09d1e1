---------------------------- MODULE MCFileWorld -----------------------------
(* FileWorld for TLC. *)
EXTENDS FileWorld, TLC

Symmetry == Permutations(Chunk) \cup Permutations(Block)
=============================================================================
