--------------------------- MODULE MCWorldSource ----------------------------
(* Instances of WorldSource for TLC: one chunk object for each position.   *)
EXTENDS WorldSource, TLC

CONSTANTS c1, c2, c3

(* The chunk objects stand for their positions, too. *)
PosOfChunk == [c \in Chunk |-> c]

ASSUME OneChunkPerPos

Symmetry == Permutations(Edit)
=============================================================================
