----------------------------- MODULE MCChunkData -----------------------------
(* ChunkData on small chunks; the bounds are in the configurations. *)
EXTENDS ChunkData
=============================================================================
