----------------------------- MODULE MCChunkSync -----------------------------
(* ChunkSync with two clients and two slices. *)
EXTENDS ChunkSync, TLC

CONSTANTS a, b, s1, s2

(* Each client changes a block of its own. *)
OneEach == (s1 :> {a}) @@ (s2 :> {b})

(* One client changes both. *)
OneEditor == [s \in Slice |-> {a}]

(* Both change both. *)
AllEdit == [s \in Slice |-> Client]

=============================================================================
