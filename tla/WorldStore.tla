----------------------------- MODULE WorldStore -----------------------------
(***************************************************************************)
(* What a world source promises to the game: a map from chunk positions to *)
(* sets of block edits that is edited in memory, saved in the background,  *)
(* and reopened from what was saved.  How and when chunks are saved is the *)
(* business of WorldSource, which implements this specification.           *)
(***************************************************************************)
CONSTANTS Pos,   \* chunk positions
          Edit   \* block edits, each a member of the chunk content it changed

VARIABLES memory,  \* edits the running game sees, by position
          saved,   \* edits in the world file, by position
          acked    \* edits a forced write has reported as written

vars == <<memory, saved, acked>>

Init ==
    /\ memory = [p \in Pos |-> {}]
    /\ saved = [p \in Pos |-> {}]
    /\ acked = [p \in Pos |-> {}]

(* The game changes a block. *)
Change(p, e) ==
    /\ memory' = [memory EXCEPT ![p] = @ \cup {e}]
    /\ UNCHANGED <<saved, acked>>

(* A version of the chunk that has everything saved before, and nothing    *)
(* that is not in memory, replaces the saved one.                          *)
Save(p) ==
    /\ \E w \in SUBSET memory[p] :
          /\ saved[p] \subseteq w
          /\ saved' = [saved EXCEPT ![p] = w]
    /\ UNCHANGED <<memory, acked>>

(* A forced write returns: what it covers is saved. *)
Acknowledge(p) ==
    /\ \E a \in SUBSET saved[p] : acked' = [acked EXCEPT ![p] = @ \cup a]
    /\ UNCHANGED <<memory, saved>>

(* The program ends, in order or not, and the world is opened again. *)
Reopen ==
    /\ memory' = saved
    /\ UNCHANGED <<saved, acked>>

Next ==
    \/ \E p \in Pos, e \in Edit : Change(p, e)
    \/ \E p \in Pos : Save(p) \/ Acknowledge(p)
    \/ Reopen

Spec == Init /\ [][Next]_vars
=============================================================================
