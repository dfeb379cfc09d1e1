------------------------------ MODULE BlockGrid ------------------------------
(***************************************************************************)
(* What a chunk promises to the rest of the program: a grid of blocks that *)
(* holds what was last placed, and comes back from the world file as it    *)
(* was last saved.  The program may stop at any time.                      *)
(***************************************************************************)
CONSTANTS Cell,        \* positions of blocks in the chunk
          Type         \* block types, air among them

VARIABLES grid,        \* the block at each position
          saved,       \* the chunk as the next load will give it
          running

vars == <<grid, saved, running>>

Init ==
    /\ grid \in [Cell -> Type]
    /\ saved = grid
    /\ running = TRUE

Place(c, t) ==
    /\ running
    /\ grid' = [grid EXCEPT ![c] = t]
    /\ UNCHANGED <<saved, running>>

Save ==
    /\ running
    /\ saved' = grid
    /\ UNCHANGED <<grid, running>>

Stop ==
    /\ running' = FALSE
    /\ UNCHANGED <<grid, saved>>

Load ==
    /\ grid' = saved
    /\ running' = TRUE
    /\ UNCHANGED saved

(* The block that is placed is the one that is there afterwards. *)
Changed == {c \in Cell : grid'[c] # grid[c]}

Next == Save \/ Stop \/ Load \/ \E c \in Changed : grid'[c] \in Type /\ Place(c, grid'[c])

Spec == Init /\ [][Next]_vars
=============================================================================
