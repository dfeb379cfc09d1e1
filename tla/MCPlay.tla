------------------------------- MODULE MCPlay -------------------------------
(***************************************************************************)
(* What players do in a world, for TLC: they move, change blocks, talk,    *)
(* light torches, and all that is saved.  A behaviour is one of the part that was *)
(* chosen at the start.                                                    *)
(***************************************************************************)
EXTENDS Movement, Interactions, Persistence, Chatting, Torches, TLC

CONSTANTS p1, p2, p3, stone, glass, torch,
          Parts           \* those that a run is about

VARIABLE part

partVars == <<part, movementVars, interactionsVars, persistenceVars, chattingVars, torchVars>>

InARow == (p1 :> {p2}) @@ (p2 :> {p1, p3}) @@ (p3 :> {p2})
Ticks == (stone :> 2) @@ (glass :> 0) @@ (torch :> 0)
Blocks == (p1 :> stone) @@ (p2 :> Air) @@ (p3 :> glass)
Items == <<[kind |-> stone, count |-> 2], [kind |-> torch, count |-> 1]>>

(* The parts that were not chosen are at one of their initial states. *)
PlayInit ==
    /\ part \in Parts
    /\ MovementInit
    /\ InteractionsInit
    /\ PersistenceInit
    /\ ChattingInit
    /\ TorchesInit
    /\ part = "movement" \/ lastPos = Spawn
    /\ part = "interactions" \/ destroyPos = p1
    /\ part = "torches" \/ inHand = 0

PlayNext ==
    /\ UNCHANGED part
    /\ \/ /\ part = "movement" /\ MovementNext
          /\ UNCHANGED <<interactionsVars, persistenceVars, chattingVars, torchVars>>
       \/ /\ part = "interactions" /\ InteractionsNext
          /\ UNCHANGED <<movementVars, persistenceVars, chattingVars, torchVars>>
       \/ /\ part = "persistence" /\ PersistenceNext
          /\ UNCHANGED <<movementVars, interactionsVars, chattingVars, torchVars>>
       \/ /\ part = "chatting" /\ ChattingNext
          /\ UNCHANGED <<movementVars, interactionsVars, persistenceVars, torchVars>>
       \/ /\ part = "torches" /\ TorchesNext
          /\ UNCHANGED <<movementVars, interactionsVars, persistenceVars, chattingVars>>

PlaySpec == PlayInit /\ [][PlayNext]_partVars
=============================================================================
