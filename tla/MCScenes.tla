------------------------------ MODULE MCScenes ------------------------------
(***************************************************************************)
(* What the client draws of a world and knows of its blocks, for TLC: the  *)
(* chunk loader, the meshes of displayed chunks, the bodies of the physics *)
(* engine, and the selection.  A behaviour is one of the part that was     *)
(* chosen at the start.                                                    *)
(***************************************************************************)
EXTENDS Scene, ChunkMesh, GlobuleMesh, Collisions, Selection, TLC

CONSTANTS o1, o2, o3, q1, q2,
          Parts           \* those that a run is about

VARIABLE part

partVars == <<part, sceneVars, meshVars, globuleVars, bodyVars, selectionVars>>

Views == {{0, 1}}
Places == (o1 :> q1) @@ (o2 :> q1) @@ (o3 :> q2)
Changed == {{1}, {1, 2}}
Ground(h) == [b \in {c \in Block : c[2] < h} |-> "stone"]
Glazed == [b \in {c \in Block : c[2] < 7} |-> IF b[2] < 6 THEN "stone" ELSE "glass"]
Contents == {Ground(0), Ground(6), Ground(12), Glazed}

(* The parts that were not chosen are at one of their initial states. *)
ScenesInit ==
    /\ part \in Parts
    /\ SceneInit /\ camera = 1
    /\ MeshInit
    /\ GlobuleInit
    /\ CollisionsInit
    /\ SelectionInit
    /\ part = "globules" \/ block = Ground(0)

ScenesNext ==
    /\ UNCHANGED part
    /\ \/ /\ part = "scene" /\ SceneNext
          /\ UNCHANGED <<meshVars, globuleVars, bodyVars, selectionVars>>
       \/ /\ part = "mesh" /\ MeshNext
          /\ UNCHANGED <<sceneVars, globuleVars, bodyVars, selectionVars>>
       \/ /\ part = "globules" /\ GlobuleNext
          /\ UNCHANGED <<sceneVars, meshVars, bodyVars, selectionVars>>
       \/ /\ part = "collisions" /\ CollisionsNext
          /\ UNCHANGED <<sceneVars, meshVars, globuleVars, selectionVars>>
       \/ /\ part = "selection" /\ SelectionNext
          /\ UNCHANGED <<sceneVars, meshVars, globuleVars, bodyVars>>

(* What the parts assume of the threads that they are about. *)
ScenesFairness ==
    /\ WF_sceneVars(part = "scene" /\ Frame)
    /\ WF_sceneVars(part = "scene" /\ PoolWork)
    /\ WF_meshVars(part = "mesh" /\ Generate)
    /\ WF_meshVars(part = "mesh" /\ GenerateLow)
    /\ WF_meshVars(part = "mesh" /\ GenerateHigh)
    /\ WF_meshVars(part = "mesh" /\ CopyBuffer)
    /\ \A s \in Slot : WF_meshVars(part = "mesh" /\ Watch(s))

ScenesSpec == ScenesInit /\ [][ScenesNext]_partVars /\ ScenesFairness

-----------------------------------------------------------------------------
(* What is in view is drawn, in the end: the chunks by the loader, and each  *)
(* globule of a chunk by the threads that make its vertices.                 *)
SceneIsDrawn == <>[](part = "scene" => InView) /\ EveryGlobuleAppears
=============================================================================
