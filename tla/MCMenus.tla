------------------------------ MODULE MCMenus -------------------------------
(***************************************************************************)
(* The screens of the client, for TLC: the server selector and what it     *)
(* connects to, the world selector, and the stages, menus and windows of the *)
(* program.  A behaviour is one of the part that was chosen at the start.  *)
(***************************************************************************)
EXTENDS Joining, Worlds, Screens, TLC

CONSTANTS w1, w2, w3, s1,
          Parts           \* those that a run is about

VARIABLE part

partVars == <<part, joiningVars, worldsVars, screensVars>>

(* One world that opens, one that may not, and lists that are full.        *)
Lists ==
    /\ disk \in {(w1 :> "ok") @@ (w2 :> "ok") @@ (w3 :> d) : d \in {"missing", "broken"}}
    /\ preview \in {(w1 :> "ok") @@ (w2 :> p) @@ (w3 :> "none") : p \in {"ok", "bad", "none"}}
    /\ Len(prefs) = 2 /\ last = w1
OneList == disk[w3] = "missing" /\ preview[w2] = "none" /\ prefs[2].world = w2

(* The parts that were not chosen are at one of their initial states. *)
MenusInit ==
    /\ part \in Parts
    /\ JoiningInit
    /\ WorldsInit /\ Lists
    /\ ScreensInit
    /\ part = "joining" \/ (stored = 0 /\ servers = <<>>)
    /\ part = "worlds" \/ OneList
    /\ part = "screens" \/ (viewport = s1 /\ ~saved)

MenusNext ==
    /\ UNCHANGED part
    /\ \/ /\ part = "joining" /\ JoiningNext
          /\ UNCHANGED <<worldsVars, screensVars>>
       \/ /\ part = "worlds" /\ WorldsNext
          /\ UNCHANGED <<joiningVars, screensVars>>
       \/ /\ part = "screens" /\ ScreensNext
          /\ UNCHANGED <<joiningVars, worldsVars>>

(* What the parts assume of the threads that they are about. *)
MenusFairness ==
    /\ WF_joiningVars(part = "joining" /\ WorkerSteps)
    /\ WF_joiningVars(part = "joining" /\ JoinWorker)
    /\ WF_screensVars(part = "screens" /\ Frame)
    /\ WF_screensVars(part = "screens" /\ Worker)

MenusSpec == MenusInit /\ [][MenusNext]_partVars /\ MenusFairness

-----------------------------------------------------------------------------
(* What the user asked to leave is left: the server selector, when its      *)
(* window was closed, and a world, when Main Menu or Quit was chosen.       *)
MenusAreLeft == SelectorCloses /\ ExitHappens
=============================================================================
