------------------------------- MODULE Worlds -------------------------------
(***************************************************************************)
(* The title screen's list of worlds (src/gui/title/WorldSelector.cpp) and *)
(* its background (TitleScreen.cpp).  The list of recent worlds is kept in *)
(* the preferences, newest first.  A worker thread decodes the preview of  *)
(* the world that was selected; the main thread finds it at the start of a *)
(* frame and fades it in.  Worlds are their paths, images the worlds they  *)
(* are previews of.                                                        *)
(***************************************************************************)
EXTENDS Naturals, Sequences, FiniteSets, SequencesExt, Functions

CONSTANTS World, NoWorld, MaxRecents, Second, MaxEvents

ASSUME WorldsAssumption ==
    NoWorld \notin World /\ MaxRecents \in Nat \ {0} /\ Second \in Nat \ {0} /\ MaxEvents \in Nat

Info(kind, image) == [kind |-> kind, image |-> image]
NoInfo == Info("none", NoWorld)

VARIABLES
    disk,           \* by path: "ok", "missing" or "broken"
    preview,        \* by path: "ok", "none" or "bad"
    recents,        \* the list, entries [world, time]; empty slots come last
    prefs,          \* the list as the preferences have it
    selectedWorld,  \* an index, 0 for none
    dialogs,        \* which of the windows "file", "create", "error" are open
    visible, lastVisible,
    screen,         \* "title", "leaving" (its destructor joins the worker), "world"
    work,           \* the worker's queue
    worker,         \* the world it looks at, or NoWorld
    backgroundInfo, \* what it left for the next frame, NoInfo for nothing
    frame,          \* "begin", "taken" (the info was used, not yet reset), "draw"
    texture, mix,   \* the two textures, and which of them is shown
    bgAnim, showBackground,
    clock,          \* time of the last entry
    opened, last, lastImage,  \* history: worlds opened, the last, the last image set
    events          \* user events so far, for the bound

listVars == <<disk, preview, recents, prefs, selectedWorld, dialogs, visible, screen, clock,
              opened, last, events>>
workerVars == <<work, worker, backgroundInfo>>
backgroundVars == <<texture, mix, bgAnim, showBackground, lastImage>>
worldsVars == <<listVars, workerVars, backgroundVars, lastVisible, frame>>

Animation == {"None", "FadeIn1", "FadeOut", "Crossfade1To2", "Crossfade2To1"}
Entry == [world : World, time : Nat]

WorldsTypeOK ==
    /\ recents \in Seq(Entry) /\ prefs \in Seq(Entry)
    /\ Len(recents) <= MaxRecents /\ Len(prefs) <= MaxRecents
    /\ selectedWorld \in 0..MaxRecents
    /\ dialogs \subseteq {"file", "create", "error"}
    /\ work \in Seq(World) /\ worker \in World \cup {NoWorld}
    /\ bgAnim \in Animation /\ mix \in {1, 2} /\ texture[mix] \in World \cup {NoWorld}
    /\ frame = "taken" => backgroundInfo # NoInfo
    /\ bgAnim \notin {"None", "FadeOut"} => showBackground

(* Worlds may have been opened before. *)
WorldsInit ==
    /\ disk \in [World -> {"ok", "missing", "broken"}]
    /\ preview \in [World -> {"ok", "none", "bad"}]
    /\ \E before \in UNION {[1..n -> World] : n \in 0..MaxRecents} :
         /\ IsInjective(before)
         /\ prefs = [i \in DOMAIN before |->
                        [world |-> before[i], time |-> Len(before) + 1 - i]]
         /\ opened = ToSet(before) /\ clock = Len(before)
         /\ last = IF before = <<>> THEN NoWorld ELSE before[1]
    /\ screen = "title" /\ events = 0 /\ recents = <<>> /\ selectedWorld = 0 /\ dialogs = {}
    /\ visible = FALSE /\ lastVisible = FALSE /\ frame = "begin"
    /\ work = <<>> /\ worker = NoWorld /\ backgroundInfo = NoInfo
    /\ texture = <<NoWorld, NoWorld>> /\ mix = 1 /\ bgAnim = "None"
    /\ showBackground = FALSE /\ lastImage = NoWorld

-----------------------------------------------------------------------------
(* The background. *)

(* The image goes to the texture that is not shown, and is faded in, unless
   something is being faded: then it is shown at once.                       *)
SetBackgroundImage(image) ==
    LET animate == bgAnim = "None"
        t == IF mix = 1 /\ showBackground /\ animate THEN 2 ELSE 1
    IN  /\ texture' = [texture EXCEPT ![t] = image]
        /\ bgAnim' = IF ~animate THEN "None" ELSE IF ~showBackground THEN "FadeIn1"
                     ELSE IF mix = 1 THEN "Crossfade1To2" ELSE "Crossfade2To1"
        /\ mix' = IF animate THEN mix ELSE 1
        /\ showBackground' = TRUE /\ lastImage' = image

ClearBackgroundImage ==
    /\ bgAnim' = "FadeOut" /\ lastImage' = NoWorld
    /\ UNCHANGED <<texture, mix, showBackground>>

(* animateBackground, at the end of an animation. *)
EndAnimation ==
    /\ bgAnim' = "None"
    /\ mix' = IF bgAnim = "Crossfade1To2" THEN 2 ELSE 1
    /\ showBackground' = (bgAnim # "FadeOut")
    /\ UNCHANGED <<texture, lastImage>>

-----------------------------------------------------------------------------
(* The worker. *)

WorkerTake ==
    /\ screen = "title" /\ worker = NoWorld /\ work # <<>>
    /\ worker' = Head(work) /\ work' = Tail(work)
    /\ UNCHANGED <<listVars, backgroundVars, lastVisible, frame, backgroundInfo>>

(* workerSelectionChanged: what cannot be opened leaves the background. *)
WorkerDone ==
    /\ worker # NoWorld /\ worker' = NoWorld
    /\ backgroundInfo' = IF disk[worker] # "ok" THEN backgroundInfo
                         ELSE IF preview[worker] = "ok"
                         THEN Info("image", worker) ELSE Info("invalid", NoWorld)
    /\ UNCHANGED <<listVars, backgroundVars, lastVisible, frame, work>>

-----------------------------------------------------------------------------
(* A frame of the title screen. *)

StartOfFrame ==
    /\ screen = "title" /\ frame = "begin"
    /\ IF backgroundInfo = NoInfo THEN frame' = "draw" /\ UNCHANGED backgroundVars
       ELSE /\ frame' = "taken"
            /\ IF backgroundInfo.kind = "invalid" THEN ClearBackgroundImage
               ELSE IF visible THEN SetBackgroundImage(backgroundInfo.image)
               ELSE UNCHANGED backgroundVars
    /\ UNCHANGED <<listVars, workerVars, lastVisible>>

(* Whatever the worker left in between is reset with it. *)
ResetInfo ==
    /\ screen = "title" /\ frame = "taken" /\ frame' = "draw"
    /\ backgroundInfo' = NoInfo
    /\ UNCHANGED <<listVars, backgroundVars, lastVisible, work, worker>>

Animate ==
    /\ screen = "title" /\ frame = "draw" /\ bgAnim # "None"
    /\ EndAnimation
    /\ UNCHANGED <<listVars, workerVars, lastVisible, frame>>

(* The user did nothing; a window that was closed takes the background along. *)
Draw ==
    /\ screen = "title" /\ frame = "draw" /\ frame' = "begin"
    /\ lastVisible' = visible
    /\ IF lastVisible /\ ~visible /\ showBackground THEN ClearBackgroundImage
       ELSE UNCHANGED backgroundVars
    /\ UNCHANGED <<listVars, workerVars>>

-----------------------------------------------------------------------------
(* What the user does with the window, in its draw. *)

Age(e) == (clock + 1 - e.time) \div Second
Added(w) == [world |-> w, time |-> clock + 1]
IndexOfWorld(w) == {i \in DOMAIN recents : recents[i].world = w}

(* Recents::addPath; ages are in whole seconds. *)
AddPath(w) ==
    IF IndexOfWorld(w) # {} THEN [i \in DOMAIN recents |->
        IF i \in IndexOfWorld(w) THEN Added(w) ELSE recents[i]]
    ELSE IF Len(recents) < MaxRecents THEN Append(recents, Added(w))
    ELSE LET oldest == CHOOSE i \in DOMAIN recents :
                            \A j \in DOMAIN recents :
                               Age(recents[j]) < Age(recents[i])
                                  \/ (Age(recents[j]) = Age(recents[i]) /\ i <= j)
         IN  [recents EXCEPT ![oldest] = Added(w)]

(* saveRecents sorts the list, newest first. *)
Sorting(list) ==
    CHOOSE p \in Bijection(DOMAIN list, DOMAIN list) :
       \A i, j \in DOMAIN list : i < j => list[p[i]].time >= list[p[j]].time
SaveRecents(list) ==
    /\ recents' = [i \in DOMAIN list |-> list[Sorting(list)[i]]]
    /\ prefs' = recents'

Ready == screen = "title" /\ frame = "draw" /\ visible /\ events < MaxEvents

Event ==
    /\ events' = events + 1
    /\ UNCHANGED <<disk, preview, worker, backgroundInfo, backgroundVars, lastVisible, frame>>

(* The list is read anew each time the window is shown. *)
Show ==
    /\ screen = "title" /\ frame = "draw" /\ ~visible /\ events < MaxEvents
    /\ visible' = TRUE /\ dialogs' = {} /\ Event
    /\ recents' = prefs /\ selectedWorld' = 0
    /\ UNCHANGED <<prefs, screen, clock, opened, last, work>>

Close ==
    /\ Ready /\ dialogs = {} /\ visible' = FALSE /\ Event
    /\ UNCHANGED <<recents, prefs, selectedWorld, dialogs, screen, clock, opened, last, work>>

Select(i) ==
    /\ Ready /\ dialogs = {} /\ i \in DOMAIN recents /\ i # selectedWorld
    /\ selectedWorld' = i /\ work' = Append(work, recents[i].world) /\ Event
    /\ UNCHANGED <<recents, prefs, dialogs, visible, screen, clock, opened, last>>

(* "Remove Selected"; the thumb of no selection is not updated. *)
RemoveSelected ==
    /\ Ready /\ dialogs = {} /\ selectedWorld \in DOMAIN recents /\ Event
    /\ SaveRecents(RemoveAt(recents, selectedWorld)) /\ selectedWorld' = 0
    /\ UNCHANGED <<dialogs, visible, screen, clock, opened, last, work>>

(* "Remove World" of the context menu leaves the selection, an index, alone. *)
RemoveWorld(i) ==
    /\ Ready /\ dialogs = {} /\ i \in DOMAIN recents /\ Event
    /\ SaveRecents(RemoveAt(recents, i))
    /\ UNCHANGED <<selectedWorld, dialogs, visible, screen, clock, opened, last, work>>

(* Mutant: the world is put down before it is opened. *)
OpenAndAdd(w) ==
    /\ SaveRecents(AddPath(w)) /\ clock' = clock + 1
    /\ IF disk[w] # "ok"
       THEN dialogs' = {"error"} /\ UNCHANGED <<selectedWorld, screen, opened, last>>
       ELSE /\ selectedWorld' = 0 /\ screen' = "leaving" /\ dialogs' = {}
            /\ opened' = opened \cup {w} /\ last' = w

(* openWorld: an error is shown, or the world put down and opened. *)
Open(w) ==
    IF disk[w] # "ok"
    THEN /\ dialogs' = {"error"}
         /\ UNCHANGED <<recents, prefs, selectedWorld, screen, clock, opened, last>>
    ELSE /\ SaveRecents(AddPath(w)) /\ clock' = clock + 1
         /\ selectedWorld' = 0 /\ screen' = "leaving" /\ dialogs' = {}
         /\ opened' = opened \cup {w} /\ last' = w

(* A double click selects and opens; an entry that is gone is not opened. *)
OpenSelected ==
    /\ Ready /\ dialogs = {} /\ selectedWorld \in DOMAIN recents
    /\ Open(recents[selectedWorld].world) /\ Event
    /\ UNCHANGED <<visible, work>>

OpenDialog(d) ==
    /\ Ready /\ d \in {"file", "create"} /\ dialogs = {} /\ dialogs' = {d} /\ Event
    /\ UNCHANGED <<recents, prefs, selectedWorld, visible, screen, clock, opened, last, work>>

OpenOther(w) ==
    /\ Ready /\ dialogs = {"file"} /\ Open(w) /\ Event /\ UNCHANGED <<visible, work>>

(* drawCreate: no name, a file that cannot be made, or a new world. *)
CreateFails ==
    /\ Ready /\ dialogs = {"create"} /\ dialogs' = {"create", "error"} /\ Event
    /\ UNCHANGED <<recents, prefs, selectedWorld, visible, screen, clock, opened, last, work>>

CreateWorld(w) ==
    /\ Ready /\ dialogs = {"create"} /\ disk[w] # "broken"
    /\ SaveRecents(AddPath(w)) /\ clock' = clock + 1
    /\ screen' = "leaving" /\ dialogs' = {}
    /\ opened' = opened \cup {w} /\ last' = w
    /\ disk' = [disk EXCEPT ![w] = "ok"] /\ events' = events + 1
    /\ UNCHANGED <<preview, selectedWorld, visible, workerVars, backgroundVars, lastVisible,
                   frame>>

Dismiss ==
    /\ Ready /\ dialogs # {} /\ Event
    /\ dialogs' = IF "error" \in dialogs THEN dialogs \ {"error"} ELSE {}
    /\ UNCHANGED <<recents, prefs, selectedWorld, visible, screen, clock, opened, last, work>>

(* The title screen is destroyed when the worker has ended, and made anew
   when the player comes back; a preview was saved meanwhile, or not.        *)
ComeBack ==
    /\ screen = "leaving" /\ worker = NoWorld
    /\ screen' = "title" /\ visible' = FALSE /\ lastVisible' = FALSE /\ frame' = "begin"
    /\ recents' = <<>> /\ selectedWorld' = 0 /\ dialogs' = {}
    /\ work' = <<>> /\ backgroundInfo' = NoInfo
    /\ texture' = <<NoWorld, NoWorld>> /\ mix' = 1 /\ bgAnim' = "None"
    /\ showBackground' = FALSE /\ lastImage' = NoWorld
    /\ \E p \in {preview[last], "ok"} : preview' = [preview EXCEPT ![last] = p]
    /\ UNCHANGED <<disk, prefs, clock, opened, last, events, worker>>

UserEvent ==
    \/ Show \/ Close \/ RemoveSelected \/ OpenSelected \/ CreateFails \/ Dismiss
    \/ \E i \in 1..MaxRecents : Select(i) \/ RemoveWorld(i)
    \/ \E w \in World : OpenOther(w) \/ CreateWorld(w)
    \/ \E d \in {"file", "create"} : OpenDialog(d)

WorldsNext ==
    \/ WorkerTake \/ WorkerDone \/ StartOfFrame \/ ResetInfo \/ Animate \/ Draw
    \/ UserEvent \/ ComeBack

WorldsSpec == WorldsInit /\ [][WorldsNext]_worldsVars

-----------------------------------------------------------------------------
(* The list has each world once, newest first, and the world that was opened
   last heads it unless the user removed it; so does the list that is saved. *)
OpenedIsFirst ==
    /\ \A i, j \in DOMAIN prefs : i < j => /\ prefs[i].time > prefs[j].time
                                           /\ prefs[i].world # prefs[j].world
    /\ \A i \in DOMAIN prefs : prefs[i].world = last => i = 1

(* A world that could not be opened is never put into the list. *)
ListedWereOpened == \A e \in ToSet(recents) \cup ToSet(prefs) : e.world \in opened

(* When nothing moves, the background is the image that was set last, and no
   image when it was cleared since: whatever was faded, and interrupted.     *)
BackgroundIsLast ==
    bgAnim = "None" => IF lastImage = NoWorld THEN ~showBackground
                       ELSE showBackground /\ texture[mix] = lastImage

(* A window that is closed leaves no background, also when a preview comes
   afterwards.                                                               *)
ClosedIsPlain == ~visible /\ ~lastVisible /\ bgAnim = "None" => ~showBackground

(* Refuted: the preview that is thrown away is the one that was used: not so if the
   worker leaves another between the two.                                    *)
NoPreviewLost ==
    [][backgroundInfo.kind = "image" /\ backgroundInfo' = NoInfo /\ visible /\ screen' = screen
          => lastImage = backgroundInfo.image]_worldsVars

(* Refuted: the selection is of the same world until the user selects another. *)
SelectionStays ==
    [][\A i \in DOMAIN recents \cap DOMAIN recents' :
          selectedWorld = i /\ selectedWorld' = i /\ visible =>
              recents'[i].world = recents[i].world]_worldsVars

(* The list of worlds and the picture behind it show what the user did. *)
WorldsInv ==
    WorldsTypeOK /\ OpenedIsFirst /\ ListedWereOpened /\ BackgroundIsLast /\ ClosedIsPlain
=============================================================================
