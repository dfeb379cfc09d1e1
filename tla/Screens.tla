------------------------------ MODULE Screens ------------------------------
(***************************************************************************)
(* The client's window: its main loop, its stages (the title screen or a   *)
(* world, the menu bar, the user interface), and what a world does with    *)
(* the screen: the pause menu, chat and inventory and the mouse cursor     *)
(* they share, leaving the world, and the picture of it that a worker      *)
(* thread saves (gui/MainWindow, gui/GameUI, gui/MenuBarHandler,           *)
(* gui/InGamePrefsWindow, render/WorldRenderer, input/InputManager).       *)
(* The main thread goes through the phases of a frame; the worker runs     *)
(* beside it.                                                              *)
(***************************************************************************)
EXTENDS Integers, Sequences, FiniteSets

CONSTANTS
  Visits,      \* how many worlds are opened, one after the other
  MaxInputs,   \* how many events and clicks there are
  LeaveAt,     \* exitToTitle at which the world is left: 10 in the code
  QuitFrames,  \* frames drawn after the window was closed: 2 in the code
  Width,       \* the cursor count is a number below it: 2^64 in the code
  Sizes,       \* sizes the window may have
  NoPicture,   \* no screenshot
  Poke,        \* the empty item that wakes the worker
  Waiting,     \* the worker waits for an item
  Ended        \* the worker has ended

ASSUME ScreensAssumption ==
  /\ Visits \in Nat \ {0} /\ MaxInputs \in Nat /\ QuitFrames \in Nat \ {0}
  /\ LeaveAt \in Nat /\ LeaveAt > 2 /\ Width \in Nat /\ Width > 3
  /\ NoPicture \notin Sizes

VARIABLES
  running, quitFrames,   \* whether the loop goes on, and frames left when it does not
  phase,                 \* what the main thread does in this frame
  stage, changes,        \* stages[0], and the queue of stages to put there
  captured,              \* the mouse is captured: no cursor is shown
  bar,                   \* the menu bar is shown
  viewport,              \* the size of the window
  windows, shown,      \* windows of the user interface, and those that are visible
  requests,              \* windows to add or to remove
  saved,                 \* the preferences, as saved
  world,                 \* the WorldRenderer, and its visit: 0 if there is none
  workerRun, pics, doing,   \* the renderer's worker and its queue
  visits, inputs,        \* how many worlds were opened, and how many events there were
  pictures,              \* visits whose picture the worker was done with
  excused                \* visits that ended by a lost source, or began while quitting

windowVars == <<running, quitFrames, stage, changes, captured, bar, viewport>>
guiVars == <<windows, shown, requests, saved>>
picVars == <<workerRun, pics, doing>>
ghosts == <<pictures, excused>>
screensVars == <<windowVars, phase, guiVars, world, picVars, visits, inputs, ghosts>>

Kinds == {"pause", "inventory", "chat", "prefs"}
Window == Kinds \X (1..Visits)
Menus == {"pause", "inventory", "chat"}
Save == [visit : 1..Visits, data : Sizes \cup {NoPicture}, size : Sizes]

ASSUME WorkerAssumption ==
  /\ Poke # Waiting /\ Poke # Ended /\ Waiting # Ended
  /\ \A item \in {Poke, Waiting, Ended} : item \notin Save

(* A renderer as it is made: the cursor count is zero, whatever the menu   *)
(* bar does.                                                               *)
Renderer(v, multi) ==
  [visit |-> v, multi |-> multi, valid |-> TRUE, open |-> {}, count |-> 0, accepts |-> TRUE,
   held |-> FALSE, exit |-> 0, needsQuit |-> FALSE, isQuitting |-> FALSE, shoot |-> FALSE,
   shot |-> NoPicture, reload |-> FALSE, loaded |-> saved, bar |-> bar]

NoRenderer == [visit |-> 0]
Alive == world.visit # 0
OnStage == stage = "world"

ScreensInit ==
         /\ running = TRUE /\ quitFrames = 0 /\ phase = "events"
         /\ stage = "title" /\ changes = <<>> /\ captured = FALSE /\ bar = FALSE
         /\ viewport \in Sizes
         /\ windows = {} /\ shown = {} /\ requests = <<>> /\ saved \in BOOLEAN
         /\ world = NoRenderer
         /\ workerRun = FALSE /\ pics = <<>> /\ doing = Ended
         /\ visits = 0 /\ inputs = 0 /\ pictures = {} /\ excused = {}

-----------------------------------------------------------------------------
(* The cursor count of the input manager: the renderer w after a menu was  *)
(* opened or closed, and what becomes of the mouse.                        *)

Increment(w) ==
  LET n == (w.count + 1) % Width
  IN  [w EXCEPT !.count = n, !.accepts = IF n = 1 THEN FALSE ELSE @]

Decrement(w) ==
  LET n == (w.count + Width - 1) % Width
  IN  [w EXCEPT !.count = n, !.accepts = IF n = 0 THEN TRUE ELSE @]

(* setMouseCaptureState, which both call when the count reaches 1 or 0.    *)
Mouse(w) == captured' = IF w.accepts # world.accepts THEN w.accepts ELSE captured

(* openPauseMenu, closePauseMenu.                                          *)
OpenPause(w) ==
  Increment([w EXCEPT !.open = @ \cup {"pause"}, !.shoot = TRUE])

ClosePause(w) ==
  Decrement([w EXCEPT !.open = @ \ {"pause"}, !.shot = NoPicture])

(* saveScreenshot: the picture goes to the worker with the size the window *)
(* has now.                                                                *)
Queued(w) == Append(pics, [visit |-> w.visit, data |-> w.shot, size |-> viewport])

-----------------------------------------------------------------------------
(* Events of one frame: MainWindow::handleEvent and, while the world is on *)
(* stage, WorldRenderer::handleEvent.                                      *)

Input ==
  /\ phase = "events" /\ inputs < MaxInputs
  /\ inputs' = inputs + 1
  /\ UNCHANGED <<phase, stage, changes, windows, saved, picVars, visits, ghosts>>

(* SDL_QUIT: the loop ends after some more frames, and the world is asked  *)
(* for a picture.                                                          *)
CloseWindow ==
  /\ Input
  /\ running' = FALSE /\ quitFrames' = QuitFrames
  /\ world' = IF OnStage THEN [world EXCEPT !.shoot = TRUE, !.isQuitting = TRUE] ELSE world
  /\ UNCHANGED <<captured, bar, viewport, shown, requests>>

Resize ==
  /\ Input
  /\ viewport' \in Sizes \ {viewport}
  /\ UNCHANGED <<running, quitFrames, captured, bar, shown, requests, world>>

(* Escape at the renderer itself: closes the pause menu, or opens it if    *)
(* nothing else needs the cursor.                                          *)
EscapeMenu(w) ==
  IF "pause" \in w.open THEN ClosePause(w)
  ELSE IF w.count = 0 THEN OpenPause(w) ELSE w

(* ... and then at the inventory and, if that did not take it, the chat.   *)
EscapeOthers(w) ==
  LET mine == IF "inventory" \in w.open THEN {"inventory"} ELSE w.open \cap {"chat"}
  IN  IF mine # {} /\ w.count # 0 THEN Decrement([w EXCEPT !.open = @ \ mine]) ELSE w

(* The windows of the pause menu that are visible after it was opened or   *)
(* closed; its window is made when it is opened first.                     *)
PauseShown(w) ==
  LET mine == {<<"pause", w.visit>>, <<"prefs", w.visit>>}
  IN  /\ shown' = IF "pause" \in w.open
                  THEN shown \cup {<<"pause", w.visit>>} ELSE shown \ mine
      /\ requests' = IF "pause" \in w.open /\ <<"pause", w.visit>> \notin windows
                          /\ \A i \in DOMAIN requests : requests[i].window # <<"pause", w.visit>>
                     THEN Append(requests, [add |-> TRUE, window |-> <<"pause", w.visit>>])
                     ELSE requests

Escape ==
  /\ Input /\ OnStage
  /\ LET menu == EscapeMenu(world)
     IN  /\ world' = EscapeOthers(menu)
         /\ IF menu.open # world.open THEN PauseShown(menu) ELSE UNCHANGED <<shown, requests>>
         /\ Mouse(world')
  /\ UNCHANGED <<running, quitFrames, bar, viewport>>

(* E opens the inventory and T the chat, when nothing needs the cursor.    *)
OpenMenu(menu) ==
 /\ Input /\ OnStage
 /\ menu = "chat" => world.multi
 /\ world.open \cap {"inventory", "chat"} = {} /\ world.count = 0
 /\ world' = Increment([world EXCEPT !.open = @ \cup {menu}])
 /\ Mouse(world')
 /\ UNCHANGED <<running, quitFrames, bar, viewport, shown, requests>>

(* F9 shows or hides the menu bar, which needs the cursor, too.            *)
ToggleBar ==
  /\ Input /\ OnStage
  /\ world' = IF bar THEN Decrement(world) ELSE Increment(world)
  /\ bar' = ~bar
  /\ Mouse(world')
  /\ UNCHANGED <<running, quitFrames, viewport, shown, requests>>

(* InputManager::handleKey: a key of the player's movement goes down or    *)
(* up, and is looked at only while game input is accepted.                 *)
MoveKey ==
  /\ Input /\ OnStage /\ world.accepts
  /\ world' = [world EXCEPT !.held = ~@]
  /\ UNCHANGED <<running, quitFrames, captured, bar, viewport, shown, requests>>

(* InputManager::updatePosition: the player walks as long as the key was    *)
(* seen to go down and not seen to go up.                                  *)
Walks(w) == w.held

EndEvents ==
  /\ phase = "events" /\ phase' = "stages"
  /\ UNCHANGED <<windowVars, guiVars, world, picVars, visits, inputs, ghosts>>

-----------------------------------------------------------------------------
(* updateStages: the next queued stage takes the place of the one before,  *)
(* and a world that was there is destroyed: its worker is told to end.     *)
UpdateStages ==
  /\ phase = "stages" /\ changes # <<>>
  /\ stage' = Head(changes) /\ changes' = Tail(changes)
  /\ captured' = (Head(changes) = "world")
  /\ excused' = IF Head(changes) = "world" /\ ~running THEN excused \cup {world.visit}
                ELSE excused
  /\ IF OnStage
     THEN phase' = "joining" /\ workerRun' = FALSE /\ pics' = Append(pics, Poke)
     ELSE UNCHANGED <<phase, workerRun, pics>>
  /\ UNCHANGED <<running, quitFrames, bar, viewport, guiVars, world, doing, visits, inputs,
                 pictures>>

StagesDone ==
  /\ phase = "stages" /\ changes = <<>> /\ phase' = "windows"
  /\ UNCHANGED <<windowVars, guiVars, world, picVars, visits, inputs, ghosts>>

Removal(kind) == [add |-> FALSE, window |-> <<kind, world.visit>>]

(* Mutant: the pause window is not taken out of the user interface. *)
RemovalsButPause ==
  (IF world.multi THEN <<Removal("chat")>> ELSE <<>>) \o <<Removal("inventory")>>

(* The windows that ~WorldRenderer takes out of the user interface: not    *)
(* the one with the preferences.                                           *)
Removals ==
  LET pause == {i \in DOMAIN requests : requests[i].window = <<"pause", world.visit>>}
  IN  (IF <<"pause", world.visit>> \in windows \/ pause # {} THEN <<Removal("pause")>> ELSE <<>>)
      \o (IF world.multi THEN <<Removal("chat")>> ELSE <<>>) \o <<Removal("inventory")>>

(* The rest of ~WorldRenderer, when its worker has ended.                  *)
Destroyed ==
  /\ phase \in {"joining", "closing"} /\ doing = Ended
  /\ requests' = requests \o Removals
  /\ pics' = <<>> /\ world' = NoRenderer
  /\ phase' = IF phase = "closing" THEN "over" ELSE "stages"
  /\ UNCHANGED <<windowVars, windows, shown, saved, workerRun, doing, visits, inputs, ghosts>>

-----------------------------------------------------------------------------
(* GameUI::willBeginFrame: windows are added and removed in the order of   *)
(* the requests ...                                                        *)
Requested ==
  LET Last(w) == {i \in DOMAIN requests : requests[i].window = w
                    /\ \A j \in (i + 1)..Len(requests) : requests[j].window # w}
  IN  {w \in Window : IF Last(w) = {} THEN w \in windows
                      ELSE \A i \in Last(w) : requests[i].add}

UpdateWindows ==
  /\ phase = "windows" /\ phase' = "clicks"
  /\ windows' = Requested /\ requests' = <<>>
  /\ UNCHANGED <<windowVars, shown, saved, world, picVars, visits, inputs, ghosts>>

(* ... and drawn, which is when a click on one of their buttons is seen.   *)
Click ==
  /\ phase = "clicks" /\ inputs < MaxInputs /\ phase' = "begin"
  /\ inputs' = inputs + 1

(* The buttons of the pause menu: they are behind "Please wait..." once    *)
(* the world is being left.                                                *)
PauseClick ==
  /\ Click /\ OnStage
  /\ <<"pause", world.visit>> \in windows \cap shown /\ world.exit = 0

ReturnToGame ==
  /\ PauseClick
  /\ world' = ClosePause(world)
  /\ PauseShown(world') /\ Mouse(world')
  /\ UNCHANGED <<running, quitFrames, stage, changes, bar, viewport, windows, saved, picVars,
                 visits, ghosts>>

Preferences ==
  LET mine == <<"prefs", world.visit>>
  IN  /\ PauseClick
      /\ shown' = shown \cup {mine}
      /\ requests' = IF mine \in windows THEN requests
                     ELSE Append(requests, [add |-> TRUE, window |-> mine])
      /\ UNCHANGED <<windowVars, windows, saved, world, picVars, visits, ghosts>>

(* Main Menu, and Quit: the picture is saved at once, the world is left    *)
(* some frames later.                                                      *)
LeaveWorld(quit) ==
  /\ PauseClick
  /\ pics' = Queued(world)
  /\ world' = [world EXCEPT !.exit = 1, !.needsQuit = @ \/ quit, !.shot = NoPicture]
  /\ UNCHANGED <<windowVars, guiVars, workerRun, doing, visits, ghosts>>

(* A preference is changed in the window in game, which asks the world to  *)
(* load them again, and the window is closed.                              *)
ChangePrefs ==
  /\ Click /\ OnStage /\ <<"prefs", world.visit>> \in windows \cap shown
  /\ saved' = ~saved /\ world' = [world EXCEPT !.reload = TRUE]
  /\ UNCHANGED <<windowVars, windows, shown, requests, picVars, visits, ghosts>>

ClosePrefs ==
  /\ Click /\ OnStage /\ <<"prefs", world.visit>> \in windows \cap shown
  /\ shown' = shown \ {<<"prefs", world.visit>>}
  /\ UNCHANGED <<windowVars, windows, requests, saved, world, picVars, visits, ghosts>>

(* A world is chosen in the title screen: its renderer is made at once and *)
(* its windows and its worker with it; it comes on stage in the next frame.*)
OpenWorld(multi) ==
  LET v == visits + 1
      Addition(kind) == [add |-> TRUE, window |-> <<kind, v>>]
  IN  /\ phase = "clicks" /\ phase' = "begin" /\ UNCHANGED inputs
      /\ stage = "title" /\ ~Alive /\ v <= Visits
      /\ visits' = v /\ world' = Renderer(v, multi)
      /\ requests' = requests \o <<Addition("inventory")>>
                              \o (IF multi THEN <<Addition("chat")>> ELSE <<>>)
      /\ shown' = shown \cup {<<"inventory", v>>}
                        \cup (IF multi THEN {<<"chat", v>>} ELSE {})
      /\ changes' = Append(changes, "world")
      /\ workerRun' = TRUE /\ pics' = <<>> /\ doing' = Waiting
      /\ UNCHANGED <<running, quitFrames, stage, captured, bar, viewport, windows, saved, ghosts>>

NoClick ==
  /\ phase = "clicks" /\ phase' = "begin"
  /\ UNCHANGED <<windowVars, guiVars, world, picVars, visits, inputs, ghosts>>

-----------------------------------------------------------------------------
(* WorldRenderer::willBeginFrame. A world whose source became invalid is   *)
(* replaced by the title screen.                                           *)
BeginInvalid ==
  /\ phase = "begin" /\ phase' = "draw" /\ OnStage /\ ~world.valid
  /\ changes' = Append(changes, "title")
  /\ excused' = excused \cup {world.visit}
  /\ UNCHANGED <<running, quitFrames, stage, captured, bar, viewport, guiVars, world, picVars,
                 visits, inputs, pictures>>

(* exitToTitle counts the frames since the button was pressed; the world   *)
(* is left when it reaches LeaveAt and the pause menu is still open.       *)
Counted(w) == IF w.exit = 0 THEN 0 ELSE IF w.exit > LeaveAt THEN w.exit ELSE w.exit + 1

Begin ==
  LET exit == Counted(world)
      leave == exit = LeaveAt /\ "pause" \in world.open
  IN  /\ phase = "begin" /\ phase' = "draw" /\ (OnStage => world.valid)
      /\ IF OnStage
         THEN /\ world' = [world EXCEPT !.exit = IF leave THEN 0 ELSE exit]
              /\ running' = (running /\ ~(leave /\ world.needsQuit))
              /\ changes' = IF leave /\ ~world.needsQuit THEN Append(changes, "title")
                            ELSE changes
         ELSE UNCHANGED <<world, running, changes>>
      /\ UNCHANGED <<quitFrames, stage, captured, bar, viewport, guiVars, picVars, visits,
                     inputs, ghosts>>

(* draw: the picture is taken, unless there is one, and saved if the       *)
(* window is being closed.                                                 *)
Drawn ==
   LET shot == IF world.shot = NoPicture THEN viewport ELSE world.shot
       taken == [world EXCEPT !.shot = shot, !.shoot = FALSE]
   IN  /\ phase = "draw" /\ phase' = "end"
       /\ IF OnStage /\ world.shoot
          THEN /\ world' = IF world.isQuitting THEN [taken EXCEPT !.shot = NoPicture] ELSE taken
               /\ pics' = IF world.isQuitting THEN Queued(taken) ELSE pics
          ELSE UNCHANGED <<world, pics>>
       /\ UNCHANGED <<windowVars, guiVars, workerRun, doing, visits, inputs, ghosts>>

(* willEndFrame loads the preferences if that was asked for.               *)
Loaded(w) == IF w.reload THEN [w EXCEPT !.loaded = saved, !.reload = FALSE] ELSE w

(* ... and the loop goes on, or the window and its stages are destroyed.   *)
EndFrame ==
  LET on == running \/ quitFrames > 0
  IN  /\ phase = "end"
      /\ world' = IF OnStage THEN Loaded(world) ELSE world
      /\ quitFrames' = IF ~running /\ on THEN quitFrames - 1 ELSE quitFrames
      /\ IF on
         THEN phase' = "events" /\ UNCHANGED <<workerRun, pics>>
         ELSE IF Alive
         THEN phase' = "closing" /\ workerRun' = FALSE /\ pics' = Append(pics, Poke)
         ELSE phase' = "over" /\ UNCHANGED <<workerRun, pics>>
      /\ excused' = IF ~on /\ Alive /\ ~OnStage THEN excused \cup {world.visit} ELSE excused
      /\ UNCHANGED <<running, stage, changes, captured, bar, viewport, guiVars, doing, visits,
                     inputs, pictures>>

-----------------------------------------------------------------------------
(* The worker: takes the next item, encodes and writes the picture (or     *)
(* gives it up if the world does not tell its id in two seconds), and goes *)
(* on if it is still to run.                                               *)
Take ==
  /\ doing = Waiting /\ pics # <<>>
  /\ doing' = Head(pics) /\ pics' = Tail(pics)
  /\ UNCHANGED <<windowVars, phase, guiVars, world, workerRun, visits, inputs, ghosts>>

Finish ==
  /\ doing \notin {Waiting, Ended}
  /\ pictures' = IF doing = Poke THEN pictures ELSE pictures \cup {doing.visit}
  /\ doing' = IF workerRun THEN Waiting ELSE Ended
  /\ UNCHANGED <<windowVars, phase, guiVars, world, workerRun, pics, visits, inputs, excused>>

(* A server goes away, at any time.                                        *)
LoseSource ==
  /\ Alive /\ world.multi /\ world.valid
  /\ world' = [world EXCEPT !.valid = FALSE]
  /\ UNCHANGED <<windowVars, phase, guiVars, picVars, visits, inputs, ghosts>>

Frame ==
  \/ EndEvents \/ UpdateStages \/ StagesDone \/ Destroyed \/ UpdateWindows \/ NoClick
  \/ BeginInvalid \/ Begin \/ Drawn \/ EndFrame

Worker == Take \/ Finish

User ==
  \/ CloseWindow \/ Resize \/ Escape \/ ToggleBar \/ MoveKey
  \/ \E menu \in {"inventory", "chat"} : OpenMenu(menu)
  \/ ReturnToGame \/ Preferences \/ ChangePrefs \/ ClosePrefs
  \/ \E quit \in BOOLEAN : LeaveWorld(quit)
  \/ \E multi \in BOOLEAN : OpenWorld(multi)

ScreensNext == Frame \/ Worker \/ User \/ LoseSource

(* The main loop and the worker go on; nobody has to click or press a key. *)
ScreensFairness == WF_screensVars(Frame) /\ WF_screensVars(Worker)

ScreensSpec == ScreensInit /\ [][ScreensNext]_screensVars /\ ScreensFairness

-----------------------------------------------------------------------------
(* Every variable has values the code gives it, a worker exists exactly    *)
(* while there is a renderer, and the world that is on stage or queued for *)
(* it is the one that is alive.                                            *)
ScreensTypeOK ==
  /\ running \in BOOLEAN /\ quitFrames \in 0..QuitFrames
  /\ phase \in {"events", "stages", "windows", "clicks", "begin", "draw", "end", "joining",
                "closing", "over"}
  /\ stage \in {"title", "world"} /\ Len(changes) <= 1
  /\ captured \in BOOLEAN /\ bar \in BOOLEAN /\ viewport \in Sizes /\ saved \in BOOLEAN
  /\ windows \subseteq Window /\ shown \subseteq Window
  /\ \A i \in DOMAIN requests : requests[i].window \in Window
  /\ Alive => /\ world.count \in 0..(Width - 1) /\ world.exit \in 0..(LeaveAt + 1)
              /\ world.open \subseteq Menus /\ world.shot \in Sizes \cup {NoPicture}
  /\ doing \in Save \cup {Poke, Waiting, Ended}
  /\ (doing # Ended) => Alive
  /\ (OnStage \/ "world" \in {changes[i] : i \in DOMAIN changes}) => Alive \/ phase = "over"

(* At most one of the pause menu, the inventory and the chat is open, and  *)
(* the cursor is shown exactly while one of them or the menu bar is, in a  *)
(* world that was opened without the menu bar: every event goes to all     *)
(* three, and each of them looks at the count that the one before changed. *)
OneMenu ==
  OnStage /\ changes = <<>> /\ Alive /\ ~world.bar /\ phase \notin {"joining", "closing"} =>
    /\ Cardinality(world.open) <= 1
    /\ world.count = Cardinality(world.open) + (IF bar THEN 1 ELSE 0)
    /\ captured = (world.count = 0) /\ world.accepts = captured

(* No window of the pause menu, of the inventory or of the chat is drawn   *)
(* when the world it belongs to is gone: it has a pointer to it.           *)
DrawnWindowsHaveOwners ==
  phase = "clicks" =>
    \A w \in windows : w[1] # "prefs" => Alive /\ w[2] = world.visit

(* A world that was left has had its picture saved, however it was left:   *)
(* by the menu, by closing the window, or by both at once. Only a world    *)
(* whose source went away, or that came up while the program was already   *)
(* ending, is left without.                                                *)
LeavingSaves ==
  \A v \in 1..visits : v = world.visit \/ v \in pictures \cup excused

(* A frame ends with the preferences loaded that are saved, whatever was   *)
(* changed during it.                                                      *)
PrefsAreLoaded ==
  phase = "events" /\ OnStage => world.loaded = saved

(* A world is left when Main Menu or Quit was chosen and its menu was not  *)
(* closed again.                                                           *)
ExitHappens ==
  \A v \in 1..Visits :
    (world.visit = v /\ world.exit = 1) ~>
      (world.visit # v \/ "pause" \notin world.open)

(* Refuted: "Saves the current world and returns to the title screen" (the *)
(* tool tip of Main Menu): whoever chose that is not there for ever.       *)
MainMenuReturns ==
  \A v \in 1..Visits : (world.visit = v /\ world.exit = 1) ~> (world.visit # v)

(* Refuted: "while the cursor is visible, game input is not accepted"      *)
(* (InputManager::incrementCursorCount): the player does not walk then.    *)
NoInputWithCursor ==
  phase = "begin" /\ OnStage /\ ~captured => ~Walks(world)

(* Menus, windows and what a world leaves behind belong to the world on stage. *)
ScreensInv ==
    ScreensTypeOK /\ OneMenu /\ DrawnWindowsHaveOwners /\ LeavingSaves /\ PrefsAreLoaded
=============================================================================
