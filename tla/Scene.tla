------------------------------- MODULE Scene -------------------------------
(***************************************************************************)
(* The client's chunk loader (src/render/scene/ChunkLoader.cpp).  Every    *)
(* frame, the render thread prunes what is far (startOfFrame), shows the   *)
(* chunks that were loaded and asks for those around the camera            *)
(* (updateChunks) and draws (draw); chunks are loaded, and written when    *)
(* they are dropped, by a pool of threads.  Chunks lie on a line; a chunk  *)
(* object is a position and the number of the load that made it.           *)
(***************************************************************************)
EXTENDS Integers, Sequences, FiniteSets, SequencesExt, Functions

CONSTANTS Column,         \* positions of chunks, integers
          View,           \* sets of offsets that the camera may see
          ChunkRange, CacheDistance, EagerReset, PruneReset, Threads,
          MaxMoves, MaxFailed, MaxTasks
                           \* bounds: moves, moves after which no load fails, queue

ASSUME SceneAssumption ==
    /\ Column \subseteq Int /\ ChunkRange \in Nat \ {0}
    /\ CacheDistance \in Nat /\ CacheDistance > ChunkRange
    /\ \A v \in View : 0 \in v /\ v \subseteq (0 - ChunkRange)..ChunkRange
    /\ EagerReset \in Nat /\ PruneReset \in Nat /\ Threads \in Nat \ {0}

VARIABLES
    turn,           \* of the frame: "start", "shown", "loads"
    camera, view,   \* where the camera is and what it sees
    lastPos, lastView,
    center, visible,\* centerChunkPos, positions the visibility map has as true
    shown,          \* `chunks`: by position, the object drawn (0: an entry with none)
    cached,         \* `loadedChunks`
    loading,        \* `currentlyLoading`
    tasks,          \* the pool: loads, <<p, n>>, and deallocations, <<>>
    loaded,         \* completions, <<p, n>>, n = 0 if the load failed
    offScreen, offScreenPos,
    limit, timer,   \* eagerLoadRateLimit, chunkPruneTimer
    drawOrder,      \* the positions in it
    lookAgain,      \* forceLookAtUpdate
    forced, redraw, \* updateChunks' visibilityChanged and needsDrawOrderUpdate
    toDealloc,      \* chunksToDealloc
    batch,          \* what the thread with its lock goes through; {} if there is none
    gone,           \* history: objects that were let go
    failed,         \* history: loads that failed
    made, moves     \* loads so far by position, and the count for the bound

cameraVars == <<camera, view, moves>>
sceneVars == <<cameraVars, turn, lastPos, lastView, center, visible, shown, cached, loading,
               tasks, loaded, offScreen, offScreenPos, limit, timer, drawOrder, lookAgain,
               forced, redraw, toDealloc, batch, gone, made, failed>>

Loads == Column \X Nat
LoadTasks == {t \in ToSet(tasks) : t # <<>>}
Pairs(f) == {<<p, f[p]>> : p \in DOMAIN f}

SceneTypeOK ==
    /\ turn \in {"start", "shown", "loads"}
    /\ {camera, lastPos, center} \subseteq Column /\ view \in View
    /\ DOMAIN shown \subseteq Column /\ Pairs(cached) \subseteq Loads
    /\ LoadTasks \subseteq Loads /\ loaded \in Seq(Loads) /\ offScreen \in Seq(Loads)
    /\ {offScreen[i][1] : i \in DOMAIN offScreen} \subseteq offScreenPos
    /\ limit \in 0..(5 * EagerReset) /\ timer \in 0..PruneReset
    /\ batch \subseteq toDealloc

Gap(p, q) == IF p < q THEN q - p ELSE p - q
Around(p) == {q \in Column : Gap(p, q) <= ChunkRange}
Except(f, S) == Restrict(f, DOMAIN f \ S)
Orders(S) == {s \in [1..Cardinality(S) -> S] : IsInjective(s)}
With(f, S, g) == [p \in DOMAIN f \cup S |-> IF p \in S THEN g[p] ELSE f[p]]

(* The first update is forced, and finds nothing displayed. *)
SceneInit ==
    /\ turn = "start" /\ camera \in Column /\ view \in View
    /\ lastPos = camera /\ lastView = view /\ center = camera /\ visible = {}
    /\ shown = <<>> /\ cached = <<>> /\ loading = {} /\ tasks = <<>> /\ loaded = <<>>
    /\ offScreen = <<>> /\ offScreenPos = {} /\ limit = 0 /\ timer = 0
    /\ drawOrder = {} /\ lookAgain = FALSE /\ forced = TRUE /\ redraw = FALSE
    /\ toDealloc = {} /\ batch = {} /\ gone = {}
    /\ made = [p \in Column |-> 0] /\ moves = 0 /\ failed = {}

-----------------------------------------------------------------------------
(* The player turns, or walks to a neighbouring chunk, between two frames. *)
Look ==
    /\ turn = "start" /\ moves < MaxMoves /\ moves' = moves + 1
    /\ \E p \in {q \in Column : Gap(camera, q) <= 1}, v \in View :
         /\ <<p, v>> # <<camera, view>>
         /\ camera' = p /\ view' = v
    /\ UNCHANGED <<turn, lastPos, lastView, center, visible, shown, cached, loading, tasks,
                   loaded, offScreen, offScreenPos, limit, timer, drawOrder, lookAgain, forced,
                   redraw, toDealloc, batch, gone, made, failed>>

(* A block was changed: the selection, and the draw order, are worked out. *)
ForceSelectionUpdate ==
    /\ turn = "start" /\ ~lookAgain /\ lookAgain' = TRUE
    /\ moves < MaxMoves /\ moves' = moves + 1
    /\ UNCHANGED <<camera, view, turn, lastPos, lastView, center, visible, shown, cached, loading,
                   tasks, loaded, offScreen, offScreenPos, limit, timer, drawOrder, forced,
                   redraw, toDealloc, batch, gone, made, failed>>

Distant(d) == {p \in Column : Gap(p, center) > d}

(* Mutant: the list is added to without its lock. *)
PruneUnlocked ==
    LET dropped == Distant(CacheDistance) \cap DOMAIN cached
    IN  /\ cached' = Except(cached, dropped)
        /\ toDealloc' = toDealloc \cup Pairs(Restrict(cached, dropped))
        /\ tasks' = IF batch = {} /\ toDealloc' # {} THEN Append(tasks, <<>>) ELSE tasks
        /\ shown' = Except(shown, Distant(ChunkRange))

(* Data chunks go only if no thread is deallocating, drawn ones in any case. *)
Prune ==
    LET dropped == IF batch # {} THEN {} ELSE Distant(CacheDistance) \cap DOMAIN cached
    IN  /\ cached' = Except(cached, dropped)
        /\ toDealloc' = toDealloc \cup Pairs(Restrict(cached, dropped))
        /\ tasks' = IF batch = {} /\ toDealloc' # {} THEN Append(tasks, <<>>) ELSE tasks
        /\ shown' = Except(shown, Distant(ChunkRange))

StartOfFrame ==
    /\ turn = "start" /\ turn' = "shown" /\ Len(tasks) < MaxTasks
    /\ IF timer = 0 THEN Prune /\ timer' = PruneReset
       ELSE timer' = timer - 1 /\ UNCHANGED <<cached, toDealloc, tasks, shown>>
    /\ UNCHANGED <<cameraVars, lastPos, lastView, center, visible, loading, loaded, offScreen,
                   offScreenPos, limit, drawOrder, lookAgain, forced, redraw, batch, gone, made,
                   failed>>

-----------------------------------------------------------------------------
(* updateVisible: what the camera sees is put down around the centre of the
   frame before; entries further than 6 are thrown away by Prune.            *)
Seen ==
    {p \in visible : Gap(p, center) \in (ChunkRange + 1)..6}
        \cup {p \in Around(center) : p - center \in view}

Arrived == {l \in ToSet(loaded) : l[2] # 0}
ArrivedAt == {l[1] : l \in Arrived}
ChunkObj == [p \in ArrivedAt |-> (CHOOSE l \in Arrived : l[1] = p)[2]]
ToDisplay == ArrivedAt \cap Seen
ForLater == {l \in Arrived : l[1] \notin Seen \cup DOMAIN shown \cup offScreenPos}

(* "if this chunk is way off screen, ignore it and check another one" *)
WayOff(p) == 2 * Gap(p, lastPos) > 3 * ChunkRange

(* makeWorldChunk and addLoadedChunk: what is shown stays as it is. *)
AddLoadedChunks(P, object) ==
    /\ shown' = With(shown, P \ DOMAIN shown, object)
    /\ lookAgain' = (lookAgain \/ ~(P \subseteq DOMAIN shown))

(* One chunk of those that were loaded off screen is shown. *)
ShowEagerly(waiting) ==
    LET near == {i \in DOMAIN waiting : ~WayOff(waiting[i][1])}
    IN  IF near = {} THEN offScreen' = <<>> /\ limit' = 0 /\ UNCHANGED <<shown, lookAgain>>
        ELSE LET i == CHOOSE i \in near : \A j \in near : i <= j
             IN  /\ offScreen' = SubSeq(waiting, i + 1, Len(waiting))
                 /\ AddLoadedChunks({waiting[i][1]}, [q \in {waiting[i][1]} |-> waiting[i][2]])
                 /\ limit' = EagerReset

(* Chunks in view are shown, which puts the eager ones off. *)
ShowVisible(waiting) ==
    /\ AddLoadedChunks(ToDisplay, ChunkObj)
    /\ limit' = IF limit < EagerReset THEN EagerReset
                ELSE IF limit + EagerReset > 5 * EagerReset THEN 5 * EagerReset
                ELSE limit + EagerReset
    /\ offScreen' = waiting

(* updateDeferredChunks: every completion is taken; what is in view is shown,
   the rest waits for frames that show nothing, and each position once only.
   All are cached, and no longer loading.  The queue keeps the order of each
   thread that adds to it, not that of several.                              *)
UpdateDeferredChunks ==
    /\ cached' = With(cached, ArrivedAt, ChunkObj)
    /\ loading' = loading \ {l[1] : l \in ToSet(loaded)}
    /\ offScreenPos' = offScreenPos \cup {l[1] : l \in ForLater}
    /\ loaded' = <<>>
    /\ \E later \in Orders(ForLater) :
         LET waiting == offScreen \o later
         IN  IF ToDisplay # {} THEN ShowVisible(waiting)
             ELSE IF limit <= 1 THEN ShowEagerly(waiting)
             ELSE limit' = limit - 1 /\ offScreen' = waiting /\ UNCHANGED <<shown, lookAgain>>

(* The first half of updateChunks.  What forces an update was read before, and
   is overwritten after: a chunk shown eagerly forces none.                  *)
UpdateShown ==
    /\ turn = "shown" /\ turn' = "loads"
    /\ visible' = Seen
    /\ UpdateDeferredChunks
    /\ redraw' = (lookAgain \/ forced \/ ToDisplay # {})
    /\ UNCHANGED <<cameraVars, lastPos, lastView, center, timer, drawOrder, forced, tasks,
                   toDealloc, batch, gone, made, failed>>

(* loadChunk for each of P, nearest first: not for what is shown; what is
   cached completes at once; what is being loaded is left to that.           *)
LoadChunks(P) ==
    LET fake == (P \ DOMAIN shown) \cap DOMAIN cached
        new == P \ (DOMAIN shown \cup DOMAIN cached \cup loading)
    IN  /\ loading' = loading \cup new
        /\ made' = [p \in Column |-> IF p \in new THEN made[p] + 1 ELSE made[p]]
        /\ \E nearest \in Orders(new) :
             /\ \A i, j \in DOMAIN nearest :
                  i < j => Gap(nearest[i], camera) <= Gap(nearest[j], camera)
             /\ tasks' = tasks \o [i \in DOMAIN nearest |-> <<nearest[i], made'[nearest[i]]>>]
        /\ loaded' = loaded \o SetToSeq({<<p, cached[p]>> : p \in fake})

(* updateCenterChunk; with nothing drawn, the centre is new in every frame. *)
NewCenter == DOMAIN shown = {} \/ center # camera

Turned == forced \/ <<lastPos, lastView>> # <<camera, view>>

(* Mutant: a chunk that came does not count as a change. *)
UpdateDrawOrderIfMoved == drawOrder' = IF NewCenter \/ Turned THEN DOMAIN shown ELSE drawOrder

(* updateDrawOrder: every entry, also those out of view. *)
UpdateDrawOrder ==
    drawOrder' = IF redraw \/ NewCenter \/ Turned THEN DOMAIN shown ELSE drawOrder

(* draw goes through the draw order; a position that was pruned after it was
   made gets an entry without a chunk.                                       *)
Draw == shown' = With(shown, drawOrder' \ DOMAIN shown, [p \in drawOrder' |-> 0])

(* The second half of updateChunks: asks for the chunks around the camera when
   it moved or turned (for the centre only when it is new), and puts the draw
   order right when something changed; then draw.                            *)
UpdateLoads ==
    /\ turn = "loads" /\ turn' = "start"
    /\ lastPos' = camera /\ lastView' = view /\ center' = camera
    /\ LoadChunks({p \in Around(camera) : NewCenter \/ (Turned /\ p # camera)})
    /\ UpdateDrawOrder
    /\ Draw
    /\ lookAgain' = FALSE /\ forced' = FALSE /\ redraw' = FALSE
    /\ UNCHANGED <<cameraVars, visible, cached, offScreen, offScreenPos, limit, timer, toDealloc,
                   batch, gone, failed>>

-----------------------------------------------------------------------------
(* Threads of the pool: the first tasks in the queue are theirs. *)
Running == {i \in DOMAIN tasks : i <= Threads}

Deliver(i, n) ==
    /\ tasks' = RemoveAt(tasks, i) /\ loaded' = Append(loaded, <<tasks[i][1], n>>)
    /\ UNCHANGED <<camera, view, turn, lastPos, lastView, center, visible, shown, cached,
                   loading, offScreen, offScreenPos, limit, timer, drawOrder, lookAgain, forced,
                   redraw, toDealloc, batch, made>>

ChunkLoaded == \E i \in Running :
    tasks[i] # <<>> /\ Deliver(i, tasks[i][2]) /\ UNCHANGED <<gone, failed, moves>>

(* The source throws: nothing asks again until the camera moves. *)
LoadFails == \E i \in Running :
    /\ tasks[i] # <<>> /\ moves < MaxFailed /\ moves' = moves + 1
    /\ failed' = failed \cup {tasks[i]} /\ Deliver(i, 0) /\ UNCHANGED gone

DeallocBegins ==
    /\ \E i \in Running : tasks[i] = <<>>
    /\ batch = {} /\ toDealloc # {} /\ batch' = toDealloc
    /\ UNCHANGED <<cameraVars, turn, lastPos, lastView, center, visible, shown, cached, loading,
                   tasks, loaded, offScreen, offScreenPos, limit, timer, drawOrder, lookAgain,
                   forced, redraw, toDealloc, gone, made, failed>>

(* Every chunk of the list was written if it was dirty, the list is cleared;
   a second task finds it empty.                                             *)
DeallocEnds == \E i \in Running :
    /\ tasks[i] = <<>> /\ (batch # {} \/ toDealloc = {})
    /\ tasks' = RemoveAt(tasks, i)
    /\ gone' = gone \cup batch /\ toDealloc' = {} /\ batch' = {}
    /\ UNCHANGED <<cameraVars, turn, lastPos, lastView, center, visible, shown, cached, loading,
                   loaded, offScreen, offScreenPos, limit, timer, drawOrder, lookAgain, forced,
                   redraw, made, failed>>

Frame == StartOfFrame \/ UpdateShown \/ UpdateLoads
PoolWork == ChunkLoaded \/ DeallocBegins \/ DeallocEnds

SceneNext == Look \/ ForceSelectionUpdate \/ Frame \/ PoolWork \/ LoadFails

(* The render loop goes on, and so do the pool's threads. *)
SceneSpec ==
    /\ SceneInit /\ [][SceneNext]_sceneVars
    /\ WF_sceneVars(Frame) /\ WF_sceneVars(PoolWork)

-----------------------------------------------------------------------------
(* A position is asked for once at a time: no two loads of it are under way,
   and no completion waits beside one.                                       *)
EachOnce ==
    /\ \A i, j \in DOMAIN tasks : tasks[i] # <<>> /\ tasks[j] # <<>> /\ i # j
                                     => tasks[i][1] # tasks[j][1]
    /\ \A i, j \in DOMAIN loaded : i # j => loaded[i][1] # loaded[j][1]
    /\ \A t \in LoadTasks : t[1] \in loading /\ \A l \in ToSet(loaded) : l[1] # t[1]

(* A chunk that the loader hands out (the selection and the physics take it
   from the cache) is not one that is being, or was, let go.                 *)
CachedAreLive == Pairs(cached) \cap (toDealloc \cup gone) = {}

(* No chunk is dropped without having been looked at for unsaved changes. *)
NoneForgotten ==
    /\ \A p \in Column : \A n \in 1..made[p] :
         <<p, n>> \in LoadTasks \cup ToSet(loaded) \cup Pairs(cached) \cup toDealloc
                        \cup gone \cup failed
    /\ toDealloc # {} => <<>> \in ToSet(tasks)

InView ==
    \A p \in Around(camera) :
        p - camera \in view => p \in DOMAIN shown \cap drawOrder \/ <<p, made[p]>> \in failed

(* Once the moves of the player are over, everything in view is drawn, unless its load
   failed; entries that were drawn empty are left out by DrawnHaveChunks.    *)
InViewIsDrawn == <>[]InView

(* Refuted: what is in reach of the camera is drawn from a chunk. *)
DrawnHaveChunks == \A p \in DOMAIN shown : turn = "start" /\ p \in Around(center) => shown[p] # 0

(* Refuted: what is drawn is the chunk that changes are made to. *)
DrawnAreCached ==
    \A p \in DOMAIN shown : turn = "start" /\ shown[p] # 0 /\ p \in DOMAIN cached
                               => shown[p] = cached[p]

(* A chunk is loaded once, lent while it lives, and looked at before it is let go. *)
SceneInv ==
    SceneTypeOK /\ EachOnce /\ CachedAreLive /\ NoneForgotten
=============================================================================
