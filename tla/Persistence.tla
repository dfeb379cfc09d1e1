----------------------------- MODULE Persistence -----------------------------
(***************************************************************************)
(* What the client saves of a player in the world's file while the game    *)
(* runs, and when it ends: the position (src/input/PlayerPosPersistence),  *)
(* the inventory (src/inventory/Manager) and the time (src/world/          *)
(* TimePersistence).  Values are numbered by the changes they have had.    *)
(* The main thread changes them and destroys the objects; ticks run on the *)
(* timer's thread, under the lock that TickHandler::remove takes too; the  *)
(* position has a pool of one thread.  Puts reach the file in the order in *)
(* which they are queued.                                                  *)
(***************************************************************************)
EXTENDS Naturals

CONSTANTS
    MaxChanges,     \* bound: changes of position and inventory
    MaxTime,        \* bound: ticks
    SaveDelay,      \* kSaveDelayTicks, kSaveInterval
    Nothing         \* no value is being written

ASSUME PersistenceAssumption ==
    MaxChanges \in Nat /\ MaxTime \in Nat /\ SaveDelay \in Nat \ {0} /\ Nothing \notin Nat

VARIABLES
    (* PlayerPosPersistence *)
    lastPosition, posDirty, dirtyTicks,
    saveWork,           \* work items in the queue of saveWorker
    posWriting,         \* the value that saveWorker's thread writes
    posClosing,         \* "play", "remove", "write", "pool", "closed"
    posHeld,            \* the value that the destructor writes
    savedPosition,
    overtaken,          \* history: the thread's put came after the destructor's
    (* Manager *)
    items, invDirty, saveTimer,
    invWriting,         \* the value that the tick writes
    invClosing, savedItems,
    crossed,            \* history: changed between a tick's read and its put
    (* TimePersistence *)
    worldTime, ticksSinceSave, savedTimeInfo

positionVars == <<lastPosition, posDirty, dirtyTicks, saveWork, posWriting,
                  posClosing, posHeld, savedPosition, overtaken>>
inventoryVars == <<items, invDirty, saveTimer, invWriting, invClosing,
                   savedItems, crossed>>
timeVars == <<worldTime, ticksSinceSave, savedTimeInfo>>
persistenceVars == <<positionVars, inventoryVars, timeVars>>

Change == 0..MaxChanges

PersistenceTypeOK ==
    /\ {lastPosition, savedPosition, items, savedItems} \subseteq Change
    /\ {worldTime, savedTimeInfo} \subseteq 0..MaxTime
    /\ {posWriting, posHeld, invWriting} \subseteq Change \cup {Nothing}
    /\ {posDirty, invDirty, overtaken, crossed} \subseteq BOOLEAN
    /\ {dirtyTicks, ticksSinceSave} \subseteq 0..SaveDelay
    /\ saveTimer \in 1..SaveDelay /\ saveWork \in Nat
    /\ posClosing \in {"play", "remove", "write", "pool", "closed"}
    /\ invClosing \in {"play", "remove", "closed"}

(* What the file has is loaded. *)
PositionInit ==
    /\ lastPosition = 0 /\ posDirty = FALSE /\ dirtyTicks = 0
    /\ saveWork = 0 /\ posWriting = Nothing /\ posHeld = Nothing
    /\ posClosing = "play" /\ savedPosition = 0 /\ overtaken = FALSE
InventoryInit ==
    /\ items = 0 /\ invDirty = FALSE /\ saveTimer = SaveDelay
    /\ invWriting = Nothing /\ invClosing = "play" /\ savedItems = 0 /\ crossed = FALSE
TimeInit == worldTime = 0 /\ ticksSinceSave = 0 /\ savedTimeInfo = 0

PersistenceInit == PositionInit /\ InventoryInit /\ TimeInit

-----------------------------------------------------------------------------
(* The position. *)

StartOfFrame ==
    /\ posClosing = "play" /\ lastPosition < MaxChanges
    /\ lastPosition' = lastPosition + 1
    /\ posDirty' = TRUE
    /\ UNCHANGED <<dirtyTicks, saveWork, posWriting, posClosing, posHeld,
                   savedPosition, overtaken>>

PosTick ==
    /\ posClosing \in {"play", "remove"} /\ posDirty
    /\ IF dirtyTicks < SaveDelay
       THEN dirtyTicks' = dirtyTicks + 1 /\ UNCHANGED <<saveWork, posDirty>>
       ELSE dirtyTicks' = 0 /\ saveWork' = saveWork + 1 /\ posDirty' = FALSE
    /\ UNCHANGED <<lastPosition, posWriting, posClosing, posHeld, savedPosition, overtaken>>

(* writePosition on the pool's thread; a pool that stops takes nothing more. *)
WorkerReads ==
    /\ saveWork > 0 /\ posWriting = Nothing /\ posClosing # "closed"
    /\ saveWork' = saveWork - 1
    /\ posWriting' = lastPosition
    /\ UNCHANGED <<lastPosition, posDirty, dirtyTicks, posClosing, posHeld,
                   savedPosition, overtaken>>

WorkerPuts ==
    /\ posWriting # Nothing
    /\ savedPosition' = posWriting /\ posWriting' = Nothing
    /\ overtaken' = (posClosing \in {"pool", "closed"} /\ posHeld # Nothing)
    /\ UNCHANGED <<lastPosition, posDirty, dirtyTicks, saveWork, posClosing, posHeld>>

(* Mutant: a dirty position is left to the pool. *)
EndPositionUnsaved ==
    /\ \/ posClosing = "play" /\ posClosing' = "remove"
       \/ posClosing = "remove" /\ posClosing' = "pool"
       \/ posClosing = "pool" /\ posWriting = Nothing /\ posClosing' = "closed"
    /\ UNCHANGED <<lastPosition, posDirty, dirtyTicks, saveWork, posWriting, posHeld,
                   savedPosition, overtaken>>

(* ~PlayerPosPersistence, and the pool after it. *)
EndPosition ==
    /\ \/ posClosing = "play" /\ posClosing' = "remove" /\ UNCHANGED <<posHeld, savedPosition>>
       \/ /\ posClosing = "remove"
          /\ posClosing' = IF posDirty THEN "write" ELSE "pool"
          /\ posHeld' = IF posDirty THEN lastPosition ELSE Nothing
          /\ UNCHANGED savedPosition
       \/ /\ posClosing = "write"
          /\ savedPosition' = posHeld
          /\ posClosing' = "pool" /\ UNCHANGED posHeld
       \/ /\ posClosing = "pool" /\ posWriting = Nothing
          /\ posClosing' = "closed" /\ UNCHANGED <<posHeld, savedPosition>>
    /\ UNCHANGED <<lastPosition, posDirty, dirtyTicks, saveWork, posWriting, overtaken>>

PositionNext == StartOfFrame \/ PosTick \/ WorkerReads \/ WorkerPuts \/ EndPosition

-----------------------------------------------------------------------------
(* The inventory: addItem and dequeueSlotBlock mark it; saveTickCallback.    *)

ChangeItems ==
    /\ invClosing = "play" /\ items < MaxChanges
    /\ items' = items + 1
    /\ invDirty' = TRUE
    /\ crossed' = (crossed \/ invWriting # Nothing)
    /\ UNCHANGED <<saveTimer, invWriting, invClosing, savedItems>>

InvTick ==
    /\ invClosing \in {"play", "remove"} /\ invWriting = Nothing
    /\ saveTimer' = IF saveTimer = 1 THEN SaveDelay ELSE saveTimer - 1
    /\ IF saveTimer = 1 /\ invDirty THEN invWriting' = items /\ crossed' = FALSE
                                    ELSE UNCHANGED <<invWriting, crossed>>
    /\ UNCHANGED <<items, invDirty, invClosing, savedItems>>

(* The flag is cleared when the put is through, whatever was changed since. *)
InvTickPuts ==
    /\ invWriting # Nothing
    /\ savedItems' = invWriting /\ invWriting' = Nothing
    /\ invDirty' = FALSE
    /\ UNCHANGED <<items, saveTimer, invClosing, crossed>>

(* ~Manager: remove waits for the tick. *)
EndInventory ==
    /\ \/ invClosing = "play" /\ invClosing' = "remove" /\ UNCHANGED <<savedItems, invDirty>>
       \/ /\ invClosing = "remove" /\ invWriting = Nothing
          /\ savedItems' = IF invDirty THEN items ELSE savedItems
          /\ invDirty' = FALSE
          /\ invClosing' = "closed"
    /\ UNCHANGED <<items, saveTimer, invWriting, crossed>>

InventoryNext == ChangeItems \/ InvTick \/ InvTickPuts \/ EndInventory

-----------------------------------------------------------------------------
(* The time, which is not saved at the end. *)

TimeTick ==
    /\ worldTime < MaxTime
    /\ worldTime' = worldTime + 1
    /\ IF ticksSinceSave < SaveDelay
       THEN ticksSinceSave' = ticksSinceSave + 1 /\ UNCHANGED savedTimeInfo
       ELSE ticksSinceSave' = 0 /\ savedTimeInfo' = worldTime'

PersistenceNext ==
    \/ PositionNext /\ UNCHANGED <<inventoryVars, timeVars>>
    \/ InventoryNext /\ UNCHANGED <<positionVars, timeVars>>
    \/ TimeTick /\ UNCHANGED <<positionVars, inventoryVars>>

PersistenceSpec == PersistenceInit /\ [][PersistenceNext]_persistenceVars

-----------------------------------------------------------------------------
(* The last position is in the file when the object is gone.  It is lost in two
   cases only: the tick has queued it and cleared the flag, and the pool stops
   before its thread takes the item; or the thread had read an older one, and
   puts it after the destructor's. *)
LastPositionSaved ==
    posClosing = "closed" =>
        savedPosition = lastPosition \/ saveWork > 0 \/ overtaken

(* The same of the inventory; what was changed while a tick was writing is lost
   if nothing changed after that (Manager.cpp:308). *)
LastItemsSaved ==
    /\ invClosing = "closed" => savedItems = items \/ crossed
    /\ invClosing = "play" /\ savedItems # items => invDirty \/ crossed

(* A file that is opened after a crash has a time that is at most one interval
   old. *)
TimeLagBounded == worldTime - savedTimeInfo <= SaveDelay

(* What the player had and where, and the time, are what a later start of the
   program reads. *)
PersistenceInv ==
    PersistenceTypeOK /\ LastPositionSaved /\ LastItemsSaved /\ TimeLagBounded
=============================================================================
