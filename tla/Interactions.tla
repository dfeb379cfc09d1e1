---------------------------- MODULE Interactions ----------------------------
(***************************************************************************)
(* How the player takes and places blocks (src/input/BlockInteractions),   *)
(* and the inventory they go to (src/inventory/Manager).  Events and       *)
(* deferred work run on the main thread, one at a time; the tick callback  *)
(* runs on the thread of SDL's timer (src/world/tick/TickHandler).         *)
(***************************************************************************)
EXTENDS Naturals, Sequences, FiniteSets

CONSTANTS
    Pos,            \* the positions the player can reach
    Beside,         \* by position, the six around it that are reachable
    Slots,          \* the slots of the inventory, 1..kNumInventorySlots
    MaxPerSlot,     \* kMaxItemsPerSlot
    Kind,           \* block types
    DestroyTicks,   \* by type, Block::destroyTicks
    Collectable,    \* the types for which Block::isCollectable
    MaxPlaced,      \* bound: blocks that are placed
    MaxDeferred,    \* bound: expirations that wait for the next frame
    Air,
    Wrapped,        \* a size_t that went below 0: no run lasts until it is back
    StartWorld, StartSlots      \* what was loaded

NoStack == [kind |-> Air, count |-> 0]
Stack == [kind : Kind, count : 1..MaxPerSlot]

ASSUME InteractionsAssumption ==
    /\ MaxPerSlot \in Nat \ {0, 1}
    /\ IsFiniteSet(Slots) /\ Slots # {} /\ Slots = 1..Cardinality(Slots)
    /\ IsFiniteSet(Pos)
    /\ Beside \in [Pos -> SUBSET Pos] /\ Air \notin Kind /\ Collectable \subseteq Kind
    /\ DestroyTicks \in [Kind -> Nat] /\ Wrapped \notin Nat
    /\ MaxPlaced \in Nat /\ MaxDeferred \in Nat
    /\ StartWorld \in [Pos -> Kind \cup {Air}]
    /\ StartSlots \in [Slots -> Stack \cup {NoStack}]

VARIABLES
    grid,                   \* the blocks
    slots, currentSlot,     \* the inventory
    destroyTimer, destroyTimerTotal, destroyTimerActive, destroyPos,
    ticking,                \* the tick callback: "idle", or "expired"
    deferred,               \* expirations the main thread has yet to handle
    marked,                 \* the chunk is marked dirty
    (* history *)
    pressed,                \* where the player holds the button, or Air
    wasted,                 \* blocks that were taken and found no place
    placed                  \* blocks that were placed

handVars == <<slots, currentSlot>>
timerVars == <<destroyTimer, destroyTimerTotal, destroyTimerActive, destroyPos>>
chunkVars == <<grid, marked, wasted, placed>>
interactionsVars == <<handVars, timerVars, chunkVars, ticking, deferred, pressed>>

TimerValues == {0} \cup UNION {0..DestroyTicks[k] : k \in Kind}

InteractionsTypeOK ==
    /\ grid \in [Pos -> Kind \cup {Air}]
    /\ slots \in [Slots -> Stack \cup {NoStack}] /\ currentSlot \in Slots
    /\ destroyTimer \in TimerValues \cup {Wrapped}
    /\ destroyTimerTotal \in TimerValues
    /\ destroyTimerActive \in BOOLEAN
    /\ destroyPos \in Pos
    /\ ticking \in {"idle", "expired"} /\ deferred \in 0..MaxDeferred
    /\ marked \in BOOLEAN /\ pressed \in Pos \cup {Air}
    /\ wasted \in Nat /\ placed \in 0..MaxPlaced

InteractionsInit ==
    /\ grid = StartWorld
    /\ slots = StartSlots /\ currentSlot = 1
    /\ destroyTimer = 0 /\ destroyTimerTotal = 0
    /\ destroyTimerActive = FALSE /\ destroyPos \in Pos
    /\ ticking = "idle" /\ deferred = 0
    /\ marked = FALSE /\ pressed = Air
    /\ wasted = 0 /\ placed = 0

-----------------------------------------------------------------------------
(* The inventory.  addItem of one block: the first stack of its type that    *)
(* has room, else the first free slot, else it is lost.                      *)

First(S) == CHOOSE i \in S : \A j \in S : i <= j

AddItem(k) ==
    LET fits == {i \in Slots : slots[i].kind = k /\ slots[i].count < MaxPerSlot}
        free == {i \in Slots : slots[i] = NoStack}
    IN  /\ slots' = IF fits # {} THEN [slots EXCEPT ![First(fits)].count = @ + 1]
                    ELSE IF free # {} THEN [slots EXCEPT ![First(free)] = [kind |-> k, count |-> 1]]
                    ELSE slots
        /\ wasted' = IF fits = {} /\ free = {} THEN wasted + 1 ELSE wasted

(* Mutant: the last block of a stack stays. *)
DequeueSlotBlockKeepsLast ==
    slots' = [slots EXCEPT ![currentSlot].count = IF @ = 1 THEN 1 ELSE @ - 1]

DequeueSlotBlock ==
    slots' = [slots EXCEPT ![currentSlot] =
                IF @.count = 1 THEN NoStack ELSE [kind |-> @.kind, count |-> @.count - 1]]

SelectSlot ==
    /\ \E i \in Slots : i # currentSlot /\ currentSlot' = i
    /\ UNCHANGED <<slots, timerVars, chunkVars, ticking, deferred, pressed>>

(* The block at p becomes air, and goes to the inventory if it can. *)
Take(p) ==
    /\ grid' = [grid EXCEPT ![p] = Air]
    /\ IF grid[p] \in Collectable THEN AddItem(grid[p]) ELSE UNCHANGED <<slots, wasted>>

-----------------------------------------------------------------------------
(* Mouse events. *)

(* destroyBlock of a block that goes at once: markChunkDirty is not called. *)
DestroyAtOnce(p) ==
    /\ grid[p] # Air /\ DestroyTicks[grid[p]] = 0
    /\ Take(p)
    /\ UNCHANGED <<currentSlot, timerVars, marked, placed, ticking, deferred, pressed>>

StartTimer(p) ==
    /\ grid[p] # Air /\ DestroyTicks[grid[p]] > 0 /\ deferred < MaxDeferred
    /\ destroyTimer' = DestroyTicks[grid[p]]
    /\ destroyTimerTotal' = DestroyTicks[grid[p]]
    /\ destroyPos' = p
    /\ destroyTimerActive' = TRUE
    /\ pressed' = p
    /\ UNCHANGED <<handVars, chunkVars, ticking, deferred>>

DestroyBlock == pressed = Air /\ \E p \in Pos : DestroyAtOnce(p) \/ StartTimer(p)

(* Mouse up clears the flag; the timer goes on. *)
Release ==
    /\ pressed # Air
    /\ pressed' = Air
    /\ destroyTimerActive' = FALSE
    /\ UNCHANGED <<handVars, chunkVars, destroyTimer, destroyTimerTotal,
                   destroyPos, ticking, deferred>>

(* allowPlacementAt; which of those beside it is nearest is up to the camera. *)
PlaceBlock ==
    /\ placed < MaxPlaced
    /\ \E sel \in Pos : grid[sel] # Air /\ \E p \in Beside[sel] :
        /\ grid[p] = Air
        /\ slots[currentSlot] # NoStack
        /\ grid' = [grid EXCEPT ![p] = slots[currentSlot].kind]
    /\ DequeueSlotBlock
    /\ marked' = TRUE /\ placed' = placed + 1
    /\ UNCHANGED <<currentSlot, timerVars, wasted, ticking, deferred, pressed>>

-----------------------------------------------------------------------------
(* destroyTickCallback.  The timer counts whether or not it is active, below *)
(* zero too; the flag is cleared after the work was deferred.                *)

(* Deferred work is done at the start of a frame. *)
Defer == deferred' = deferred + 1
DoDeferredWork == deferred > 0 /\ deferred' = deferred - 1

Less(n) == IF n \in {0, Wrapped} THEN Wrapped ELSE n - 1

Tick ==
    /\ ticking = "idle"
    /\ destroyTimerTotal' = IF destroyTimerActive THEN destroyTimerTotal ELSE 0
    /\ destroyTimer' = Less(destroyTimer)
    /\ IF destroyTimer' = 0 THEN Defer /\ ticking' = "expired"
                            ELSE UNCHANGED <<deferred, ticking>>
    /\ UNCHANGED <<handVars, chunkVars, destroyTimerActive, destroyPos, pressed>>

TickEnds ==
    /\ ticking = "expired"
    /\ ticking' = "idle"
    /\ destroyTimerActive' = FALSE
    /\ UNCHANGED <<handVars, chunkVars, destroyTimer, destroyTimerTotal,
                   destroyPos, deferred, pressed>>

Expired ==
    /\ DoDeferredWork
    /\ IF grid[destroyPos] = Air
       THEN UNCHANGED <<slots, chunkVars>>
       ELSE /\ Take(destroyPos)
            /\ marked' = TRUE
            /\ UNCHANGED placed
    /\ UNCHANGED <<currentSlot, timerVars, ticking, pressed>>

InteractionsNext ==
    \/ SelectSlot \/ DestroyBlock \/ Release \/ PlaceBlock
    \/ Tick \/ TickEnds \/ Expired

InteractionsSpec ==
    InteractionsInit /\ [][InteractionsNext]_interactionsVars

-----------------------------------------------------------------------------
(* The blocks of type k in the world g, and the items of that type in the slots
   s, each by its slot and its place in the stack.                           *)
BlocksOf(k, g) == {p \in Pos : g[p] = k}
ItemsOf(k, s) == {x \in Slots \X (1..MaxPerSlot) : s[x[1]].kind = k /\ x[2] <= s[x[1]].count}
CountOf(k, g, s) == Cardinality(BlocksOf(k, g)) + Cardinality(ItemsOf(k, s))

(* Blocks are neither made nor lost but by the cases the code means: what is
   not collectable is gone when it is taken, and so is what finds the inventory
   full ("(void) collected", BlockInteractions.cpp:132).  Timers that expire
   twice, blocks that are placed in between, and stacks that are filled, split
   and used up leave the sum as it was. *)
BlocksAreConserved ==
    /\ \A k \in Kind : CountOf(k, grid, slots) <= CountOf(k, StartWorld, StartSlots)
    /\ \A k \in Collectable : CountOf(k, grid, slots) + wasted >= CountOf(k, StartWorld, StartSlots)

(* What changes in a chunk is saved: the chunk is marked, but for blocks that
   are destroyed at once. *)
ChangesAreMarked ==
    \A p \in Pos : grid[p] # StartWorld[p] =>
        marked \/ (StartWorld[p] # Air /\ DestroyTicks[StartWorld[p]] = 0)

(* Refuted: "cancel destroy timer if any", BlockInteractions.cpp:72: the timer expires
   only while the player holds the button on the block. *)
CancelledBlockStays ==
    [][deferred' > deferred => pressed = destroyPos]_interactionsVars

(* What is taken from the world is in the inventory, and what is changed will
   be saved. *)
InteractionsInv ==
    InteractionsTypeOK /\ BlocksAreConserved /\ ChangesAreMarked
=============================================================================
