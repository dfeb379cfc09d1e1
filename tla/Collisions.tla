----------------------------- MODULE Collisions -----------------------------
(***************************************************************************)
(* The blocks around the player that the physics engine collides with      *)
(* (physics/BlockCollision, physics/Engine): a body for each solid block   *)
(* near the player, made when the player comes near and destroyed when the *)
(* player is far or the block changes. The main thread simulates; blocks   *)
(* are also changed by the thread that receives changes from the server,   *)
(* and the callbacks of a chunk run on the thread that changes it, under a *)
(* lock of that chunk. The world is one row of blocks, cut into chunks.    *)
(***************************************************************************)
EXTENDS Integers, FiniteSets

CONSTANTS
  Chunks,      \* how many chunks there are
  Side,        \* blocks of a chunk: 256 in the code
  Reach,       \* blocks so near get a body: 2 to 4 in the code
  FarAway,     \* bodies farther away are destroyed: 8 in the code
  Release,     \* chunks farther away than so many chunks are unloaded
  MaxSteps,    \* steps of the simulation, and blocks walked, within a frame
  MaxSets,     \* how many blocks are changed
  MaxLoads     \* how often a chunk is loaded

ASSUME CollisionsAssumption ==
  /\ Chunks \in Nat \ {0} /\ Side \in Nat \ {0} /\ Reach \in Nat /\ FarAway \in Nat
  /\ Reach <= FarAway /\ FarAway <= Release * Side   \* no chunk goes while bodies of it may be near
  /\ Release \in Nat /\ MaxSteps \in Nat /\ MaxSets \in Nat /\ MaxLoads \in Nat \ {0}

VARIABLES
  player,      \* where the player is
  solid,       \* the blocks that can be collided with
  object,      \* chunk -> the object that is loaded for it, 0 if none is
  loads,       \* chunk -> how often it was loaded, which names its objects
  when,        \* what the main thread does: "frame", "purged", "update" or "simulated"
  steps,       \* steps since the frame began
  left,        \* blocks that update() still has to look at
  bodies,      \* block that was looked at -> whether it has a body
  activeChunks,   \* chunk -> its pseudo reference count
  chunkObservers, \* chunk -> the object that its token is of, 0 if there is no token
  watched,     \* pairs of chunk and object that have the callback
  setter,      \* the change of a block under way
  sets,        \* how many blocks were changed
  thrown       \* a token was to be unregistered that the chunk does not know

space == <<player, solid, object, loads>>
caches == <<bodies, activeChunks, chunkObservers>>
changing == <<setter, sets>>
bodyVars == <<space, when, steps, left, caches, watched, changing, thrown>>

Position == 0..(Chunks * Side - 1)
Chunk == 0..(Chunks - 1)
ChunkOf(p) == p \div Side
Distance(a, b) == IF a < b THEN b - a ELSE a - b
Near == {p \in Position : Distance(p, player) <= Reach}
NoChange == [stage |-> "none"]
Change(stage, p, o) == [stage |-> stage, block |-> p, of |-> o]

CollisionsInit ==
  /\ player = 0 /\ solid = {p \in Position : p % 2 = 0}
  /\ object = [c \in Chunk |-> IF c <= Release THEN 1 ELSE 0] /\ loads = object
  /\ when = "frame" /\ steps = 0 /\ left = {}
  /\ bodies = <<>> /\ activeChunks = [c \in Chunk |-> 0]
  /\ chunkObservers = [c \in Chunk |-> 0] /\ watched = {}
  /\ setter = NoChange /\ sets = 0 /\ thrown = FALSE

Known == DOMAIN bodies
Without(ps) == [p \in Known \ ps |-> bodies[p]]
KnownOf(c) == {p \in Known : ChunkOf(p) = c}

-----------------------------------------------------------------------------
(* Chunks come and go between two frames, on the main thread.              *)
LoadChunk(c) ==
  /\ when = "frame" /\ object[c] = 0 /\ loads[c] < MaxLoads
  /\ Distance(c, ChunkOf(player)) <= Release
  /\ loads' = [loads EXCEPT ![c] = @ + 1] /\ object' = [object EXCEPT ![c] = loads'[c]]
  /\ UNCHANGED <<player, solid, when, steps, left, caches, watched, changing, thrown>>

UnloadChunk(c) ==
  /\ when = "frame" /\ object[c] # 0
  /\ Distance(c, ChunkOf(player)) > Release
  /\ object' = [object EXCEPT ![c] = 0]
  /\ UNCHANGED <<player, solid, loads, when, steps, left, caches, watched, changing, thrown>>

-----------------------------------------------------------------------------

(* The thread that changes a block writes it, and then calls the callbacks *)
(* of the chunk under their lock; the one of the physics engine removes    *)
(* the body under the lock of the bodies, and leaves the count alone.      *)
PutBlock(p) ==
  /\ setter = NoChange /\ sets < MaxSets /\ sets' = sets + 1
  /\ object[ChunkOf(p)] # 0
  /\ solid' = (solid \ {p}) \cup ({p} \ solid)
  /\ setter' = Change("written", p, object[ChunkOf(p)])
  /\ UNCHANGED <<player, object, loads, when, steps, left, caches, watched, thrown>>

CallBack ==
  /\ setter.stage = "written"
  /\ setter' = IF <<ChunkOf(setter.block), setter.of>> \in watched
               THEN [setter EXCEPT !.stage = "calling"] ELSE NoChange
  /\ UNCHANGED <<space, when, steps, left, caches, watched, sets, thrown>>

BodiesLocked == when = "update"
CallbacksLocked(c, o) ==
  /\ setter.stage = "calling"
  /\ ChunkOf(setter.block) = c /\ setter.of = o

(* Mutant: a reference is dropped, whether the block had a body or not. *)
chunkBlockDidChangeCounted ==
  LET c == ChunkOf(setter.block) IN
  /\ setter.stage = "calling" /\ ~BodiesLocked
  /\ bodies' = Without({setter.block}) /\ setter' = NoChange
  /\ activeChunks' = [activeChunks EXCEPT ![c] = IF @ = 0 THEN 0 ELSE @ - 1]
  /\ UNCHANGED <<space, when, steps, left, chunkObservers, watched, sets, thrown>>

chunkBlockDidChange ==
  /\ setter.stage = "calling" /\ ~BodiesLocked
  /\ bodies' = Without({setter.block}) /\ setter' = NoChange
  /\ UNCHANGED <<space, when, steps, left, activeChunks, chunkObservers, watched, sets,
                 thrown>>

-----------------------------------------------------------------------------

(* startFrame() destroys the bodies that are far away, and then removes    *)
(* the callbacks of the chunks without references.                         *)
FarBodies == {p \in Known : Distance(p, player) > FarAway}

Purge ==
  /\ when = "frame" /\ when' = "purged"
  /\ bodies' = Without(FarBodies)
  /\ activeChunks' = [c \in Chunk |->
       activeChunks[c] - Cardinality({p \in FarBodies : ChunkOf(p) = c})]
  /\ UNCHANGED <<space, steps, left, chunkObservers, watched, changing, thrown>>

Unneeded == {c \in Chunk : chunkObservers[c] # 0 /\ activeChunks[c] = 0}

DropObserver(c) ==
  /\ when = "purged" /\ c \in Unneeded /\ ~CallbacksLocked(c, object[c])
  /\ chunkObservers' = [chunkObservers EXCEPT ![c] = 0]
  /\ IF object[c] = 0 THEN UNCHANGED <<watched, thrown>>
     ELSE /\ watched' = watched \ {<<c, chunkObservers[c]>>}
          /\ thrown' = (thrown \/ object[c] # chunkObservers[c])
  /\ UNCHANGED <<space, when, steps, left, bodies, activeChunks, changing>>

-----------------------------------------------------------------------------
(* singleStep(): update() makes the bodies, under their lock, and then the *)
(* world is simulated, which moves the player. A frame has any number of   *)
(* steps, none included.                                                   *)
BeginUpdate ==
  /\ \/ when = "purged" /\ Unneeded = {}
     \/ when = "simulated"
  /\ steps < MaxSteps /\ steps' = steps + 1
  /\ when' = "update" /\ left' = Near \ Known
  /\ UNCHANGED <<space, caches, watched, changing, thrown>>

ToRegister(c) ==
  /\ when = "update" /\ activeChunks[c] = 0 /\ chunkObservers[c] # object[c]
  /\ object[c] # 0 /\ \E p \in left : ChunkOf(p) = c

Register(c) ==
  /\ ToRegister(c) /\ ~CallbacksLocked(c, object[c])
  /\ watched' = watched \cup {<<c, object[c]>>}
  /\ chunkObservers' = [chunkObservers EXCEPT ![c] = object[c]]
  /\ UNCHANGED <<space, when, steps, left, bodies, activeChunks, changing, thrown>>

LookAt(p) ==
  LET c == ChunkOf(p) IN
  /\ when = "update" /\ p \in left /\ object[c] # 0
  /\ activeChunks[c] # 0 \/ chunkObservers[c] = object[c]
  /\ activeChunks' = [activeChunks EXCEPT ![c] = @ + 1]
  /\ bodies' = [q \in Known \cup {p} |-> IF q = p THEN p \in solid ELSE bodies[q]]
  /\ left' = left \ {p}
  /\ UNCHANGED <<space, when, steps, chunkObservers, watched, changing, thrown>>

Simulate ==
  /\ when = "update" /\ \A p \in left : object[ChunkOf(p)] = 0
  /\ when' = "simulated" /\ left' = {}
  /\ \E p \in Position : Distance(p, player) <= 1 /\ player' = p
  /\ UNCHANGED <<solid, object, loads, steps, caches, watched, changing, thrown>>

EndFrame ==
  /\ \/ when = "purged" /\ Unneeded = {}
     \/ when = "simulated"
  /\ when' = "frame" /\ steps' = 0
  /\ UNCHANGED <<space, left, caches, watched, changing, thrown>>

CollisionsNext ==
  \/ \E c \in Chunk : LoadChunk(c) \/ UnloadChunk(c) \/ DropObserver(c) \/ Register(c)
  \/ \E p \in Position : PutBlock(p) \/ LookAt(p)
  \/ CallBack \/ chunkBlockDidChange
  \/ Purge \/ BeginUpdate \/ Simulate \/ EndFrame

CollisionsSpec == CollisionsInit /\ [][CollisionsNext]_bodyVars

-----------------------------------------------------------------------------
(* The variables have values of their types.                               *)
CollisionsTypeOK ==
  /\ player \in Position /\ solid \subseteq Position
  /\ object \in [Chunk -> 0..MaxLoads] /\ loads \in [Chunk -> 0..MaxLoads]
  /\ when \in {"frame", "purged", "update", "simulated"} /\ steps \in 0..MaxSteps
  /\ left \subseteq Position
  /\ Known \subseteq Position /\ bodies \in [Known -> BOOLEAN]
  /\ activeChunks \in [Chunk -> Nat] /\ chunkObservers \in [Chunk -> 0..MaxLoads]
  /\ watched \subseteq Chunk \X (1..MaxLoads)
  /\ \/ setter = NoChange
     \/ setter \in [stage : {"written", "calling"}, block : Position, of : 1..MaxLoads]
  /\ sets \in 0..MaxSets

(* The body of a block agrees with the block, but for a change of the      *)
(* block whose callback has still to run, in each chunk that is watched    *)
(* through the object that is loaded: update() reads a block only after    *)
(* the callback was registered (BlockCollision.cpp:193).                   *)
BodiesFollowBlocks ==
  \A p \in Known :
    (<<ChunkOf(p), object[ChunkOf(p)]>> \in watched /\ setter.stage = "none")
    => (bodies[p] <=> p \in solid)

(* decrementChunkRefCount() finds a reference for each body it is called   *)
(* for: a chunk has one for each of its bodies at least.                   *)
EachBodyHasReference == \A c \in Chunk : activeChunks[c] >= Cardinality(KnownOf(c))

(* The two locks are not taken in both orders at once: update() holds the  *)
(* lock of the bodies when it registers its callback, and a thread that    *)
(* holds the lock of the callbacks waits for the one of the bodies.        *)
LocksNeverCross == ~ \E c \in Chunk : ToRegister(c) /\ CallbacksLocked(c, object[c])

(* startFrame() removes a callback from the object that it was registered  *)
(* with: the chunk was not loaded anew in between, and nothing is thrown.  *)
TokensAreKnown == ~thrown

(* Refuted: the bodies agree with the blocks.                              *)
BodiesAreRight ==
  setter.stage = "none" => \A p \in Known : bodies[p] <=> p \in solid

(* The physics engine has a body where there is a block, and lets go of what
   it counted. *)
CollisionsInv ==
    /\ CollisionsTypeOK /\ BodiesFollowBlocks /\ EachBodyHasReference /\ LocksNeverCross
    /\ TokensAreKnown
=============================================================================
