------------------------------- MODULE Torches -------------------------------
(***************************************************************************)
(* The torches of a client (src/world/blockImpl/Torch.cpp): each one that  *)
(* was displayed or placed has a smoke and a light, kept in a map by its   *)
(* position. The main thread and the one that receives changes set blocks, *)
(* and the chunk's callbacks tell the torch block; a mesh worker tells it  *)
(* of each torch that it meets. Chunks are loaded and let go meanwhile, on *)
(* other threads. The blocks are one column of one chunk.                  *)
(***************************************************************************)
EXTENDS Integers, FiniteSets

CONSTANTS
  Top,         \* heights are 1..Top
  Setter,      \* threads that set blocks
  Room,        \* torches that the inventory takes
  MaxSets, MaxLoads, MaxMet    \* bounds: changes, loads of the chunk, torches met by a worker

ASSUME TorchesAssumption ==
  /\ Top \in Nat \ {0} /\ Room \in Nat /\ {MaxSets, MaxLoads, MaxMet} \subseteq Nat
  /\ MaxLoads > 0

VARIABLES
  column,      \* height -> "air", "stone" or "torch"
  known,        \* heights of torches that are known
  smoke,       \* height -> how many smokes and lights are there
  inHand,      \* torches in the inventory
  setting,     \* thread -> the change it wrote and has not told, if any
  met,         \* torches that the mesh worker met and has not told
  lit,         \* history: torches placed with a callback or told by the worker
  mixed,       \* history: heights that two threads changed at once
  current,     \* the object of the chunk, 0 if it is not loaded
  leaving,     \* objects that were let go, and whose handler has not run
  registered,  \* objects that have the torch callback
  observer,    \* the object that the token in chunkObservers is of, 0 if there is none
  told, heard   \* for the bounds

things == <<column, known, smoke, inHand, lit, mixed>>
chunks == <<current, leaving, registered, observer>>
torchVars == <<things, setting, met, chunks, told, heard>>

Height == 1..Top
Settled == [at |-> 0]
Kinds == {"air", "stone", "torch"}
Busy(h) == \E t \in Setter : setting[t] # Settled /\ setting[t].at \in {h - 1, h}

TorchesInit ==
  /\ column = [h \in Height |-> IF h = Top THEN "torch" ELSE "stone"]
  /\ known = {} /\ smoke = [h \in Height |-> 0] /\ inHand \in 0..Room
  /\ setting = [t \in Setter |-> Settled] /\ met = {} /\ lit = {} /\ mixed = {}
  /\ current = 1 /\ leaving = {} /\ registered = {1} /\ observer = 1
  /\ told = 0 /\ heard = 0

-----------------------------------------------------------------------------
(* Block::addParticleSystem, addLight and their likes, which go together.  *)
Smoking(more, fewer) ==
  smoke' = [h \in Height |-> smoke[h] + (IF h \in more THEN 1 ELSE 0)
                                    - (IF h \in fewer THEN 1 ELSE 0)]

(* addInventoryItem: what there is no room for is lost. *)
AddInventoryItem == inHand' = IF inHand < Room THEN inHand + 1 ELSE inHand

(* addedTorch: a torch that is known is left as it is. *)
AddedTorch(h) ==
  /\ known' = known \cup {h}
  /\ Smoking({h} \ known, {})

(* removedTorch, for each of the heights: one that is not known has only a *)
(* line in the log.                                                        *)
RemovedTorches(H) ==
  /\ known' = known \ H
  /\ Smoking({}, H \cap known)

(* A thread writes a block, of a chunk that is loaded; what it tells the   *)
(* callbacks is the kind that was there if the block was removed.          *)
Set(t, h) ==
  /\ setting[t] = Settled /\ current # 0 /\ heard < MaxSets /\ heard' = heard + 1
  /\ \E k \in Kinds :
       /\ k # column[h] /\ (k # "air" => column[h] = "air")
       /\ column' = [column EXCEPT ![h] = k]
       /\ setting' = [setting EXCEPT ![t] =
                        [at |-> h, kind |-> IF k = "air" THEN column[h] ELSE k,
                         removed |-> k = "air", of |-> current]]
  /\ lit' = lit \ {h}
  /\ mixed' = IF Busy(h) \/ Busy(h + 1) THEN mixed \cup {h, h + 1} ELSE mixed
  /\ UNCHANGED <<known, smoke, inHand, met, chunks, told>>

(* blockDidChange of a block that was removed: a torch above it goes too,  *)
(* without a callback of its own, and is put into the inventory, if there  *)
(* is room in it.                                                          *)
Above(c) == {h \in {c.at + 1} \cap Height : column[h] = "torch"}

ToldRemoved(c) ==
  /\ column' = [h \in Height |-> IF h \in Above(c) THEN "air" ELSE column[h]]
  /\ IF Above(c) # {} THEN AddInventoryItem ELSE UNCHANGED inHand
  /\ RemovedTorches(Above(c) \cup {h \in {c.at} : c.kind = "torch"})
  /\ lit' = lit \ Above(c)

(* Mutant: only a worker makes smoke. *)
ToldAddedLater(c) ==
  /\ UNCHANGED <<known, smoke>>
  /\ lit' = IF c.kind = "torch" /\ column[c.at] = "torch" THEN lit \cup {c.at} ELSE lit
  /\ UNCHANGED <<column, inHand>>

ToldAdded(c) ==
  /\ IF c.kind = "torch" THEN AddedTorch(c.at) ELSE UNCHANGED <<known, smoke>>
  /\ lit' = IF c.kind = "torch" /\ column[c.at] = "torch" THEN lit \cup {c.at} ELSE lit
  /\ UNCHANGED <<column, inHand>>

(* The callbacks of the object that was changed are called, if it has ours. *)
Tell(t) ==
  LET c == setting[t] IN
  /\ c # Settled /\ setting' = [setting EXCEPT ![t] = Settled]
  /\ IF c.of \notin registered THEN UNCHANGED <<column, known, smoke, inHand, lit>>
     ELSE IF c.removed THEN ToldRemoved(c) ELSE ToldAdded(c)
  /\ UNCHANGED <<met, mixed, chunks, told, heard>>

-----------------------------------------------------------------------------
(* A mesh worker meets a torch in the blocks that it reads, and tells of   *)
(* it when it makes its vertices.                                          *)
Meet(h) ==
  /\ current # 0 /\ column[h] = "torch" /\ h \notin met /\ met' = met \cup {h}
  /\ told < MaxMet /\ told' = told + 1
  /\ UNCHANGED <<things, setting, chunks, heard>>

BlockWillDisplay(h) ==
  /\ h \in met /\ met' = met \ {h}
  /\ AddedTorch(h)
  /\ lit' = IF column[h] = "torch" THEN lit \cup {h} ELSE lit
  /\ UNCHANGED <<column, inHand, mixed, setting, chunks, told, heard>>

-----------------------------------------------------------------------------
(* The chunk is loaded anew; the token of its callback replaces that of an *)
(* object that is still to be let go.                                      *)
Newest == CHOOSE o \in 0..MaxLoads :
  /\ o \in {current} \cup leaving \cup registered \cup {observer}
  /\ \A q \in {current} \cup leaving \cup registered \cup {observer} : q <= o

ChunkWasLoaded ==
  /\ current = 0 /\ Newest < MaxLoads
  /\ current' = Newest + 1
  /\ registered' = registered \cup {Newest + 1} /\ observer' = Newest + 1
  /\ UNCHANGED <<things, setting, met, leaving, told, heard>>

LetGo ==
  /\ current # 0 /\ current' = 0 /\ leaving' = leaving \cup {current}
  /\ UNCHANGED <<things, setting, met, registered, observer, told, heard>>

(* chunkWillUnload takes the token of the position, and hands it to the    *)
(* object that goes, which may not be the one that gave it: then the token *)
(* is another's, ours by chance, or unknown.                               *)
ChunkWillUnload(o) ==
  /\ o \in leaving /\ leaving' = leaving \ {o} /\ observer' = 0
  /\ \/ observer \in {0, o} /\ registered' = registered \ (IF observer = o THEN {o} ELSE {})
     \/ observer \notin {0, o} /\ registered' \in {registered, registered \ {o}}
  /\ UNCHANGED <<things, setting, met, current, told, heard>>

TorchesNext ==
  \/ \E t \in Setter : Tell(t) \/ \E h \in Height : Set(t, h)
  \/ \E h \in Height : Meet(h) \/ BlockWillDisplay(h)
  \/ ChunkWasLoaded \/ LetGo \/ \E o \in leaving : ChunkWillUnload(o)

TorchesSpec == TorchesInit /\ [][TorchesNext]_torchVars

-----------------------------------------------------------------------------
(* The variables have values of their types.                               *)
TorchesTypeOK ==
  /\ column \in [Height -> Kinds] /\ known \subseteq Height /\ met \subseteq Height
  /\ smoke \in [Height -> Nat] /\ inHand \in 0..Room
  /\ lit \subseteq Height /\ mixed \subseteq 1..(Top + 1)
  /\ \A t \in Setter : setting[t] = Settled \/ setting[t].at \in Height
  /\ current \in 0..MaxLoads /\ leaving \subseteq 1..MaxLoads /\ registered \subseteq 1..MaxLoads
  /\ observer \in 0..MaxLoads /\ told \in 0..MaxMet /\ heard \in 0..MaxSets

(* Every torch that is known has one smoke and one light, and there are no *)
(* others, which nothing would ever remove.                                *)
SmokeOnce == \A h \in Height : smoke[h] = IF h \in known THEN 1 ELSE 0

(* A torch that was placed and told of, or met by a worker, smokes, unless *)
(* two threads changed its place at once.                                  *)
TorchesSmoke == \A h \in lit \ mixed : h \in known

(* The chunk that is loaded tells of its changes, whatever the order in    *)
(* which the handlers of chunks that come and go are run.                  *)
LoadedTells == current # 0 => current \in registered

(* Refuted: where there is no torch there is no smoke.                     *)
NoGhostSmoke ==
  \A h \in known : (h \notin met /\ ~Busy(h)) => column[h] = "torch"

(* Refuted: a token goes to the object that gave it.                       *)
TokensMatch == \A o \in leaving : observer # 0 => observer = o

(* There is smoke, once, where there is a torch. *)
TorchesInv ==
    TorchesTypeOK /\ SmokeOnce /\ TorchesSmoke /\ LoadedTells
=============================================================================
