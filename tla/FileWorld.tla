------------------------------ MODULE FileWorld ------------------------------
(***************************************************************************)
(* shared/world/FileWorldReader: chunks are written to the world file in a *)
(* transaction, as 16 bit ids that a type map of the file, shared by all   *)
(* chunks, translates to block types.  The map has a copy in memory, which *)
(* gives out ids while the slices of a chunk are serialised, and is put in *)
(* the file after them.                                                    *)
(*                                                                         *)
(* A slice is the set of block types it holds besides air; compression and *)
(* the place of each block are left out (ChunkData has them).  All of this *)
(* runs on the reader's one worker thread, while other threads change the  *)
(* chunks.                                                                 *)
(***************************************************************************)
EXTENDS Naturals, FiniteSets

CONSTANTS
    Chunk,            \* positions of chunks, one chunk object each
    MaxY,             \* slices of a chunk
    Block,            \* block types other than air
    AirId,            \* the id that stands for air, 16 bits of ones
    CallerSurvives,   \* the caller of putChunk outlives its failure
    None              \* no chunk

Slice == 0..(MaxY - 1)

ASSUME FileWorldAssumption ==
    /\ MaxY \in Nat
    /\ AirId \in Nat
    /\ IsFiniteSet(Block)
    /\ Cardinality(Block) < AirId
    /\ CallerSurvives \in BOOLEAN
    /\ None \notin Chunk

VARIABLES
    mem,             \* block types in each slice of each chunk object
    maps,            \* block types in the 8 bit maps of each chunk object
    loaded,          \* chunks that have been loaded since the start
    file,            \* the world file, as it is committed
    tx,              \* the world file, as the open transaction sees it
    blockIdMap,      \* ids to block types, in memory
    blockIdMapNext,
    blockIdMapDirty,
    pc,              \* the worker: idle, or the step of putChunk it is at
    chunk,           \* the chunk that is put
    y,               \* its slice that is written next
    seen,            \* its block types when the slice was begun
    ids,             \* chunkIdMaps: block types of this chunk to ids
    snap             \* history: what the chunk held when the put began

memory == <<mem, maps, loaded>>
typeMap == <<blockIdMap, blockIdMapNext, blockIdMapDirty>>
put == <<pc, chunk, y, seen, ids, snap>>
vars == <<memory, file, tx, typeMap, put>>

NoIds == [b \in {} |-> AirId]

IsTypeMap(m) == /\ DOMAIN m \subseteq 0..AirId
                /\ m \in [DOMAIN m -> Block]

(* types and slices are tables; blocks is the history of what was written. *)
IsFile(f) ==
    /\ f = [types |-> f.types, slices |-> f.slices, blocks |-> f.blocks]
    /\ IsTypeMap(f.types)
    /\ f.slices \in [Chunk -> [Slice -> SUBSET (0..AirId)]]
    /\ f.blocks \in [Chunk -> [Slice -> SUBSET Block]]

TypeOK ==
    /\ mem \in [Chunk -> [Slice -> SUBSET Block]]
    /\ maps \in [Chunk -> SUBSET Block]
    /\ loaded \subseteq Chunk
    /\ IsFile(file) /\ IsFile(tx)
    /\ IsTypeMap(blockIdMap)
    /\ blockIdMapNext \in 0..AirId
    /\ blockIdMapDirty \in BOOLEAN
    /\ pc \in {"idle", "slices", "types", "commit"}
    /\ chunk \in Chunk \cup {None}
    /\ pc # "idle" => chunk \in Chunk
    /\ y \in 0..MaxY
    /\ pc = "slices" => y \in Slice
    /\ seen \in SUBSET Block
    /\ DOMAIN ids \subseteq Block
    /\ ids \in [DOMAIN ids -> 0..AirId]
    /\ snap \in [Slice -> SUBSET Block]

NoBlocks == [s \in Slice |-> {}]
Idle(p, c, s, n, i, h) ==
    p = "idle" /\ c = None /\ s = 0 /\ n = {} /\ i = NoIds /\ h = NoBlocks

Init ==
    /\ mem = [c \in Chunk |-> NoBlocks]
    /\ maps = [c \in Chunk |-> {}]
    /\ loaded = {}
    /\ file = [types |-> [i \in {} |-> None],
               slices |-> [c \in Chunk |-> NoBlocks],
               blocks |-> [c \in Chunk |-> NoBlocks]]
    /\ tx = file
    /\ blockIdMap = file.types
    /\ blockIdMapNext = 1
    /\ blockIdMapDirty = FALSE
    /\ Idle(pc, chunk, y, seen, ids, snap)

-----------------------------------------------------------------------------
(* The rest of the program *)

(* A block is placed; its type goes to the row's map when it is not there. *)
SetBlock(c, s, b) ==
    /\ c \in loaded
    /\ mem' = [mem EXCEPT ![c][s] = @ \cup {b}]
    /\ maps' = [maps EXCEPT ![c] = @ \cup {b}]
    /\ UNCHANGED <<loaded, file, tx, typeMap, put>>

-----------------------------------------------------------------------------
(* Reading a chunk *)

Decode(m, s) == {m[i] : i \in s \cap DOMAIN m}

(* A chunk object is made from the file; an id that is not in the map      *)
(* fails the request, air has the map entries that are left.               *)
LoadChunk(c) ==
    /\ pc = "idle"
    /\ \A s \in Slice : file.slices[c][s] \subseteq DOMAIN blockIdMap
    /\ mem' = [mem EXCEPT ![c] = [s \in Slice |->
                                    Decode(blockIdMap, file.slices[c][s])]]
    /\ maps' = [maps EXCEPT ![c] =
                   UNION {Decode(blockIdMap, file.slices[c][s]) : s \in Slice}]
    /\ loaded' = loaded \cup {c}
    /\ UNCHANGED <<file, tx, typeMap, put>>

-----------------------------------------------------------------------------
(* Writing a chunk: putChunk, writeChunk *)

(* Mutant: one slice too many. *)
AtSliceTooFar(s, c) ==
    /\ y' = s
    /\ pc' = IF s <= MaxY THEN "slices" ELSE "types"
    /\ seen' = maps[c]
    /\ ids' = NoIds

(* The slices are written in order of y, and then the type map. *)
AtSlice(s, c) ==
    /\ y' = s
    /\ pc' = IF s < MaxY THEN "slices" ELSE "types"
    /\ seen' = maps[c]
    /\ ids' = NoIds

PutChunk(c) ==
    /\ pc = "idle"
    /\ c \in loaded
    /\ chunk' = c
    /\ snap' = mem[c]
    /\ AtSlice(0, c)
    /\ UNCHANGED <<memory, file, tx, typeMap>>

(* Mutants: the new entry does not make the map dirty; ids are given out   *)
(* again for types that have one.                                          *)
MapNewClean(b) ==
    /\ b \notin {blockIdMap[i] : i \in DOMAIN blockIdMap}
    /\ ids' = [t \in DOMAIN ids \cup {b} |->
                  IF t = b THEN blockIdMapNext ELSE ids[t]]
    /\ blockIdMap' = [i \in DOMAIN blockIdMap \cup {blockIdMapNext} |->
                         IF i = blockIdMapNext THEN b ELSE blockIdMap[i]]
    /\ blockIdMapNext' = (blockIdMapNext + 1) % (AirId + 1)
    /\ UNCHANGED blockIdMapDirty

MapNewAlways(b) ==
    /\ ids' = [t \in DOMAIN ids \cup {b} |->
                  IF t = b THEN blockIdMapNext ELSE ids[t]]
    /\ blockIdMap' = [i \in DOMAIN blockIdMap \cup {blockIdMapNext} |->
                         IF i = blockIdMapNext THEN b ELSE blockIdMap[i]]
    /\ blockIdMapNext' = (blockIdMapNext + 1) % (AirId + 1)
    /\ blockIdMapDirty' = TRUE

(* serializeSliceBlocks first gives an id to each type in the chunk's maps:*)
(* the one it has ...                                                      *)
MapKnown(b) ==
    /\ \E i \in DOMAIN blockIdMap :
          /\ blockIdMap[i] = b
          /\ ids' = [t \in DOMAIN ids \cup {b} |-> IF t = b THEN i ELSE ids[t]]
    /\ UNCHANGED typeMap

(* ... or the next one. *)
MapNew(b) ==
    /\ b \notin {blockIdMap[i] : i \in DOMAIN blockIdMap}
    /\ ids' = [t \in DOMAIN ids \cup {b} |->
                  IF t = b THEN blockIdMapNext ELSE ids[t]]
    /\ blockIdMap' = [i \in DOMAIN blockIdMap \cup {blockIdMapNext} |->
                         IF i = blockIdMapNext THEN b ELSE blockIdMap[i]]
    /\ blockIdMapNext' = (blockIdMapNext + 1) % (AirId + 1)
    /\ blockIdMapDirty' = TRUE

MapBlock ==
    /\ pc = "slices"
    /\ \E b \in maps[chunk] \ DOMAIN ids : MapKnown(b) \/ MapNew(b)
    /\ UNCHANGED <<memory, file, tx, pc, chunk, y, seen, snap>>

(* Mutant: the rows are read before all types have an id. *)
WriteSliceEarly ==
    /\ pc = "slices"
    /\ LET written == mem[chunk][y] \cap DOMAIN ids
           row == {ids[b] : b \in written}
       IN /\ 0 \notin row
          /\ tx' = [types |-> tx.types,
                    slices |-> [tx.slices EXCEPT ![chunk][y] = row \ {AirId}],
                    blocks |-> [tx.blocks EXCEPT ![chunk][y] = written]]
    /\ AtSlice(y + 1, chunk)
    /\ UNCHANGED <<memory, file, typeMap, chunk, snap>>

(* Then the rows are read: a type that came to the maps after them reads   *)
(* as air.  A row with an id of zero fails an assertion (Die).             *)
WriteSlice ==
    /\ pc = "slices"
    /\ seen \subseteq DOMAIN ids
    /\ LET written == mem[chunk][y] \cap DOMAIN ids
           row == {ids[b] : b \in written}
       IN /\ 0 \notin row
          /\ tx' = [types |-> tx.types,
                    slices |-> [tx.slices EXCEPT ![chunk][y] = row \ {AirId}],
                    blocks |-> [tx.blocks EXCEPT ![chunk][y] = written]]
    /\ AtSlice(y + 1, chunk)
    /\ UNCHANGED <<memory, file, typeMap, chunk, snap>>

(* Entries are added or replaced, never removed. *)
WriteBlockTypeMap ==
    /\ pc = "types"
    /\ tx' = IF blockIdMapDirty
             THEN [types |-> [i \in DOMAIN tx.types \cup DOMAIN blockIdMap |->
                                IF i \in DOMAIN blockIdMap THEN blockIdMap[i]
                                ELSE tx.types[i]],
                   slices |-> tx.slices,
                   blocks |-> tx.blocks]
             ELSE tx
    /\ blockIdMapDirty' = FALSE
    /\ pc' = "commit"
    /\ UNCHANGED <<memory, file, blockIdMap, blockIdMapNext, chunk, y, seen,
                   ids, snap>>

Commit ==
    /\ pc = "commit"
    /\ file' = tx
    /\ Idle(pc', chunk', y', seen', ids', snap')
    /\ UNCHANGED <<memory, tx, typeMap>>

(* Mutant: the next id is the largest of the file. *)
NextIdReused(m) ==
    IF DOMAIN m = {} THEN 1
    ELSE CHOOSE n \in DOMAIN m : \A i \in DOMAIN m : i <= n

(* The next id after a start: past all those of the file. *)
NextId(m) ==
    CHOOSE n \in 1..(AirId + 1) :
        /\ \A i \in DOMAIN m : i < n
        /\ n = 1 \/ n - 1 \in DOMAIN m

(* The process ends, at any step, and the program starts again: it has the *)
(* file as it was committed, and the type map of that.                     *)
Die ==
    /\ mem' = [c \in Chunk |-> NoBlocks]
    /\ maps' = [c \in Chunk |-> {}]
    /\ loaded' = {}
    /\ tx' = file
    /\ blockIdMap' = file.types
    /\ blockIdMapNext' = NextId(file.types) % (AirId + 1)
    /\ blockIdMapDirty' = FALSE
    /\ Idle(pc', chunk', y', seen', ids', snap')
    /\ UNCHANGED file

(* A step of the put fails, and the transaction is rolled back.  The map   *)
(* keeps what it gave out.  WorldSource does not catch the exception, the  *)
(* world debugger does.                                                    *)
PutFails ==
    /\ CallerSurvives
    /\ pc # "idle"
    /\ tx' = file
    /\ Idle(pc', chunk', y', seen', ids', snap')
    /\ UNCHANGED <<memory, file, typeMap>>

-----------------------------------------------------------------------------
Next ==
    \/ \E c \in Chunk, s \in Slice, b \in Block : SetBlock(c, s, b)
    \/ \E c \in Chunk : LoadChunk(c)
    \/ \E c \in Chunk : PutChunk(c)
    \/ MapBlock
    \/ WriteSlice
    \/ WriteBlockTypeMap
    \/ Commit
    \/ PutFails
    \/ Die

Spec == Init /\ [][Next]_vars
-----------------------------------------------------------------------------
(* Properties *)

(* Every id in the slices of the file is in its type map: the program that *)
(* opens the world next can read all of it, whatever was cut short before. *)
FileReadable ==
    \A c \in Chunk, s \in Slice : file.slices[c][s] \subseteq DOMAIN file.types

(* The ids of a slice read back as the block types it was written with,    *)
(* after other chunks have added to the map, after failures and restarts.  *)
ReadsBack ==
    \A c \in Chunk, s \in Slice :
        Decode(file.types, file.slices[c][s]) = file.blocks[c][s]

(* An id of the type map keeps its block type for the life of the file:    *)
(* chunks written long ago use it.                                         *)
IdsNeverRebound ==
    [][\A i \in DOMAIN file.types :
          i \in DOMAIN file'.types /\ file'.types[i] = file.types[i]]_vars

(* A put has in it all that the chunk held when it began (the assumption   *)
(* of WorldSource!PutChunk), though blocks are placed while it runs.       *)
PutCoversSnapshot ==
    pc \in {"types", "commit"} =>
        \A s \in Slice : snap[s] \subseteq tx.blocks[chunk][s]

(* The two ids that do not stand for a block are never given to one: each  *)
(* type is given one id, so that the 16 bit counter does not wrap.         *)
IdsInRange == {0, AirId} \cap DOMAIN blockIdMap = {}

(* The inductive invariant behind these.  Whatever fails, the map gives    *)
(* out ids in order, each type once; ...                                   *)
MapInOrder ==
    /\ blockIdMapNext \in 1..AirId
    /\ DOMAIN blockIdMap = 1..(blockIdMapNext - 1)
    /\ \A i, j \in DOMAIN blockIdMap : blockIdMap[i] = blockIdMap[j] => i = j

(* ... the file and the transaction have its first entries; ...            *)
FirstEntries(m) ==
    /\ \E n \in 0..AirId : DOMAIN m = 1..n
    /\ DOMAIN m \subseteq DOMAIN blockIdMap
    /\ \A i \in DOMAIN m : m[i] = blockIdMap[i]

TablesInOrder ==
    /\ FirstEntries(file.types) /\ FirstEntries(tx.types)
    /\ DOMAIN file.types \subseteq DOMAIN tx.types
    /\ pc = "idle" => tx = file

(* ... the ids of the put are from it; ...                                 *)
IdsFromMap ==
    \A b \in DOMAIN ids : ids[b] \in DOMAIN blockIdMap /\ blockIdMap[ids[b]] = b

(* ... and the put has covered the slices below y, and will see the rest.  *)
Covering ==
    /\ \A c \in Chunk, s \in Slice : mem[c][s] \subseteq maps[c]
    /\ pc # "idle" => \A s \in Slice :
          /\ s < y => snap[s] \subseteq tx.blocks[chunk][s]
          /\ s >= y => snap[s] \subseteq mem[chunk][s] \cap seen
    /\ pc \in {"types", "commit"} => y = MaxY

MapInv == TypeOK /\ MapInOrder /\ TablesInOrder /\ IdsFromMap /\ Covering

(* If nobody goes on after a failed put, moreover the transaction has all  *)
(* entries when the map is clean, and slices are read back through it.     *)
TablesAgree ==
    /\ ~blockIdMapDirty => tx.types = blockIdMap
    /\ pc \in {"idle", "commit"} => ~blockIdMapDirty

SlicesRead ==
    \A c \in Chunk, s \in Slice :
        /\ tx.slices[c][s] \subseteq DOMAIN blockIdMap
        /\ Decode(blockIdMap, tx.slices[c][s]) = tx.blocks[c][s]

ReadInv == TablesAgree /\ SlicesRead /\ FileReadable /\ ReadsBack
=============================================================================
