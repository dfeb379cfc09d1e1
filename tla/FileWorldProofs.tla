--------------------------- MODULE FileWorldProofs ---------------------------
(***************************************************************************)
(* Proofs about FileWorld: whatever the number of chunks, slices and block *)
(* types, the world file can always be read back, provided a failed put    *)
(* ends the process.                                                       *)
(***************************************************************************)
EXTENDS FileWorld, FiniteSetTheorems, FunctionTheorems, TLAPS

(* Of the reader alone, without the history: what a step leaves alone. *)
LEMMA ConstantFacts ==
  /\ MaxY \in Nat /\ AirId \in Nat /\ AirId > 0
  /\ Slice \subseteq Nat
  /\ \A s \in Slice : s < MaxY
  /\ None \notin Chunk
<1>1. Cardinality(Block) \in Nat
  BY FileWorldAssumption, FS_CardinalityType
<1> QED BY <1>1, FileWorldAssumption DEF Slice

(* A map that gives out ids in order has fewer of them than there are block *)
(* types, as long as one type has none.                                     *)
LEMMA RoomForOne ==
  ASSUME NEW n \in Nat, NEW m \in [1..n -> Block], NEW b \in Block,
         \A i, j \in 1..n : m[i] = m[j] => i = j,
         b \notin {m[i] : i \in 1..n}
  PROVE  n + 1 < AirId
<1>1. m \in Injection(1..n, Block \ {b})
  BY DEF Injection, IsInjective
<1>2. IsFiniteSet(Block \ {b}) /\ Cardinality(Block \ {b}) = Cardinality(Block) - 1
  BY FileWorldAssumption, FS_RemoveElement
<1>3. Cardinality(1..n) <= Cardinality(Block \ {b})
  BY <1>1, <1>2, FS_Injection
<1>4. Cardinality(1..n) = n
  BY FS_Interval
<1>5. Cardinality(Block) \in Nat
  BY FileWorldAssumption, FS_CardinalityType
<1> QED BY <1>2, <1>3, <1>4, <1>5, FileWorldAssumption

(* After a start the next id is past those of the file. *)
LEMMA NextIdOfFile ==
  ASSUME NEW m, NEW n \in Nat, n < AirId, DOMAIN m = 1..n
  PROVE  NextId(m) % (AirId + 1) = n + 1
<1> DEFINE P(k) == /\ \A i \in DOMAIN m : i < k
                   /\ k = 1 \/ k - 1 \in DOMAIN m
<1>1. n + 1 \in 1..(AirId + 1) /\ P(n + 1)
  BY ConstantFacts
<1>2. \A k \in 1..(AirId + 1) : P(k) => k = n + 1
  BY ConstantFacts
<1>3. (CHOOSE k \in 1..(AirId + 1) : P(k)) = n + 1
  BY <1>1, <1>2
<1>4. NextId(m) = n + 1
  BY <1>3 DEF NextId
<1> QED BY <1>4, ConstantFacts
-----------------------------------------------------------------------------
LEMMA FileInit == Init => MapInv /\ ReadInv
<1> SUFFICES ASSUME Init PROVE MapInv /\ ReadInv
  OBVIOUS
<1> USE ConstantFacts
<1>1. TypeOK
  <2>1. IsFile(file)
    BY DEF Init, IsFile, IsTypeMap, NoBlocks
  <2>2. IsTypeMap(blockIdMap)
    BY DEF Init, IsTypeMap
  <2>3. /\ mem \in [Chunk -> [Slice -> SUBSET Block]]
        /\ maps \in [Chunk -> SUBSET Block]
        /\ snap \in [Slice -> SUBSET Block]
    BY DEF Init, Idle, NoBlocks
  <2>4. /\ blockIdMapNext \in 0..AirId
        /\ y \in 0..MaxY
        /\ DOMAIN ids \subseteq Block
        /\ ids \in [DOMAIN ids -> 0..AirId]
    BY DEF Init, Idle, NoIds
  <2> QED BY <2>1, <2>2, <2>3, <2>4 DEF Init, Idle, TypeOK
<1>2. MapInOrder /\ TablesInOrder /\ TablesAgree
  BY DEF Init, Idle, MapInOrder, TablesInOrder, TablesAgree, FirstEntries
<1>3. IdsFromMap /\ SlicesRead /\ FileReadable /\ ReadsBack /\ Covering
  BY DEF Init, Idle, IdsFromMap, SlicesRead, FileReadable, ReadsBack, Covering,
         Decode, NoBlocks, NoIds
<1> QED BY <1>1, <1>2, <1>3 DEF MapInv, ReadInv
-----------------------------------------------------------------------------
(* One lemma for each action: it keeps MapInv, and with it ReadInv. *)

(* What a step keeps that touches neither the tables nor the put. *)
LEMMA TablesKept ==
  ASSUME MapInv, UNCHANGED <<file, tx, typeMap, pc>>
  PROVE  /\ MapInOrder' /\ TablesInOrder'
         /\ ReadInv => ReadInv'
<1> USE DEF typeMap
<1>1. MapInOrder' /\ TablesInOrder'
  BY DEF MapInv, MapInOrder, TablesInOrder, FirstEntries
<1>2. ReadInv => ReadInv'
  BY DEF ReadInv, TablesAgree, SlicesRead, FileReadable, ReadsBack, Decode
<1> QED BY <1>1, <1>2

LEMMA FileUnchanged ==
  ASSUME MapInv, UNCHANGED vars
  PROVE  MapInv' /\ (ReadInv => ReadInv')
<1> USE DEF vars, memory, typeMap, put
<1>1. TypeOK'
  BY DEF MapInv, TypeOK, IsFile, IsTypeMap
<1>2. IdsFromMap' /\ Covering'
  BY DEF MapInv, IdsFromMap, Covering
<1> QED BY <1>1, <1>2, TablesKept DEF MapInv

LEMMA FileSetBlock ==
  ASSUME MapInv, NEW c \in Chunk, NEW s \in Slice, NEW b \in Block,
         SetBlock(c, s, b)
  PROVE  MapInv' /\ (ReadInv => ReadInv')
<1> USE DEF SetBlock, typeMap, put
<1>1. /\ mem' \in [Chunk -> [Slice -> SUBSET Block]]
      /\ maps' \in [Chunk -> SUBSET Block]
  BY DEF MapInv, TypeOK
<1>2. TypeOK'
  BY <1>1 DEF MapInv, TypeOK, IsFile, IsTypeMap
<1>3. IdsFromMap'
  BY DEF MapInv, IdsFromMap
<1>4. \A d \in Chunk, r \in Slice : mem[d][r] \subseteq mem'[d][r]
  BY DEF MapInv, TypeOK
<1>5. \A d \in Chunk, r \in Slice : mem'[d][r] \subseteq maps'[d]
  BY DEF MapInv, TypeOK, Covering
<1>6. Covering'
  BY <1>4, <1>5 DEF MapInv, TypeOK, Covering
<1> QED BY <1>2, <1>3, <1>6, TablesKept DEF MapInv

LEMMA FileLoadChunk ==
  ASSUME MapInv, NEW c \in Chunk, LoadChunk(c)
  PROVE  MapInv' /\ (ReadInv => ReadInv')
<1> USE DEF LoadChunk, typeMap, put
<1>1. \A s : Decode(blockIdMap, s) \subseteq Block
  BY DEF MapInv, TypeOK, IsTypeMap, Decode
<1>2. /\ mem' \in [Chunk -> [Slice -> SUBSET Block]]
      /\ maps' \in [Chunk -> SUBSET Block]
  BY <1>1 DEF MapInv, TypeOK
<1>3. TypeOK'
  BY <1>2 DEF MapInv, TypeOK, IsFile, IsTypeMap
<1>4. IdsFromMap'
  BY DEF MapInv, IdsFromMap
<1>5. \A d \in Chunk, r \in Slice : mem'[d][r] \subseteq maps'[d]
  BY DEF MapInv, TypeOK, Covering
<1>6. Covering'
  BY <1>5 DEF MapInv, TypeOK, Covering
<1> QED BY <1>3, <1>4, <1>6, TablesKept DEF MapInv

LEMMA FilePutChunk ==
  ASSUME MapInv, NEW c \in Chunk, PutChunk(c)
  PROVE  MapInv' /\ (ReadInv => ReadInv')
<1> USE DEF PutChunk, memory, typeMap, AtSlice
<1>1. TypeOK'
  BY ConstantFacts DEF MapInv, TypeOK, IsFile, IsTypeMap, NoIds, Slice
<1>2. MapInOrder' /\ TablesInOrder'
  BY DEF MapInv, MapInOrder, TablesInOrder, FirstEntries
<1>3. ReadInv => ReadInv'
  BY DEF ReadInv, TablesAgree, SlicesRead, FileReadable, ReadsBack, Decode
<1>4. IdsFromMap'
  BY DEF IdsFromMap, NoIds
<1>5. \A s \in Slice : s >= 0 /\ ~(s < 0)
  BY ConstantFacts
<1>6. Covering'
  BY <1>5, ConstantFacts DEF MapInv, TypeOK, Covering
<1> QED BY <1>1, <1>2, <1>3, <1>4, <1>6 DEF MapInv

LEMMA FileMapKnown ==
  ASSUME MapInv, MapBlock, NEW b \in maps[chunk] \ DOMAIN ids, MapKnown(b)
  PROVE  MapInv' /\ (ReadInv => ReadInv')
<1> USE DEF MapBlock, memory, typeMap
<1>1. PICK i \in DOMAIN blockIdMap :
        /\ blockIdMap[i] = b
        /\ ids' = [t \in DOMAIN ids \cup {b} |-> IF t = b THEN i ELSE ids[t]]
        /\ UNCHANGED typeMap
  BY DEF MapKnown
<1>2. b \in Block /\ i \in 0..AirId
  BY <1>1 DEF MapInv, TypeOK, IsTypeMap
<1>3. TypeOK'
  BY <1>1, <1>2 DEF MapInv, TypeOK, IsFile, IsTypeMap
<1>4. Covering'
  BY <1>1 DEF MapInv, Covering
<1>5. IdsFromMap'
  BY <1>1 DEF MapInv, IdsFromMap
<1> QED BY <1>1, <1>3, <1>4, <1>5, TablesKept DEF MapInv

LEMMA FileMapNew ==
  ASSUME MapInv, MapBlock, NEW b \in maps[chunk] \ DOMAIN ids, MapNew(b)
  PROVE  MapInv' /\ (ReadInv => ReadInv')
<1> USE DEF MapBlock, memory
<1> DEFINE n == blockIdMapNext
<1>1. /\ b \notin {blockIdMap[i] : i \in DOMAIN blockIdMap}
      /\ ids' = [t \in DOMAIN ids \cup {b} |-> IF t = b THEN n ELSE ids[t]]
      /\ blockIdMap' = [i \in DOMAIN blockIdMap \cup {n} |->
                           IF i = n THEN b ELSE blockIdMap[i]]
      /\ blockIdMapNext' = (n + 1) % (AirId + 1)
      /\ blockIdMapDirty' = TRUE
  BY DEF MapNew
<1>2. b \in Block
  BY DEF MapInv, TypeOK
<1>3. n \in Nat /\ n > 0 /\ DOMAIN blockIdMap = 1..(n - 1)
  BY ConstantFacts DEF MapInv, MapInOrder
<1>4. blockIdMap \in [1..(n - 1) -> Block]
  BY <1>3 DEF MapInv, TypeOK, IsTypeMap
<1>5. n < AirId
  <2>1. (n - 1) + 1 < AirId
    BY <1>1, <1>2, <1>3, <1>4, RoomForOne DEF MapInv, MapInOrder
  <2> QED BY <2>1, <1>3
<1>6. blockIdMapNext' = n + 1
  BY <1>1, <1>3, <1>5, ConstantFacts
<1>7. DOMAIN blockIdMap' = 1..n
  BY <1>1, <1>3
<1>8. /\ blockIdMap'[n] = b
      /\ \A i \in DOMAIN blockIdMap : /\ i # n
                                      /\ i \in DOMAIN blockIdMap'
                                      /\ blockIdMap'[i] = blockIdMap[i]
  BY <1>1, <1>3
<1> HIDE DEF n
<1>9. IsTypeMap(blockIdMap')
  <2>1. DOMAIN blockIdMap' \subseteq 0..AirId
    BY <1>3, <1>5, <1>7, ConstantFacts
  <2>2. blockIdMap' \in [DOMAIN blockIdMap' -> Block]
    BY <1>1, <1>2, <1>3, <1>4
  <2> QED BY <2>1, <2>2 DEF IsTypeMap
<1>10. TypeOK'
  <2>1. DOMAIN ids' \subseteq Block /\ ids' \in [DOMAIN ids' -> 0..AirId]
    BY <1>1, <1>2, <1>3, <1>5, ConstantFacts DEF MapInv, TypeOK
  <2>2. blockIdMapNext' \in 0..AirId
    BY <1>3, <1>5, <1>6, ConstantFacts
  <2> QED BY <1>1, <1>9, <2>1, <2>2 DEF MapInv, TypeOK, IsFile
<1>11. MapInOrder'
  <2>1. DOMAIN blockIdMap' = 1..(blockIdMapNext' - 1)
    BY <1>3, <1>6, <1>7
  <2>2. \A i, j \in DOMAIN blockIdMap' : blockIdMap'[i] = blockIdMap'[j] => i = j
    BY <1>1, <1>8 DEF MapInv, MapInOrder
  <2>3. blockIdMapNext' \in 1..AirId
    BY <1>3, <1>5, <1>6, ConstantFacts
  <2> QED BY <2>1, <2>2, <2>3 DEF MapInOrder
<1>12. TablesInOrder' /\ (TablesAgree => TablesAgree')
  BY <1>1, <1>8 DEF MapInv, TablesInOrder, TablesAgree, FirstEntries
<1>13. IdsFromMap'
  BY <1>1, <1>3, <1>7, <1>8 DEF MapInv, IdsFromMap
<1>14. ASSUME NEW t, t \subseteq DOMAIN blockIdMap
       PROVE  /\ t \subseteq DOMAIN blockIdMap'
              /\ Decode(blockIdMap, t)' = Decode(blockIdMap, t)
  BY <1>8, <1>14 DEF Decode
<1>15. SlicesRead => SlicesRead'
  BY <1>14 DEF SlicesRead, Decode
<1>16. FileReadable /\ ReadsBack => FileReadable' /\ ReadsBack'
  BY DEF FileReadable, ReadsBack, Decode
<1>17. Covering'
  BY DEF MapInv, Covering
<1> QED
  BY <1>10, <1>11, <1>12, <1>13, <1>15, <1>16, <1>17 DEF MapInv, ReadInv

LEMMA OneEntryChanged ==
  ASSUME NEW A, NEW B, NEW T, NEW f \in [A -> [B -> T]],
         NEW a \in A, NEW b \in B, NEW v \in T,
         NEW g, g = [f EXCEPT ![a][b] = v]
  PROVE  /\ g \in [A -> [B -> T]]
         /\ \A c \in A, s \in B :
               g[c][s] = IF c = a /\ s = b THEN v ELSE f[c][s]
OBVIOUS

LEMMA FileWriteSlice ==
  ASSUME MapInv, WriteSlice
  PROVE  MapInv' /\ (ReadInv => ReadInv')
<1> DEFINE written == mem[chunk][y] \cap DOMAIN ids
           row == {ids[b] : b \in written}
<1>1. /\ pc = "slices" /\ chunk \in Chunk /\ y \in Slice
      /\ seen \subseteq DOMAIN ids
      /\ tx' = [types |-> tx.types,
                slices |-> [tx.slices EXCEPT ![chunk][y] = row \ {AirId}],
                blocks |-> [tx.blocks EXCEPT ![chunk][y] = written]]
      /\ y' = y + 1
      /\ pc' = IF y + 1 < MaxY THEN "slices" ELSE "types"
      /\ seen' = maps[chunk]
      /\ ids' = NoIds
      /\ UNCHANGED <<mem, maps, loaded, file, blockIdMap, blockIdMapNext,
                     blockIdMapDirty, chunk, snap>>
  BY DEF MapInv, TypeOK, WriteSlice, memory, typeMap, AtSlice
<1>2. row \subseteq DOMAIN blockIdMap /\ AirId \notin row
  <2>1. AirId \notin DOMAIN blockIdMap
    BY ConstantFacts DEF MapInv, MapInOrder
  <2> QED BY <2>1 DEF MapInv, IdsFromMap
<1>3. Decode(blockIdMap, row) = written
  <2>1. \A b \in written : blockIdMap[ids[b]] = b /\ ids[b] \in DOMAIN blockIdMap
    BY DEF MapInv, IdsFromMap
  <2>2. \A i \in row : i \in DOMAIN blockIdMap /\ blockIdMap[i] \in written
    BY <2>1
  <2>3. \A b \in written : \E i \in row : blockIdMap[i] = b
    BY <2>1
  <2> HIDE DEF written, row
  <2> QED BY <2>2, <2>3 DEF Decode
<1>4. row \subseteq 0..AirId /\ written \subseteq Block
  BY DEF MapInv, TypeOK
<1>5. row \ {AirId} = row
  BY <1>2
<1> HIDE DEF written, row
<1>6. tx.slices \in [Chunk -> [Slice -> SUBSET (0..AirId)]]
      /\ tx.blocks \in [Chunk -> [Slice -> SUBSET Block]]
  BY DEF MapInv, TypeOK, IsFile
<1>7. /\ tx'.slices \in [Chunk -> [Slice -> SUBSET (0..AirId)]]
      /\ \A c \in Chunk, s \in Slice :
            tx'.slices[c][s] = IF c = chunk /\ s = y THEN row
                               ELSE tx.slices[c][s]
  <2> DEFINE T == SUBSET (0..AirId)
             f == tx.slices
             g == tx'.slices
  <2>1. g = [f EXCEPT ![chunk][y] = row]
    BY <1>1, <1>5
  <2>2. row \in T /\ f \in [Chunk -> [Slice -> T]]
        /\ chunk \in Chunk /\ y \in Slice
    BY <1>1, <1>4, <1>6
  <2> HIDE DEF T, f, g
  <2>3. /\ g \in [Chunk -> [Slice -> T]]
        /\ \A c \in Chunk, s \in Slice :
              g[c][s] = IF c = chunk /\ s = y THEN row ELSE f[c][s]
    BY <2>1, <2>2, OneEntryChanged
  <2> QED BY <2>3 DEF T, f, g
<1>8. /\ tx'.blocks \in [Chunk -> [Slice -> SUBSET Block]]
      /\ \A c \in Chunk, s \in Slice :
            tx'.blocks[c][s] = IF c = chunk /\ s = y THEN written
                               ELSE tx.blocks[c][s]
  <2>1. tx'.blocks = [tx.blocks EXCEPT ![chunk][y] = written]
    BY <1>1
  <2>2. written \in SUBSET Block
    BY <1>4
  <2> QED BY <1>1, <1>6, <2>1, <2>2, OneEntryChanged
<1>9. IsFile(tx')
  <2>1. IsTypeMap(tx'.types)
    BY <1>1 DEF MapInv, TypeOK, IsFile
  <2>2. tx' = [types |-> tx'.types, slices |-> tx'.slices, blocks |-> tx'.blocks]
    BY <1>1
  <2> QED BY <1>7, <1>8, <2>1, <2>2 DEF IsFile
<1>10. /\ y + 1 \in 0..MaxY
       /\ y + 1 < MaxY => y + 1 \in Slice
  BY <1>1, ConstantFacts DEF Slice
<1>11. TypeOK'
  <2>1. maps[chunk] \subseteq Block
    BY <1>1 DEF MapInv, TypeOK
  <2>2. DOMAIN ids' \subseteq Block /\ ids' \in [DOMAIN ids' -> 0..AirId]
    BY <1>1 DEF NoIds
  <2>3. IsFile(file')
    BY <1>1 DEF MapInv, TypeOK
  <2>4. pc' \in {"slices", "types"} /\ (pc' = "slices" => y' \in Slice)
    BY <1>1, <1>10
  <2> QED BY <1>1, <1>10, <1>9, <2>1, <2>2, <2>3, <2>4 DEF MapInv, TypeOK
<1>12. MapInOrder' /\ TablesInOrder'
  BY <1>1 DEF MapInv, MapInOrder, TablesInOrder, FirstEntries
<1>13. TablesAgree /\ FileReadable /\ ReadsBack
         => TablesAgree' /\ FileReadable' /\ ReadsBack'
  BY <1>1 DEF TablesAgree, FileReadable, ReadsBack, Decode
<1>14. SlicesRead => SlicesRead'
  <2> SUFFICES ASSUME SlicesRead PROVE SlicesRead'
    OBVIOUS
  <2>1. \A c \in Chunk, s \in Slice :
           /\ tx'.slices[c][s] \subseteq DOMAIN blockIdMap
           /\ Decode(blockIdMap, tx'.slices[c][s]) = tx'.blocks[c][s]
    BY <1>2, <1>3, <1>7, <1>8 DEF SlicesRead
  <2> QED BY <1>1, <2>1 DEF SlicesRead, Decode
<1>15. Covering'
  <2>1. \A c \in Chunk, s \in Slice : mem[c][s] \subseteq maps[c]
    BY DEF MapInv, Covering
  <2>2. ASSUME NEW s \in Slice, s < y + 1
        PROVE  snap[s] \subseteq tx'.blocks[chunk][s]
    <3>1. CASE s < y
      BY <1>1, <1>8, <3>1, ConstantFacts DEF MapInv, Covering, TypeOK
    <3>2. CASE s = y
      <4>1. snap[s] \subseteq mem[chunk][s] \cap seen
        BY <1>1, <3>2, ConstantFacts DEF MapInv, Covering, TypeOK
      <4> QED BY <1>1, <1>8, <3>2, <4>1 DEF written
    <3> QED BY <1>1, <2>2, <3>1, <3>2, ConstantFacts
  <2>3. ASSUME NEW s \in Slice, s >= y + 1
        PROVE  snap[s] \subseteq mem[chunk][s] \cap maps[chunk]
    <3>1. s >= y
      BY <1>1, <2>3, ConstantFacts
    <3> QED BY <1>1, <2>1, <3>1 DEF MapInv, Covering
  <2>4. pc' \in {"types", "commit"} => y + 1 = MaxY
    BY <1>1, <1>10, ConstantFacts
  <2> QED BY <1>1, <2>1, <2>2, <2>3, <2>4 DEF Covering
<1>16. IdsFromMap'
  BY <1>1 DEF IdsFromMap, NoIds
<1> QED
  BY <1>11, <1>12, <1>13, <1>14, <1>15, <1>16 DEF MapInv, ReadInv

LEMMA FileWriteBlockTypeMap ==
  ASSUME MapInv, WriteBlockTypeMap
  PROVE  MapInv' /\ (ReadInv => ReadInv')
<1> USE DEF WriteBlockTypeMap, memory
<1>1. FirstEntries(tx.types)
  BY DEF MapInv, TablesInOrder
<1>2. /\ blockIdMapDirty => tx'.types = blockIdMap
      /\ ~blockIdMapDirty => tx'.types = tx.types
      /\ tx'.slices = tx.slices
      /\ tx'.blocks = tx.blocks
      /\ tx' = [types |-> tx'.types, slices |-> tx'.slices, blocks |-> tx'.blocks]
  <2>1. CASE blockIdMapDirty
    <3>1. DOMAIN tx.types \cup DOMAIN blockIdMap = DOMAIN blockIdMap
      BY <1>1 DEF FirstEntries
    <3>2. tx'.types = [i \in DOMAIN blockIdMap |-> blockIdMap[i]]
      BY <2>1, <3>1
    <3> QED BY <2>1, <3>2 DEF MapInv, TypeOK, IsTypeMap
  <2>2. CASE ~blockIdMapDirty
    BY <2>2 DEF MapInv, TypeOK, IsFile
  <2> QED BY <2>1, <2>2
<1>3. TypeOK'
  <2>1. IsTypeMap(tx.types) /\ IsTypeMap(blockIdMap)
    BY DEF MapInv, TypeOK, IsFile
  <2>2. tx'.types = tx.types \/ tx'.types = blockIdMap
    BY <1>2 DEF MapInv, TypeOK
  <2>3. IsTypeMap(tx'.types)
    BY <2>1, <2>2
  <2>4. IsFile(tx')
    BY <1>2, <2>3 DEF MapInv, TypeOK, IsFile
  <2> QED BY <2>4 DEF MapInv, TypeOK, IsFile, IsTypeMap
<1>4. MapInOrder'
  BY DEF MapInv, MapInOrder
<1>5. FirstEntries(blockIdMap)
  <2>1. blockIdMapNext - 1 \in 0..AirId
    BY ConstantFacts DEF MapInv, MapInOrder
  <2> QED BY <2>1 DEF MapInv, MapInOrder, FirstEntries
<1>6. TablesInOrder'
  BY <1>2, <1>5 DEF MapInv, TablesInOrder, FirstEntries
<1>7. IdsFromMap' /\ Covering'
  BY <1>2 DEF MapInv, IdsFromMap, Covering
<1>8. ReadInv => ReadInv'
  BY <1>2 DEF ReadInv, TablesAgree, SlicesRead, FileReadable, ReadsBack, Decode
<1> QED BY <1>3, <1>4, <1>6, <1>7, <1>8 DEF MapInv

LEMMA FileCommit ==
  ASSUME MapInv, Commit
  PROVE  MapInv' /\ (ReadInv => ReadInv')
<1>1. /\ pc = "commit" /\ file' = tx /\ pc' = "idle" /\ chunk' = None
      /\ y' = 0 /\ seen' = {} /\ ids' = NoIds /\ snap' = NoBlocks
      /\ UNCHANGED <<mem, maps, loaded, tx, blockIdMap, blockIdMapNext,
                     blockIdMapDirty>>
  BY DEF Commit, Idle, memory, typeMap
<1>2. TypeOK'
  BY <1>1, ConstantFacts
     DEF MapInv, TypeOK, IsFile, IsTypeMap, NoIds, NoBlocks
<1>3. MapInOrder' /\ TablesInOrder'
  BY <1>1 DEF MapInv, MapInOrder, TablesInOrder, FirstEntries
<1>4. IdsFromMap' /\ Covering'
  BY <1>1 DEF MapInv, IdsFromMap, Covering, NoIds
<1>5. ReadInv => ReadInv'
  <2> SUFFICES ASSUME ReadInv PROVE ReadInv'
    OBVIOUS
  <2>1. tx.types = blockIdMap
    BY <1>1 DEF ReadInv, TablesAgree
  <2>2. FileReadable' /\ ReadsBack'
    BY <1>1, <2>1 DEF ReadInv, SlicesRead, FileReadable, ReadsBack, Decode
  <2>3. TablesAgree' /\ SlicesRead'
    BY <1>1 DEF ReadInv, TablesAgree, SlicesRead, Decode
  <2> QED BY <2>2, <2>3 DEF ReadInv
<1> QED BY <1>2, <1>3, <1>4, <1>5 DEF MapInv

(* The put is rolled back; the map keeps what it gave out. *)
LEMMA FilePutFails ==
  ASSUME MapInv, PutFails
  PROVE  MapInv'
<1>1. /\ tx' = file /\ file' = file /\ pc' = "idle" /\ chunk' = None
      /\ y' = 0 /\ seen' = {} /\ ids' = NoIds /\ snap' = NoBlocks
      /\ UNCHANGED <<mem, maps, loaded, blockIdMap, blockIdMapNext,
                     blockIdMapDirty>>
  BY DEF PutFails, Idle, memory, typeMap
<1>2. TypeOK'
  BY <1>1, ConstantFacts
     DEF MapInv, TypeOK, IsFile, IsTypeMap, NoIds, NoBlocks
<1>3. MapInOrder' /\ TablesInOrder'
  BY <1>1 DEF MapInv, MapInOrder, TablesInOrder, FirstEntries
<1>4. IdsFromMap' /\ Covering'
  BY <1>1 DEF MapInv, IdsFromMap, Covering, NoIds
<1> QED BY <1>2, <1>3, <1>4 DEF MapInv

LEMMA FileDie ==
  ASSUME MapInv, Die
  PROVE  MapInv' /\ (ReadInv => ReadInv')
<1>1. /\ mem' = [c \in Chunk |-> NoBlocks] /\ maps' = [c \in Chunk |-> {}]
      /\ loaded' = {} /\ tx' = file /\ file' = file
      /\ blockIdMap' = file.types
      /\ blockIdMapNext' = NextId(file.types) % (AirId + 1)
      /\ blockIdMapDirty' = FALSE
      /\ pc' = "idle" /\ chunk' = None /\ y' = 0 /\ seen' = {}
      /\ ids' = NoIds /\ snap' = NoBlocks
  BY DEF Die, Idle
<1>2. PICK n \in 0..AirId : DOMAIN file.types = 1..n
  BY DEF MapInv, TablesInOrder, FirstEntries
<1>3. n < AirId
  <2>1. \A i \in 1..n : i < AirId
    BY <1>2, ConstantFacts DEF MapInv, MapInOrder, TablesInOrder,
                               FirstEntries
  <2> QED BY <2>1, ConstantFacts
<1>4. blockIdMapNext' = n + 1
  BY <1>1, <1>2, <1>3, NextIdOfFile
<1>5. IsFile(file)
  BY DEF MapInv, TypeOK
<1>6. TypeOK'
  <2>1. blockIdMapNext' \in 0..AirId
    BY <1>3, <1>4, ConstantFacts
  <2>2. IsTypeMap(blockIdMap') /\ IsFile(file') /\ IsFile(tx')
    BY <1>1, <1>5 DEF IsFile
  <2>3. /\ mem' \in [Chunk -> [Slice -> SUBSET Block]]
        /\ maps' \in [Chunk -> SUBSET Block]
        /\ snap' \in [Slice -> SUBSET Block]
        /\ y' \in 0..MaxY
        /\ DOMAIN ids' \subseteq Block /\ ids' \in [DOMAIN ids' -> 0..AirId]
    BY <1>1, ConstantFacts DEF NoBlocks, NoIds
  <2> QED BY <1>1, <2>1, <2>2, <2>3 DEF TypeOK
<1>7. MapInOrder'
  <2>1. \A i, j \in DOMAIN file.types :
           file.types[i] = file.types[j] => i = j
    BY DEF MapInv, MapInOrder, TablesInOrder,
                               FirstEntries
  <2>2. n + 1 \in 1..AirId /\ (n + 1) - 1 = n
    BY <1>3, ConstantFacts
  <2> QED BY <1>1, <1>2, <1>4, <2>1, <2>2 DEF MapInOrder
<1>8. TablesInOrder' /\ TablesAgree'
  BY <1>1, <1>2 DEF TablesInOrder, TablesAgree, FirstEntries
<1>9. FileReadable /\ ReadsBack => SlicesRead' /\ FileReadable' /\ ReadsBack'
  BY <1>1 DEF SlicesRead, FileReadable, ReadsBack, Decode
<1>10. Covering' /\ IdsFromMap'
  BY <1>1 DEF Covering, NoBlocks, IdsFromMap, NoIds
<1> QED BY <1>6, <1>7, <1>8, <1>9, <1>10 DEF MapInv, ReadInv

LEMMA FileNext ==
  ASSUME MapInv, [Next]_vars
  PROVE  MapInv' /\ (~CallerSurvives /\ ReadInv => ReadInv')
<1>1. CASE MapBlock
  BY <1>1, FileMapKnown, FileMapNew DEF MapBlock
<1>2. CASE PutFails
  BY <1>2, FilePutFails DEF PutFails
<1> QED
  BY <1>1, <1>2, FileUnchanged, FileSetBlock, FileLoadChunk, FilePutChunk,
     FileWriteSlice, FileWriteBlockTypeMap, FileCommit, FileDie
     DEF Next

LEMMA FileInvariant == Spec => []MapInv
<1>1. MapInv /\ [Next]_vars => MapInv'
  BY FileNext
<1> QED BY <1>1, FileInit, PTL DEF Spec

LEMMA FileReads ==
  ASSUME ~CallerSurvives
  PROVE  Spec => []ReadInv
<1>1. MapInv /\ ReadInv /\ [Next]_vars => ReadInv'
  BY FileNext
<1> QED BY <1>1, FileInit, FileInvariant, PTL DEF Spec
-----------------------------------------------------------------------------
(* The types of the reader's state, whatever fails.                        *)
THEOREM FileTypeCorrect == Spec => []TypeOK
<1>1. MapInv => TypeOK
  BY DEF MapInv
<1> QED BY <1>1, FileInvariant, PTL

(* The world file can be read back in full, at any time.                   *)
THEOREM FileAlwaysReadable ==
  ASSUME ~CallerSurvives
  PROVE  Spec => []FileReadable
<1>1. ReadInv => FileReadable
  BY DEF ReadInv
<1> QED BY <1>1, FileReads, PTL

(* ... and what is read is what was written.                               *)
THEOREM FileReadsBack ==
  ASSUME ~CallerSurvives
  PROVE  Spec => []ReadsBack
<1>1. ReadInv => ReadsBack
  BY DEF ReadInv
<1> QED BY <1>1, FileReads, PTL

(* A put saves all that the chunk held when it was begun, as WorldSource   *)
(* assumes of it, after puts that failed, too.                             *)
THEOREM PutsCoverSnapshot == Spec => []PutCoversSnapshot
<1>1. MapInv => PutCoversSnapshot
  <2> SUFFICES ASSUME MapInv, pc \in {"types", "commit"}, NEW s \in Slice
               PROVE  snap[s] \subseteq tx.blocks[chunk][s]
    BY DEF PutCoversSnapshot
  <2>1. s < y
    BY ConstantFacts DEF MapInv, Covering
  <2> QED BY <2>1 DEF MapInv, Covering
<1> QED BY <1>1, FileInvariant, PTL

(* The 16 bit counter never reaches the ids that are not for blocks,       *)
(* though a put that fails keeps the ids it gave out.                      *)
THEOREM IdsStayInRange == Spec => []IdsInRange
<1>1. MapInv => IdsInRange
  BY ConstantFacts DEF MapInv, MapInOrder, IdsInRange
<1> QED BY <1>1, FileInvariant, PTL

(* An id means the same block type for ever, whatever fails.               *)
THEOREM IdsKept == Spec => IdsNeverRebound
<1> DEFINE Kept == \A i \in DOMAIN file.types :
                      i \in DOMAIN file'.types /\ file'.types[i] = file.types[i]
<1>1. MapInv /\ [Next]_vars => [Kept]_vars
  <2> SUFFICES ASSUME MapInv, [Next]_vars PROVE Kept
    OBVIOUS
  <2>1. CASE Commit
    <3>1. file'.types = tx.types
      BY <2>1 DEF Commit
    <3> QED BY <3>1 DEF MapInv, TablesInOrder, FirstEntries
  <2>2. ASSUME ~Commit PROVE file' = file
    BY <2>2 DEF Next, SetBlock, LoadChunk, PutChunk, MapBlock, WriteSlice,
       WriteBlockTypeMap, PutFails, Die, vars
  <2> QED BY <2>1, <2>2
<1> QED BY <1>1, FileInvariant, PTL DEF Spec, IdsNeverRebound
=============================================================================
