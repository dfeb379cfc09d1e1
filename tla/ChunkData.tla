------------------------------ MODULE ChunkData ------------------------------
(***************************************************************************)
(* How a chunk stores its blocks: shared/world/chunk, the terrain          *)
(* generator that makes a chunk, and the way a chunk goes to the world     *)
(* file and back.                                                          *)
(*                                                                         *)
(* A row of blocks is null, dense or sparse, and holds small numbers that  *)
(* one of the chunk's maps translates to block types.  In the file a row   *)
(* has one file id per block; the ids stand for types here, as FileWorld   *)
(* keeps their table.  One thread works on the chunk at a time.            *)
(***************************************************************************)
EXTENDS Naturals, FiniteSets, Sequences, SequencesExt

CONSTANTS
    NumSlices,      \* Chunk::kMaxY
    NumRows,        \* rows of a slice
    Width,          \* blocks of a row
    MaxEntries,     \* ChunkSliceRowSparse::kMaxEntries
    MapSize,        \* entries of a ChunkRowBlockTypeMap
    NumTypes,       \* block types besides air, in the order of their file ids
    NumGenerated,   \* those that terrain is made of: stone, dirt
    MaxUnsaved      \* bound: blocks set between two saves

Stone == 1
Dirt == 2
Nil == 0
Air == NumTypes + 1
Block == 1..Air
Place == (0..(NumSlices - 1)) \X (0..(NumRows - 1))
Column == 0..(Width - 1)
Entry == 0..(MapSize - 1)

ASSUME ChunkDataAssumption ==
    /\ {NumSlices, NumRows, Width, MapSize, NumTypes} \subseteq Nat \ {0}
    /\ MaxEntries \in 1..Width
    /\ NumGenerated \in 1..2 /\ NumGenerated <= NumTypes
    /\ MapSize > NumTypes
    /\ MaxUnsaved \in Nat

VARIABLES
    rows,           \* the rows of the chunk's slices
    maps,           \* sliceIdMaps
    file,           \* block types by place and column; NoFile
    solid,          \* where the noise has dirt; {} once the chunk is saved
    unsaved,        \* blocks set since the last save
    fault           \* why the program has ended, or "none"

vars == <<rows, maps, file, solid, unsaved, fault>>

NoFile == <<>>
Null == [kind |-> "null"]
Dense(m, cells) == [kind |-> "dense", typeMap |-> m, storage |-> cells]
Sparse(m, def, entries) ==
    [kind |-> "sparse", typeMap |-> m, defaultBlockId |-> def,
     storage |-> entries]

First(S) == CHOOSE i \in S : \A j \in S : i <= j

(* The element of a set of numbers that n others come before. *)
Nth(S, n) == CHOOSE i \in S : Cardinality({j \in S : j < i}) = n

-----------------------------------------------------------------------------
(* ChunkSliceRow: a sparse row is a list of <<x, value>>. *)

(* Where bsearch finds the entry of x among those after r[1] and up to     *)
(* r[2], or 0.                                                             *)
Search(entries, x) ==
    LET probe[r \in (0..Len(entries)) \X (0..Len(entries))] ==
            LET i == (r[1] + r[2]) \div 2
            IN IF r[1] >= r[2] THEN 0
               ELSE IF entries[i + 1][1] = x THEN i + 1
               ELSE IF entries[i + 1][1] > x THEN probe[<<r[1], i>>]
               ELSE probe[<<i + 1, r[2]>>]
    IN probe[<<0, Len(entries)>>]

At(row, x) ==
    IF row.kind = "dense" THEN row.storage[x]
    ELSE LET j == Search(row.storage, x)
         IN IF j = 0 THEN row.defaultBlockId ELSE row.storage[j][2]

Put(row, x, v) ==
    LET s == row.storage
        held == {j \in DOMAIN s : s[j][1] = x}
        j == CHOOSE k \in held : \A i \in held : k <= i
        entries == CASE held # {} /\ v # row.defaultBlockId ->
                            [s EXCEPT ![j] = <<x, v>>]
                     [] held # {} /\ v = row.defaultBlockId -> RemoveAt(s, j)
                     [] held = {} /\ v # row.defaultBlockId ->
                            Append(s, <<x, v>>)
                     [] OTHER -> s
    IN IF row.kind = "dense" THEN [row EXCEPT !.storage[x] = v]
       ELSE [row EXCEPT !.storage = entries]

(* Mutant: the entries stay in the order they came. *)
PreparedNot(row) == row

(* prepare: the entries by their columns. *)
Prepared(row) ==
    LET s == row.storage
        columns == {e[1] : e \in ToSet(s)}
    IN IF row.kind = "dense" THEN row
       ELSE [row EXCEPT !.storage =
                [j \in DOMAIN s |->
                    CHOOSE e \in ToSet(s) : e[1] = Nth(columns, j - 1)]]

HasSpaceAvailable(row) == row.kind = "sparse" => Len(row.storage) < MaxEntries

-----------------------------------------------------------------------------
(* Chunk *)

GetBlock(p, x) ==
    IF rows[p].kind = "null" THEN Air
    ELSE maps[rows[p].typeMap + 1][At(rows[p], x)]

Entries(m, t) == {i \in Entry : m[i] = t}

(* Mutant: a type takes a new entry although the map has it. *)
EntryForNew(m, b) ==
    IF Entries(m, Nil) # {} THEN {First(Entries(m, Nil))} ELSE {}

(* The entry for a type: the one it has, or the first that is free. *)
EntryFor(m, b) ==
    IF Entries(m, b) # {} THEN {First(Entries(m, b))}
    ELSE IF Entries(m, Nil) # {} THEN {First(Entries(m, Nil))}
    ELSE {}

Fault(why) ==
    /\ fault' = why
    /\ UNCHANGED <<rows, maps, file, solid, unsaved>>

(* Mutant: a new row is full of the first type of its map. *)
FilledFirst(m, air) == Dense(m, [x \in Column |-> 0])

Filled(m, air) == Dense(m, [x \in Column |-> air])

(* A full sparse row becomes dense, even if it has an entry for the block. *)
Widened(row) ==
    IF HasSpaceAvailable(row) THEN row
    ELSE Dense(row.typeMap, [x \in Column |-> At(row, x)])

SetBlock(p, x, b) ==
    LET m == IF rows[p].kind = "null" THEN 0 ELSE rows[p].typeMap
    IN /\ fault = "none"
       /\ unsaved < MaxUnsaved
       /\ IF m >= Len(maps) THEN Fault("no map")
          ELSE IF EntryFor(maps[m + 1], b) = {} THEN Fault("map full")
          ELSE \E v \in EntryFor(maps[m + 1], b) :
            LET map == [maps[m + 1] EXCEPT ![v] = b]
                air == Entries(map, Air)
                row == IF rows[p].kind = "null" THEN Filled(m, First(air))
                       ELSE Widened(rows[p])
            IN IF air = {} THEN Fault("no air")
               ELSE /\ maps' = [maps EXCEPT ![m + 1] = map]
                    /\ rows' = [rows EXCEPT ![p] = Prepared(Put(row, x, v))]
                    /\ unsaved' = unsaved + 1
                    /\ UNCHANGED <<file, solid, fault>>

-----------------------------------------------------------------------------
(* Terrain *)

GeneratedMap ==
    [i \in Entry |-> IF i = 0 THEN Air ELSE IF i <= NumGenerated THEN i ELSE Nil]

(* Dirt above the floor if the terrain has dirt. *)
FillSlice(dirt) ==
    CASE dirt = {} -> Null
      [] dirt # {} /\ Cardinality(dirt) < MaxEntries ->
            Sparse(0, 0, [j \in 1..Cardinality(dirt) |->
                             <<Nth(dirt, j - 1), NumGenerated>>])
      [] OTHER -> Dense(0, [x \in Column |->
                              IF x \in dirt THEN NumGenerated ELSE 0])

Generated(noise) ==
    [p \in Place |-> IF p[1] = 0 THEN Sparse(0, Stone, <<>>)
                     ELSE FillSlice({x \in Column : <<p, x>> \in noise})]

Init ==
    /\ solid \in SUBSET {c \in Place \X Column : c[1][1] > 0}
    /\ rows = Generated(solid)
    /\ maps = <<GeneratedMap>>
    /\ file = NoFile
    /\ unsaved = 0
    /\ fault = "none"

-----------------------------------------------------------------------------
(* FileWorldReader *)

(* serializeSliceBlocks: what is not in a map is written as air. *)
Serialized(p, x) == IF GetBlock(p, x) = Nil THEN Air ELSE GetBlock(p, x)

WriteChunk ==
    /\ fault = "none"
    /\ file' = [p \in Place |-> [x \in Column |-> Serialized(p, x)]]
    /\ solid' = {}
    /\ unsaved' = 0
    /\ UNCHANGED <<rows, maps, fault>>

Types(cells) == {cells[x] : x \in Column}
Frequency(cells, t) == Cardinality({x \in Column : cells[x] = t})

Frequent(cells) ==
    {t \in Types(cells) : Frequency(cells, t) >= Width - MaxEntries}

Suitable(ms, types) ==
    {i \in DOMAIN ms : \A t \in types : Entries(ms[i], t) # {}}

NewMap(types) ==
    [i \in Entry |-> IF i < Cardinality(types) THEN Nth(types, i) ELSE Nil]

(* The number of a type in the map that a row takes. *)
ValueOf(m, t) == IF Entries(m, t) = {} THEN 0 ELSE First(Entries(m, t))

(* A row is sparse if most of its blocks are of one type. *)
NewRow(id, m, cells) ==
    IF Frequent(cells) = {} THEN Dense(id - 1, [x \in Column |-> 0])
    ELSE Sparse(id - 1, ValueOf(m, First(Frequent(cells))), <<>>)

(* The blocks are put into a row one after the other. *)
FilledRow(row, m, cells) ==
    LET filled[n \in 0..Width] ==
            IF n = 0 THEN row
            ELSE Put(filled[n - 1], n - 1, ValueOf(m, cells[n - 1]))
    IN filled[Width]

(* processSliceRow: the last map that has all types of the row is taken. *)
ProcessSliceRow(saved, c, p) ==
    LET cells == saved[p]
        fit == Suitable(c.maps, Types(cells))
        ms == IF fit = {} THEN Append(c.maps, NewMap(Types(cells))) ELSE c.maps
        id == IF fit = {} THEN Len(ms)
              ELSE CHOOSE i \in fit : \A j \in fit : i >= j
        row == FilledRow(NewRow(id, ms[id], cells), ms[id], cells)
    IN IF Types(cells) = {Air} THEN c
       ELSE [maps |-> ms, rows |-> [c.rows EXCEPT ![p] = Prepared(row)]]

(* loadChunk: slices come in the order of a hash table, rows in order. *)
LoadOrders ==
    {o \in [1..(NumSlices * NumRows) -> Place] :
        /\ \A i, j \in DOMAIN o : o[i] = o[j] => i = j
        /\ \A i \in DOMAIN o : o[i][2] = (i - 1) % NumRows
        /\ \A i \in DOMAIN o : o[i][2] > 0 => o[i][1] = o[i - 1][1]}

Loaded(saved, order) ==
    LET loading[n \in 0..Len(order)] ==
            IF n = 0 THEN [maps |-> <<>>, rows |-> [p \in Place |-> Null]]
            ELSE ProcessSliceRow(saved, loading[n - 1], order[n])
    IN loading[Len(order)]

RowIsFull(row) == row.kind = "sparse" /\ Len(row.storage) > MaxEntries

(* A chunk object is made, after a restart or because the one before was   *)
(* let go of.  A chunk that was never saved is generated again.            *)
LoadChunk ==
    /\ unsaved' = 0
    /\ UNCHANGED <<file, solid>>
    /\ \/ /\ file = NoFile
          /\ rows' = Generated(solid)
          /\ maps' = <<GeneratedMap>>
          /\ fault' = "none"
       \/ /\ file # NoFile
          /\ \E order \in LoadOrders :
                LET c == Loaded(file, order) IN rows' = c.rows /\ maps' = c.maps
          /\ fault' = IF \E p \in Place : RowIsFull(rows'[p])
                      THEN "row full" ELSE "none"

Next ==
    \/ \E p \in Place, x \in Column, b \in Block : SetBlock(p, x, b)
    \/ WriteChunk
    \/ LoadChunk

Spec == Init /\ [][Next]_vars

-----------------------------------------------------------------------------
(* Properties *)

TypeOK ==
    /\ \A p \in Place :
          \/ rows[p] = Null
          \/ /\ rows[p].kind = "dense"
             /\ rows[p].storage \in [Column -> Entry]
             /\ rows[p].typeMap \in 0..(Len(maps) - 1)
          \/ /\ rows[p].kind = "sparse"
             /\ rows[p].storage \in Seq(Column \X Entry)
             /\ rows[p].defaultBlockId \in Entry
             /\ rows[p].typeMap \in 0..(Len(maps) - 1)
    /\ maps \in Seq([Entry -> Block \cup {Nil}])
    /\ file = NoFile \/ file \in [Place -> [Column -> Block]]
    /\ unsaved \in 0..MaxUnsaved
    /\ fault \in {"none", "no map", "map full", "no air", "row full"}

(* Sparse rows are fit for binary search and for iteration: each column    *)
(* has at most one entry, in order, never for the default value, and there *)
(* are as many as the storage takes.                                       *)
SparseRowsSorted ==
    \A p \in {q \in Place : rows[q].kind = "sparse"} :
        LET s == rows[p].storage
        IN /\ \A i, j \in DOMAIN s : i < j => s[i][1] < s[j][1]
           /\ \A i \in DOMAIN s : s[i][2] # rows[p].defaultBlockId
           /\ Len(s) <= MaxEntries

(* Every block of every row has a type: no number of a row is without an   *)
(* entry in the row's map, wherever the map came from and whatever has     *)
(* been added to it.                                                       *)
BlocksHaveTypes ==
    \A p \in Place, x \in Column : GetBlock(p, x) # Nil

(* A type has one entry in a map, so that a map that is large enough for   *)
(* all types never fills up.                                               *)
TypesMappedOnce ==
    \A k \in DOMAIN maps : \A i, j \in Entry :
        maps[k][i] = maps[k][j] /\ maps[k][i] # Nil => i = j

(* A map has room for a type that is placed and a loaded row for its       *)
(* blocks: "Failed to find block ID map" and "Row is full" never happen.   *)
MapsAndRowsSuffice == fault \notin {"map full", "row full"}

(* Rows and maps hold the blocks of a chunk: what is placed, saved and     *)
(* loaded finds room, and what binary search relies on is so.              *)
RowsInv == SparseRowsSorted /\ MapsAndRowsSuffice

(* The numbers in the rows mean what the maps say, one type each.          *)
MapsInv == TypeOK /\ BlocksHaveTypes /\ TypesMappedOnce

(* Refuted: a block can be placed wherever a position is free, and the     *)
(* assertion in setBlock, that the map of the row has air ("Failed to get  *)
(* ID for air block"), never fails.                                        *)
AirIsMapped == fault # "no air"

(* A chunk is a grid: a set block is what getBlock gives, no other block   *)
(* changes, and saving and loading keep the grid, whatever rows and maps   *)
(* the loader chooses.                                                     *)
Grid == INSTANCE BlockGrid WITH
            Cell <- Place \X Column, Type <- Block,
            grid <- [c \in Place \X Column |-> GetBlock(c[1], c[2])],
            saved <- [c \in Place \X Column |->
                         IF file # NoFile THEN file[c[1]][c[2]]
                         ELSE IF c[1][1] = 0 THEN Stone
                         ELSE IF c \in solid THEN NumGenerated
                         ELSE Air],
            running <- (fault = "none")
ImplementsGrid == Grid!Spec
=============================================================================
