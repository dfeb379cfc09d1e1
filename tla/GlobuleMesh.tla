---------------------------- MODULE GlobuleMesh ----------------------------
(***************************************************************************)
(* What the vertex generator draws for a globule (workerGenerate of        *)
(* src/render/chunk/VertexGenerator.cpp), and which globules are generated *)
(* again when a block changes (WorldChunk::markBlockChanged).  The chunk   *)
(* is PerAxis globules of Edge blocks along x and z, and Layers along y (4 *)
(* of 64 each); an int has Width bits (32, one for each globule of the     *)
(* lower half of the chunk).                                               *)
(***************************************************************************)
EXTENDS Integers, FiniteSets, Functions

CONSTANTS Edge, PerAxis, Layers, Width,
          Patterns,       \* contents chunks are loaded with
          MaxBlockChanges \* bound

Size == <<Edge * PerAxis, Edge * Layers, Edge * PerAxis>>     \* along x, y and z
Height == Size[2]
Block == (0..(Size[1] - 1)) \X (0..(Height - 1)) \X (0..(Size[3] - 1))
GlobPos == {b \in Block : \A i \in 1..3 : b[i] % Edge = 0}    \* by origin
Solid == {"stone", "glass"}
Kind == Solid \cup {"air"}

ASSUME GlobuleAssumption ==
    /\ Edge \in Nat \ {0, 1} /\ {PerAxis, Layers} \subseteq Nat \ {0} /\ Width \in Nat \ {0}
    /\ \A p \in Patterns : DOMAIN p \subseteq Block /\ Range(p) \subseteq Solid

VARIABLES block,        \* the chunk: its blocks that are not air
          faces,        \* what each globule draws: sets of <<block, direction, kind>>
          specialFrom,  \* specialIdxOffset: how many of them come before the special ones
          work,         \* globules to be generated again
          changes

globuleVars == <<block, faces, specialFrom, work, changes>>

Direction == {<<0,-1,0>>, <<0,1,0>>, <<-1,0,0>>, <<1,0,0>>, <<0,0,-1>>, <<0,0,1>>}
Next(b, d) == <<b[1] + d[1], b[2] + d[2], b[3] + d[3]>>

BlockAt(b) == IF b \in DOMAIN block THEN block[b] ELSE "air"

(* buildAirMap: what is not there, or not opaque, is air. *)
Air(b) == BlockAt(b) # "stone"

-----------------------------------------------------------------------------
(* The slices of a globule: one more than it has, but for the last. *)
Slices(g) == g[2]..(IF g[2] + Edge < Height THEN g[2] + Edge ELSE Height - 1)
Blocks(g) == {b \in DOMAIN block : /\ b[1] \in g[1]..(g[1] + Edge - 1) /\ b[2] \in Slices(g)
                                  /\ b[3] \in g[3]..(g[3] + Edge - 1)}

(* The air maps: below the first slice nothing counts as air, above the last
   slice of the chunk everything does.                                       *)
Below(g, b) == b[2] > g[2] /\ Air(<<b[1], b[2] - 1, b[3]>>)
Above(b) == b[2] + 1 >= Height \/ Air(<<b[1], b[2] + 1, b[3]>>)

(* A block at a side of the globule always counts as visible. *)
Visible(g, b) ==
    \/ Above(b) \/ Below(g, b)
    \/ b[1] \in {g[1], g[1] + Edge - 1} \/ b[3] \in {g[3], g[3] + Edge - 1}
    \/ \E d \in Direction : d[2] = 0 /\ Air(Next(b, d))

(* insertCubeVertices: the faces of a block that are shown. *)
Shown(g, b, d) ==
    IF d = <<0,-1,0>> THEN b[2] % Edge = 0 \/ Below(g, b)
    ELSE IF d = <<0,1,0>> THEN b[2] + 1 >= Height - 1 \/ b[2] % Edge = Edge - 1 \/ Above(b)
    ELSE Next(b, d) \notin Block \/ Air(Next(b, d))

Mesh(g) ==
    {<<b, d, block[b]>> : b \in {c \in Blocks(g) : Visible(g, c)}, d \in Direction}
Faces(g) == {f \in Mesh(g) : Shown(g, f[1], f[2])}

(* Glass is blended: its indices are put behind the others.  0 says that
   there are none (and if there are others, how many).                       *)
Plain(F) == {f \in F : f[3] # "glass"}
SpecialFrom(F) == IF F = Plain(F) THEN 0 ELSE Cardinality(Plain(F))

-----------------------------------------------------------------------------
(* blockPosToBits: the shift of an int goes round (as the shift instructions
   do), and the sign is extended to the upper half of the 64 bits.           *)
Index(g) == g[1] \div Edge + PerAxis * (g[3] \div Edge) + PerAxis * PerAxis * (g[2] \div Edge)
Bits(g) == LET i == Index(g) % Width IN IF i = Width - 1 THEN i..(2 * Width - 1) ELSE {i}

Globe(b) == [i \in 1..3 |-> b[i] - (b[i] % Edge)]
Moved(g, i, n) == [g EXCEPT ![i] = (@ + n * Edge) % Size[i]]

(* Mutant: only the globule the block is in. *)
MarkOwn(b) == {Globe(b)}

(* markBlockChanged: the globule of the block, and its neighbour if it is at
   an edge; for the upper edge along x, that is the next one along z.        *)
Marked(b) ==
    LET g == Globe(b)
        first == {i \in 1..3 : b[i] % Edge = 0 /\ g[i] >= Edge}
        last == {i \in 1..3 : b[i] % Edge = Edge - 1 /\ g[i] + Edge < Size[i]}
    IN  {g} \cup {Moved(g, i, -1) : i \in first}
            \cup {Moved(g, IF i = 1 THEN 3 ELSE i, 1) : i \in last}

GlobuleInit ==
    /\ block \in Patterns
    /\ faces = [g \in GlobPos |-> Faces(g)]
    /\ specialFrom = [g \in GlobPos |-> SpecialFrom(faces[g])]
    /\ work = {} /\ changes = 0

SetBlock ==
    /\ changes < MaxBlockChanges /\ changes' = changes + 1
    /\ \E b \in Block : \E k \in Kind \ {BlockAt(b)} :
         /\ block' = [c \in (DOMAIN block \ {b}) \cup (IF k = "air" THEN {} ELSE {b}) |->
                         IF c = b THEN k ELSE block[c]]
         /\ work' = work \cup Marked(b)
    /\ UNCHANGED <<faces, specialFrom>>

(* The worker goes through the globules whose bits are in the request. *)
Requested == {g \in GlobPos : Bits(g) \cap UNION {Bits(h) : h \in work} # {}}

Regenerate ==
    /\ work # {} /\ work' = {}
    /\ LET asked == Requested
       IN  faces' = [g \in GlobPos |-> IF g \in asked THEN Faces(g) ELSE faces[g]]
    /\ specialFrom' = [g \in GlobPos |-> SpecialFrom(faces'[g])]
    /\ UNCHANGED <<block, changes>>

GlobuleNext == SetBlock \/ Regenerate
GlobuleSpec == GlobuleInit /\ [][GlobuleNext]_globuleVars

-----------------------------------------------------------------------------
(* Types, and that what is drawn for a globule are faces of its slices. *)
GlobuleTypeOK ==
    /\ DOMAIN block \subseteq Block /\ Range(block) \subseteq Solid /\ work \subseteq GlobPos
    /\ DOMAIN faces = GlobPos /\ DOMAIN specialFrom = GlobPos
    /\ \A g \in GlobPos : \A f \in faces[g] :
         f[1] \in Block /\ f[2] \in Direction /\ f[1][2] \in Slices(g)

Drawn == UNION {faces[g] : g \in GlobPos}

(* The faces somebody may see: of a block, towards air or out of the chunk,
   but for the bottom of the world.                                          *)
Sides == {<<b, d, block[b]>> : b \in DOMAIN block, d \in Direction}
InSight ==
    {f \in Sides : LET n == Next(f[1], f[2]) IN n[2] >= 0 /\ (n \notin Block \/ Air(n))}

(* Faces of blocks that were taken away are not drawn any more, though each
   globule also draws the first slice of the one above it.                   *)
NoGhosts == work = {} => \A f \in Drawn : f[3] = BlockAt(f[1])

(* Every face in sight is drawn, by the globule of the block or by the one
   under it, but for the faces towards -x at the lower edge of a globule.    *)
OnlyEdgesAreMissing ==
    work = {} => \A f \in InSight \ Drawn :
        f[2] = <<-1,0,0>> /\ f[1][1] % Edge = 0 /\ changes > 0

(* Refuted: "if the X coordinate is on an edge of the globule, update its
   neighbor" (WorldChunk.cpp:316): at the upper edge, another one is updated. *)
NothingIsMissing == work = {} => InSight \subseteq Drawn

(* Refuted: "index of the first special block, or 0 if none"
   (VertexGenerator.h:71): it is 0 as well if there are special blocks only.  *)
GlassIsBlended ==
    \A g \in GlobPos : (\E f \in faces[g] : f[3] = "glass") => specialFrom[g] # 0

(* What is drawn of a chunk is what there is to see of it. *)
GlobuleInv ==
    GlobuleTypeOK /\ NoGhosts /\ OnlyEdgesAreMissing
=============================================================================
