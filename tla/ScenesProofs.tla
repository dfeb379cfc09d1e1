---------------------------- MODULE ScenesProofs ----------------------------
(***************************************************************************)
(* What a client shows and stands on, for any number of chunks, objects,   *)
(* globules and threads and for any bounds: the theorems say of the chunk  *)
(* loader, collisions, the meshes of chunks, what is drawn of them and the *)
(* selection of blocks what the run Scenes checks on small instances.      *)
(***************************************************************************)
EXTENDS Scene, Collisions, ChunkMesh, GlobuleMesh, Selection, SequenceTheorems,
        FiniteSetTheorems, WellFoundedInduction, TLAPS

-----------------------------------------------------------------------------
(* Collisions.  The inductive invariant: a token is of the object that is    *)
(* loaded, or its chunk has more references than bodies, or the token goes   *)
(* before the frame goes on; a body that is wrong is the one of the block    *)
(* that is being changed.                                                    *)

LoadsAreNumbered ==
    /\ \A c \in Chunk : object[c] \in {0, loads[c]} /\ chunkObservers[c] <= loads[c]
    /\ \A w \in watched : w[2] <= loads[w[1]]

WatchedIsObserved ==
    \A c \in Chunk : <<c, object[c]>> \in watched => chunkObservers[c] = object[c]

CalledIsWatched ==
    setter.stage = "calling" => <<ChunkOf(setter.block), setter.of>> \in watched

Wrong(p) == (bodies[p] /\ p \notin solid) \/ (~bodies[p] /\ p \in solid)

WrongIsChanging ==
    \A p \in Known : Wrong(p) /\ <<ChunkOf(p), object[ChunkOf(p)]>> \in watched =>
        setter.stage # "none" /\ setter.block = p /\ setter.of = object[ChunkOf(p)]

LeftIsNew == left \cap Known = {} /\ (when # "update" => left = {})

Gone(c) ==
    /\ object[c] = 0
    /\ \/ when = "frame" /\ Distance(c, ChunkOf(player)) > Release
       \/ when = "purged" /\ activeChunks[c] = 0

OldTokensAreKept ==
    \A c \in Chunk : chunkObservers[c] \notin {0, object[c]} =>
        activeChunks[c] > Cardinality(KnownOf(c)) \/ Gone(c)

CollisionsIInv ==
    /\ CollisionsTypeOK /\ LoadsAreNumbered /\ WatchedIsObserved /\ CalledIsWatched
    /\ WrongIsChanging /\ LeftIsNew /\ EachBodyHasReference /\ OldTokensAreKept /\ TokensAreKnown

LEMMA QuotientIs ==
    ASSUME NEW p \in Nat, NEW d \in Nat \ {0}
    PROVE  /\ p \div d \in Nat /\ d * (p \div d) <= p /\ p < d * (p \div d) + d
  OBVIOUS

LEMMA PositionsAre ==
    /\ Position \subseteq Nat /\ IsFiniteSet(Position) /\ \A p \in Position : ChunkOf(p) \in Chunk
    /\ Chunk \subseteq Nat /\ MaxLoads \in Nat /\ MaxSteps \in Nat /\ MaxSets \in Nat
<1>1. Chunks \in Nat \ {0} /\ Side \in Nat \ {0} /\ Chunks * Side \in Nat
  BY CollisionsAssumption
<1>2. Position \subseteq Nat /\ Chunk \subseteq Nat
  BY <1>1 DEF Position, Chunk
<1>3. IsFiniteSet(Position)
  BY <1>1, FS_Interval DEF Position
<1>4. ASSUME NEW p \in Position PROVE ChunkOf(p) \in Chunk
  <2> DEFINE c == p \div Side
  <2>1. p \in Nat /\ p < Chunks * Side
    BY <1>1, <1>4 DEF Position
  <2>2. c \in Nat /\ Side * c <= p
    BY <1>1, <2>1, QuotientIs
  <2> HIDE DEF c
  <2>3. c < Chunks
    <3>1. CASE c >= Chunks
      <4>1. Side * c >= Side * Chunks
        BY <1>1, <2>2, <3>1
      <4>2. Side * Chunks = Chunks * Side /\ Side * c \in Nat
        BY <1>1, <2>2
      <4>3. QED
        BY <1>1, <2>1, <2>2, <4>1, <4>2
    <3>2. QED
      BY <1>1, <2>2, <3>1
  <2>4. c \in 0..Chunks - 1
    BY <1>1, <2>2, <2>3
  <2>5. QED
    BY <2>4 DEF c, ChunkOf, Chunk
<1>5. QED
  BY <1>2, <1>3, <1>4, CollisionsAssumption

(* A block whose chunk is far enough to be unloaded is far. *)
LEMMA UnloadedIsFar ==
    ASSUME NEW p \in Position, NEW q \in Position, Distance(ChunkOf(p), ChunkOf(q)) > Release
    PROVE  Distance(p, q) > FarAway
<1>0. /\ Side \in Nat \ {0} /\ Release \in Nat /\ FarAway \in Nat /\ FarAway <= Release * Side
      /\ \A x \in Position : x \in Nat
  BY CollisionsAssumption, PositionsAre
<1>1. ASSUME NEW a \in Position, NEW b \in Position, ChunkOf(a) > ChunkOf(b) + Release
      PROVE  a > b + FarAway
  <2> DEFINE c == ChunkOf(a)
             k == ChunkOf(b)
  <2>1. c \in Nat /\ Side * c <= a /\ k \in Nat /\ b < Side * k + Side
    BY <1>0, QuotientIs DEF ChunkOf
  <2>2. c >= k + 1 + Release
    BY <1>0, <1>1, <2>1
  <2> HIDE DEF c, k
  <2>3. Side * c >= Side * (k + 1 + Release)
    BY <1>0, <2>1, <2>2
  <2>4. Side * (k + 1 + Release) = Side * k + Side + Release * Side
    BY <1>0, <2>1
  <2>5. Release * Side \in Nat /\ Side * k \in Nat /\ Side * c \in Nat
    BY <1>0, <2>1
  <2>6. QED
    BY <1>0, <2>1, <2>3, <2>4, <2>5
<1>2. ChunkOf(p) \in Nat /\ ChunkOf(q) \in Nat
  BY PositionsAre
<1>3. CASE ChunkOf(p) < ChunkOf(q)
  <2>1. ChunkOf(q) > ChunkOf(p) + Release
    BY <1>0, <1>2, <1>3 DEF Distance
  <2>2. q > p + FarAway
    BY <1>1, <2>1
  <2>3. QED
    BY <1>0, <2>2 DEF Distance
<1>4. CASE ~(ChunkOf(p) < ChunkOf(q))
  <2>1. ChunkOf(p) > ChunkOf(q) + Release
    BY <1>0, <1>2, <1>4 DEF Distance
  <2>2. p > q + FarAway
    BY <1>1, <2>1
  <2>3. QED
    BY <1>0, <2>2 DEF Distance
<1>5. QED
  BY <1>3, <1>4

LEMMA KnownAre ==
    ASSUME CollisionsTypeOK
    PROVE  /\ IsFiniteSet(Known)
           /\ \A c \in Chunk : IsFiniteSet(KnownOf(c)) /\ Cardinality(KnownOf(c)) \in Nat
           /\ \A p \in Known : p \in Position /\ ChunkOf(p) \in Chunk /\ bodies[p] \in BOOLEAN
           /\ player \in Position
<1>1. Known \subseteq Position /\ player \in Position /\ \A p \in Known : bodies[p] \in BOOLEAN
  BY DEF CollisionsTypeOK
<1>2. IsFiniteSet(Known)
  BY <1>1, PositionsAre, FS_Subset
<1>3. \A c \in Chunk : IsFiniteSet(KnownOf(c))
  <2>1. \A c \in Chunk : KnownOf(c) \subseteq Known
    BY DEF KnownOf
  <2>2. QED
    BY <1>2, <2>1, FS_Subset
<1>4. QED
  BY <1>1, <1>2, <1>3, PositionsAre, FS_CardinalityType

(* The numbers, by chunk. *)
LEMMA CountsAre ==
    ASSUME CollisionsTypeOK
    PROVE  /\ object \in [Chunk -> 0..MaxLoads] /\ loads \in [Chunk -> 0..MaxLoads]
           /\ activeChunks \in [Chunk -> Nat] /\ chunkObservers \in [Chunk -> 0..MaxLoads]
           /\ \A c \in Chunk : /\ object[c] \in Nat /\ loads[c] \in Nat /\ loads[c] <= MaxLoads
                               /\ activeChunks[c] \in Nat /\ chunkObservers[c] \in Nat
           /\ \A w \in watched : w[1] \in Chunk /\ w[2] \in Nat /\ w[2] # 0 /\ w = <<w[1], w[2]>>
           /\ watched \subseteq Chunk \X (1..MaxLoads) /\ MaxLoads \in Nat
  BY CollisionsAssumption DEF CollisionsTypeOK

(* The setter, in a change. *)
LEMMA SetterIs ==
    ASSUME CollisionsTypeOK, setter.stage # "none"
    PROVE  /\ setter.block \in Position /\ setter.of \in 1..MaxLoads
           /\ setter = [stage |-> setter.stage, block |-> setter.block, of |-> setter.of]
           /\ setter.stage \in {"written", "calling"}
  BY DEF CollisionsTypeOK, NoChange

LEMMA WithoutIs ==
    ASSUME CollisionsTypeOK, NEW ps
    PROVE  /\ DOMAIN Without(ps) = Known \ ps
           /\ \A p \in Known \ ps : Without(ps)[p] = bodies[p]
           /\ Without(ps) \in [Known \ ps -> BOOLEAN]
  BY DEF CollisionsTypeOK, Without

(* The bodies that stay are counted without those that go. *)
LEMMA FewerBodies ==
    ASSUME CollisionsTypeOK, NEW ps, bodies' = Without(ps), NEW c \in Chunk
    PROVE  /\ KnownOf(c)' = KnownOf(c) \ ps
           /\ Cardinality(KnownOf(c))' \in Nat
           /\ Cardinality(KnownOf(c))' <= Cardinality(KnownOf(c))
           /\ \A S : S \subseteq KnownOf(c) /\ S = KnownOf(c) \cap ps =>
                    /\ Cardinality(S) \in Nat
                    /\ Cardinality(KnownOf(c))' = Cardinality(KnownOf(c)) - Cardinality(S)
<1>1. Known' = Known \ ps
  BY WithoutIs DEF Known
<1>2. KnownOf(c)' = KnownOf(c) \ ps
  BY <1>1 DEF KnownOf
<1>3. IsFiniteSet(KnownOf(c)) /\ Cardinality(KnownOf(c)) \in Nat
  BY KnownAre
<1> DEFINE K == KnownOf(c)
<1> HIDE DEF K
<1>4. /\ Cardinality(K \ ps) \in Nat /\ Cardinality(K \ ps) <= Cardinality(K)
      /\ Cardinality(K \cap ps) \in Nat
      /\ Cardinality(K \ ps) = Cardinality(K) - Cardinality(K \cap ps)
  <2>1. IsFiniteSet(K) /\ Cardinality(K) \in Nat
    BY <1>3 DEF K
  <2>2. IsFiniteSet(K \cap ps) /\ IsFiniteSet(K \ ps)
    BY <2>1, FS_Subset
  <2>3. Cardinality(K \cap ps) \in Nat /\ Cardinality(K \ ps) \in Nat
    BY <2>2, FS_CardinalityType
  <2>4. Cardinality(K \ ps) = Cardinality(K) - Cardinality(K \cap ps)
    BY <2>1, FS_Difference
  <2>5. QED
    BY <2>1, <2>3, <2>4
<1>5. QED
  BY <1>2, <1>4 DEF K

(* A block that is looked at has a body from then on. *)
LEMMA LookedAt ==
    ASSUME CollisionsTypeOK, LeftIsNew, NEW p \in Position, LookAt(p)
    PROVE  /\ p \notin Known /\ Known' = Known \cup {p} /\ bodies' \in [Known' -> BOOLEAN]
           /\ bodies'[p] = (p \in solid) /\ \A q \in Known : bodies'[q] = bodies[q]
           /\ activeChunks' \in [Chunk -> Nat] /\ ChunkOf(p) \in Chunk
           /\ \A c \in Chunk : \/ /\ c = ChunkOf(p) /\ activeChunks'[c] = activeChunks[c] + 1
                                  /\ Cardinality(KnownOf(c))' = Cardinality(KnownOf(c)) + 1
                               \/ /\ c # ChunkOf(p) /\ activeChunks'[c] = activeChunks[c]
                                  /\ Cardinality(KnownOf(c))' = Cardinality(KnownOf(c))
<1>1. /\ p \in left /\ left' = left \ {p}
      /\ activeChunks' = [activeChunks EXCEPT ![ChunkOf(p)] = activeChunks[ChunkOf(p)] + 1]
      /\ bodies' = [q \in Known \cup {p} |-> IF q = p THEN p \in solid ELSE bodies[q]]
  BY DEF LookAt
<1>2. p \notin Known /\ Known' = Known \cup {p}
  BY <1>1 DEF LeftIsNew, Known
<1>3. \A q \in Known : bodies[q] \in BOOLEAN
  BY KnownAre
<1>4. bodies' = [q \in Known' |-> IF q = p THEN p \in solid ELSE bodies[q]]
  BY <1>1, <1>2
<1>5. /\ bodies' \in [Known' -> BOOLEAN] /\ bodies'[p] = (p \in solid)
      /\ \A q \in Known : bodies'[q] = bodies[q]
  <2>1. p \in Known' /\ \A q \in Known : q \in Known' /\ q # p
    BY <1>2
  <2>2. \A q \in Known' : (IF q = p THEN p \in solid ELSE bodies[q]) \in BOOLEAN
    <3>1. ASSUME NEW q \in Known', q # p
          PROVE  (IF q = p THEN p \in solid ELSE bodies[q]) \in BOOLEAN
      BY <1>2, <1>3, <3>1
    <3>2. (IF p = p THEN p \in solid ELSE bodies[p]) \in BOOLEAN
      OBVIOUS
    <3>3. QED
      BY <3>1, <3>2
  <2>3. bodies' \in [Known' -> BOOLEAN]
    BY <1>4, <2>2
  <2>4. bodies'[p] = (p \in solid)
    BY <1>4, <2>1, Zenon
  <2>5. \A q \in Known : bodies'[q] = bodies[q]
    BY <1>4, <2>1
  <2>6. QED
    BY <2>3, <2>4, <2>5
<1>6. ChunkOf(p) \in Chunk
  BY PositionsAre
<1>7. /\ activeChunks' \in [Chunk -> Nat]
      /\ \A c \in Chunk : IF c = ChunkOf(p) THEN activeChunks'[c] = activeChunks[c] + 1
                                            ELSE activeChunks'[c] = activeChunks[c]
  BY <1>1, <1>6, CountsAre
<1>8. ASSUME NEW c \in Chunk
      PROVE  Cardinality(KnownOf(c))' = IF c = ChunkOf(p) THEN Cardinality(KnownOf(c)) + 1
                                                          ELSE Cardinality(KnownOf(c))
  <2> DEFINE K == KnownOf(c)
  <2>1. IsFiniteSet(K) /\ p \notin K
    BY <1>2, KnownAre DEF KnownOf
  <2>2. K' = IF c = ChunkOf(p) THEN K \cup {p} ELSE K
    BY <1>2 DEF KnownOf
  <2>3. Cardinality(K)' = Cardinality(K')
    OBVIOUS
  <2> HIDE DEF K
  <2>4. Cardinality(K \cup {p}) = Cardinality(K) + 1
    BY <2>1, FS_AddElement
  <2>5. QED
    BY <2>2, <2>3, <2>4 DEF K
<1>9. QED
  BY <1>2, <1>5, <1>6, <1>7, <1>8

(* Bodies that are purged are counted. *)
LEMMA PurgedAre ==
    ASSUME CollisionsTypeOK, EachBodyHasReference, Purge
    PROVE  /\ Known' = Known \ FarBodies /\ bodies' = Without(FarBodies)
           /\ bodies' \in [Known' -> BOOLEAN]
           /\ activeChunks' \in [Chunk -> Nat]
           /\ \A c \in Chunk :
                /\ Cardinality(KnownOf(c))' \in Nat
                /\ activeChunks'[c] - Cardinality(KnownOf(c))'
                     = activeChunks[c] - Cardinality(KnownOf(c))
<1>1. /\ bodies' = Without(FarBodies)
      /\ activeChunks' = [c \in Chunk |->
                activeChunks[c] - Cardinality({p \in FarBodies : ChunkOf(p) = c})]
  BY DEF Purge
<1>2. Known' = Known \ FarBodies /\ bodies' \in [Known' -> BOOLEAN]
  BY <1>1, WithoutIs DEF Known
<1>3. ASSUME NEW c \in Chunk
      PROVE  /\ activeChunks'[c] \in Nat /\ Cardinality(KnownOf(c))' \in Nat
             /\ activeChunks'[c] - Cardinality(KnownOf(c))'
                    = activeChunks[c] - Cardinality(KnownOf(c))
  <2> DEFINE F == {p \in FarBodies : ChunkOf(p) = c}
  <2>1. F \subseteq KnownOf(c) /\ F = KnownOf(c) \cap FarBodies
    BY DEF FarBodies, KnownOf
  <2>2. activeChunks'[c] = activeChunks[c] - Cardinality(F)
    BY <1>1
  <2> HIDE DEF F
  <2>3. /\ Cardinality(F) \in Nat /\ Cardinality(KnownOf(c))' \in Nat
        /\ Cardinality(KnownOf(c))' = Cardinality(KnownOf(c)) - Cardinality(F)
    BY <1>1, <2>1, FewerBodies
  <2>4. /\ activeChunks[c] \in Nat /\ activeChunks[c] >= Cardinality(KnownOf(c))
        /\ Cardinality(KnownOf(c)) \in Nat
    BY CountsAre, KnownAre DEF EachBodyHasReference
  <2>5. QED
    BY <2>2, <2>3, <2>4
<1>4. activeChunks' \in [Chunk -> Nat]
  BY <1>1, <1>3
<1>5. QED
  BY <1>1, <1>2, <1>3, <1>4

LEMMA CollisionsTypesKept ==
    ASSUME CollisionsTypeOK, LoadsAreNumbered, LeftIsNew, EachBodyHasReference, CollisionsNext
    PROVE  CollisionsTypeOK'
<1> USE DEF space, caches, changing
<1>0. MaxLoads \in Nat /\ MaxSteps \in Nat /\ MaxSets \in Nat
  BY CollisionsAssumption
<1>1. ASSUME NEW c \in Chunk, LoadChunk(c) \/ UnloadChunk(c) PROVE CollisionsTypeOK'
  <2>1. object' \in [Chunk -> 0..MaxLoads] /\ loads' \in [Chunk -> 0..MaxLoads]
    <3>1. CASE LoadChunk(c)
      <4>1. /\ loads' = [loads EXCEPT ![c] = loads[c] + 1] /\ loads[c] < MaxLoads
            /\ object' = [object EXCEPT ![c] = loads'[c]]
        BY <3>1 DEF LoadChunk
      <4>2. loads'[c] \in 0..MaxLoads
        BY <1>0, <4>1, CountsAre
      <4>3. QED
        BY <1>0, <4>1, <4>2, CountsAre
    <3>2. CASE UnloadChunk(c)
      BY <1>0, <3>2, CountsAre DEF UnloadChunk
    <3>3. QED
      BY <1>1, <3>1, <3>2
  <2>2. UNCHANGED <<player, solid, when, steps, left, caches, watched, changing, thrown>>
    BY <1>1 DEF LoadChunk, UnloadChunk
  <2>3. QED
    BY <2>1, <2>2 DEF CollisionsTypeOK, Known
<1>2. ASSUME NEW c \in Chunk, DropObserver(c) \/ Register(c) PROVE CollisionsTypeOK'
  <2>1. chunkObservers' \in [Chunk -> 0..MaxLoads]
    BY <1>0, <1>2, CountsAre DEF DropObserver, Register
  <2>2. watched' \subseteq Chunk \X (1..MaxLoads)
    <3>1. CASE DropObserver(c)
      <4>1. watched' \subseteq watched
        BY <3>1 DEF DropObserver
      <4>2. QED
        BY <4>1, CountsAre
    <3>2. CASE Register(c)
      <4>1. object[c] \in 1..MaxLoads /\ watched' = watched \cup {<<c, object[c]>>}
        BY <3>2, CountsAre DEF Register, ToRegister
      <4>2. QED
        BY <4>1, CountsAre
    <3>3. QED
      BY <1>2, <3>1, <3>2
  <2>3. UNCHANGED <<space, when, steps, left, bodies, activeChunks, changing>>
    BY <1>2 DEF DropObserver, Register
  <2>4. QED
    BY <2>1, <2>2, <2>3 DEF CollisionsTypeOK, Known
<1>3. ASSUME NEW p \in Position, PutBlock(p) PROVE CollisionsTypeOK'
  <2>1. /\ sets' = sets + 1 /\ sets < MaxSets /\ solid' = (solid \ {p}) \cup ({p} \ solid)
        /\ setter' = Change("written", p, object[ChunkOf(p)]) /\ object[ChunkOf(p)] # 0
        /\ UNCHANGED <<player, object, loads, when, steps, left, caches, watched, thrown>>
    BY <1>3 DEF PutBlock
  <2>2. object[ChunkOf(p)] \in 1..MaxLoads
    BY <2>1, CountsAre, PositionsAre
  <2>3. setter' \in [stage : {"written", "calling"}, block : Position, of : 1..MaxLoads]
    BY <2>1, <2>2 DEF Change
  <2>4. sets' \in 0..MaxSets /\ solid' \subseteq Position
    BY <1>0, <2>1 DEF CollisionsTypeOK
  <2>5. QED
    BY <2>1, <2>3, <2>4 DEF CollisionsTypeOK, Known
<1>4. CASE CallBack
  <2>1. /\ setter.stage = "written" /\ setter' \in {[setter EXCEPT !.stage = "calling"], NoChange}
        /\ UNCHANGED <<space, when, steps, left, caches, watched, sets, thrown>>
    BY <1>4 DEF CallBack
  <2>2. \/ setter' = NoChange
        \/ setter' \in [stage : {"written", "calling"}, block : Position, of : 1..MaxLoads]
    BY <2>1, SetterIs
  <2>3. QED
    BY <2>1, <2>2 DEF CollisionsTypeOK, Known
<1>5. CASE chunkBlockDidChange
  <2>1. /\ bodies' = Without({setter.block}) /\ setter' = NoChange
        /\ UNCHANGED <<space, when, steps, left, activeChunks, chunkObservers, watched, sets>>
    BY <1>5 DEF chunkBlockDidChange
  <2>2. Known' \subseteq Known /\ bodies' \in [Known' -> BOOLEAN]
    BY <2>1, WithoutIs DEF Known
  <2>3. QED
    BY <2>1, <2>2 DEF CollisionsTypeOK
<1>6. CASE Purge
  <2>1. when' = "purged" /\ UNCHANGED <<space, steps, left, chunkObservers, watched, changing>>
    BY <1>6 DEF Purge
  <2>2. /\ Known' \subseteq Known /\ bodies' \in [Known' -> BOOLEAN]
        /\ activeChunks' \in [Chunk -> Nat]
    BY <1>6, PurgedAre
  <2>3. QED
    BY <2>1, <2>2 DEF CollisionsTypeOK
<1>7. CASE BeginUpdate
  <2>1. steps' \in 0..MaxSteps /\ left' \subseteq Position
    BY <1>0, <1>7 DEF BeginUpdate, CollisionsTypeOK, Near
  <2>2. when' = "update" /\ UNCHANGED <<space, caches, watched, changing>>
    BY <1>7 DEF BeginUpdate
  <2>3. QED
    BY <2>1, <2>2 DEF CollisionsTypeOK, Known
<1>8. ASSUME NEW p \in Position, LookAt(p) PROVE CollisionsTypeOK'
  <2>1. left' \subseteq left /\ UNCHANGED <<space, when, steps, chunkObservers, watched, changing>>
    BY <1>8 DEF LookAt
  <2>2. /\ Known' \subseteq Position /\ bodies' \in [Known' -> BOOLEAN]
        /\ activeChunks' \in [Chunk -> Nat]
    BY <1>8, LookedAt DEF CollisionsTypeOK
  <2>3. QED
    BY <2>1, <2>2 DEF CollisionsTypeOK
<1>9. CASE Simulate
  <2>1. /\ player' \in Position /\ left' = {} /\ when' = "simulated"
        /\ UNCHANGED <<solid, object, loads, steps, caches, watched, changing>>
    BY <1>9 DEF Simulate
  <2>2. QED
    BY <2>1 DEF CollisionsTypeOK, Known
<1>10. CASE EndFrame
  <2>1. when' = "frame" /\ steps' = 0 /\ UNCHANGED <<space, left, caches, watched, changing>>
    BY <1>10 DEF EndFrame
  <2>2. QED
    BY <1>0, <2>1 DEF CollisionsTypeOK, Known
<1>11. QED
  BY <1>1, <1>2, <1>3, <1>4, <1>5, <1>6, <1>7, <1>8, <1>9, <1>10 DEF CollisionsNext

LEMMA LoadsAreNumberedKept ==
    ASSUME CollisionsTypeOK, LoadsAreNumbered, WatchedIsObserved, CalledIsWatched,
           OldTokensAreKept, TokensAreKnown, CollisionsNext
    PROVE  LoadsAreNumbered' /\ WatchedIsObserved' /\ CalledIsWatched' /\ TokensAreKnown'
<1> USE DEF space, caches, changing
<1>1. ASSUME NEW c \in Chunk, LoadChunk(c) \/ UnloadChunk(c)
      PROVE  LoadsAreNumbered' /\ WatchedIsObserved' /\ CalledIsWatched' /\ TokensAreKnown'
  <2>1. /\ UNCHANGED <<caches, watched, changing, thrown>>
        /\ \A d \in Chunk : d # c => object'[d] = object[d]
        /\ \A d \in Chunk : /\ loads'[d] \in Nat /\ loads[d] <= loads'[d]
                            /\ object'[d] \in {0, loads'[d]}
    <3>1. CASE LoadChunk(c)
      <4>1. /\ loads' = [loads EXCEPT ![c] = loads[c] + 1]
            /\ object' = [object EXCEPT ![c] = loads'[c]]
            /\ UNCHANGED <<caches, watched, changing, thrown>>
        BY <3>1 DEF LoadChunk
      <4>2. /\ loads'[c] = loads[c] + 1 /\ object'[c] = loads'[c]
            /\ \A d \in Chunk : d # c => object'[d] = object[d] /\ loads'[d] = loads[d]
        BY <4>1, CountsAre
      <4>3. QED
        BY <4>1, <4>2, CountsAre DEF LoadsAreNumbered
    <3>2. CASE UnloadChunk(c)
      <4>1. /\ loads' = loads /\ object' = [object EXCEPT ![c] = 0]
            /\ UNCHANGED <<caches, watched, changing, thrown>>
        BY <3>2 DEF UnloadChunk
      <4>2. object'[c] = 0 /\ \A d \in Chunk : d # c => object'[d] = object[d]
        BY <4>1, CountsAre
      <4>3. QED
        BY <4>1, <4>2, CountsAre DEF LoadsAreNumbered
    <3>3. QED
      BY <1>1, <3>1, <3>2
  <2>2. <<c, object'[c]>> \notin watched
    <3>1. CASE UnloadChunk(c)
      <4>1. object'[c] = 0
        BY <3>1, CountsAre DEF UnloadChunk
      <4>2. QED
        BY <4>1, CountsAre
    <3>2. CASE LoadChunk(c)
      <4>1. object'[c] = loads[c] + 1
        BY <3>2, CountsAre DEF LoadChunk
      <4>2. \A w \in watched : w[1] = c => w[2] <= loads[c]
        BY DEF LoadsAreNumbered
      <4>3. ASSUME <<c, object'[c]>> \in watched PROVE FALSE
        BY <4>1, <4>2, <4>3, CountsAre
      <4>4. QED
        BY <4>3
    <3>3. QED
      BY <1>1, <3>1, <3>2
  <2>3. LoadsAreNumbered'
    <3>1. \A d \in Chunk : object'[d] \in {0, loads'[d]} /\ chunkObservers'[d] <= loads'[d]
      BY <2>1, CountsAre DEF LoadsAreNumbered
    <3>2. \A w \in watched' : w[2] <= loads'[w[1]]
      BY <2>1, CountsAre DEF LoadsAreNumbered
    <3>3. QED
      BY <3>1, <3>2 DEF LoadsAreNumbered
  <2>4. WatchedIsObserved'
    BY <2>1, <2>2 DEF WatchedIsObserved
  <2>5. CalledIsWatched' /\ TokensAreKnown'
    BY <2>1 DEF CalledIsWatched, TokensAreKnown
  <2>6. QED
    BY <2>3, <2>4, <2>5
<1>2. ASSUME NEW c \in Chunk, DropObserver(c)
      PROVE  LoadsAreNumbered' /\ WatchedIsObserved' /\ CalledIsWatched' /\ TokensAreKnown'
  <2>1. /\ when = "purged" /\ chunkObservers[c] # 0 /\ activeChunks[c] = 0
        /\ ~CallbacksLocked(c, object[c])
        /\ chunkObservers' = [chunkObservers EXCEPT ![c] = 0]
        /\ object[c] = 0 => UNCHANGED <<watched, thrown>>
        /\ object[c] # 0 => /\ watched' = watched \ {<<c, chunkObservers[c]>>}
                            /\ thrown' = (thrown \/ object[c] # chunkObservers[c])
        /\ UNCHANGED <<space, when, steps, left, bodies, activeChunks, changing>>
    BY <1>2 DEF DropObserver, Unneeded
  <2>2. object[c] # 0 => object[c] = chunkObservers[c]
    <3>1. ~(activeChunks[c] > Cardinality(KnownOf(c)))
      BY <2>1, KnownAre
    <3>2. QED
      BY <2>1, <3>1 DEF OldTokensAreKept, Gone
  <2>3. chunkObservers'[c] = 0 /\ \A d \in Chunk : d # c => chunkObservers'[d] = chunkObservers[d]
    BY <2>1, CountsAre
  <2>4. watched' \subseteq watched
    BY <2>1
  <2>5. LoadsAreNumbered'
    BY <2>1, <2>3, <2>4, CountsAre DEF LoadsAreNumbered
  <2>6. <<c, object[c]>> \notin watched'
    <3>1. CASE object[c] = 0
      BY <2>4, <3>1, CountsAre
    <3>2. CASE object[c] # 0
      BY <2>1, <2>2, <3>2
    <3>3. QED
      BY <3>1, <3>2
  <2>7. WatchedIsObserved'
    BY <2>1, <2>3, <2>4, <2>6 DEF WatchedIsObserved
  <2>8. CalledIsWatched'
    <3>1. SUFFICES ASSUME setter.stage = "calling"
                   PROVE  <<ChunkOf(setter.block), setter.of>> \in watched'
      BY <2>1 DEF CalledIsWatched
    <3>2. <<ChunkOf(setter.block), setter.of>> \in watched
      BY <3>1 DEF CalledIsWatched
    <3>3. <<ChunkOf(setter.block), setter.of>> # <<c, object[c]>>
      BY <2>1, <3>1 DEF CallbacksLocked
    <3>4. QED
      BY <2>1, <2>2, <3>2, <3>3
  <2>9. TokensAreKnown'
    <3>1. CASE object[c] = 0
      BY <2>1, <3>1 DEF TokensAreKnown
    <3>2. CASE object[c] # 0
      BY <2>1, <2>2, <3>2 DEF TokensAreKnown
    <3>3. QED
      BY <3>1, <3>2
  <2>10. QED
    BY <2>5, <2>7, <2>8, <2>9
<1>3. ASSUME NEW c \in Chunk, Register(c)
      PROVE  LoadsAreNumbered' /\ WatchedIsObserved' /\ CalledIsWatched' /\ TokensAreKnown'
  <2>1. /\ watched' = watched \cup {<<c, object[c]>>} /\ object[c] # 0
        /\ chunkObservers' = [chunkObservers EXCEPT ![c] = object[c]]
        /\ UNCHANGED <<space, changing, thrown>>
    BY <1>3 DEF Register, ToRegister
  <2>2. /\ chunkObservers'[c] = object[c] /\ object[c] = loads[c]
        /\ \A d \in Chunk : d # c => chunkObservers'[d] = chunkObservers[d]
    BY <2>1, CountsAre DEF LoadsAreNumbered
  <2>3. LoadsAreNumbered'
    <3>1. \A d \in Chunk : object'[d] \in {0, loads'[d]} /\ chunkObservers'[d] <= loads'[d]
      BY <2>1, <2>2, CountsAre DEF LoadsAreNumbered
    <3>2. \A w \in watched' : w[2] <= loads'[w[1]]
      BY <2>1, <2>2, CountsAre DEF LoadsAreNumbered
    <3>3. QED
      BY <3>1, <3>2 DEF LoadsAreNumbered
  <2>4. WatchedIsObserved'
    BY <2>1, <2>2 DEF WatchedIsObserved
  <2>5. CalledIsWatched' /\ TokensAreKnown'
    BY <2>1 DEF CalledIsWatched, TokensAreKnown
  <2>6. QED
    BY <2>3, <2>4, <2>5
<1>4. ASSUME UNCHANGED <<object, loads, chunkObservers, watched, thrown>>
      PROVE  LoadsAreNumbered' /\ WatchedIsObserved' /\ TokensAreKnown'
  BY <1>4 DEF LoadsAreNumbered, WatchedIsObserved, TokensAreKnown
<1>5. ASSUME NEW p \in Position, PutBlock(p) PROVE CalledIsWatched'
  <2>1. setter'.stage = "written"
    BY <1>5 DEF PutBlock, Change
  <2>2. QED
    BY <2>1 DEF CalledIsWatched
<1>6. CASE CallBack
  <2>1. CASE <<ChunkOf(setter.block), setter.of>> \in watched
    <3>1. setter.stage = "written" /\ setter' = [setter EXCEPT !.stage = "calling"]
          /\ watched' = watched
      BY <1>6, <2>1 DEF CallBack
    <3>2. setter'.block = setter.block /\ setter'.of = setter.of
      BY <3>1, SetterIs
    <3>3. QED
      BY <1>4, <1>6, <2>1, <3>1, <3>2 DEF CallBack, CalledIsWatched
  <2>2. CASE <<ChunkOf(setter.block), setter.of>> \notin watched
    <3>1. setter'.stage = "none"
      BY <1>6, <2>2 DEF CallBack, NoChange
    <3>2. QED
      BY <1>4, <1>6, <3>1 DEF CallBack, CalledIsWatched
  <2>3. QED
    BY <2>1, <2>2
<1>7. CASE chunkBlockDidChange
  <2>1. setter'.stage = "none"
    BY <1>7 DEF chunkBlockDidChange, NoChange
  <2>2. QED
    BY <1>4, <1>7, <2>1 DEF chunkBlockDidChange, CalledIsWatched
<1>8. ASSUME Purge \/ BeginUpdate \/ Simulate \/ EndFrame
      PROVE  UNCHANGED <<object, loads, chunkObservers, watched, thrown, setter>>
  BY <1>8 DEF Purge, BeginUpdate, Simulate, EndFrame
<1>9. ASSUME NEW p \in Position, LookAt(p)
      PROVE  UNCHANGED <<object, loads, chunkObservers, watched, thrown, setter>>
  BY <1>9 DEF LookAt
<1>10. ASSUME NEW p \in Position, PutBlock(p)
       PROVE  UNCHANGED <<object, loads, chunkObservers, watched, thrown>>
  BY <1>10 DEF PutBlock
<1>11. ASSUME UNCHANGED <<setter, watched>> PROVE CalledIsWatched'
  BY <1>11 DEF CalledIsWatched
<1>12. QED
  BY <1>1, <1>2, <1>3, <1>4, <1>5, <1>6, <1>7, <1>8, <1>9, <1>10, <1>11 DEF CollisionsNext

LEMMA WrongIsChangingKept ==
    ASSUME CollisionsTypeOK, LoadsAreNumbered, LeftIsNew, EachBodyHasReference, WrongIsChanging,
           CollisionsNext
    PROVE  WrongIsChanging'
<1> USE DEF space, caches, changing
<1>1. ASSUME NEW c \in Chunk, LoadChunk(c) \/ UnloadChunk(c) PROVE WrongIsChanging'
  <2>1. /\ UNCHANGED <<solid, bodies, watched, setter>>
        /\ \A d \in Chunk : d # c => object'[d] = object[d]
        /\ object'[c] \in {0, loads[c] + 1}
    BY <1>1, CountsAre DEF LoadChunk, UnloadChunk
  <2>2. <<c, object'[c]>> \notin watched
    <3>1. ASSUME <<c, object'[c]>> \in watched PROVE FALSE
      <4>1. object'[c] # 0 /\ object'[c] <= loads[c]
        BY <3>1, CountsAre DEF LoadsAreNumbered
      <4>2. QED
        BY <2>1, <4>1, CountsAre
    <3>2. QED
      BY <3>1
  <2>3. \A p \in Known : ChunkOf(p) \in Chunk
    BY KnownAre
  <2>4. QED
    BY <2>1, <2>2, <2>3 DEF WrongIsChanging, Wrong, Known
<1>2. ASSUME NEW c \in Chunk, DropObserver(c) PROVE WrongIsChanging'
  <2>1. UNCHANGED <<solid, bodies, object, setter>> /\ watched' \subseteq watched
    BY <1>2 DEF DropObserver
  <2>2. QED
    BY <2>1 DEF WrongIsChanging, Wrong, Known
<1>3. ASSUME NEW c \in Chunk, Register(c) PROVE WrongIsChanging'
  <2>1. /\ UNCHANGED <<solid, bodies, object, setter>> /\ activeChunks[c] = 0
        /\ watched' = watched \cup {<<c, object[c]>>}
    BY <1>3 DEF Register, ToRegister
  <2>2. KnownOf(c) = {}
    <3>1. Cardinality(KnownOf(c)) = 0
      BY <2>1, KnownAre DEF EachBodyHasReference
    <3>2. QED
      BY <3>1, KnownAre, FS_EmptySet
  <2>3. \A p \in Known : ChunkOf(p) # c
    BY <2>2 DEF KnownOf
  <2>4. QED
    BY <2>1, <2>3 DEF WrongIsChanging, Wrong, Known
<1>4. ASSUME NEW p \in Position, PutBlock(p) PROVE WrongIsChanging'
  <2>1. /\ setter = NoChange /\ solid' = (solid \ {p}) \cup ({p} \ solid)
        /\ setter' = Change("written", p, object[ChunkOf(p)])
        /\ UNCHANGED <<bodies, object, watched>>
    BY <1>4 DEF PutBlock
  <2>2. /\ setter.stage = "none" /\ setter'.stage = "written" /\ setter'.block = p
        /\ setter'.of = object[ChunkOf(p)]
    BY <2>1 DEF NoChange, Change
  <2>3. \A q \in Known : q # p => (Wrong(q)' => Wrong(q))
    BY <2>1 DEF Wrong
  <2>4. QED
    BY <2>1, <2>2, <2>3 DEF WrongIsChanging, Known
<1>5. CASE CallBack
  <2>1. setter.stage = "written" /\ UNCHANGED <<solid, bodies, object, watched>>
    BY <1>5 DEF CallBack
  <2>2. \A q : Wrong(q)' <=> Wrong(q)
    BY <2>1 DEF Wrong
  <2>3. CASE <<ChunkOf(setter.block), setter.of>> \in watched
    <3>1. setter' = [setter EXCEPT !.stage = "calling"]
      BY <1>5, <2>3 DEF CallBack
    <3>2. setter'.stage = "calling" /\ setter'.block = setter.block /\ setter'.of = setter.of
      BY <2>1, <3>1, SetterIs
    <3>3. QED
      BY <2>1, <2>2, <3>2 DEF WrongIsChanging, Known
  <2>4. CASE <<ChunkOf(setter.block), setter.of>> \notin watched
    BY <2>1, <2>2, <2>4 DEF WrongIsChanging, Known
  <2>5. QED
    BY <2>3, <2>4
<1>6. CASE chunkBlockDidChange
  <2>1. bodies' = Without({setter.block}) /\ UNCHANGED <<solid, object, watched>>
    BY <1>6 DEF chunkBlockDidChange
  <2>2. Known' = Known \ {setter.block} /\ \A q \in Known' : bodies'[q] = bodies[q]
    BY <2>1, WithoutIs DEF Known
  <2>3. \A q \in Known' : Wrong(q)' => Wrong(q)
    BY <2>1, <2>2 DEF Wrong
  <2>4. QED
    BY <2>1, <2>2, <2>3 DEF WrongIsChanging
<1>7. CASE Purge
  <2>1. bodies' = Without(FarBodies) /\ UNCHANGED <<solid, object, watched, setter>>
    BY <1>7 DEF Purge
  <2>2. Known' \subseteq Known /\ \A q \in Known' : bodies'[q] = bodies[q]
    BY <2>1, WithoutIs DEF Known
  <2>3. \A q \in Known' : Wrong(q)' => Wrong(q)
    BY <2>1, <2>2 DEF Wrong
  <2>4. QED
    BY <2>1, <2>2, <2>3 DEF WrongIsChanging
<1>8. ASSUME NEW p \in Position, LookAt(p) PROVE WrongIsChanging'
  <2>1. UNCHANGED <<solid, object, watched, setter>>
    BY <1>8 DEF LookAt
  <2>2. /\ Known' = Known \cup {p} /\ bodies'[p] = (p \in solid)
        /\ \A q \in Known : bodies'[q] = bodies[q]
    BY <1>8, LookedAt
  <2>3. ~Wrong(p)'
    BY <2>1, <2>2 DEF Wrong
  <2>4. \A q \in Known : Wrong(q)' => Wrong(q)
    BY <2>1, <2>2 DEF Wrong
  <2>5. QED
    BY <2>1, <2>2, <2>3, <2>4 DEF WrongIsChanging
<1>9. CASE BeginUpdate \/ Simulate \/ EndFrame
  <2>1. UNCHANGED <<solid, bodies, object, watched, setter>>
    BY <1>9 DEF BeginUpdate, Simulate, EndFrame
  <2>2. QED
    BY <2>1 DEF WrongIsChanging, Wrong, Known
<1>10. QED
  BY <1>1, <1>2, <1>3, <1>4, <1>5, <1>6, <1>7, <1>8, <1>9 DEF CollisionsNext

LEMMA LeftIsNewKept ==
    ASSUME CollisionsTypeOK, LeftIsNew, CollisionsNext
    PROVE  LeftIsNew'
<1> USE DEF space, caches, changing
<1>1. ASSUME UNCHANGED <<when, left>>, Known' \subseteq Known PROVE LeftIsNew'
  BY <1>1 DEF LeftIsNew
<1>2. ASSUME NEW c \in Chunk, LoadChunk(c) \/ UnloadChunk(c) \/ DropObserver(c) \/ Register(c)
      PROVE  UNCHANGED <<when, left, bodies>>
  BY <1>2 DEF LoadChunk, UnloadChunk, DropObserver, Register
<1>3. ASSUME NEW p \in Position, PutBlock(p) PROVE UNCHANGED <<when, left, bodies>>
  BY <1>3 DEF PutBlock
<1>4. CASE CallBack
  BY <1>1, <1>4 DEF CallBack, Known
<1>5. CASE chunkBlockDidChange
  <2>1. bodies' = Without({setter.block}) /\ UNCHANGED <<when, left>>
    BY <1>5 DEF chunkBlockDidChange
  <2>2. Known' \subseteq Known
    BY <2>1, WithoutIs DEF Known
  <2>3. QED
    BY <1>1, <2>1, <2>2
<1>6. CASE Purge
  <2>1. when = "frame" /\ left' = left
    BY <1>6 DEF Purge
  <2>2. left' = {}
    BY <2>1 DEF LeftIsNew
  <2>3. QED
    BY <2>2 DEF LeftIsNew
<1>7. CASE BeginUpdate
  BY <1>7 DEF BeginUpdate, LeftIsNew, Known
<1>8. ASSUME NEW p \in Position, LookAt(p) PROVE LeftIsNew'
  <2>1. left' = left \ {p} /\ when' = when /\ Known' = Known \cup {p}
    BY <1>8, LookedAt DEF LookAt
  <2>2. QED
    BY <2>1 DEF LeftIsNew
<1>9. CASE Simulate
  BY <1>9 DEF Simulate, LeftIsNew
<1>10. CASE EndFrame
  <2>1. when # "update" /\ UNCHANGED <<left, bodies>>
    BY <1>10 DEF EndFrame
  <2>2. QED
    BY <2>1 DEF LeftIsNew, Known
<1>11. QED
  BY <1>1, <1>2, <1>3, <1>4, <1>5, <1>6, <1>7, <1>8, <1>9, <1>10 DEF CollisionsNext, Known

LEMMA EachBodyHasReferenceKept ==
    ASSUME CollisionsTypeOK, LeftIsNew, EachBodyHasReference, CollisionsNext
    PROVE  EachBodyHasReference'
<1> USE DEF space, caches, changing
<1>1. CASE UNCHANGED <<bodies, activeChunks>>
  BY <1>1 DEF EachBodyHasReference, KnownOf, Known
<1>2. CASE chunkBlockDidChange
  <2>1. bodies' = Without({setter.block}) /\ activeChunks' = activeChunks
    BY <1>2 DEF chunkBlockDidChange
  <2>2. ASSUME NEW c \in Chunk PROVE (activeChunks[c] >= Cardinality(KnownOf(c)))'
    <3>1. /\ Cardinality(KnownOf(c))' <= Cardinality(KnownOf(c))
          /\ Cardinality(KnownOf(c))' \in Nat /\ Cardinality(KnownOf(c)) \in Nat
      BY <2>1, FewerBodies, KnownAre
    <3>2. activeChunks[c] >= Cardinality(KnownOf(c)) /\ activeChunks[c] \in Nat
      BY CountsAre DEF EachBodyHasReference
    <3>3. QED
      BY <2>1, <3>1, <3>2
  <2>3. QED
    BY <2>2 DEF EachBodyHasReference
<1>3. CASE Purge
  <2>1. ASSUME NEW c \in Chunk PROVE (activeChunks[c] >= Cardinality(KnownOf(c)))'
    <3>1. /\ activeChunks'[c] - Cardinality(KnownOf(c))' = activeChunks[c] - Cardinality(KnownOf(c))
          /\ activeChunks'[c] \in Nat /\ Cardinality(KnownOf(c))' \in Nat
      BY <1>3, PurgedAre
    <3>2. /\ activeChunks[c] >= Cardinality(KnownOf(c)) /\ activeChunks[c] \in Nat
          /\ Cardinality(KnownOf(c)) \in Nat
      BY CountsAre, KnownAre DEF EachBodyHasReference
    <3>3. QED
      BY <3>1, <3>2
  <2>2. QED
    BY <2>1 DEF EachBodyHasReference
<1>4. ASSUME NEW p \in Position, LookAt(p) PROVE EachBodyHasReference'
  <2>1. ASSUME NEW c \in Chunk PROVE (activeChunks[c] >= Cardinality(KnownOf(c)))'
    <3>1. \/ /\ activeChunks'[c] = activeChunks[c] + 1
             /\ Cardinality(KnownOf(c))' = Cardinality(KnownOf(c)) + 1
          \/ /\ activeChunks'[c] = activeChunks[c]
             /\ Cardinality(KnownOf(c))' = Cardinality(KnownOf(c))
      BY <1>4, LookedAt
    <3>2. /\ activeChunks[c] >= Cardinality(KnownOf(c)) /\ activeChunks[c] \in Nat
          /\ Cardinality(KnownOf(c)) \in Nat
      BY CountsAre, KnownAre DEF EachBodyHasReference
    <3>3. QED
      BY <3>1, <3>2
  <2>2. QED
    BY <2>1 DEF EachBodyHasReference
<1>5. \/ UNCHANGED <<bodies, activeChunks>> \/ chunkBlockDidChange \/ Purge
      \/ \E p \in Position : LookAt(p)
  BY DEF CollisionsNext, LoadChunk, UnloadChunk, DropObserver, Register, PutBlock, CallBack,
         BeginUpdate, Simulate, EndFrame
<1>6. QED
  BY <1>1, <1>2, <1>3, <1>4, <1>5

LEMMA OldTokensAreKeptKept ==
    ASSUME CollisionsTypeOK, LeftIsNew, EachBodyHasReference, OldTokensAreKept, CollisionsNext
    PROVE  OldTokensAreKept'
<1> USE DEF space, caches, changing
<1>0. SUFFICES ASSUME NEW c \in Chunk, chunkObservers'[c] \notin {0, object'[c]}
               PROVE  \/ activeChunks'[c] > Cardinality(KnownOf(c))'
                      \/ Gone(c)'
  BY DEF OldTokensAreKept
<1>a. /\ activeChunks[c] \in Nat /\ Cardinality(KnownOf(c)) \in Nat
      /\ activeChunks[c] >= Cardinality(KnownOf(c))
  BY CountsAre, KnownAre DEF EachBodyHasReference
<1> DEFINE Kept == activeChunks'[c] > Cardinality(KnownOf(c))' \/ Gone(c)'
           Old == /\ chunkObservers[c] \notin {0, object[c]}
                  /\ activeChunks[c] > Cardinality(KnownOf(c)) \/ Gone(c)
<1>1. ASSUME Old, UNCHANGED <<bodies, activeChunks, object, player>>,
             when' = when \/ ~Gone(c)
      PROVE  Kept
  BY <1>1 DEF Gone, KnownOf, Known
<1>2. ASSUME \/ UNCHANGED <<chunkObservers, object>>
             \/ UNCHANGED <<chunkObservers[c], object[c]>>
      PROVE  Old
  BY <1>0, <1>2 DEF OldTokensAreKept
<1>3. ASSUME NEW d \in Chunk, LoadChunk(d) PROVE Kept
  <2>1. /\ when = "frame" /\ object[d] = 0 /\ Distance(d, ChunkOf(player)) <= Release
        /\ object' = [object EXCEPT ![d] = loads'[d]]
        /\ UNCHANGED <<player, when, bodies, activeChunks, chunkObservers>>
    BY <1>3 DEF LoadChunk
  <2>2. CASE c = d
    <3>1. Old
      BY <1>0, <2>1, <2>2 DEF OldTokensAreKept
    <3>2. ~Gone(c)
      <4>1. Distance(d, ChunkOf(player)) \in Nat /\ Release \in Nat
        <5>1. player \in Position
          BY DEF CollisionsTypeOK
        <5>2. ChunkOf(player) \in Chunk
          BY <5>1, PositionsAre
        <5>3. ChunkOf(player) \in Int /\ d \in Int /\ Release \in Nat
          BY <5>2, CollisionsAssumption DEF Chunk
        <5>4. QED
          BY <5>3 DEF Distance
      <4>2. QED
        BY <2>1, <2>2, <4>1 DEF Gone
    <3>3. QED
      BY <2>1, <3>1, <3>2 DEF KnownOf, Known
  <2>3. CASE c # d
    <3>1. object'[c] = object[c]
      BY <2>1, <2>3, CountsAre
    <3>2. Old
      BY <1>2, <2>1, <3>1
    <3>3. QED
      BY <2>1, <3>1, <3>2 DEF Gone, KnownOf, Known
  <2>4. QED
    BY <2>2, <2>3
<1>4. ASSUME NEW d \in Chunk, UnloadChunk(d) PROVE Kept
  <2>1. /\ when = "frame" /\ Distance(d, ChunkOf(player)) > Release
        /\ object' = [object EXCEPT ![d] = 0]
        /\ UNCHANGED <<player, when, bodies, activeChunks, chunkObservers>>
    BY <1>4 DEF UnloadChunk
  <2>2. CASE c = d
    <3>1. object'[c] = 0
      BY <2>1, <2>2, CountsAre
    <3>2. QED
      BY <2>1, <2>2, <3>1 DEF Gone
  <2>3. CASE c # d
    <3>1. object'[c] = object[c]
      BY <2>1, <2>3, CountsAre
    <3>2. Old
      BY <1>2, <2>1, <3>1
    <3>3. QED
      BY <2>1, <3>1, <3>2 DEF Gone, KnownOf, Known
  <2>4. QED
    BY <2>2, <2>3
<1>5. ASSUME NEW d \in Chunk, DropObserver(d) \/ Register(d) PROVE Kept
  <2>1. UNCHANGED <<space, when, bodies, activeChunks>>
    BY <1>5 DEF DropObserver, Register
  <2>2. c # d
    <3>1. CASE DropObserver(d)
      BY <1>0, <3>1, CountsAre DEF DropObserver
    <3>2. CASE Register(d)
      BY <1>0, <3>2, CountsAre DEF Register
    <3>3. QED
      BY <1>5, <3>1, <3>2
  <2>3. chunkObservers'[c] = chunkObservers[c]
    BY <1>5, <2>2, CountsAre DEF DropObserver, Register
  <2>4. Old
    BY <1>2, <2>1, <2>3
  <2>5. QED
    BY <1>1, <2>1, <2>4
<1>6. ASSUME NEW p \in Position, PutBlock(p) PROVE Kept
  <2>1. UNCHANGED <<bodies, activeChunks, chunkObservers, object, player, when>>
    BY <1>6 DEF PutBlock
  <2>2. QED
    BY <1>1, <1>2, <2>1
<1>7. CASE CallBack
  <2>1. UNCHANGED <<bodies, activeChunks, chunkObservers, object, player, when>>
    BY <1>7 DEF CallBack
  <2>2. QED
    BY <1>1, <1>2, <2>1
<1>8. CASE chunkBlockDidChange
  <2>1. /\ bodies' = Without({setter.block})
        /\ UNCHANGED <<activeChunks, chunkObservers, object, player, when>>
    BY <1>8 DEF chunkBlockDidChange
  <2>2. Old
    BY <1>2, <2>1
  <2>3. Cardinality(KnownOf(c))' <= Cardinality(KnownOf(c)) /\ Cardinality(KnownOf(c))' \in Nat
    BY <2>1, FewerBodies
  <2>4. Gone(c) => Gone(c)'
    BY <2>1 DEF Gone
  <2>5. QED
    BY <1>a, <2>1, <2>2, <2>3, <2>4
<1>9. CASE Purge
  <2>1. /\ when = "frame" /\ when' = "purged"
        /\ UNCHANGED <<chunkObservers, object, player>>
    BY <1>9 DEF Purge
  <2>2. Old
    BY <1>2, <2>1
  <2>3. /\ Known' = Known \ FarBodies
        /\ activeChunks'[c] \in Nat /\ Cardinality(KnownOf(c))' \in Nat
        /\ activeChunks'[c] - Cardinality(KnownOf(c))' = activeChunks[c] - Cardinality(KnownOf(c))
    BY <1>9, PurgedAre
  <2>4. CASE activeChunks[c] > Cardinality(KnownOf(c))
    BY <1>a, <2>3, <2>4
  <2>5. CASE Gone(c)
    <3>1. object[c] = 0 /\ Distance(c, ChunkOf(player)) > Release
      BY <2>1, <2>5 DEF Gone
    <3>2. ASSUME NEW p \in KnownOf(c) PROVE p \in FarBodies
      <4>1. p \in Known /\ ChunkOf(p) = c /\ p \in Position /\ player \in Position
        BY KnownAre DEF KnownOf
      <4>2. Distance(p, player) > FarAway
        BY <3>1, <4>1, UnloadedIsFar
      <4>3. QED
        BY <4>1, <4>2 DEF FarBodies
    <3>3. KnownOf(c)' = {}
      BY <2>3, <3>2 DEF KnownOf
    <3>4. Cardinality(KnownOf(c))' = 0
      BY <3>3, FS_EmptySet
    <3>5. CASE activeChunks'[c] = 0
      BY <2>1, <3>1, <3>5 DEF Gone
    <3>6. CASE activeChunks'[c] # 0
      BY <2>3, <3>4, <3>6
    <3>7. QED
      BY <3>5, <3>6
  <2>6. QED
    BY <2>2, <2>4, <2>5
<1>10. CASE BeginUpdate \/ EndFrame
  <2>1. /\ when = "simulated" \/ (when = "purged" /\ Unneeded = {})
        /\ UNCHANGED <<bodies, activeChunks, chunkObservers, object, player>>
    BY <1>10 DEF BeginUpdate, EndFrame
  <2>2. Old
    BY <1>2, <2>1
  <2>3. ~Gone(c)
    BY <2>1, <2>2 DEF Gone, Unneeded
  <2>4. QED
    BY <1>1, <2>1, <2>2, <2>3
<1>11. ASSUME NEW p \in Position, LookAt(p) PROVE Kept
  <2>1. when = "update" /\ UNCHANGED <<chunkObservers, object>>
    BY <1>11 DEF LookAt
  <2>2. Old /\ ~Gone(c)
    BY <1>2, <2>1 DEF Gone
  <2>3. \/ /\ activeChunks'[c] = activeChunks[c] + 1
           /\ Cardinality(KnownOf(c))' = Cardinality(KnownOf(c)) + 1
        \/ /\ activeChunks'[c] = activeChunks[c]
           /\ Cardinality(KnownOf(c))' = Cardinality(KnownOf(c))
    BY <1>11, LookedAt
  <2>4. QED
    BY <1>a, <2>2, <2>3
<1>12. CASE Simulate
  <2>1. when = "update" /\ UNCHANGED <<bodies, activeChunks, chunkObservers, object>>
    BY <1>12 DEF Simulate
  <2>2. Old /\ ~Gone(c)
    BY <1>2, <2>1 DEF Gone
  <2>3. QED
    BY <2>1, <2>2 DEF KnownOf, Known
<1>13. QED
  BY <1>3, <1>4, <1>5, <1>6, <1>7, <1>8, <1>9, <1>10, <1>11, <1>12 DEF CollisionsNext

LEMMA CollisionsInitHolds == CollisionsInit => CollisionsIInv
<1> SUFFICES ASSUME CollisionsInit PROVE CollisionsIInv
  OBVIOUS
<1>1. /\ player = 0 /\ solid = {p \in Position : p % 2 = 0} /\ loads = object
      /\ object = [c \in Chunk |-> IF c <= Release THEN 1 ELSE 0]
      /\ when = "frame" /\ steps = 0 /\ left = {} /\ bodies = <<>>
      /\ activeChunks = [c \in Chunk |-> 0] /\ chunkObservers = [c \in Chunk |-> 0]
      /\ watched = {} /\ setter = NoChange /\ sets = 0 /\ ~thrown
  BY DEF CollisionsInit
<1>2. Known = {}
  BY <1>1 DEF Known
<1>3. CollisionsTypeOK
  <2>1. player \in Position
    <3>1. Chunks \in Nat \ {0} /\ Side \in Nat \ {0}
      BY CollisionsAssumption
    <3>2. Chunks * Side \in Nat /\ Chunks * Side # 0
      BY <3>1
    <3>3. QED
      BY <1>1, <3>2 DEF Position
  <2>2. object \in [Chunk -> 0..MaxLoads] /\ loads \in [Chunk -> 0..MaxLoads]
    BY <1>1, CollisionsAssumption
  <2>3. /\ steps \in 0..MaxSteps /\ sets \in 0..MaxSets
        /\ activeChunks \in [Chunk -> Nat] /\ chunkObservers \in [Chunk -> 0..MaxLoads]
    BY <1>1, CollisionsAssumption
  <2>4. bodies \in [Known -> BOOLEAN]
    BY <1>1, <1>2
  <2>5. QED
    BY <1>1, <1>2, <2>1, <2>2, <2>3, <2>4 DEF CollisionsTypeOK
<1>4. \A c \in Chunk : /\ object[c] = loads[c] /\ chunkObservers[c] = 0 /\ activeChunks[c] = 0
                       /\ loads[c] \in Nat
  BY <1>1
<1>5. LoadsAreNumbered /\ WatchedIsObserved /\ CalledIsWatched /\ TokensAreKnown
  BY <1>1, <1>4 DEF LoadsAreNumbered, WatchedIsObserved, CalledIsWatched, TokensAreKnown, NoChange
<1>6. WrongIsChanging /\ LeftIsNew
  BY <1>1, <1>2 DEF WrongIsChanging, LeftIsNew
<1>7. EachBodyHasReference
  <2>1. \A c \in Chunk : KnownOf(c) = {}
    BY <1>2 DEF KnownOf
  <2>2. Cardinality({}) = 0
    BY FS_EmptySet
  <2>3. QED
    BY <1>4, <2>1, <2>2 DEF EachBodyHasReference
<1>8. OldTokensAreKept
  BY <1>4 DEF OldTokensAreKept
<1>9. QED
  BY <1>3, <1>5, <1>6, <1>7, <1>8 DEF CollisionsIInv

LEMMA CollisionsStep == CollisionsIInv /\ [CollisionsNext]_bodyVars => CollisionsIInv'
<1> SUFFICES ASSUME CollisionsIInv, [CollisionsNext]_bodyVars PROVE CollisionsIInv'
  OBVIOUS
<1>1. CASE CollisionsNext
  BY <1>1, CollisionsTypesKept, LoadsAreNumberedKept, WrongIsChangingKept, LeftIsNewKept,
     EachBodyHasReferenceKept, OldTokensAreKeptKept DEF CollisionsIInv
<1>2. CASE UNCHANGED bodyVars
  <2>1. /\ UNCHANGED <<player, solid, object, loads, when, steps, left, bodies, activeChunks>>
        /\ UNCHANGED <<chunkObservers, watched, setter, sets, thrown>>
    BY <1>2 DEF bodyVars, space, caches, changing
  <2>2. CollisionsTypeOK' /\ LoadsAreNumbered' /\ WatchedIsObserved' /\ CalledIsWatched'
    BY <2>1 DEF CollisionsIInv, CollisionsTypeOK, LoadsAreNumbered, WatchedIsObserved,
                CalledIsWatched, Known
  <2>3. WrongIsChanging' /\ LeftIsNew' /\ TokensAreKnown'
    BY <2>1 DEF CollisionsIInv, WrongIsChanging, Wrong, LeftIsNew, TokensAreKnown, Known
  <2>4. EachBodyHasReference' /\ OldTokensAreKept'
    BY <2>1 DEF CollisionsIInv, EachBodyHasReference, OldTokensAreKept, Gone, KnownOf, Known
  <2>5. QED
    BY <2>2, <2>3, <2>4 DEF CollisionsIInv
<1>3. QED
  BY <1>1, <1>2

LEMMA CollisionsIInvIsEnough == CollisionsIInv => CollisionsInv
<1> SUFFICES ASSUME CollisionsIInv PROVE CollisionsInv
  OBVIOUS
<1>1. BodiesFollowBlocks
  <2>1. \A p \in Known : bodies[p] \in BOOLEAN
    BY KnownAre DEF CollisionsIInv
  <2>2. ASSUME NEW p \in Known, <<ChunkOf(p), object[ChunkOf(p)]>> \in watched,
               setter.stage = "none"
        PROVE  ~Wrong(p)
    BY <2>2 DEF CollisionsIInv, WrongIsChanging
  <2>3. QED
    BY <2>1, <2>2 DEF BodiesFollowBlocks, Wrong
<1>2. LocksNeverCross
  <2>1. ASSUME NEW c \in Chunk, ToRegister(c), CallbacksLocked(c, object[c]) PROVE FALSE
    BY <2>1 DEF CollisionsIInv, ToRegister, CallbacksLocked, CalledIsWatched, WatchedIsObserved
  <2>2. QED
    BY <2>1 DEF LocksNeverCross
<1>3. QED
  BY <1>1, <1>2 DEF CollisionsIInv, CollisionsInv

(* The physics engine has a body where there is a block, but for a block     *)
(* whose callback has still to run, has a reference for each body that it    *)
(* may purge, and removes its callback from the object it was registered     *)
(* with; the locks of the bodies and of the callbacks are never taken in     *)
(* both orders (src/physics/BlockCollision.cpp, Engine.cpp).                 *)
THEOREM CollisionsSafe == CollisionsSpec => []CollisionsInv
<1>1. CollisionsSpec => []CollisionsIInv
  BY CollisionsInitHolds, CollisionsStep, PTL DEF CollisionsSpec
<1>2. QED
  BY <1>1, CollisionsIInvIsEnough, PTL
-----------------------------------------------------------------------------
(* A set of numbers has a least one.                                       *)

LEMMA Least ==
    ASSUME NEW S \in SUBSET Nat, S # {}
    PROVE  \E x \in S : \A y \in S : x <= y
<1> DEFINE R == OpToRel(<, Nat)
<1>1. IsWellFoundedOn(R, Nat)
  BY NatLessThanWellFounded
<1>2. \A x, y \in Nat : x < y => <<x, y>> \in R
  BY DEF OpToRel
<1> HIDE DEF R
<1>3. PICK x \in S : \A y \in S : ~(<<y, x>> \in R)
  BY <1>1, WFMin
<1>4. ASSUME NEW y \in S PROVE x <= y
  <2>1. x \in Nat /\ y \in Nat /\ ~(<<y, x>> \in R)
    BY <1>3
  <2>2. ~(y < x)
    BY <1>2, <2>1
  <2>3. QED
    BY <2>1, <2>2
<1>5. QED
  BY <1>4

-----------------------------------------------------------------------------
(* The meshes of chunks                                                    *)

(* What has to be said about types so that steps keep them. *)
MeshShape ==
    /\ callback = {s \in Slot : chunk[s] # Nothing}
    /\ events \in 0..MaxEvents /\ quiet \in [Object -> [Globule -> Nat]]
    /\ \A o \in Object : \A g \in Globule : version[o][g] <= events
    /\ \A s, r \in callback : At[chunk[s]] = At[chunk[r]] => s = r
    /\ IsABag(bufferReqs) /\ (job = NoJob \/ job.todo # {})
    /\ \A r \in ToSet(workQueue) \cup ToSet(highQueue) : r.todo # {}
    /\ \A r \in ToSet(highQueue) : r.urgent

(* No buffer is older than a change that was made while there was none. *)
BuffersAreNew == \A b \in BagToSet(bufferReqs) : b.v >= quiet[b.o][b.g]

(* The chunks that something is under way for. *)
UnderWay ==
    {t[1] : t \in ToSet(low) \cup ToSet(high)} \cup {b.o : b \in BagToSet(bufferReqs)}
    \cup {r.o : r \in ToSet(workQueue) \cup ToSet(highQueue) \cup {job}}

FirstUrgent ==
    IF job.urgent THEN job ELSE IF highQueue # <<>> THEN Head(highQueue) ELSE NoJob

Lags(s, g) ==
    /\ chunk[s] # Nothing /\ screen[s][g][1] = chunk[s]
    /\ screen[s][g][2] < quiet[chunk[s]][g]

(* A task or a buffer will bring the change, or the first of the urgent    *)
(* requests will, none of whose globules are in flight; or the task threw. *)
Coming(o, g) ==
    \/ <<At[o], g>> \in stuck
    \/ /\ <<At[o], g>> \in inFlight
       /\ \/ <<o, g>> \in ToSet(high)
          \/ \E b \in BagToSet(bufferReqs) : b.o = o /\ b.g = g
    \/ /\ FirstUrgent.o = o /\ g \in FirstUrgent.todo
       /\ \A h \in FirstUrgent.todo : <<At[o], h>> \notin inFlight

(* A quiet change that is not drawn is coming, and as long as it is not,   *)
(* nothing is under way for another chunk at the same position.            *)
LagIsComing ==
    \A s \in Slot : \A g \in Globule : Lags(s, g) =>
        /\ Coming(chunk[s], g)
        /\ \A o \in UnderWay \ {Nothing, chunk[s]} : At[o] # At[chunk[s]]

MeshIInv ==
    /\ MeshTypeOK /\ MeshShape /\ NoForeignMesh /\ TaggedIsUnderWay /\ BuffersAreNew
    /\ LagIsComing

LEMMA MeshConstants ==
    /\ Globule \subseteq Nat /\ IsFiniteSet(Globule) /\ 1 \in Globule
    /\ Nothing \notin Object /\ MaxEvents \in Nat /\ MaxFails \in Nat
    /\ \A G \in Concerned : G # {} /\ G \subseteq Globule
    /\ Object \X Globule = Task /\ \A o \in Object : At[o] \in ChunkPos
    /\ 0 \in Versions /\ Versions = 0..MaxEvents /\ NoJob \notin Request
    /\ NoJob.o = Nothing /\ NoJob.todo = {} /\ NoJob.urgent = FALSE
<1>1. Globules \in Nat \ {0} /\ Nothing \notin Object /\ MaxEvents \in Nat /\ MaxFails \in Nat
  BY MeshAssumption
<1>2. Globule \subseteq Nat /\ 1 \in Globule
  BY <1>1 DEF Globule
<1>3. IsFiniteSet(Globule)
  BY <1>1, FS_Interval DEF Globule
<1>4. \A G \in Concerned : G # {} /\ G \subseteq Globule
  BY MeshAssumption
<1>5. NoJob \notin Request
  BY <1>1 DEF NoJob, Request
<1>6. QED
  BY <1>1, <1>2, <1>3, <1>4, <1>5 DEF Task, ChunkPos, Versions, NoJob

-----------------------------------------------------------------------------
(* What sequences and bags hold *)

LEMMA AppendHolds ==
    ASSUME NEW S, NEW q \in Seq(S), NEW e \in S
    PROVE  /\ Append(q, e) \in Seq(S) /\ ToSet(Append(q, e)) = ToSet(q) \cup {e}
           /\ Append(q, e) # <<>> /\ Head(Append(q, e)) = IF q = <<>> THEN e ELSE Head(q)
<1> DEFINE t == Append(q, e)
<1>1. t \in Seq(S) /\ Len(t) = Len(q) + 1 /\ Len(q) \in Nat
  BY AppendProperties
<1>2. DOMAIN q = 1..Len(q) /\ DOMAIN t = 1..(Len(q) + 1)
  BY <1>1, LenProperties
<1>3. \A i \in DOMAIN q : i \in DOMAIN t /\ t[i] = q[i]
  BY <1>1, <1>2, AppendProperties
<1>4. Len(q) + 1 \in DOMAIN t /\ t[Len(q) + 1] = e
  BY <1>1, <1>2, AppendProperties
<1>5. \A i \in DOMAIN t : i \in DOMAIN q \/ i = Len(q) + 1
  BY <1>1, <1>2
<1> HIDE DEF t
<1>6. ToSet(t) = ToSet(q) \cup {e}
  BY <1>3, <1>4, <1>5 DEF ToSet
<1>7. t # <<>> /\ Head(t) = t[1]
  <2>1. t # <<>>
    BY <1>1
  <2>2. QED
    BY <1>1, <2>1, HeadTailProperties DEF t
<1>8. CASE q = <<>>
  BY <1>1, <1>4, <1>6, <1>7, <1>8 DEF t
<1>9. CASE q # <<>>
  <2>1. Head(q) = q[1] /\ 1 \in DOMAIN q
    BY <1>9, HeadTailProperties, EmptySeq, <1>1, <1>2
  <2>2. QED
    BY <1>1, <1>3, <1>6, <1>7, <1>9, <2>1 DEF t
<1>10. QED
  BY <1>8, <1>9

LEMMA TailHolds ==
    ASSUME NEW S, NEW q \in Seq(S), q # <<>>
    PROVE  /\ Tail(q) \in Seq(S) /\ Head(q) \in S /\ Head(q) \in ToSet(q)
           /\ ToSet(q) = ToSet(Tail(q)) \cup {Head(q)}
<1> DEFINE t == Tail(q)
<1>1. /\ t \in Seq(S) /\ Len(t) = Len(q) - 1 /\ Len(q) \in Nat /\ Len(q) # 0
      /\ Head(q) = q[1] /\ Head(q) \in S
  BY HeadTailProperties, EmptySeq, LenProperties
<1>2. DOMAIN q = 1..Len(q) /\ DOMAIN t = 1..(Len(q) - 1)
  BY <1>1, LenProperties
<1>3. \A i \in 1..(Len(q) - 1) : t[i] = q[i + 1]
  BY <1>1, HeadTailProperties
<1> HIDE DEF t
<1>4. \A i \in DOMAIN t : i + 1 \in DOMAIN q /\ t[i] = q[i + 1]
  BY <1>1, <1>2, <1>3
<1>5. 1 \in DOMAIN q
  BY <1>1, <1>2
<1>6. ASSUME NEW i \in DOMAIN q, i # 1 PROVE i - 1 \in DOMAIN t /\ t[i - 1] = q[i]
  <2>1. i - 1 \in 1..(Len(q) - 1) /\ (i - 1) + 1 = i
    BY <1>1, <1>2, <1>6
  <2>2. QED
    BY <1>2, <1>3, <2>1
<1>7. ASSUME NEW x \in ToSet(q) PROVE x \in ToSet(t) \cup {Head(q)}
  <2>1. PICK i \in DOMAIN q : q[i] = x
    BY DEF ToSet
  <2>2. QED
    BY <1>1, <1>6, <2>1 DEF ToSet
<1>8. ASSUME NEW x \in ToSet(t) PROVE x \in ToSet(q)
  BY <1>4 DEF ToSet
<1>9. Head(q) \in ToSet(q)
  BY <1>1, <1>5 DEF ToSet
<1>10. QED
  BY <1>1, <1>7, <1>8, <1>9 DEF t

LEMMA ConcatHolds ==
    ASSUME NEW S, NEW q \in Seq(S), NEW r \in Seq(S)
    PROVE  q \o r \in Seq(S) /\ ToSet(q \o r) = ToSet(q) \cup ToSet(r)
<1> DEFINE t == q \o r
<1>1. t \in Seq(S) /\ Len(t) = Len(q) + Len(r) /\ Len(q) \in Nat /\ Len(r) \in Nat
  BY ConcatProperties, LenProperties
<1>2. DOMAIN q = 1..Len(q) /\ DOMAIN r = 1..Len(r) /\ DOMAIN t = 1..(Len(q) + Len(r))
  BY <1>1, LenProperties
<1>3. \A i \in 1..(Len(q) + Len(r)) : t[i] = IF i <= Len(q) THEN q[i] ELSE r[i - Len(q)]
  BY ConcatProperties
<1> HIDE DEF t
<1>4. ASSUME NEW x \in ToSet(t) PROVE x \in ToSet(q) \cup ToSet(r)
  <2>1. PICK i \in 1..(Len(q) + Len(r)) : t[i] = x
    BY <1>2 DEF ToSet
  <2>2. CASE i <= Len(q)
    <3>1. i \in DOMAIN q /\ q[i] = x
      BY <1>1, <1>2, <1>3, <2>1, <2>2
    <3>2. QED
      BY <3>1 DEF ToSet
  <2>3. CASE ~(i <= Len(q))
    <3>1. i - Len(q) \in DOMAIN r /\ r[i - Len(q)] = x
      BY <1>1, <1>2, <1>3, <2>1, <2>3
    <3>2. QED
      BY <3>1 DEF ToSet
  <2>4. QED
    BY <2>2, <2>3
<1>5. ASSUME NEW x \in ToSet(q) PROVE x \in ToSet(t)
  <2>1. PICK i \in DOMAIN q : q[i] = x
    BY DEF ToSet
  <2>2. i \in DOMAIN t /\ t[i] = x
    BY <1>1, <1>2, <1>3, <2>1
  <2>3. QED
    BY <2>2 DEF ToSet
<1>6. ASSUME NEW x \in ToSet(r) PROVE x \in ToSet(t)
  <2>1. PICK i \in DOMAIN r : r[i] = x
    BY DEF ToSet
  <2>2. i + Len(q) \in DOMAIN t /\ ~(i + Len(q) <= Len(q)) /\ (i + Len(q)) - Len(q) = i
    BY <1>1, <1>2
  <2>3. t[i + Len(q)] = x
    BY <1>2, <1>3, <2>1, <2>2
  <2>4. QED
    BY <2>2, <2>3 DEF ToSet
<1>7. QED
  BY <1>1, <1>4, <1>5, <1>6 DEF t

LEMMA EmptyHolds == ASSUME NEW S PROVE <<>> \in Seq(S) /\ ToSet(<<>>) = {}
  BY EmptySeq DEF ToSet

LEMMA HeldIs ==
    ASSUME NEW S, NEW q \in Seq(S)
    PROVE  ToSet(q) \subseteq S /\ (q # <<>> => Head(q) \in ToSet(q))
<1>1. ToSet(q) \subseteq S
  <2>1. \A i \in DOMAIN q : q[i] \in S
    BY ElementOfSeq, LenProperties
  <2>2. QED
    BY <2>1 DEF ToSet
<1>2. QED
  BY <1>1, TailHolds

(* A finite set in any order holds what the set does. *)
LEMMA SetToSeqHolds ==
    ASSUME NEW S, NEW T \in SUBSET S, IsFiniteSet(T)
    PROVE  SetToSeq(T) \in Seq(S) /\ ToSet(SetToSeq(T)) \subseteq T
<1> DEFINE n == Cardinality(T)
<1>1. n \in Nat /\ ExistsBijection(1..n, T)
  BY FS_CardinalityType
<1>2. PICK f \in Bijection(1..n, T) : TRUE
  BY <1>1 DEF ExistsBijection
<1>3. f \in [1..n -> T] /\ IsInjective(f)
  BY <1>2 DEF Bijection, Injection, IsInjective
<1>4. SetToSeq(T) \in [1..n -> T]
  BY <1>3 DEF SetToSeq
<1>5. SetToSeq(T) \in Seq(T)
  BY <1>1, <1>4, SeqDef
<1>6. QED
  BY <1>1, <1>4, <1>5, SeqDef DEF ToSet

LEMMA BagAddHolds ==
    ASSUME NEW B, IsABag(B), NEW x
    PROVE  /\ IsABag(B (+) SetToBag({x}))
           /\ BagToSet(B (+) SetToBag({x})) = BagToSet(B) \cup {x}
<1> DEFINE N == {n \in Nat : n > 0}
           X == SetToBag({x})
           C == B (+) X
<1>1. B \in [DOMAIN B -> N]
  BY DEF IsABag
<1>2. X = [e \in {x} |-> 1] /\ DOMAIN X = {x}
  BY DEF SetToBag
<1>3. C = [e \in DOMAIN B \cup {x} |-> (IF e \in DOMAIN B THEN B[e] ELSE 0)
                                      + (IF e \in {x} THEN X[e] ELSE 0)]
  BY <1>2 DEF (+)
<1>4. \A e \in DOMAIN B \cup {x} : (IF e \in DOMAIN B THEN B[e] ELSE 0)
                                 + (IF e \in {x} THEN X[e] ELSE 0) \in N
  BY <1>1, <1>2
<1>5. C \in [DOMAIN B \cup {x} -> N] /\ DOMAIN C = DOMAIN B \cup {x}
  BY <1>3, <1>4
<1> HIDE DEF C
<1>6. IsABag(C) /\ BagToSet(C) = BagToSet(B) \cup {x}
  BY <1>5 DEF IsABag, BagToSet
<1>7. QED
  BY <1>6 DEF C

LEMMA BagRemoveHolds ==
    ASSUME NEW B, IsABag(B), NEW x \in BagToSet(B)
    PROVE  /\ IsABag(B (-) SetToBag({x})) /\ BagToSet(B (-) SetToBag({x})) \subseteq BagToSet(B)
           /\ BagToSet(B) \ {x} \subseteq BagToSet(B (-) SetToBag({x}))
<1> DEFINE N == {n \in Nat : n > 0}
           X == SetToBag({x})
           D == [e \in DOMAIN B |-> IF e \in DOMAIN X THEN B[e] - X[e] ELSE B[e]]
           C == B (-) X
<1>1. B \in [DOMAIN B -> N] /\ x \in DOMAIN B
  BY DEF IsABag, BagToSet
<1>2. X = [e \in {x} |-> 1] /\ DOMAIN X = {x}
  BY DEF SetToBag
<1>3. C = [e \in {d \in DOMAIN D : D[d] > 0} |-> D[e]]
  BY DEF (-)
<1>4. \A e \in DOMAIN B : D[e] \in Int /\ (e # x => D[e] \in N)
  BY <1>1, <1>2
<1>5. DOMAIN D = DOMAIN B
  OBVIOUS
<1> HIDE DEF D, C
<1>6. /\ C \in [DOMAIN C -> N] /\ DOMAIN C \subseteq DOMAIN B
      /\ \A e \in DOMAIN B : e # x => e \in DOMAIN C
  BY <1>3, <1>4, <1>5
<1>7. /\ IsABag(C) /\ BagToSet(C) \subseteq BagToSet(B)
      /\ BagToSet(B) \ {x} \subseteq BagToSet(C)
  BY <1>6 DEF IsABag, BagToSet
<1>8. QED
  BY <1>7 DEF C

-----------------------------------------------------------------------------
(* The types, variable by variable *)

WorldOK ==
    /\ version \in [Object -> [Globule -> Versions]] /\ quiet \in [Object -> [Globule -> Nat]]
    /\ events \in 0..MaxEvents
    /\ \A o \in Object : \A g \in Globule :
         quiet[o][g] <= version[o][g] /\ version[o][g] <= events
SlotsOK ==
    /\ chunk \in [Slot -> Object \cup {Nothing}]
    /\ callback = {s \in Slot : chunk[s] # Nothing} /\ watching \subseteq callback
    /\ \A s, r \in callback : At[chunk[s]] = At[chunk[r]] => s = r
ScreensOK == screen \in [Slot -> [Globule -> (Object \X Versions) \cup {Blank}]]
Asked(r) == r \in Request /\ r.todo # {}
RequestsOK ==
    /\ workQueue \in Seq(Request) /\ highQueue \in Seq(Request)
    /\ \A r \in ToSet(workQueue) \cup ToSet(highQueue) : r.todo # {}
    /\ \A r \in ToSet(highQueue) : r.urgent
    /\ job = NoJob \/ Asked(job)
TasksOK ==
    /\ low \in Seq(Task) /\ high \in Seq(Task)
    /\ IsABag(bufferReqs) /\ BagToSet(bufferReqs) \subseteq Buffer
TagsOK == inFlight \subseteq ChunkPos \X Globule /\ stuck \subseteq inFlight

MeshOK == WorldOK /\ SlotsOK /\ ScreensOK /\ RequestsOK /\ TasksOK /\ TagsOK

LEMMA MeshTypesAre == MeshTypeOK /\ MeshShape <=> MeshOK
<1>1. ASSUME MeshTypeOK, MeshShape PROVE MeshOK
  <2>1. WorldOK /\ SlotsOK /\ ScreensOK /\ TagsOK
    BY <1>1 DEF MeshTypeOK, MeshShape, WorldOK, SlotsOK, ScreensOK, TagsOK
  <2>2. RequestsOK /\ TasksOK
    BY <1>1 DEF MeshTypeOK, MeshShape, RequestsOK, TasksOK, Asked
  <2>3. QED
    BY <2>1, <2>2 DEF MeshOK
<1>2. ASSUME MeshOK PROVE MeshTypeOK /\ MeshShape
  <2>1. RequestsOK /\ TasksOK /\ WorldOK /\ SlotsOK /\ ScreensOK /\ TagsOK
    BY <1>2 DEF MeshOK
  <2>2. callback \subseteq {s \in Slot : chunk[s] # Nothing}
    BY <2>1 DEF SlotsOK
  <2>3. MeshTypeOK
    BY <2>1, <2>2 DEF MeshTypeOK, RequestsOK, TasksOK, WorldOK, SlotsOK, ScreensOK, TagsOK, Asked
  <2>4. MeshShape
    BY <2>1 DEF MeshShape, RequestsOK, TasksOK, WorldOK, SlotsOK, ScreensOK, TagsOK, Asked
  <2>5. QED
    BY <2>3, <2>4
<1>3. QED
  BY <1>1, <1>2

LEMMA TasksAre ==
    ASSUME NEW o \in Object, NEW G \in SUBSET Globule
    PROVE  /\ SetToSeq({<<o, g>> : g \in G}) \in Seq(Task)
           /\ \A t \in ToSet(SetToSeq({<<o, g>> : g \in G})) : t[1] = o
<1> DEFINE T == {<<o, g>> : g \in G}
           f == [g \in G |-> <<o, g>>]
<1>1. IsFiniteSet(G)
  BY MeshConstants, FS_Subset
<1>2. f \in Surjection(G, T)
  <2>1. f \in [G -> T] /\ \A t \in T : \E g \in G : f[g] = t
    OBVIOUS
  <2>2. QED
    BY <2>1 DEF Surjection
<1>3. IsFiniteSet(T)
  BY <1>1, <1>2, FS_Surjection
<1>4. T \subseteq Task
  BY MeshConstants DEF Task
<1> HIDE DEF T
<1>5. SetToSeq(T) \in Seq(Task) /\ ToSet(SetToSeq(T)) \subseteq T
  BY <1>3, <1>4, SetToSeqHolds
<1>6. \A t \in T : t[1] = o
  BY DEF T
<1>7. QED
  BY <1>5, <1>6 DEF T

LEMMA LowestIs ==
    ASSUME NEW G \in SUBSET Globule, G # {}
    PROVE  Lowest(G) \in G
<1>1. \E g \in G : \A h \in G : g <= h
  <2>1. G \in SUBSET Nat
    BY MeshConstants
  <2>2. QED
    BY <2>1, Least
<1>2. QED
  BY <1>1 DEF Lowest

LEMMA WorldKept == ASSUME WorldOK, MeshNext PROVE WorldOK'
<1> USE DEF worldVars, slotVars, poolVars
<1>0. /\ version \in [Object -> [Globule -> Versions]] /\ quiet \in [Object -> [Globule -> Nat]]
      /\ events \in 0..MaxEvents /\ MaxEvents \in Nat /\ Versions = 0..MaxEvents
      /\ \A o \in Object : \A g \in Globule :
           quiet[o][g] <= version[o][g] /\ version[o][g] <= events
  BY MeshConstants DEF WorldOK
<1>1. ASSUME NEW s \in Slot, TakeChunk(s) PROVE WorldOK'
  <2>1. events' = events + 1 /\ events < MaxEvents /\ UNCHANGED worldVars
    BY <1>1 DEF TakeChunk
  <2>2. events' \in 0..MaxEvents
    BY <1>0, <2>1
  <2>3. \A o \in Object : \A g \in Globule : version[o][g] \in Nat
    BY <1>0
  <2>4. \A o \in Object : \A g \in Globule : version[o][g] <= events'
    BY <1>0, <2>1, <2>3
  <2>5. QED
    BY <1>0, <2>1, <2>2, <2>4 DEF WorldOK
<1>2. ASSUME NEW o \in Object, NEW G \in Concerned, ChangeBlock(o, G) PROVE WorldOK'
  <2> DEFINE V == [g \in Globule |-> IF g \in G THEN version[o][g] + 1 ELSE version[o][g]]
             Q == [g \in Globule |-> IF g \in G THEN version'[o][g] ELSE quiet[o][g]]
  <2>1. /\ events' = events + 1 /\ events < MaxEvents /\ version' = [version EXCEPT ![o] = V]
        /\ quiet' = quiet \/ quiet' = [quiet EXCEPT ![o] = Q]
    BY <1>2 DEF ChangeBlock
  <2>2. events' \in 0..MaxEvents
    BY <1>0, <2>1
  <2>3. \A g \in Globule : /\ version[o][g] \in Nat /\ version[o][g] + 1 \in Versions
                           /\ version[o][g] + 1 <= events' /\ version[o][g] \in Versions
                           /\ version[o][g] <= events'
    BY <1>0, <2>1
  <2>4. V \in [Globule -> Versions] /\ \A g \in Globule : V[g] <= events' /\ version[o][g] <= V[g]
    BY <2>3
  <2> HIDE DEF V
  <2>5. version' \in [Object -> [Globule -> Versions]] /\ version'[o] = V
    BY <1>0, <2>1, <2>4
  <2>6. \A p \in Object : \A g \in Globule : version[p][g] \in Nat /\ version[p][g] <= events
    BY <1>0
  <2>7. \A p \in Object : \A g \in Globule : version'[p][g] <= events'
    BY <1>0, <2>1, <2>4, <2>6
  <2>8. \A g \in Globule : /\ Q[g] \in Nat /\ Q[g] <= V[g]
    <3>1. \A g \in Globule : /\ version'[o][g] \in Nat /\ quiet[o][g] \in Nat
                             /\ quiet[o][g] <= version[o][g] /\ version[o][g] \in Nat
      BY <1>0, <2>3, <2>5
    <3>2. QED
      BY <2>4, <2>5, <3>1
  <2> HIDE DEF Q
  <2>9. \A g \in Globule : quiet[o][g] \in Nat /\ quiet[o][g] <= V[g]
    <3>1. \A g \in Globule : /\ quiet[o][g] \in Nat /\ V[g] \in Nat /\ version[o][g] \in Nat
                             /\ quiet[o][g] <= version[o][g] /\ version[o][g] <= V[g]
      BY <1>0, <2>3, <2>4
    <3>2. QED
      BY <3>1
  <2>10. CASE quiet' = quiet
    BY <1>0, <2>1, <2>2, <2>4, <2>5, <2>7, <2>9, <2>10 DEF WorldOK
  <2>11. CASE quiet' = [quiet EXCEPT ![o] = Q]
    <3>1. DOMAIN Q = Globule /\ Q = [g \in Globule |-> Q[g]]
      BY DEF Q
    <3>2. Q \in [Globule -> Nat]
      BY <2>8, <3>1
    <3>3. quiet' \in [Object -> [Globule -> Nat]] /\ quiet'[o] = Q
      BY <1>0, <2>11, <3>2
    <3>4. \A p \in Object : p # o => quiet'[p] = quiet[p] /\ version'[p] = version[p]
      BY <1>0, <2>1, <2>11
    <3>5. \A p \in Object : \A g \in Globule : quiet'[p][g] <= version'[p][g]
      BY <1>0, <2>5, <2>8, <3>3, <3>4
    <3>6. QED
      BY <2>2, <2>5, <2>7, <3>3, <3>5 DEF WorldOK
  <2>12. QED
    BY <2>1, <2>10, <2>11
<1>3. \/ UNCHANGED <<events, version, quiet>> \/ \E s \in Slot : TakeChunk(s)
      \/ \E o \in Object, G \in Concerned : ChangeBlock(o, G)
  BY DEF MeshNext, Watch, GiveBack, Generate, NextRequest, QueueGlobule, GenerateLow,
         GenerateHigh, Throws, CopyBuffer
<1>4. CASE UNCHANGED <<events, version, quiet>>
  BY <1>0, <1>4 DEF WorldOK
<1>5. QED
  BY <1>1, <1>2, <1>3, <1>4

LEMMA SlotsKept == ASSUME SlotsOK, MeshNext PROVE SlotsOK'
<1> USE DEF slotVars
<1>0. /\ chunk \in [Slot -> Object \cup {Nothing}] /\ Nothing \notin Object
      /\ callback = {s \in Slot : chunk[s] # Nothing} /\ watching \subseteq callback
      /\ \A s, r \in callback : At[chunk[s]] = At[chunk[r]] => s = r
  BY MeshConstants DEF SlotsOK
<1>1. ASSUME NEW s \in Slot, TakeChunk(s) PROVE SlotsOK'
  <2>1. PICK o \in Object : /\ At[o] \notin {At[chunk[r]] : r \in callback}
                            /\ chunk' = [chunk EXCEPT ![s] = o]
    BY <1>1 DEF TakeChunk
  <2>2. chunk[s] = Nothing /\ callback' = callback \cup {s} /\ watching' = watching
    BY <1>1 DEF TakeChunk
  <2>3. /\ chunk' \in [Slot -> Object \cup {Nothing}] /\ chunk'[s] = o
        /\ \A r \in Slot : r # s => chunk'[r] = chunk[r]
    BY <1>0, <2>1
  <2>4. callback' = {r \in Slot : chunk'[r] # Nothing}
    BY <1>0, <2>2, <2>3
  <2>5. \A r, q \in callback' : At[chunk'[r]] = At[chunk'[q]] => r = q
    BY <1>0, <2>1, <2>2, <2>3
  <2>6. QED
    BY <1>0, <2>2, <2>3, <2>4, <2>5 DEF SlotsOK
<1>2. ASSUME NEW s \in Slot, Watch(s) PROVE SlotsOK'
  BY <1>0, <1>2 DEF Watch, SlotsOK
<1>3. ASSUME NEW s \in Slot, GiveBack(s) PROVE SlotsOK'
  <2>1. /\ chunk' = [chunk EXCEPT ![s] = Nothing]
        /\ callback' = callback \ {s} /\ watching' = watching \ {s}
    BY <1>3 DEF GiveBack
  <2>2. /\ chunk' \in [Slot -> Object \cup {Nothing}] /\ chunk'[s] = Nothing
        /\ \A r \in Slot : r # s => chunk'[r] = chunk[r]
    BY <1>0, <2>1
  <2>3. callback' = {r \in Slot : chunk'[r] # Nothing}
    BY <1>0, <2>1, <2>2
  <2>4. QED
    BY <1>0, <2>1, <2>2, <2>3 DEF SlotsOK
<1>4. \/ UNCHANGED <<chunk, callback, watching>>
      \/ \E s \in Slot : TakeChunk(s) \/ Watch(s) \/ GiveBack(s)
  BY DEF MeshNext, ChangeBlock, Generate, NextRequest, QueueGlobule, GenerateLow,
         GenerateHigh, Throws, CopyBuffer
<1>5. CASE UNCHANGED <<chunk, callback, watching>>
  BY <1>0, <1>5 DEF SlotsOK
<1>6. QED
  BY <1>1, <1>2, <1>3, <1>4, <1>5

(* A buffer is copied to the displayed chunk at its position. *)
Copied(b) ==
    /\ b \in Buffer /\ b \in BagToSet(bufferReqs)
    /\ b.o \in Object /\ b.g \in Globule /\ b.v \in Versions
    /\ IsABag(bufferReqs') /\ BagToSet(bufferReqs') \subseteq BagToSet(bufferReqs)
    /\ BagToSet(bufferReqs) \ {b} \subseteq BagToSet(bufferReqs')
    /\ inFlight' = inFlight \ {<<At[b.o], b.g>>} /\ stuck' = stuck \ {<<At[b.o], b.g>>}
    /\ screen' \in [Slot -> [Globule -> (Object \X Versions) \cup {Blank}]]
    /\ \A s \in Slot : \A g \in Globule :
         screen'[s][g] = IF s \in Receivers(b) /\ g = b.g THEN <<b.o, b.v>> ELSE screen[s][g]

LEMMA CopiedIs ==
    ASSUME ScreensOK, TasksOK, CopyBuffer
    PROVE  \E b \in Buffer : Copied(b)
<1>1. PICK b \in BagToSet(bufferReqs) :
        /\ bufferReqs' = bufferReqs (-) SetToBag({b})
        /\ inFlight' = inFlight \ {<<At[b.o], b.g>>} /\ stuck' = stuck \ {<<At[b.o], b.g>>}
        /\ screen' = [s \in Slot |-> IF s \in Receivers(b)
                                     THEN [screen[s] EXCEPT ![b.g] = <<b.o, b.v>>]
                                     ELSE screen[s]]
  BY DEF CopyBuffer
<1>2. b \in Buffer /\ b.o \in Object /\ b.g \in Globule /\ b.v \in Versions
  BY DEF TasksOK, Buffer
<1>3. /\ IsABag(bufferReqs') /\ BagToSet(bufferReqs') \subseteq BagToSet(bufferReqs)
      /\ BagToSet(bufferReqs) \ {b} \subseteq BagToSet(bufferReqs')
  BY <1>1, BagRemoveHolds DEF TasksOK
<1> DEFINE Painted == (Object \X Versions) \cup {Blank}
<1>4. \A s \in Slot : screen[s] \in [Globule -> Painted]
  BY DEF ScreensOK
<1>5. ASSUME NEW s \in Slot
      PROVE  /\ screen'[s] \in [Globule -> Painted]
             /\ \A g \in Globule : screen'[s][g] = IF s \in Receivers(b) /\ g = b.g
                                                   THEN <<b.o, b.v>> ELSE screen[s][g]
  <2>1. CASE s \in Receivers(b)
    <3>1. screen'[s] = [screen[s] EXCEPT ![b.g] = <<b.o, b.v>>]
      BY <1>1, <2>1
    <3>2. <<b.o, b.v>> \in Painted
      BY <1>2
    <3> HIDE DEF Painted
    <3>3. QED
      BY <1>2, <1>4, <2>1, <3>1, <3>2
  <2>2. CASE s \notin Receivers(b)
    BY <1>1, <1>4, <2>2
  <2>3. QED
    BY <2>1, <2>2
<1>6. screen' \in [Slot -> [Globule -> Painted]]
  <2>1. screen' = [s \in Slot |-> screen'[s]]
    BY <1>1
  <2> HIDE DEF Painted
  <2>2. QED
    BY <1>5, <2>1
<1>7. Copied(b)
  BY <1>1, <1>2, <1>3, <1>5, <1>6 DEF Copied
<1>8. QED
  BY <1>2, <1>7

LEMMA BlankIs ==
    /\ Blank[1] = Nothing
    /\ \A o \in Object, v \in Versions : <<o, v>> # Blank /\ <<o, v>>[1] = o /\ <<o, v>>[2] = v
  BY MeshConstants DEF Blank

LEMMA ScreensKept ==
    ASSUME SlotsOK, ScreensOK, TasksOK, NoForeignMesh, MeshNext
    PROVE  ScreensOK' /\ NoForeignMesh'
<1> USE DEF slotVars
<1>0. /\ screen \in [Slot -> [Globule -> (Object \X Versions) \cup {Blank}]]
      /\ chunk \in [Slot -> Object \cup {Nothing}] /\ Nothing \notin Object
      /\ callback = {s \in Slot : chunk[s] # Nothing} /\ watching \subseteq callback
  BY MeshConstants DEF SlotsOK, ScreensOK
<1>1. ASSUME NEW s \in Slot, TakeChunk(s) PROVE ScreensOK' /\ NoForeignMesh'
  <2>1. PICK o \in Object : chunk' = [chunk EXCEPT ![s] = o]
    BY <1>1 DEF TakeChunk
  <2>2. chunk[s] = Nothing /\ screen' = screen
    BY <1>1 DEF TakeChunk
  <2>3. chunk'[s] = o /\ \A r \in Slot : r # s => chunk'[r] = chunk[r]
    BY <1>0, <2>1
  <2>4. \A g \in Globule : screen[s][g] = Blank
    BY <2>2 DEF NoForeignMesh
  <2>5. QED
    BY <2>2, <2>3, <2>4 DEF NoForeignMesh, ScreensOK
<1>2. ASSUME NEW s \in Slot, GiveBack(s) PROVE ScreensOK' /\ NoForeignMesh'
  <2>1. /\ chunk' = [chunk EXCEPT ![s] = Nothing]
        /\ screen' = [screen EXCEPT ![s] = [g \in Globule |-> Blank]]
    BY <1>2 DEF GiveBack
  <2>2. \A r \in Slot : r # s => chunk'[r] = chunk[r] /\ screen'[r] = screen[r]
    BY <1>0, <2>1
  <2>3. screen'[s] = [g \in Globule |-> Blank]
    BY <1>0, <2>1
  <2>4. ScreensOK'
    BY <1>0, <2>1 DEF ScreensOK
  <2>5. QED
    BY <2>2, <2>3, <2>4 DEF NoForeignMesh
<1>3. CASE CopyBuffer
  <2>1. PICK b \in Buffer : Copied(b)
    BY <1>3, CopiedIs
  <2>2. ScreensOK' /\ chunk' = chunk /\ b.o \in Object /\ b.v \in Versions
    BY <1>3, <2>1 DEF Copied, CopyBuffer, ScreensOK
  <2>3. ASSUME NEW s \in Slot, NEW g \in Globule, screen'[s][g] # Blank
        PROVE  chunk[s] # Nothing /\ At[screen'[s][g][1]] = At[chunk[s]]
    <3>1. CASE s \in Receivers(b) /\ g = b.g
      <4>1. screen'[s][g] = <<b.o, b.v>>
        BY <2>1, <3>1 DEF Copied
      <4>2. s \in callback /\ At[chunk[s]] = At[b.o]
        BY <3>1 DEF Receivers
      <4>3. QED
        BY <1>0, <4>1, <4>2
    <3>2. CASE ~(s \in Receivers(b) /\ g = b.g)
      <4>1. screen'[s][g] = screen[s][g]
        BY <2>1, <3>2 DEF Copied
      <4>2. QED
        BY <2>3, <4>1 DEF NoForeignMesh
    <3>3. QED
      BY <3>1, <3>2
  <2>4. QED
    BY <2>2, <2>3 DEF NoForeignMesh
<1>4. \/ UNCHANGED <<chunk, screen>> \/ CopyBuffer
      \/ \E s \in Slot : TakeChunk(s) \/ GiveBack(s)
  BY DEF MeshNext, Watch, ChangeBlock, Generate, NextRequest, QueueGlobule, GenerateLow,
         GenerateHigh, Throws
<1>5. CASE UNCHANGED <<chunk, screen>>
  BY <1>5 DEF ScreensOK, NoForeignMesh
<1>6. QED
  BY <1>1, <1>2, <1>3, <1>4, <1>5

LEMMA RequestIs ==
    ASSUME NEW o \in Object, NEW G \in SUBSET Globule, NEW u \in BOOLEAN
    PROVE  [o |-> o, todo |-> G, urgent |-> u] \in Request
  BY DEF Request

(* Requests have a chunk; what is left of one that is at work is one again. *)
LEMMA AskedIs ==
    ASSUME NEW r, Asked(r)
    PROVE  /\ r.o \in Object /\ r.todo \in SUBSET Globule /\ r.todo # {} /\ r.urgent \in BOOLEAN
           /\ r = [o |-> r.o, todo |-> r.todo, urgent |-> r.urgent] /\ r # NoJob
  BY MeshConstants DEF Asked, Request

LEMMA JobWithoutIs ==
    ASSUME Asked(job), NEW g \in job.todo
    PROVE  \/ JobWithout(g) = NoJob /\ job.todo = {g}
           \/ /\ Asked(JobWithout(g)) /\ JobWithout(g).o = job.o
              /\ JobWithout(g).urgent = job.urgent /\ JobWithout(g).todo = job.todo \ {g}
<1>1. CASE job.todo = {g}
  BY <1>1 DEF JobWithout
<1>2. CASE job.todo # {g}
  <2>1. JobWithout(g) = [job EXCEPT !.todo = job.todo \ {g}]
    BY <1>2 DEF JobWithout
  <2>2. /\ job.o \in Object /\ job.todo \in SUBSET Globule /\ job.urgent \in BOOLEAN
        /\ job = [o |-> job.o, todo |-> job.todo, urgent |-> job.urgent]
    BY AskedIs
  <2>3. JobWithout(g) = [o |-> job.o, todo |-> job.todo \ {g}, urgent |-> job.urgent]
    BY <2>1, <2>2
  <2>4. JobWithout(g) \in Request
    BY <2>2, <2>3, RequestIs
  <2>5. job.todo \ {g} # {}
    BY <1>2
  <2>6. QED
    BY <2>3, <2>4, <2>5 DEF Asked
<1>3. QED
  BY <1>1, <1>2

(* What a request that is taken from a queue leaves. *)
LEMMA TakenIs ==
    ASSUME RequestsOK, NextRequest
    PROVE  /\ job = NoJob /\ Asked(job')
           /\ workQueue' \in Seq(Request) /\ highQueue' \in Seq(Request)
           /\ \/ /\ highQueue # <<>> /\ job' = Head(highQueue) /\ workQueue' = workQueue
                 /\ highQueue' = Tail(highQueue)
                 /\ ToSet(highQueue) = ToSet(highQueue') \cup {job'}
              \/ /\ highQueue = <<>> /\ highQueue' = highQueue /\ job' \in ToSet(workQueue)
                 /\ ToSet(workQueue) = ToSet(workQueue') \cup {job'}
<1>1. /\ workQueue \in Seq(Request) /\ highQueue \in Seq(Request) /\ job = NoJob
      /\ \A r \in ToSet(workQueue) \cup ToSet(highQueue) : r.todo # {}
  BY DEF RequestsOK, NextRequest
<1>2. CASE /\ highQueue # <<>> /\ job' = Head(highQueue) /\ highQueue' = Tail(highQueue)
           /\ workQueue' = workQueue
  <2>1. /\ highQueue' \in Seq(Request) /\ job' \in Request /\ job' \in ToSet(highQueue)
        /\ ToSet(highQueue) = ToSet(highQueue') \cup {job'}
    BY <1>1, <1>2, TailHolds
  <2>2. QED
    BY <1>1, <1>2, <2>1 DEF Asked
<1>3. CASE /\ highQueue = <<>> /\ workQueue # <<>> /\ job' = Head(workQueue)
           /\ workQueue' = Tail(workQueue) /\ highQueue' = highQueue
  <2>1. /\ workQueue' \in Seq(Request) /\ job' \in Request /\ job' \in ToSet(workQueue)
        /\ ToSet(workQueue) = ToSet(workQueue') \cup {job'}
    BY <1>1, <1>3, TailHolds
  <2>2. QED
    BY <1>1, <1>3, <2>1 DEF Asked
<1>4. QED
  BY <1>2, <1>3 DEF NextRequest

(* What a step that queues tasks does. *)
LEMMA QueuedIs ==
    ASSUME RequestsOK, TasksOK, QueueGlobule
    PROVE  /\ Asked(job) /\ UNCHANGED <<workQueue, highQueue, bufferReqs, stuck>>
           /\ \/ /\ ~job.urgent /\ job' = NoJob /\ UNCHANGED <<inFlight, high>>
                 /\ low' \in Seq(Task)
                 /\ \A t \in ToSet(low') : t \in ToSet(low) \/ t[1] = job.o
              \/ \E g \in job.todo :
                   /\ g \in Globule /\ job.urgent /\ low' = low
                   /\ \/ /\ <<At[job.o], g>> \in inFlight /\ job' = NoJob
                         /\ UNCHANGED <<inFlight, high>>
                      \/ /\ <<At[job.o], g>> \notin inFlight /\ job' = JobWithout(g)
                         /\ inFlight' = inFlight \cup {<<At[job.o], g>>}
                         /\ high' \in Seq(Task) /\ ToSet(high') = ToSet(high) \cup {<<job.o, g>>}
<1>1. Asked(job) /\ UNCHANGED <<workQueue, highQueue, bufferReqs, stuck>>
  BY DEF RequestsOK, QueueGlobule
<1>2. job.o \in Object /\ job.todo \in SUBSET Globule /\ job.todo # {}
  BY <1>1, AskedIs
<1>3. low \in Seq(Task) /\ high \in Seq(Task)
  BY DEF TasksOK
<1>4. CASE QueueGlobules
  <2> DEFINE q == SetToSeq({<<job.o, g>> : g \in job.todo})
  <2>1. q \in Seq(Task) /\ \A t \in ToSet(q) : t[1] = job.o
    BY <1>2, TasksAre
  <2>2. /\ ~job.urgent /\ job' = NoJob /\ UNCHANGED <<inFlight, high>> /\ low' = low \o q
    BY <1>4 DEF QueueGlobules
  <2> HIDE DEF q
  <2>3. low' \in Seq(Task) /\ ToSet(low') = ToSet(low) \cup ToSet(q)
    BY <1>3, <2>1, <2>2, ConcatHolds
  <2>4. QED
    BY <1>1, <2>1, <2>2, <2>3
<1>5. CASE QueueUrgent
  <2> DEFINE g == Lowest(job.todo)
  <2>1. g \in job.todo /\ g \in Globule
    BY <1>2, LowestIs
  <2>2. <<job.o, g>> \in Task
    BY <1>2, <2>1 DEF Task
  <2>3. /\ job.urgent /\ low' = low
        /\ \/ <<At[job.o], g>> \in inFlight /\ job' = NoJob /\ UNCHANGED <<inFlight, high>>
           \/ /\ <<At[job.o], g>> \notin inFlight /\ job' = JobWithout(g)
              /\ inFlight' = inFlight \cup {<<At[job.o], g>>} /\ high' = Append(high, <<job.o, g>>)
    BY <1>5 DEF QueueUrgent
  <2>4. /\ Append(high, <<job.o, g>>) \in Seq(Task)
        /\ ToSet(Append(high, <<job.o, g>>)) = ToSet(high) \cup {<<job.o, g>>}
    BY <1>3, <2>2, AppendHolds
  <2> HIDE DEF g
  <2>5. QED
    BY <1>1, <2>1, <2>3, <2>4
<1>6. QED
  BY <1>4, <1>5 DEF QueueGlobule

LEMMA BufferIs ==
    ASSUME WorldOK, NEW t \in Task
    PROVE  /\ t[1] \in Object /\ t[2] \in Globule /\ t = <<t[1], t[2]>>
           /\ Generated(t) \in Buffer /\ Generated(t).o = t[1] /\ Generated(t).g = t[2]
           /\ Generated(t).v = version[t[1]][t[2]] /\ Generated(t).v >= quiet[t[1]][t[2]]
<1>1. t[1] \in Object /\ t[2] \in Globule /\ t = <<t[1], t[2]>>
  BY DEF Task
<1>2. /\ version[t[1]][t[2]] \in Versions /\ quiet[t[1]][t[2]] <= version[t[1]][t[2]]
      /\ quiet[t[1]][t[2]] \in Nat /\ Versions \subseteq Nat
  BY <1>1, MeshConstants DEF WorldOK
<1>3. /\ Generated(t).o = t[1] /\ Generated(t).g = t[2]
      /\ Generated(t).v = version[t[1]][t[2]]
  BY DEF Generated
<1>4. Generated(t) \in Buffer
  BY <1>1, <1>2 DEF Generated, Buffer
<1>5. QED
  BY <1>1, <1>2, <1>3, <1>4

(* A task is taken from its pool, and its buffer is left. *)
Left(t) ==
    /\ t \in Task /\ IsABag(bufferReqs') /\ Generated(t) \in Buffer
    /\ BagToSet(bufferReqs') = BagToSet(bufferReqs) \cup {Generated(t)}

LEMMA LowIs ==
    ASSUME WorldOK, TasksOK, GenerateLow
    PROVE  \E t \in Task : Left(t) /\ low' \in Seq(Task) /\ ToSet(low) = ToSet(low') \cup {t}
<1> DEFINE t == Head(low)
<1>1. low # <<>> /\ low' = Tail(low) /\ bufferReqs' = bufferReqs (+) SetToBag({Generated(t)})
  BY DEF GenerateLow
<1>2. t \in Task /\ low' \in Seq(Task) /\ ToSet(low) = ToSet(low') \cup {t}
  BY <1>1, TailHolds DEF TasksOK
<1> HIDE DEF t
<1>3. Left(t)
  BY <1>1, <1>2, BagAddHolds, BufferIs DEF Left, TasksOK
<1>4. QED
  BY <1>2, <1>3

LEMMA HighIs ==
    ASSUME WorldOK, TasksOK, GenerateHigh
    PROVE  \E t \in Task : Left(t) /\ high' \in Seq(Task) /\ ToSet(high) = ToSet(high') \cup {t}
<1> DEFINE t == Head(high)
<1>1. high # <<>> /\ high' = Tail(high) /\ bufferReqs' = bufferReqs (+) SetToBag({Generated(t)})
  BY DEF GenerateHigh
<1>2. t \in Task /\ high' \in Seq(Task) /\ ToSet(high) = ToSet(high') \cup {t}
  BY <1>1, TailHolds DEF TasksOK
<1> HIDE DEF t
<1>3. Left(t)
  BY <1>1, <1>2, BagAddHolds, BufferIs DEF Left, TasksOK
<1>4. QED
  BY <1>2, <1>3

LEMMA ThrownIs ==
    ASSUME TasksOK, Throws
    PROVE  \E t \in Task :
             /\ high' \in Seq(Task) /\ ToSet(high) = ToSet(high') \cup {t}
             /\ stuck' = stuck \cup ({<<At[t[1]], t[2]>>} \cap inFlight)
             /\ UNCHANGED <<chunk, version, quiet, screen, workQueue, highQueue, job, inFlight,
                            low, bufferReqs>>
<1>1. high # <<>> /\ high' = Tail(high)
  BY DEF Throws
<1>2. Head(high) \in Task /\ high' \in Seq(Task) /\ ToSet(high) = ToSet(high') \cup {Head(high)}
  BY <1>1, TailHolds DEF TasksOK
<1>3. QED
  BY <1>2 DEF Throws, worldVars, slotVars

LEMMA RequestsKept ==
    ASSUME RequestsOK, TasksOK, MeshNext PROVE RequestsOK'
<1> USE DEF poolVars
<1>0. /\ workQueue \in Seq(Request) /\ highQueue \in Seq(Request)
      /\ \A r \in ToSet(workQueue) \cup ToSet(highQueue) : r.todo # {}
      /\ \A r \in ToSet(highQueue) : r.urgent
      /\ job = NoJob \/ Asked(job)
  BY DEF RequestsOK
<1>1. ASSUME NEW s \in Slot, TakeChunk(s) PROVE RequestsOK'
  <2>1. PICK o \in Object :
          workQueue' = Append(workQueue, [o |-> o, todo |-> Globule, urgent |-> FALSE])
    BY <1>1 DEF TakeChunk
  <2> DEFINE r == [o |-> o, todo |-> Globule, urgent |-> FALSE]
  <2>2. r \in Request /\ r.todo # {}
    BY RequestIs, MeshConstants
  <2> HIDE DEF r
  <2>3. workQueue' = Append(workQueue, r) /\ highQueue' = highQueue /\ job' = job
    BY <1>1, <2>1 DEF TakeChunk, r
  <2>4. workQueue' \in Seq(Request) /\ ToSet(workQueue') = ToSet(workQueue) \cup {r}
    BY <1>0, <2>2, <2>3, AppendHolds
  <2>5. QED
    BY <1>0, <2>2, <2>3, <2>4 DEF RequestsOK, Asked
<1>2. ASSUME NEW o \in Object, NEW G \in Concerned, ChangeBlock(o, G) PROVE RequestsOK'
  <2> DEFINE r == [o |-> o, todo |-> G, urgent |-> TRUE]
  <2>1. r \in Request /\ r.todo # {} /\ r.urgent
    BY RequestIs, MeshConstants
  <2> HIDE DEF r
  <2>2. /\ highQueue' = highQueue \/ highQueue' = Append(highQueue, r)
        /\ workQueue' = workQueue /\ job' = job
    BY <1>2 DEF ChangeBlock, r
  <2>3. highQueue' \in Seq(Request) /\ ToSet(highQueue') \subseteq ToSet(highQueue) \cup {r}
    <3>1. /\ Append(highQueue, r) \in Seq(Request)
          /\ ToSet(Append(highQueue, r)) = ToSet(highQueue) \cup {r}
      BY <1>0, <2>1, AppendHolds
    <3>2. QED
      BY <1>0, <2>2, <3>1
  <2>4. QED
    BY <1>0, <2>1, <2>2, <2>3 DEF RequestsOK, Asked
<1>3. CASE NextRequest
  <2>1. /\ Asked(job') /\ workQueue' \in Seq(Request) /\ highQueue' \in Seq(Request)
        /\ ToSet(workQueue') \subseteq ToSet(workQueue)
        /\ ToSet(highQueue') \subseteq ToSet(highQueue)
    BY <1>3, TakenIs
  <2>2. QED
    BY <1>0, <2>1 DEF RequestsOK, Asked
<1>4. CASE QueueGlobule
  <2>1. Asked(job) /\ UNCHANGED <<workQueue, highQueue>>
    BY <1>4, QueuedIs
  <2>2. job' = NoJob \/ Asked(job')
    BY <1>4, <2>1, QueuedIs, JobWithoutIs
  <2>3. QED
    BY <1>0, <2>1, <2>2 DEF RequestsOK, Asked
<1>5. \/ UNCHANGED <<workQueue, highQueue, job>> \/ NextRequest \/ QueueGlobule
      \/ \E s \in Slot : TakeChunk(s)
      \/ \E o \in Object, G \in Concerned : ChangeBlock(o, G)
  BY DEF MeshNext, Watch, GiveBack, Generate, GenerateLow, GenerateHigh, Throws, CopyBuffer
<1>6. CASE UNCHANGED <<workQueue, highQueue, job>>
  BY <1>0, <1>6 DEF RequestsOK, Asked
<1>7. QED
  BY <1>1, <1>2, <1>3, <1>4, <1>5, <1>6

LEMMA TasksKept ==
    ASSUME WorldOK, ScreensOK, RequestsOK, TasksOK, MeshNext PROVE TasksOK'
<1> USE DEF poolVars
<1>0. /\ low \in Seq(Task) /\ high \in Seq(Task)
      /\ IsABag(bufferReqs) /\ BagToSet(bufferReqs) \subseteq Buffer
  BY DEF TasksOK
<1>1. CASE QueueGlobule
  <2>1. bufferReqs' = bufferReqs /\ low' \in Seq(Task) /\ high' \in Seq(Task)
    BY <1>0, <1>1, QueuedIs
  <2>2. QED
    BY <1>0, <2>1 DEF TasksOK
<1>2. CASE GenerateLow
  BY <1>0, <1>2, LowIs DEF TasksOK, Left, GenerateLow
<1>3. CASE GenerateHigh
  BY <1>0, <1>3, HighIs DEF TasksOK, Left, GenerateHigh
<1>4. CASE Throws
  BY <1>0, <1>4, ThrownIs DEF TasksOK
<1>5. CASE CopyBuffer
  BY <1>0, <1>5, CopiedIs DEF TasksOK, Copied, CopyBuffer
<1>6. \/ UNCHANGED <<low, high, bufferReqs>> \/ QueueGlobule \/ GenerateLow \/ GenerateHigh
      \/ Throws \/ CopyBuffer
  BY DEF MeshNext, TakeChunk, Watch, GiveBack, ChangeBlock, Generate, NextRequest
<1>7. CASE UNCHANGED <<low, high, bufferReqs>>
  BY <1>0, <1>7 DEF TasksOK
<1>8. QED
  BY <1>1, <1>2, <1>3, <1>4, <1>5, <1>6, <1>7

LEMMA TagsKept ==
    ASSUME WorldOK, ScreensOK, RequestsOK, TasksOK, TagsOK, TaggedIsUnderWay, MeshNext
    PROVE  TagsOK' /\ TaggedIsUnderWay'
<1> USE DEF poolVars
<1>0. inFlight \subseteq ChunkPos \X Globule /\ stuck \subseteq inFlight
  BY DEF TagsOK
<1> DEFINE Covered(tag) == \/ \E t \in ToSet(high) : <<At[t[1]], t[2]>> = tag
                           \/ \E b \in BagToSet(bufferReqs) : <<At[b.o], b.g>> = tag
<1>a. \A tag \in inFlight \ stuck : Covered(tag)
  BY DEF TaggedIsUnderWay
<1>1. CASE QueueGlobule
  <2>1. CASE UNCHANGED <<inFlight, high, bufferReqs, stuck>>
    BY <1>0, <1>a, <2>1 DEF TagsOK, TaggedIsUnderWay
  <2>2. ASSUME NEW g \in Globule, Asked(job), inFlight' = inFlight \cup {<<At[job.o], g>>},
               ToSet(high') = ToSet(high) \cup {<<job.o, g>>}, UNCHANGED <<bufferReqs, stuck>>
        PROVE  TagsOK' /\ TaggedIsUnderWay'
    <3>1. job.o \in Object /\ At[job.o] \in ChunkPos
      BY <2>2, AskedIs, MeshConstants
    <3>2. TagsOK'
      BY <1>0, <2>2, <3>1 DEF TagsOK
    <3>3. ASSUME NEW tag \in inFlight' \ stuck' PROVE Covered(tag)'
      <4>1. CASE tag = <<At[job.o], g>>
        <5>1. <<job.o, g>> \in ToSet(high') /\ <<job.o, g>>[1] = job.o /\ <<job.o, g>>[2] = g
          BY <2>2
        <5>2. QED
          BY <4>1, <5>1
      <4>2. CASE tag # <<At[job.o], g>>
        BY <1>a, <2>2, <3>3, <4>2
      <4>3. QED
        BY <4>1, <4>2
    <3>4. QED
      BY <3>2, <3>3 DEF TaggedIsUnderWay
  <2>3. QED
    BY <1>1, <2>1, <2>2, QueuedIs
<1>2. CASE GenerateLow
  BY <1>0, <1>a, <1>2, LowIs DEF TagsOK, TaggedIsUnderWay, Left, GenerateLow
<1>3. CASE GenerateHigh
  <2>1. PICK t \in Task : Left(t) /\ ToSet(high) = ToSet(high') \cup {t}
    BY <1>3, HighIs
  <2>2. UNCHANGED <<inFlight, stuck>>
    BY <1>3 DEF GenerateHigh
  <2>3. Generated(t).o = t[1] /\ Generated(t).g = t[2]
    BY BufferIs
  <2>4. QED
    BY <1>0, <1>a, <2>1, <2>2, <2>3 DEF TagsOK, TaggedIsUnderWay, Left
<1>4. CASE Throws
  <2>1. PICK t \in Task :
             /\ ToSet(high) = ToSet(high') \cup {t}
             /\ stuck' = stuck \cup ({<<At[t[1]], t[2]>>} \cap inFlight)
             /\ UNCHANGED <<inFlight, bufferReqs>>
    BY <1>4, ThrownIs
  <2>2. QED
    BY <1>0, <1>a, <2>1 DEF TagsOK, TaggedIsUnderWay
<1>5. CASE CopyBuffer
  <2>1. PICK b \in Buffer : Copied(b)
    BY <1>5, CopiedIs
  <2>2. high' = high
    BY <1>5 DEF CopyBuffer
  <2>3. TagsOK'
    BY <1>0, <2>1 DEF TagsOK, Copied
  <2>4. ASSUME NEW tag \in inFlight' \ stuck' PROVE Covered(tag)'
    <3>1. tag \in inFlight \ stuck /\ tag # <<At[b.o], b.g>>
      BY <2>1, <2>4 DEF Copied
    <3>2. CASE \E t \in ToSet(high) : <<At[t[1]], t[2]>> = tag
      BY <2>2, <3>2
    <3>3. ASSUME NEW c \in BagToSet(bufferReqs), <<At[c.o], c.g>> = tag PROVE Covered(tag)'
      BY <2>1, <3>1, <3>3 DEF Copied
    <3>4. QED
      BY <1>a, <3>1, <3>2, <3>3
  <2>5. QED
    BY <2>3, <2>4 DEF TaggedIsUnderWay
<1>6. \/ UNCHANGED <<inFlight, high, bufferReqs, stuck>> \/ QueueGlobule \/ GenerateLow
      \/ GenerateHigh \/ Throws \/ CopyBuffer
  BY DEF MeshNext, TakeChunk, Watch, GiveBack, ChangeBlock, Generate, NextRequest
<1>7. CASE UNCHANGED <<inFlight, high, bufferReqs, stuck>>
  BY <1>0, <1>a, <1>7 DEF TagsOK, TaggedIsUnderWay
<1>8. QED
  BY <1>1, <1>2, <1>3, <1>4, <1>5, <1>6, <1>7

LEMMA BuffersAreNewKept ==
    ASSUME WorldOK, ScreensOK, TasksOK, BuffersAreNew, MeshNext PROVE BuffersAreNew'
<1> USE DEF worldVars, poolVars
<1>1. ASSUME NEW t \in Task, Left(t), quiet' = quiet PROVE BuffersAreNew'
  BY <1>1, BufferIs DEF BuffersAreNew, Left
<1>2. CASE GenerateLow
  BY <1>1, <1>2, LowIs DEF GenerateLow
<1>3. CASE GenerateHigh
  BY <1>1, <1>3, HighIs DEF GenerateHigh
<1>4. CASE CopyBuffer
  BY <1>4, CopiedIs DEF CopyBuffer, Copied, BuffersAreNew
<1>5. ASSUME NEW o \in Object, NEW G \in Concerned, ChangeBlock(o, G) PROVE BuffersAreNew'
  <2>1. bufferReqs' = bufferReqs /\ (quiet' = quiet \/ Idle)
    BY <1>5 DEF ChangeBlock
  <2>2. CASE Idle
    <3>1. BagToSet(bufferReqs') = {}
      BY <2>1, <2>2 DEF Idle, EmptyBag, SetToBag, BagToSet
    <3>2. QED
      BY <3>1 DEF BuffersAreNew
  <2>3. QED
    BY <2>1, <2>2 DEF BuffersAreNew
<1>6. \/ UNCHANGED <<quiet, bufferReqs>> \/ GenerateLow \/ GenerateHigh \/ CopyBuffer
      \/ \E o \in Object, G \in Concerned : ChangeBlock(o, G)
  BY DEF MeshNext, TakeChunk, Watch, GiveBack, Generate, NextRequest, QueueGlobule, Throws
<1>7. CASE UNCHANGED <<quiet, bufferReqs>>
  BY <1>7 DEF BuffersAreNew
<1>8. QED
  BY <1>2, <1>3, <1>4, <1>5, <1>6, <1>7

-----------------------------------------------------------------------------

(* No other chunk at the position of o has something under way. *)
AloneAt(o) == \A p \in UnderWay \ {Nothing, o} : At[p] # At[o]

LEMMA UnderWayShrinks ==
    ASSUME UnderWay' \subseteq UnderWay, NEW o, AloneAt(o)
    PROVE  AloneAt(o)'
  BY DEF AloneAt

(* What is handled before is handled after a step that takes nothing back. *)
LEMMA StillComing ==
    ASSUME NEW o, NEW g, Coming(o, g), stuck \subseteq stuck',
           inFlight \subseteq inFlight', ToSet(high) \subseteq ToSet(high'),
           BagToSet(bufferReqs) \subseteq BagToSet(bufferReqs'),
           FirstUrgent' = FirstUrgent, inFlight' \subseteq inFlight
    PROVE  Coming(o, g)'
<1>1. inFlight' = inFlight
  OBVIOUS
<1>2. QED
  BY <1>1 DEF Coming

LEMMA LagOverSlots ==
    ASSUME MeshOK, NoForeignMesh, LagIsComing,
           NEW q \in Slot, TakeChunk(q) \/ Watch(q) \/ GiveBack(q)
    PROVE  LagIsComing'
<1> USE DEF worldVars, poolVars
<1>0. /\ chunk \in [Slot -> Object \cup {Nothing}] /\ Nothing \notin Object
      /\ screen \in [Slot -> [Globule -> (Object \X Versions) \cup {Blank}]]
      /\ callback = {s \in Slot : chunk[s] # Nothing}
  BY MeshConstants DEF MeshOK, SlotsOK, ScreensOK
<1>1. /\ UNCHANGED <<quiet, highQueue, job, inFlight, low, high, bufferReqs, stuck>>
      /\ FirstUrgent' = FirstUrgent
  <2>1. UNCHANGED <<quiet, highQueue, job, inFlight, low, high, bufferReqs, stuck>>
    BY DEF TakeChunk, Watch, GiveBack
  <2>2. QED
    BY <2>1 DEF FirstUrgent
<1>2. ASSUME NEW s \in Slot, NEW g \in Globule, Lags(s, g)'
      PROVE  /\ Lags(s, g) /\ chunk'[s] = chunk[s]
             /\ TakeChunk(q) => s # q
  <2>1. CASE TakeChunk(q)
    <3>1. PICK o \in Object : chunk' = [chunk EXCEPT ![q] = o]
      BY <2>1 DEF TakeChunk
    <3>2. screen' = screen /\ chunk[q] = Nothing
      BY <2>1 DEF TakeChunk
    <3>3. ~Lags(q, g)'
      <4>1. screen[q][g] = Blank
        BY <3>2 DEF NoForeignMesh
      <4>2. QED
        BY <1>0, <3>1, <3>2, <4>1, BlankIs DEF Lags
    <3>4. s # q
      BY <1>2, <3>3
    <3>5. QED
      BY <1>0, <1>1, <1>2, <3>1, <3>2, <3>4 DEF Lags
  <2>2. CASE Watch(q)
    <3>1. UNCHANGED <<chunk, screen>> /\ ~TakeChunk(q)
      <4>1. UNCHANGED <<chunk, screen>>
        BY <2>2 DEF Watch
      <4>2. ASSUME TakeChunk(q) PROVE FALSE
        <5>1. PICK o \in Object : chunk' = [chunk EXCEPT ![q] = o]
          BY <4>2 DEF TakeChunk
        <5>2. chunk[q] = Nothing
          BY <4>2 DEF TakeChunk
        <5>3. QED
          BY <1>0, <4>1, <5>1, <5>2
      <4>3. QED
        BY <4>1, <4>2
    <3>2. QED
      BY <1>1, <1>2, <3>1 DEF Lags
  <2>3. CASE GiveBack(q)
    <3>1. /\ chunk' = [chunk EXCEPT ![q] = Nothing]
          /\ screen' = [screen EXCEPT ![q] = [h \in Globule |-> Blank]]
      BY <2>3 DEF GiveBack
    <3>2. s # q
      BY <1>0, <1>2, <3>1 DEF Lags
    <3>3. QED
      BY <1>0, <1>1, <1>2, <3>1, <3>2 DEF Lags
  <2>4. QED
    BY <2>1, <2>2, <2>3
<1>3. ASSUME NEW s \in Slot, NEW g \in Globule, Lags(s, g)'
      PROVE  Coming(chunk[s], g)' /\ AloneAt(chunk[s])'
  <2>1. Lags(s, g) /\ chunk'[s] = chunk[s] /\ (TakeChunk(q) => s # q)
    BY <1>2, <1>3
  <2>2. Coming(chunk[s], g) /\ AloneAt(chunk[s])
    BY <2>1 DEF LagIsComing, AloneAt
  <2> DEFINE c == chunk[s]
  <2>3. Coming(chunk[s], g)'
    BY <1>1, <2>1, <2>2 DEF Coming
  <2>4. AloneAt(chunk[s])'
    <3>1. CASE UNCHANGED workQueue
      <4>1. UnderWay' = UnderWay
        BY <1>1, <3>1 DEF UnderWay
      <4>2. QED
        BY <2>1, <2>2, <4>1 DEF AloneAt
    <3>2. CASE TakeChunk(q)
      <4>1. PICK o \in Object :
              /\ At[o] \notin {At[chunk[r]] : r \in callback}
              /\ workQueue' = Append(workQueue, [o |-> o, todo |-> Globule, urgent |-> FALSE])
        BY <3>2 DEF TakeChunk
      <4> DEFINE r == [o |-> o, todo |-> Globule, urgent |-> FALSE]
      <4>2. r \in Request /\ r.o = o
        BY RequestIs
      <4> HIDE DEF r
      <4>3. workQueue \in Seq(Request) /\ workQueue' = Append(workQueue, r)
        BY <4>1 DEF MeshOK, RequestsOK, r
      <4>4. ToSet(workQueue') = ToSet(workQueue) \cup {r}
        BY <4>2, <4>3, AppendHolds
      <4>5. UnderWay' \subseteq UnderWay \cup {o}
        BY <1>1, <4>2, <4>4 DEF UnderWay
      <4>6. s \in callback
        BY <1>0, <2>1 DEF Lags
      <4>7. At[o] # At[chunk[s]]
        BY <4>1, <4>6
      <4>8. QED
        BY <2>1, <2>2, <4>5, <4>7 DEF AloneAt
    <3>3. QED
      BY <3>1, <3>2 DEF Watch, GiveBack
  <2>5. QED
    BY <2>3, <2>4
<1>4. QED
  BY <1>3 DEF LagIsComing, AloneAt

(* The steps that leave slots and changes alone. *)
LEMMA LagOverWork ==
    ASSUME MeshOK, LagIsComing, UNCHANGED <<chunk, screen, quiet>>,
           UnderWay' \subseteq UnderWay,
           \A s \in Slot : \A g \in Globule :
             Lags(s, g) /\ Coming(chunk[s], g) => Coming(chunk[s], g)'
    PROVE  LagIsComing'
<1>1. ASSUME NEW s \in Slot, NEW g \in Globule, Lags(s, g)'
      PROVE  Coming(chunk[s], g)' /\ AloneAt(chunk[s])'
  <2>1. Lags(s, g) /\ chunk'[s] = chunk[s]
    BY <1>1 DEF Lags
  <2>2. Coming(chunk[s], g) /\ AloneAt(chunk[s])
    BY <2>1 DEF LagIsComing, AloneAt
  <2>3. QED
    BY <2>1, <2>2 DEF AloneAt
<1>2. QED
  BY <1>1 DEF LagIsComing, AloneAt

LEMMA LagOverRequests ==
    ASSUME MeshOK, LagIsComing, NextRequest
    PROVE  LagIsComing'
<1>1. RequestsOK
  BY DEF MeshOK
<1>2. UNCHANGED <<chunk, screen, quiet, inFlight, low, high, bufferReqs, stuck>>
  BY DEF NextRequest, slotVars, worldVars, poolVars
<1>3. UnderWay' \subseteq UnderWay
  <2>1. /\ ToSet(workQueue') \cup ToSet(highQueue') \cup {job'}
             \subseteq ToSet(workQueue) \cup ToSet(highQueue)
    BY <1>1, TakenIs
  <2>2. QED
    BY <1>2, <2>1 DEF UnderWay
<1>4. ASSUME NEW o, NEW g, Coming(o, g) PROVE Coming(o, g)'
  <2>1. job = NoJob /\ NoJob.todo = {} /\ NoJob.urgent = FALSE
    BY <1>1, TakenIs, MeshConstants
  <2>2. CASE highQueue # <<>>
    <3>1. job' = Head(highQueue)
      BY <1>1, <2>2, TakenIs
    <3>2. Head(highQueue) \in ToSet(highQueue) /\ \A r \in ToSet(highQueue) : r.urgent
      BY <1>1, <2>2, HeldIs DEF RequestsOK
    <3>3. job'.urgent
      BY <3>1, <3>2
    <3>4. FirstUrgent' = FirstUrgent
      BY <2>1, <2>2, <3>1, <3>3 DEF FirstUrgent
    <3>5. QED
      BY <1>2, <1>4, <3>4 DEF Coming
  <2>3. CASE highQueue = <<>>
    <3>1. FirstUrgent.todo = {}
      BY <2>1, <2>3 DEF FirstUrgent
    <3>2. QED
      BY <1>2, <1>4, <3>1 DEF Coming
  <2>4. QED
    BY <2>2, <2>3
<1>5. QED
  BY <1>2, <1>3, <1>4, LagOverWork

LEMMA LagOverTags ==
    ASSUME MeshOK, LagIsComing, QueueGlobule
    PROVE  LagIsComing'
<1>1. RequestsOK /\ TasksOK /\ Asked(job)
  BY QueuedIs DEF MeshOK
<1>2. UNCHANGED <<chunk, screen, quiet, workQueue, highQueue, bufferReqs, stuck>>
  BY DEF QueueGlobule, slotVars, worldVars
<1>3. job.o \in Object /\ NoJob.o = Nothing /\ NoJob.todo = {} /\ NoJob.urgent = FALSE
  BY <1>1, AskedIs, MeshConstants
<1>4. CASE /\ ~job.urgent /\ job' = NoJob /\ UNCHANGED <<inFlight, high>>
           /\ \A t \in ToSet(low') : t \in ToSet(low) \/ t[1] = job.o
  <2>1. UnderWay' \subseteq UnderWay \cup {Nothing}
    BY <1>2, <1>3, <1>4 DEF UnderWay
  <2>2. FirstUrgent' = FirstUrgent
    BY <1>2, <1>3, <1>4 DEF FirstUrgent
  <2>3. ASSUME NEW s \in Slot, NEW g \in Globule, Lags(s, g)'
        PROVE  Coming(chunk[s], g)' /\ AloneAt(chunk[s])'
    <3>1. Lags(s, g) /\ chunk'[s] = chunk[s]
      BY <1>2, <2>3 DEF Lags
    <3>2. Coming(chunk[s], g) /\ AloneAt(chunk[s])
      BY <3>1 DEF LagIsComing, AloneAt
    <3>3. QED
      BY <1>2, <1>4, <2>1, <2>2, <3>1, <3>2 DEF AloneAt, Coming
  <2>4. QED
    BY <2>3 DEF LagIsComing, AloneAt
<1>5. ASSUME NEW k \in job.todo, k \in Globule, job.urgent, low' = low,
             \/ <<At[job.o], k>> \in inFlight /\ job' = NoJob /\ UNCHANGED <<inFlight, high>>
             \/ /\ <<At[job.o], k>> \notin inFlight /\ job' = JobWithout(k)
                /\ inFlight' = inFlight \cup {<<At[job.o], k>>}
                /\ ToSet(high') = ToSet(high) \cup {<<job.o, k>>}
      PROVE  LagIsComing'
  <2>0. FirstUrgent = job
    BY <1>5 DEF FirstUrgent
  <2>1. UnderWay' \subseteq UnderWay \cup {Nothing}
    <3>1. job'.o \in {job.o, Nothing}
      BY <1>1, <1>3, <1>5, JobWithoutIs
    <3>2. \A t \in ToSet(high') : t \in ToSet(high) \/ t[1] = job.o
      BY <1>5
    <3>3. QED
      BY <1>2, <1>5, <3>1, <3>2 DEF UnderWay
  <2>2. ASSUME NEW o \in Object, NEW g \in Globule, Coming(o, g) PROVE Coming(o, g)'
    <3>1. CASE <<At[o], g>> \in stuck
      BY <1>2, <3>1 DEF Coming
    <3>2. CASE /\ <<At[o], g>> \in inFlight
               /\ \/ <<o, g>> \in ToSet(high)
                  \/ \E b \in BagToSet(bufferReqs) : b.o = o /\ b.g = g
      <4>1. <<At[o], g>> \in inFlight' /\ ToSet(high) \subseteq ToSet(high')
        BY <1>5, <3>2
      <4>2. QED
        BY <1>2, <3>2, <4>1 DEF Coming
    <3>3. CASE /\ job.o = o /\ g \in job.todo
               /\ \A h \in job.todo : <<At[o], h>> \notin inFlight
      <4>1. /\ job' = JobWithout(k) /\ inFlight' = inFlight \cup {<<At[o], k>>}
            /\ ToSet(high') = ToSet(high) \cup {<<o, k>>}
        BY <1>5, <3>3
      <4>2. CASE g = k
        BY <4>1, <4>2 DEF Coming
      <4>3. CASE g # k
        <5>1. /\ job'.o = o /\ job'.urgent = job.urgent /\ job'.todo = job.todo \ {k}
          BY <1>1, <3>3, <4>1, <4>3, JobWithoutIs
        <5>2. FirstUrgent' = job'
          BY <1>5, <5>1 DEF FirstUrgent
        <5>3. \A h \in job'.todo : <<At[o], h>> \notin inFlight'
          BY <3>3, <4>1, <5>1
        <5>4. QED
          BY <3>3, <4>3, <5>1, <5>2, <5>3 DEF Coming
      <4>4. QED
        BY <4>2, <4>3
    <3>4. QED
      BY <2>0, <2>2, <3>1, <3>2, <3>3 DEF Coming
  <2>3. ASSUME NEW s \in Slot, NEW g \in Globule, Lags(s, g)'
        PROVE  Coming(chunk[s], g)' /\ AloneAt(chunk[s])'
    <3>1. Lags(s, g) /\ chunk'[s] = chunk[s]
      BY <1>2, <2>3 DEF Lags
    <3>2. Coming(chunk[s], g) /\ AloneAt(chunk[s])
      BY <3>1 DEF LagIsComing, AloneAt
    <3>3. chunk[s] \in Object
      BY <3>1 DEF Lags, MeshOK, SlotsOK
    <3>4. PICK o \in Object : o = chunk[s]
      BY <3>3
    <3>5. Coming(o, g)'
      BY <2>2, <3>2, <3>4
    <3>6. QED
      BY <2>1, <3>1, <3>2, <3>4, <3>5 DEF Coming, AloneAt
  <2>4. QED
    BY <2>3 DEF LagIsComing, AloneAt
<1>6. QED
  BY <1>1, <1>4, <1>5, QueuedIs

LEMMA LagOverTasks ==
    ASSUME MeshOK, LagIsComing, GenerateLow \/ GenerateHigh \/ Throws
    PROVE  LagIsComing'
<1>1. WorldOK /\ TasksOK
  BY DEF MeshOK
<1>2. /\ UNCHANGED <<chunk, screen, quiet, workQueue, highQueue, job, inFlight>>
      /\ FirstUrgent' = FirstUrgent
  <2>1. UNCHANGED <<chunk, screen, quiet, workQueue, highQueue, job, inFlight>>
    BY DEF GenerateLow, GenerateHigh, Throws, slotVars, worldVars
  <2>2. QED
    BY <2>1 DEF FirstUrgent
<1>3. CASE GenerateLow
  <2>1. PICK t \in Task : Left(t) /\ ToSet(low) = ToSet(low') \cup {t}
    BY <1>1, <1>3, LowIs
  <2>2. high' = high /\ stuck' = stuck
    BY <1>3 DEF GenerateLow
  <2>3. Generated(t).o = t[1]
    BY <1>1, BufferIs
  <2>4. UnderWay' \subseteq UnderWay
    BY <1>2, <2>1, <2>2, <2>3 DEF UnderWay, Left
  <2>5. \A o : \A g : Coming(o, g) => Coming(o, g)'
    BY <1>2, <2>1, <2>2 DEF Coming, Left
  <2>6. QED
    BY <1>2, <2>4, <2>5, LagOverWork
<1>4. CASE GenerateHigh
  <2>1. PICK t \in Task : Left(t) /\ ToSet(high) = ToSet(high') \cup {t}
    BY <1>1, <1>4, HighIs
  <2>2. low' = low /\ stuck' = stuck
    BY <1>4 DEF GenerateHigh
  <2>3. Generated(t).o = t[1] /\ Generated(t).g = t[2]
    BY <1>1, BufferIs
  <2>4. UnderWay' \subseteq UnderWay
    BY <1>2, <2>1, <2>2, <2>3 DEF UnderWay, Left
  <2>5. ASSUME NEW o, NEW g, Coming(o, g) PROVE Coming(o, g)'
    <3>1. CASE <<o, g>> = t
      <4>1. Generated(t).o = o /\ Generated(t).g = g /\ Generated(t) \in BagToSet(bufferReqs')
        BY <2>1, <2>3, <3>1 DEF Left
      <4>2. QED
        BY <1>2, <2>1, <2>2, <2>5, <4>1 DEF Coming, Left
    <3>2. CASE <<o, g>> # t
      BY <1>2, <2>1, <2>2, <2>5, <3>2 DEF Coming, Left
    <3>3. QED
      BY <3>1, <3>2
  <2>6. QED
    BY <1>2, <2>4, <2>5, LagOverWork
<1>5. CASE Throws
  <2>1. PICK t \in Task :
          /\ ToSet(high) = ToSet(high') \cup {t} /\ UNCHANGED <<low, bufferReqs>>
          /\ stuck' = stuck \cup ({<<At[t[1]], t[2]>>} \cap inFlight)
    BY <1>1, <1>5, ThrownIs
  <2>2. UnderWay' \subseteq UnderWay
    BY <1>2, <2>1 DEF UnderWay
  <2>3. ASSUME NEW o, NEW g, Coming(o, g) PROVE Coming(o, g)'
    <3>1. CASE <<o, g>> = t /\ <<At[o], g>> \in inFlight
      <4>1. t[1] = o /\ t[2] = g
        BY <3>1
      <4>2. <<At[o], g>> \in stuck'
        BY <2>1, <3>1, <4>1
      <4>3. QED
        BY <4>2 DEF Coming
    <3>2. CASE ~(<<o, g>> = t /\ <<At[o], g>> \in inFlight)
      BY <1>2, <2>1, <2>3, <3>2 DEF Coming
    <3>3. QED
      BY <3>1, <3>2
  <2>4. QED
    BY <1>2, <2>2, <2>3, LagOverWork
<1>6. QED
  BY <1>3, <1>4, <1>5

LEMMA LagOverCopies ==
    ASSUME MeshOK, BuffersAreNew, LagIsComing, CopyBuffer
    PROVE  LagIsComing'
<1>1. SlotsOK /\ ScreensOK /\ TasksOK
  BY DEF MeshOK
<1>2. PICK b \in Buffer : Copied(b)
  BY <1>1, CopiedIs
<1>3. /\ UNCHANGED <<chunk, callback, quiet, workQueue, highQueue, job, low, high>>
      /\ FirstUrgent' = FirstUrgent
  <2>1. UNCHANGED <<chunk, callback, quiet, workQueue, highQueue, job, low, high>>
    BY DEF CopyBuffer, worldVars
  <2>2. QED
    BY <2>1 DEF FirstUrgent
<1>4. UnderWay' \subseteq UnderWay
  BY <1>2, <1>3 DEF UnderWay, Copied
<1>5. ASSUME NEW s \in Slot, NEW g \in Globule, Lags(s, g)'
      PROVE  Coming(chunk[s], g)' /\ AloneAt(chunk[s])'
  <2>1. chunk'[s] = chunk[s] /\ chunk[s] # Nothing /\ s \in callback
    BY <1>1, <1>3, <1>5 DEF Lags, SlotsOK
  <2>2. ~(s \in Receivers(b) /\ g = b.g)
    <3> SUFFICES ASSUME s \in Receivers(b), g = b.g PROVE FALSE
      OBVIOUS
    <3>1. screen'[s][g] = <<b.o, b.v>>
      BY <1>2 DEF Copied
    <3>2. b.o = chunk[s] /\ b.v < quiet[b.o][b.g]
      BY <1>3, <1>5, <3>1 DEF Lags
    <3>3. b.v >= quiet[b.o][b.g]
      BY <1>2 DEF BuffersAreNew, Copied
    <3>4. b.v \in Nat /\ quiet[b.o][b.g] \in Nat
      BY <1>2, MeshConstants DEF Copied, MeshOK, WorldOK
    <3>5. QED
      BY <3>2, <3>3, <3>4
  <2>3. screen'[s][g] = screen[s][g]
    BY <1>2, <2>2 DEF Copied
  <2>4. Lags(s, g)
    BY <1>3, <1>5, <2>1, <2>3 DEF Lags
  <2>5. Coming(chunk[s], g) /\ AloneAt(chunk[s])
    BY <2>4 DEF LagIsComing, AloneAt
  <2>6. <<At[chunk[s]], g>> # <<At[b.o], b.g>>
    BY <2>1, <2>2 DEF Receivers
  <2>7. Coming(chunk[s], g)'
    <3> DEFINE o == chunk[s]
    <3>1. /\ <<At[o], g>> \in stuck => <<At[o], g>> \in stuck'
          /\ <<At[o], g>> \in inFlight => <<At[o], g>> \in inFlight'
          /\ inFlight' \subseteq inFlight
      BY <1>2, <2>6 DEF Copied
    <3>2. \A c \in BagToSet(bufferReqs) :
            c.o = o /\ c.g = g => c \in BagToSet(bufferReqs')
      BY <1>2, <2>6 DEF Copied
    <3>3. QED
      BY <1>3, <2>1, <2>5, <3>1, <3>2 DEF Coming
  <2>8. QED
    BY <1>4, <2>1, <2>5, <2>7 DEF AloneAt
<1>6. QED
  BY <1>5 DEF LagIsComing, AloneAt

LEMMA LagOverChanges ==
    ASSUME MeshOK, LagIsComing, NEW o \in Object, NEW G \in Concerned, ChangeBlock(o, G)
    PROVE  LagIsComing'
<1> DEFINE r == [o |-> o, todo |-> G, urgent |-> TRUE]
           watchers == {s \in watching : chunk[s] = o}
           Q == [g \in Globule |-> IF g \in G THEN version'[o][g] ELSE quiet[o][g]]
<1>1. r \in Request /\ r.o = o /\ r.todo = G /\ r.urgent
  BY RequestIs, MeshConstants
<1>2. /\ UNCHANGED <<chunk, screen, workQueue, job, inFlight, low, high, bufferReqs, stuck>>
      /\ IF watchers = {} THEN highQueue' = highQueue ELSE highQueue' = Append(highQueue, r)
      /\ \/ quiet' = quiet
         \/ /\ Idle /\ watchers # {} /\ \A g \in G : <<At[o], g>> \notin inFlight
            /\ quiet' = [quiet EXCEPT ![o] = Q]
  BY DEF ChangeBlock, slotVars, poolVars
<1> HIDE DEF r, Q
<1>3. /\ highQueue \in Seq(Request) /\ quiet \in [Object -> [Globule -> Nat]]
      /\ chunk \in [Slot -> Object \cup {Nothing}] /\ watching \subseteq callback
      /\ callback = {s \in Slot : chunk[s] # Nothing}
      /\ \A s, q \in callback : At[chunk[s]] = At[chunk[q]] => s = q
  BY DEF MeshOK, RequestsOK, WorldOK, SlotsOK
<1>4. /\ ToSet(Append(highQueue, r)) = ToSet(highQueue) \cup {r}
      /\ Append(highQueue, r) # <<>>
      /\ Head(Append(highQueue, r)) = IF highQueue = <<>> THEN r ELSE Head(highQueue)
  BY <1>1, <1>3, AppendHolds
<1>5. /\ UnderWay' \subseteq UnderWay \cup {o}
      /\ watchers = {} => UnderWay' = UnderWay
  <2>1. CASE watchers = {}
    <3>1. highQueue' = highQueue
      BY <1>2, <2>1
    <3>2. UnderWay' = UnderWay
      BY <1>2, <3>1 DEF UnderWay
    <3>3. QED
      BY <3>2
  <2>2. CASE watchers # {}
    <3>1. ToSet(highQueue') = ToSet(highQueue) \cup {r}
      BY <1>2, <1>4, <2>2
    <3>2. UnderWay' \subseteq UnderWay \cup {o}
      BY <1>1, <1>2, <3>1 DEF UnderWay
    <3>3. QED
      BY <2>2, <3>2
  <2>3. QED
    BY <2>1, <2>2
<1>6. ASSUME NEW s \in Slot, chunk[s] # Nothing, watchers # {}, At[o] = At[chunk[s]]
      PROVE  o = chunk[s]
  BY <1>3, <1>6
<1>7. ASSUME NEW s \in Slot, NEW g \in Globule, Lags(s, g)'
      PROVE  Coming(chunk[s], g)' /\ AloneAt(chunk[s])'
  <2>1. chunk'[s] = chunk[s] /\ chunk[s] # Nothing /\ chunk[s] \in Object
    BY <1>2, <1>3, <1>7 DEF Lags
  <2>2. ASSUME AloneAt(chunk[s]) PROVE AloneAt(chunk[s])'
    BY <1>5, <1>6, <2>1, <2>2 DEF AloneAt
  <2>3. CASE quiet'[chunk[s]][g] = quiet[chunk[s]][g]
    <3>1. Lags(s, g)
      BY <1>2, <1>7, <2>1, <2>3 DEF Lags
    <3>2. Coming(chunk[s], g) /\ AloneAt(chunk[s])
      BY <3>1 DEF LagIsComing, AloneAt
    <3>3. Coming(chunk[s], g)'
      <4>1. CASE job.urgent \/ highQueue # <<>> \/ highQueue' = highQueue
        <5>1. FirstUrgent' = FirstUrgent
          BY <1>2, <1>4, <4>1 DEF FirstUrgent
        <5>2. QED
          BY <1>2, <3>2, <5>1 DEF Coming
      <4>2. CASE ~job.urgent /\ highQueue = <<>>
        <5>1. FirstUrgent.todo = {}
          BY <4>2, MeshConstants DEF FirstUrgent
        <5>2. QED
          BY <1>2, <3>2, <5>1 DEF Coming
      <4>3. QED
        BY <4>1, <4>2
    <3>4. QED
      BY <2>2, <3>2, <3>3
  <2>4. CASE quiet'[chunk[s]][g] # quiet[chunk[s]][g]
    <3>1. /\ Idle /\ watchers # {} /\ \A h \in G : <<At[o], h>> \notin inFlight
          /\ quiet' = [quiet EXCEPT ![o] = Q]
      BY <1>2, <2>4
    <3>2. chunk[s] = o /\ quiet'[o] = Q
      BY <1>3, <2>1, <2>4, <3>1
    <3>3. g \in G
      BY <2>4, <3>2 DEF Q
    <3>4. highQueue = <<>> /\ job = NoJob /\ highQueue' = Append(highQueue, r)
      BY <1>2, <3>1 DEF Idle
    <3>5. FirstUrgent' = r
      BY <1>2, <1>4, <3>4, MeshConstants DEF FirstUrgent
    <3>6. Coming(chunk[s], g)'
      BY <1>1, <1>2, <2>1, <3>1, <3>2, <3>3, <3>5 DEF Coming
    <3>7. UnderWay \subseteq {Nothing}
      <4>1. /\ low = <<>> /\ high = <<>> /\ workQueue = <<>> /\ highQueue = <<>> /\ job = NoJob
            /\ BagToSet(bufferReqs) = {}
        BY <3>1 DEF Idle, EmptyBag, SetToBag, BagToSet
      <4>2. ToSet(<<>>) = {}
        BY EmptyHolds
      <4>3. NoJob.o = Nothing
        BY MeshConstants
      <4>4. QED
        BY <4>1, <4>2, <4>3 DEF UnderWay
    <3>8. AloneAt(chunk[s])'
      BY <1>5, <2>1, <3>2, <3>7 DEF AloneAt
    <3>9. QED
      BY <3>6, <3>8
  <2>5. QED
    BY <2>3, <2>4
<1>8. QED
  BY <1>7 DEF LagIsComing, AloneAt

LEMMA MeshInitHolds == MeshInit => MeshIInv
<1> SUFFICES ASSUME MeshInit PROVE MeshIInv
  OBVIOUS
<1>1. /\ version = [o \in Object |-> [g \in Globule |-> 0]] /\ quiet = version /\ events = 0
      /\ chunk = [s \in Slot |-> Nothing] /\ callback = {} /\ watching = {}
      /\ screen = [s \in Slot |-> [g \in Globule |-> Blank]]
      /\ workQueue = <<>> /\ highQueue = <<>> /\ job = NoJob /\ inFlight = {}
      /\ low = <<>> /\ high = <<>> /\ bufferReqs = EmptyBag /\ stuck = {}
  BY DEF MeshInit
<1>2. BagToSet(bufferReqs) = {} /\ IsABag(bufferReqs)
  BY <1>1 DEF EmptyBag, SetToBag, BagToSet, IsABag
<1>3. ToSet(<<>>) = {}
  BY EmptyHolds
<1>4. MeshOK
  <2>1. WorldOK
    BY <1>1, MeshConstants DEF WorldOK
  <2>2. SlotsOK /\ ScreensOK /\ TagsOK
    BY <1>1 DEF SlotsOK, ScreensOK, TagsOK
  <2>3. RequestsOK /\ TasksOK
    BY <1>1, <1>2, <1>3, EmptyHolds DEF RequestsOK, TasksOK
  <2>4. QED
    BY <2>1, <2>2, <2>3 DEF MeshOK
<1>5. NoForeignMesh
  BY <1>1 DEF NoForeignMesh
<1>6. TaggedIsUnderWay /\ BuffersAreNew
  BY <1>1, <1>2 DEF TaggedIsUnderWay, BuffersAreNew
<1>7. LagIsComing
  BY <1>1 DEF LagIsComing, Lags
<1>8. QED
  BY <1>4, <1>5, <1>6, <1>7, MeshTypesAre DEF MeshIInv

LEMMA MeshStep == MeshIInv /\ [MeshNext]_meshVars => MeshIInv'
<1> SUFFICES ASSUME MeshIInv, [MeshNext]_meshVars PROVE MeshIInv'
  OBVIOUS
<1>1. MeshOK /\ NoForeignMesh /\ TaggedIsUnderWay /\ BuffersAreNew /\ LagIsComing
  BY MeshTypesAre DEF MeshIInv
<1>2. WorldOK /\ SlotsOK /\ ScreensOK /\ RequestsOK /\ TasksOK /\ TagsOK
  BY <1>1 DEF MeshOK
<1>3. (MeshTypeOK /\ MeshShape)' <=> MeshOK'
  BY MeshTypesAre, PTL
<1>4. CASE MeshNext
  <2>1. WorldOK' /\ SlotsOK' /\ ScreensOK' /\ NoForeignMesh'
    BY <1>1, <1>2, <1>4, WorldKept, SlotsKept, ScreensKept
  <2>2. RequestsOK' /\ TasksOK' /\ TagsOK' /\ TaggedIsUnderWay' /\ BuffersAreNew'
    BY <1>1, <1>2, <1>4, RequestsKept, TasksKept, TagsKept, BuffersAreNewKept
  <2>3. LagIsComing'
    BY <1>1, <1>4, LagOverSlots, LagOverChanges, LagOverRequests, LagOverTags, LagOverTasks,
       LagOverCopies DEF MeshNext, Generate
  <2>4. MeshOK'
    BY <2>1, <2>2 DEF MeshOK
  <2>5. QED
    BY <1>3, <2>1, <2>2, <2>3, <2>4 DEF MeshIInv
<1>5. CASE UNCHANGED meshVars
  <2>1. /\ UNCHANGED <<events, version, quiet, chunk, callback, watching, screen, workQueue>>
        /\ UNCHANGED <<highQueue, job, inFlight, low, high, bufferReqs, stuck>>
    BY <1>5 DEF meshVars, worldVars, slotVars, poolVars
  <2>2. MeshOK'
    BY <1>2, <2>1 DEF MeshOK, WorldOK, SlotsOK, ScreensOK, RequestsOK, TasksOK, TagsOK
  <2>3. NoForeignMesh' /\ TaggedIsUnderWay' /\ BuffersAreNew'
    BY <1>1, <2>1 DEF NoForeignMesh, TaggedIsUnderWay, BuffersAreNew
  <2>4. LagIsComing'
    BY <1>1, <2>1 DEF LagIsComing, Lags, Coming, UnderWay, FirstUrgent
  <2>5. QED
    BY <1>3, <2>2, <2>3, <2>4 DEF MeshIInv
<1>6. QED
  BY <1>4, <1>5

LEMMA MeshIInvIsEnough == MeshIInv => MeshInv
<1> SUFFICES ASSUME MeshIInv PROVE MeshInv
  OBVIOUS
<1>1. QuietChangesAreDrawn
  <2>1. SUFFICES ASSUME Idle, NEW s \in watching, NEW g \in Globule,
                        screen[s][g][1] = chunk[s], <<At[chunk[s]], g>> \notin stuck
                 PROVE  screen[s][g][2] >= quiet[chunk[s]][g]
    BY DEF QuietChangesAreDrawn
  <2>2. MeshOK
    BY MeshTypesAre DEF MeshIInv
  <2>3. s \in Slot /\ chunk[s] \in Object /\ chunk[s] # Nothing
    BY <2>2 DEF MeshOK, SlotsOK
  <2>4. screen[s][g][2] \in Nat /\ quiet[chunk[s]][g] \in Nat
    <3>1. screen[s][g] \in (Object \X Versions) \cup {Blank} /\ quiet[chunk[s]][g] \in Nat
      BY <2>2, <2>3 DEF MeshOK, ScreensOK, WorldOK
    <3>2. Versions \subseteq Nat /\ Blank[1] \notin Object
      BY MeshConstants, BlankIs
    <3>3. screen[s][g] \in Object \X Versions
      BY <2>1, <2>3, <3>1, <3>2
    <3>4. QED
      BY <3>1, <3>2, <3>3
  <2>5. ~Coming(chunk[s], g)
    <3>1. /\ high = <<>> /\ highQueue = <<>> /\ job = NoJob /\ BagToSet(bufferReqs) = {}
      BY <2>1 DEF Idle, EmptyBag, SetToBag, BagToSet
    <3>2. ToSet(<<>>) = {} /\ FirstUrgent.todo = {}
      BY <3>1, EmptyHolds, MeshConstants DEF FirstUrgent
    <3>3. QED
      BY <2>1, <3>1, <3>2 DEF Coming
  <2>6. ~Lags(s, g)
    BY <2>3, <2>5 DEF MeshIInv, LagIsComing
  <2>7. QED
    BY <2>1, <2>3, <2>4, <2>6 DEF Lags
<1>2. QED
  BY <1>1 DEF MeshIInv, MeshInv

(* A displayed chunk draws nothing of another position; a globule that is    *)
(* in flight, for which urgent requests are dropped, has a task or a buffer  *)
(* under way unless its task threw; and a change that was made while nothing *)
(* was under way is drawn when nothing is again                              *)
(* (src/render/chunk/VertexGenerator.cpp, WorldChunk.cpp).                   *)
THEOREM MeshSafe == MeshSpec => []MeshInv
<1>1. MeshSpec => []MeshIInv
  BY MeshInitHolds, MeshStep, PTL DEF MeshSpec
<1>2. QED
  BY <1>1, MeshIInvIsEnough, PTL

-----------------------------------------------------------------------------
(* The block that the player looks at                                      *)

(* Highlights are functions of their ids, with a block or the default. *)
HighlightsHaveBlocks ==
  /\ DOMAIN highlights = Maker /\ DOMAIN lit = Maker
  /\ \A o \in Maker :
       /\ highlights[o] = [i \in DOMAIN highlights[o] |-> highlights[o][i]]
       /\ \A i \in DOMAIN highlights[o] : highlights[o][i] \in Place \cup {-1}

(* An object that was made is on display or waits to be used again. *)
MadeIsKept == objects \in Nat /\ 1..objects \subseteq OnDisplay \cup chunkQueue

MarkerIsPlaced == marker.set => marker.chunk \in Place

(* Unless it has to look again, the player looks at a block that is, or is *)
(* about to be, lit.                                                       *)
Lights(o, b) ==
  \E i \in DOMAIN highlights[o] :
    highlights[o][i] = b /\ (i \in lit[o] \/ (phase # "drawn" /\ stale[o]))
ClickedIsHeld ==
  ~again /\ lookAtBlock # -1 /\ Displays(lookAtBlock) # 0
    => Lights(displayed[lookAtBlock], lookAtBlock)

(* Every highlight that was asked for is the marker's, or its marker lost  *)
(* its chunk.                                                              *)
HighlightIsMarked ==
  \A o \in Maker : \A i \in DOMAIN highlights[o] :
    highlights[o][i] # -1 /\ <<o, i>> \notin lost
      => marker.set /\ displayed[marker.chunk] = o /\ marker.id = i

SelectionIInv ==
  /\ SelectionTypeOK /\ HighlightsHaveBlocks /\ MadeIsKept /\ MarkerIsPlaced
  /\ ClickedIsHeld /\ HighlightIsMarked
  /\ phase = "drawn" => ~again

LEMMA SelectionBounds ==
    /\ Rim \in Nat /\ MaxHighlights \in Nat /\ MaxChanges \in Nat
    /\ Place = 0..Rim /\ Maker = 1..(2 * (Rim + 1)) /\ 1..(Rim + 1) \subseteq Maker
    /\ IsFiniteSet(Place) /\ Cardinality(Place) = Rim + 1
<1>1. Rim \in Nat /\ MaxHighlights \in Nat /\ MaxChanges \in Nat
  BY SelectionAssumption
<1>2. Place = 0..Rim /\ Maker = 1..(2 * (Rim + 1)) /\ 1..(Rim + 1) \subseteq Maker
  BY <1>1 DEF Place, Maker
<1>3. IsFiniteSet(0..Rim) /\ Cardinality(0..Rim) = Rim + 1
  BY <1>1, FS_Interval
<1>4. QED
  BY <1>1, <1>2, <1>3

LEMMA SelectionTypesAre ==
    ASSUME SelectionTypeOK, MadeIsKept
    PROVE  /\ objects \in Nat /\ objects <= Rim + 1
           /\ DOMAIN displayed = Place /\ \A p \in Place : displayed[p] \in 0..objects
           /\ \A k \in 1..objects : k \in Maker
           /\ chunkQueue \subseteq 1..objects /\ OnDisplay \subseteq 1..objects
           /\ \A p : Displays(p) = 0 \/ (p \in Place /\ Displays(p) = displayed[p])
           /\ \A p : Displays(p) = 0 \/ Displays(p) \in Maker
<1>1. /\ objects \in Nat /\ objects <= Rim + 1 /\ chunkQueue \subseteq 1..objects
      /\ displayed \in [Place -> 0..objects] /\ Rim \in Nat
  BY SelectionBounds DEF SelectionTypeOK, MadeIsKept
<1>2. \A k \in 1..objects : k \in Maker
  BY <1>1, SelectionBounds
<1>3. OnDisplay \subseteq 1..objects
  BY <1>1 DEF OnDisplay
<1>4. \A p : Displays(p) = 0 \/ (p \in Place /\ Displays(p) = displayed[p])
  BY DEF Displays
<1>5. \A p : Displays(p) = 0 \/ Displays(p) \in Maker
  BY <1>1, <1>2, <1>4
<1>6. QED
  BY <1>1, <1>2, <1>3, <1>4, <1>5

LEMMA SelectionSceneryKept ==
    ASSUME SelectionTypeOK, SelectionNext
    PROVE  /\ (eye \in Place /\ blocks \subseteq Place /\ turns \in 0..MaxChanges)'
           /\ (phase \in {"start", "pruned", "shown", "drawn"})'
           /\ (again \in BOOLEAN /\ recolour \in BOOLEAN)'
<1>1. /\ eye \in Place /\ blocks \subseteq Place /\ turns \in 0..MaxChanges
      /\ phase \in {"start", "pruned", "shown", "drawn"}
      /\ again \in BOOLEAN /\ recolour \in BOOLEAN
  BY DEF SelectionTypeOK
<1>2. CASE Turn
  BY <1>1, <1>2, SelectionBounds DEF Turn
<1>3. CASE OwnChange
  <2>1. /\ turns < MaxChanges /\ turns' = turns + 1 /\ blocks' \subseteq blocks /\ again' = TRUE
        /\ UNCHANGED <<eye, phase, recolour>>
    BY <1>3 DEF OwnChange
  <2>2. turns' \in 0..MaxChanges
    BY <1>1, <2>1, SelectionBounds
  <2>3. QED
    BY <1>1, <2>1, <2>2
<1>4. CASE RecolourTick
  BY <1>1, <1>4 DEF RecolourTick, scenery
<1>5. ASSUME NEW p \in Place, OtherChange(p)
      PROVE  /\ blocks' \subseteq Place /\ turns' \in 0..MaxChanges
             /\ UNCHANGED <<eye, phase, again, recolour>>
  BY <1>1, <1>5, SelectionBounds DEF OtherChange, Flip
<1>6. ASSUME NEW p \in Place, Display(p)
      PROVE  /\ UNCHANGED <<eye, blocks, turns, phase, recolour>> /\ again' = TRUE
  BY <1>6 DEF Display, scenery
<1>7. CASE BeginFrame
  BY <1>1, <1>7 DEF BeginFrame, scenery
<1>8. CASE PruneDisplay
  BY <1>1, <1>8 DEF PruneDisplay, scenery
<1>9. CASE SkipPrune
  BY <1>1, <1>9 DEF SkipPrune, scenery
<1>10. CASE LookAndDraw
  BY <1>1, <1>10 DEF LookAndDraw, scenery
<1>11. CASE NextFrame
  BY <1>1, <1>11 DEF NextFrame, scenery
<1>12. QED
  BY <1>1, <1>2, <1>3, <1>4, <1>5, <1>6, <1>7, <1>8, <1>9, <1>10, <1>11 DEF SelectionNext

LEMMA ObjectsFit ==
    ASSUME SelectionTypeOK, MadeIsKept, chunkQueue = {}, NEW p \in Place, displayed[p] = 0
    PROVE  objects <= Rim
<1> DEFINE S == 1..objects
           T == Place \ {p}
           f == [k \in S |-> CHOOSE q \in T : displayed[q] = k]
<1>1. ASSUME NEW k \in S PROVE \E q \in T : displayed[q] = k
  <2>1. k \in OnDisplay /\ k # 0
    BY DEF MadeIsKept
  <2>2. PICK q \in Place : displayed[q] = k
    BY <2>1 DEF OnDisplay
  <2>3. QED
    BY <2>1, <2>2
<1>2. \A k \in S : f[k] \in T /\ displayed[f[k]] = k
  BY <1>1
<1>3. f \in [S -> T]
  BY <1>2
<1>4. objects \in Nat /\ IsFiniteSet(S) /\ Cardinality(S) = objects
  <2>1. objects \in Nat
    BY DEF MadeIsKept
  <2>2. IsFiniteSet(1..objects) /\ Cardinality(1..objects) = objects - 1 + 1
    <3>1. CASE objects = 0
      <4>1. 1..objects = {}
        BY <3>1
      <4>2. QED
        BY <4>1, <3>1, FS_EmptySet
    <3>2. CASE objects > 0
      BY <2>1, <3>2, FS_Interval
    <3>3. QED
      BY <2>1, <3>1, <3>2
  <2>3. QED
    BY <2>1, <2>2
<1>5. IsFiniteSet(T) /\ Cardinality(T) = Rim /\ Rim \in Nat
  <2>1. /\ IsFiniteSet(Place) /\ Cardinality(Place) = Rim + 1 /\ Rim \in Nat
    BY SelectionBounds
  <2>2. IsFiniteSet(T) /\ Cardinality(T) = Cardinality(Place) - 1
    BY <2>1, FS_RemoveElement
  <2>3. QED
    BY <2>1, <2>2
<1>6. ASSUME ~(objects <= Rim) PROVE FALSE
  <2> HIDE DEF f, S, T
  <2>1. Cardinality(T) < Cardinality(S)
    BY <1>4, <1>5, <1>6
  <2>2. PICK x \in S, y \in S : x # y /\ f[x] = f[y]
    BY <2>1, <1>3, <1>4, <1>5, FS_PigeonHole
  <2>3. QED
    BY <2>2, <1>2
<1>7. QED
  BY <1>6

LEMMA SelectionDisplayKept ==
    ASSUME SelectionTypeOK, MadeIsKept, SelectionNext
    PROVE  /\ (displayed \in [Place -> 0..objects] /\ chunkQueue \subseteq 1..objects)'
           /\ (objects <= Rim + 1 /\ chunkQueue \cap OnDisplay = {} /\ MadeIsKept)'
           /\ \A p, q \in Place : p # q /\ displayed'[p] # 0 => displayed'[p] # displayed'[q]
<1> USE DEF display
<1>1. /\ displayed \in [Place -> 0..objects] /\ chunkQueue \subseteq 1..objects
      /\ objects <= Rim + 1 /\ chunkQueue \cap OnDisplay = {} /\ Rim \in Nat
      /\ \A p, q \in Place : p # q /\ displayed[p] # 0 => displayed[p] # displayed[q]
      /\ objects \in Nat /\ 1..objects \subseteq OnDisplay \cup chunkQueue
      /\ OnDisplay \subseteq 1..objects
  BY SelectionTypesAre, SelectionBounds DEF SelectionTypeOK, MadeIsKept
<1>2. CASE UNCHANGED display
  BY <1>1, <1>2 DEF MadeIsKept, OnDisplay
<1>3. CASE PruneDisplay
  <2>1. /\ displayed' = [p \in Place |-> IF p \in TooFar THEN 0 ELSE displayed[p]]
        /\ chunkQueue' = chunkQueue \cup {displayed[p] : p \in TooFar} /\ objects' = objects
        /\ \A p \in TooFar : p \in Place /\ displayed[p] # 0
    BY <1>3 DEF PruneDisplay, TooFar
  <2>0. \A p \in Place : displayed[p] \in 0..objects /\ 0 \in 0..objects
    BY <1>1
  <2>2. displayed' \in [Place -> 0..objects] /\ chunkQueue' \subseteq 1..objects
    <3>1. displayed' \in [Place -> 0..objects]
      BY <2>0, <2>1
    <3>2. \A p \in TooFar : displayed[p] \in 1..objects
      BY <2>0, <2>1
    <3>3. QED
      BY <1>1, <2>1, <3>1, <3>2
  <2>3. \A p, q \in Place : p # q /\ displayed'[p] # 0 => displayed'[p] # displayed'[q]
    BY <1>1, <2>1
  <2>4. ASSUME NEW k \in chunkQueue', NEW q \in Place, displayed'[q] = k PROVE FALSE
    <3>1. k \in 1..objects /\ k # 0
      BY <2>2
    <3>2. q \notin TooFar /\ displayed[q] = k
      BY <2>1, <2>4, <3>1
    <3>3. k \in OnDisplay
      BY <3>1, <3>2 DEF OnDisplay
    <3>4. k \notin chunkQueue
      BY <1>1, <3>3
    <3>5. PICK p \in TooFar : displayed[p] = k
      BY <2>1, <3>4
    <3>6. QED
      BY <1>1, <2>1, <3>1, <3>2, <3>5
  <2>5. chunkQueue' \cap OnDisplay' = {}
    BY <2>4 DEF OnDisplay
  <2>6. ASSUME NEW k \in 1..objects PROVE k \in OnDisplay' \cup chunkQueue'
    <3>1. CASE k \in chunkQueue
      BY <2>1, <3>1
    <3>2. CASE k \in OnDisplay
      <4>1. PICK p \in Place : displayed[p] = k /\ k # 0
        BY <3>2 DEF OnDisplay
      <4>2. CASE p \in TooFar
        BY <2>1, <4>1, <4>2
      <4>3. CASE p \notin TooFar
        BY <2>1, <4>1, <4>3 DEF OnDisplay
      <4>4. QED
        BY <4>2, <4>3
    <3>3. QED
      BY <1>1, <3>1, <3>2
  <2>7. QED
    BY <1>1, <2>1, <2>2, <2>3, <2>5, <2>6 DEF MadeIsKept
<1>4. ASSUME NEW p \in Place, Display(p), chunkQueue = {}
      PROVE  /\ (displayed \in [Place -> 0..objects] /\ chunkQueue \subseteq 1..objects)'
             /\ (objects <= Rim + 1 /\ chunkQueue \cap OnDisplay = {} /\ MadeIsKept)'
             /\ \A x, y \in Place : x # y /\ displayed'[x] # 0 => displayed'[x] # displayed'[y]
  <2>1. /\ displayed[p] = 0 /\ objects' = objects + 1 /\ chunkQueue' = {}
        /\ displayed' = [displayed EXCEPT ![p] = objects + 1]
    BY <1>4 DEF Display
  <2>2. displayed' \in [Place -> 0..objects'] /\ objects' \in Nat
    BY <1>1, <2>1
  <2>3. objects' <= Rim + 1
    BY <1>1, <2>1, <1>4, ObjectsFit
  <2>4. \A x \in Place : x # p => displayed'[x] = displayed[x] /\ displayed[x] # objects + 1
    BY <1>1, <2>1
  <2>5. displayed'[p] = objects + 1
    BY <1>1, <2>1
  <2>6. ASSUME NEW k \in 1..objects' PROVE k \in OnDisplay'
    <3>1. CASE k = objects + 1
      BY <1>1, <2>5, <3>1 DEF OnDisplay
    <3>2. CASE k # objects + 1
      <4>1. k \in 1..objects
        BY <1>1, <2>1, <3>2
      <4>2. k \in OnDisplay
        BY <1>1, <1>4, <4>1
      <4>3. PICK x \in Place : displayed[x] = k /\ k # 0
        BY <4>2 DEF OnDisplay
      <4>4. QED
        BY <2>1, <2>4, <4>3 DEF OnDisplay
    <3>3. QED
      BY <3>1, <3>2
  <2>7. \A x, y \in Place : x # y /\ displayed'[x] # 0 => displayed'[x] # displayed'[y]
    BY <1>1, <2>4, <2>5
  <2>8. QED
    BY <2>1, <2>2, <2>3, <2>6, <2>7 DEF MadeIsKept
<1>5. ASSUME NEW p \in Place, Display(p), chunkQueue # {}
      PROVE  /\ (displayed \in [Place -> 0..objects] /\ chunkQueue \subseteq 1..objects)'
             /\ (objects <= Rim + 1 /\ chunkQueue \cap OnDisplay = {} /\ MadeIsKept)'
             /\ \A x, y \in Place : x # y /\ displayed'[x] # 0 => displayed'[x] # displayed'[y]
  <2>1. PICK o \in chunkQueue :
          /\ displayed' = [displayed EXCEPT ![p] = o] /\ chunkQueue' = chunkQueue \ {o}
          /\ objects' = objects /\ displayed[p] = 0
    BY <1>5 DEF Display
  <2>2. o \in 1..objects /\ o # 0 /\ o \notin OnDisplay
    BY <1>1
  <2>3. displayed' \in [Place -> 0..objects']
    BY <1>1, <2>1, <2>2
  <2>4. \A x \in Place : x # p => displayed'[x] = displayed[x] /\ displayed[x] # o
    BY <1>1, <2>1, <2>2 DEF OnDisplay
  <2>5. displayed'[p] = o
    BY <1>1, <2>1
  <2>6. \A x, y \in Place : x # y /\ displayed'[x] # 0 => displayed'[x] # displayed'[y]
    BY <1>1, <2>4, <2>5
  <2>7. OnDisplay' = OnDisplay \cup {o}
    <3>1. ASSUME NEW k \in OnDisplay PROVE k \in OnDisplay'
      <4>1. PICK x \in Place : displayed[x] = k /\ k # 0
        BY DEF OnDisplay
      <4>2. QED
        BY <2>1, <2>4, <4>1 DEF OnDisplay
    <3>2. ASSUME NEW k \in OnDisplay' PROVE k \in OnDisplay \cup {o}
      <4>1. PICK x \in Place : displayed'[x] = k /\ k # 0
        BY DEF OnDisplay
      <4>2. QED
        BY <2>4, <2>5, <4>1 DEF OnDisplay
    <3>3. o \in OnDisplay'
      BY <2>2, <2>5 DEF OnDisplay
    <3>4. QED
      BY <3>1, <3>2, <3>3
  <2>8. QED
    BY <1>1, <2>1, <2>2, <2>3, <2>6, <2>7 DEF MadeIsKept
<1>6. \/ UNCHANGED display \/ PruneDisplay
      \/ \E p \in Place : Display(p) /\ (chunkQueue = {} \/ chunkQueue # {})
  BY DEF SelectionNext, Turn, OwnChange, RecolourTick, OtherChange, BeginFrame, SkipPrune,
         LookAndDraw, NextFrame
<1>7. QED
  BY <1>2, <1>3, <1>4, <1>5, <1>6

(* What forgets the marker's highlight forgets no other. *)
LEMMA RemovedIs ==
    ASSUME SelectionTypeOK, MadeIsKept, HighlightsHaveBlocks
    PROVE  /\ DOMAIN Removed = Maker
           /\ \A h \in Maker :
                /\ DOMAIN Removed[h] \subseteq DOMAIN highlights[h]
                /\ Removed[h] = [i \in DOMAIN Removed[h] |-> highlights[h][i]]
                /\ marker.set /\ Displays(marker.chunk) = h =>
                     DOMAIN Removed[h] = DOMAIN highlights[h] \ {marker.id}
                /\ h \notin RemovedFrom => Removed[h] = highlights[h]
           /\ RemovedFrom \subseteq Maker
<1>1. /\ DOMAIN highlights = Maker
      /\ \A h \in Maker : highlights[h] = [i \in DOMAIN highlights[h] |-> highlights[h][i]]
      /\ \A p : Displays(p) = 0 \/ Displays(p) \in Maker
  BY SelectionTypesAre DEF HighlightsHaveBlocks
<1> DEFINE o == Displays(marker.chunk)
<1>2. RemovedFrom \subseteq Maker
  BY <1>1 DEF RemovedFrom
<1>3. \A h \in Maker : h # 0
  BY SelectionBounds
<1>4. CASE ~marker.set \/ o = 0
  <2>1. Removed = highlights
    BY <1>4 DEF Removed
  <2>2. \A h \in Maker : ~(marker.set /\ Displays(marker.chunk) = h)
    BY <1>3, <1>4
  <2>3. QED
    BY <1>1, <1>2, <2>1, <2>2
<1>5. CASE marker.set /\ o # 0
  <2> DEFINE F == Restrict(highlights[o], DOMAIN highlights[o] \ {marker.id})
  <2>1. Removed = [highlights EXCEPT ![o] = F] /\ o \in Maker
    BY <1>1, <1>5 DEF Removed
  <2>2. F = [i \in DOMAIN highlights[o] \ {marker.id} |-> highlights[o][i]]
    BY DEF Restrict
  <2>3. DOMAIN F = DOMAIN highlights[o] \ {marker.id}
    BY <2>2
  <2>4. F = [i \in DOMAIN F |-> highlights[o][i]]
    BY <2>2, <2>3
  <2>5. o \notin RemovedFrom => marker.id \notin DOMAIN highlights[o]
    BY <1>5 DEF RemovedFrom
  <2>6. o \notin RemovedFrom => F = highlights[o]
    <3> SUFFICES ASSUME o \notin RemovedFrom PROVE F = highlights[o]
      OBVIOUS
    <3>1. DOMAIN highlights[o] \ {marker.id} = DOMAIN highlights[o]
      BY <2>5
    <3>2. QED
      BY <1>1, <2>1, <2>2, <3>1
  <2> HIDE DEF F, o
  <2>7. /\ DOMAIN Removed = Maker /\ Removed[o] = F
        /\ \A h \in Maker : h # o => Removed[h] = highlights[h]
    BY <1>1, <2>1
  <2>8. ASSUME NEW h \in Maker, h # o
        PROVE  /\ DOMAIN Removed[h] \subseteq DOMAIN highlights[h]
               /\ Removed[h] = [i \in DOMAIN Removed[h] |-> highlights[h][i]]
    BY <1>1, <2>7, <2>8
  <2>9. QED
    BY <1>1, <1>2, <2>1, <2>3, <2>4, <2>6, <2>7, <2>8 DEF o
<1>6. QED
  BY <1>4, <1>5

-----------------------------------------------------------------------------

(* A look forgets the marker's highlight and may make one of its own. *)
Forgets ==
  /\ highlights' = Removed /\ marker' = [marker EXCEPT !.set = FALSE] /\ StaleAt(RemovedFrom)
  /\ ids' = ids
  /\ lookAtBlock' = -1 \/ (lookAtBlock' \in Place /\ displayed[lookAtBlock'] = 0)
Marks(p, o, id) ==
  /\ lookAtBlock' = p /\ displayed[p] = o /\ ids' = [ids EXCEPT ![o] = id]
  /\ marker' = [set |-> TRUE, chunk |-> p, id |-> id] /\ StaleAt(RemovedFrom \cup {o})
  /\ highlights' = [h \in Maker |->
                     IF h = o THEN [i \in DOMAIN Removed[o] \cup {id} |->
                                      IF i = id THEN p ELSE Removed[o][i]]
                     ELSE Removed[h]]

LEMMA LookedIs ==
    ASSUME SelectionTypeOK, MadeIsKept, HighlightsHaveBlocks, UpdateLookAt
    PROVE  \/ LookPast \/ Forgets
           \/ \E p \in Place, o \in Maker, id \in 0..MaxHighlights : Marks(p, o, id)
<1>1. CASE LookAtNothing
  BY <1>1 DEF LookAtNothing, Forgets
<1>2. ASSUME NEW p \in Place, LookUpon(p), displayed[p] = 0 PROVE Forgets
  BY <1>2 DEF LookUpon, Forgets
<1>3. ASSUME NEW p \in Place, LookUpon(p), displayed[p] # 0
      PROVE  \E o \in Maker, id \in 0..MaxHighlights : Marks(p, o, id)
  <2> DEFINE o == displayed[p]
             id == ids[o] + 1
             G == [i \in DOMAIN Removed[o] \cup {id} |-> IF i = id THEN p ELSE Removed[o][i]]
  <2>1. o \in Maker
    <3>1. o \in 0..objects /\ \A k \in 1..objects : k \in Maker
      BY SelectionTypesAre
    <3>2. QED
      BY <1>3, <3>1
  <2>2. /\ lookAtBlock' = p /\ ids' = [ids EXCEPT ![o] = id] /\ id <= MaxHighlights
        /\ marker' = [set |-> TRUE, chunk |-> p, id |-> id] /\ StaleAt(RemovedFrom \cup {o})
        /\ highlights' = [Removed EXCEPT ![o] = G]
    BY <1>3 DEF LookUpon
  <2>3. id \in 0..MaxHighlights
    <3>1. ids[o] \in 0..MaxHighlights /\ MaxHighlights \in Nat
      BY <2>1, SelectionBounds DEF SelectionTypeOK
    <3>2. QED
      BY <2>2, <3>1
  <2>4. DOMAIN Removed = Maker
    BY RemovedIs
  <2> HIDE DEF G
  <2>5. highlights' = [h \in Maker |-> IF h = o THEN G ELSE Removed[h]]
    BY <2>2, <2>4
  <2>6. Marks(p, o, id)
    BY <2>2, <2>5 DEF Marks, G
  <2>7. QED
    BY <2>1, <2>3, <2>6
<1>4. UpdateLookAt => \/ LookPast \/ LookAtNothing
                      \/ \E p \in Place : LookUpon(p) /\ (displayed[p] = 0 \/ displayed[p] # 0)
  BY DEF UpdateLookAt, SelectionTypeOK
<1>5. QED
  BY <1>1, <1>2, <1>3, <1>4

LEMMA RecolouredIs ==
    ASSUME SelectionTypeOK, MadeIsKept, HighlightsHaveBlocks, SetSelectionColor
    PROVE  \/ UNCHANGED <<highlights, stale>>
           \/ \E o \in Maker :
                /\ stale' = [stale EXCEPT ![o] = TRUE]
                /\ highlights' = [h \in Maker |->
                     IF h = o THEN [i \in DOMAIN highlights[o] \cup {marker.id} |->
                                      IF i \in DOMAIN highlights[o] THEN highlights[o][i] ELSE -1]
                     ELSE highlights[h]]
<1> DEFINE o == Displays(marker.chunk)
           G == [i \in DOMAIN highlights[o] \cup {marker.id} |->
                   IF i \in DOMAIN highlights[o] THEN highlights[o][i] ELSE -1]
<1>1. CASE o = 0
  BY <1>1 DEF SetSelectionColor
<1>2. CASE o # 0
  <2>1. highlights' = [highlights EXCEPT ![o] = G] /\ stale' = [stale EXCEPT ![o] = TRUE]
    BY <1>2 DEF SetSelectionColor, Given
  <2>2. DOMAIN highlights = Maker /\ o \in Maker
    BY <1>2, SelectionTypesAre DEF HighlightsHaveBlocks
  <2> HIDE DEF G
  <2>3. highlights' = [h \in Maker |-> IF h = o THEN G ELSE highlights[h]]
    BY <2>1, <2>2
  <2> HIDE DEF o
  <2>4. QED
    BY <2>1, <2>2, <2>3 DEF G
<1>3. QED
  BY <1>1, <1>2

(* What a step does to highlights, their marker and what is drawn. *)
LEMMA SelectionStepsAre ==
    ASSUME SelectionTypeOK, MadeIsKept, SelectionNext
    PROVE  \/ UNCHANGED <<lookAtBlock, marker, highlights, ids, stale, lit>>
           \/ /\ SetSelectionColor /\ BeginFrame /\ UNCHANGED <<lookAtBlock, marker, ids, lit>>
           \/ UpdateLookAt /\ again /\ LookAndDraw
           \/ ~again /\ LookAndDraw /\ UNCHANGED <<lookAtBlock, marker, highlights, ids, stale>>
           \/ NextFrame /\ UNCHANGED <<lookAtBlock, marker, highlights, ids, lit>>
<1> USE DEF lights
<1>1. CASE BeginFrame
  BY <1>1 DEF BeginFrame
<1>2. CASE LookAndDraw
  <2>1. again \in BOOLEAN
    BY DEF SelectionTypeOK
  <2>2. UNCHANGED ids \/ (UpdateLookAt /\ again)
    BY <1>2, <2>1 DEF LookAndDraw
  <2>3. QED
    BY <1>2, <2>1, <2>2 DEF LookAndDraw
<1>3. CASE NextFrame
  BY <1>3 DEF NextFrame
<1>4. \/ BeginFrame \/ LookAndDraw \/ NextFrame
      \/ UNCHANGED <<lookAtBlock, marker, highlights, ids, stale, lit>>
  BY DEF SelectionNext, Turn, OwnChange, RecolourTick, OtherChange, Display, PruneDisplay,
         SkipPrune
<1>5. QED
  BY <1>1, <1>2, <1>3, <1>4

LEMMA LightsAre ==
    ASSUME SelectionTypeOK, HighlightsHaveBlocks
    PROVE  /\ lookAtBlock \in Place \cup {-1} /\ marker.set \in BOOLEAN
           /\ marker.chunk \in Place \cup {-1} /\ marker.id \in 0..MaxHighlights
           /\ marker = [set |-> marker.set, chunk |-> marker.chunk, id |-> marker.id]
           /\ ids \in [Maker -> 0..MaxHighlights] /\ stale \in [Maker -> BOOLEAN]
           /\ DOMAIN highlights = Maker /\ DOMAIN lit = Maker
           /\ \A o \in Maker :
                /\ DOMAIN highlights[o] \subseteq 0..MaxHighlights
                /\ lit[o] \subseteq 0..MaxHighlights
                /\ highlights[o] = [i \in DOMAIN highlights[o] |-> highlights[o][i]]
                /\ \A i \in DOMAIN highlights[o] : highlights[o][i] \in Place \cup {-1}
  BY DEF SelectionTypeOK, HighlightsHaveBlocks

(* The types of the lights, alone. *)
LightsOK ==
  /\ lookAtBlock \in Place \cup {-1}
  /\ marker \in [set : BOOLEAN, chunk : Place \cup {-1}, id : 0..MaxHighlights]
  /\ \A o \in Maker : DOMAIN highlights[o] \cup lit[o] \subseteq 0..MaxHighlights
  /\ ids \in [Maker -> 0..MaxHighlights] /\ stale \in [Maker -> BOOLEAN]
  /\ HighlightsHaveBlocks /\ MarkerIsPlaced
MarksOK ==
  /\ DOMAIN highlights = Maker
  /\ \A o \in Maker :
       /\ DOMAIN highlights[o] \subseteq 0..MaxHighlights
       /\ highlights[o] = [i \in DOMAIN highlights[o] |-> highlights[o][i]]
       /\ \A i \in DOMAIN highlights[o] : highlights[o][i] \in Place \cup {-1}

LEMMA MarksKept ==
    ASSUME SelectionTypeOK, MadeIsKept, HighlightsHaveBlocks, NEW f, NEW o \in Maker,
           NEW D \in SUBSET (0..MaxHighlights),
           DOMAIN f = D, f = [i \in D |-> f[i]], \A i \in D : f[i] \in Place \cup {-1},
           DOMAIN highlights' = Maker,
           highlights'[o] = f,
           \A h \in Maker : h # o => \/ highlights'[h] = highlights[h]
                                     \/ highlights'[h] = Removed[h]
    PROVE  MarksOK'
<1>1. \A h \in Maker :
        /\ DOMAIN highlights[h] \subseteq 0..MaxHighlights
        /\ highlights[h] = [i \in DOMAIN highlights[h] |-> highlights[h][i]]
        /\ \A i \in DOMAIN highlights[h] : highlights[h][i] \in Place \cup {-1}
  BY LightsAre
<1>2. ASSUME NEW h \in Maker, h # o, highlights'[h] = Removed[h]
      PROVE  /\ DOMAIN highlights'[h] \subseteq 0..MaxHighlights
             /\ highlights'[h] = [i \in DOMAIN highlights'[h] |-> highlights'[h][i]]
             /\ \A i \in DOMAIN highlights'[h] : highlights'[h][i] \in Place \cup {-1}
  <2> DEFINE R == Removed[h]
  <2>1. /\ DOMAIN R \subseteq DOMAIN highlights[h]
        /\ R = [i \in DOMAIN R |-> highlights[h][i]] /\ highlights'[h] = R
    BY <1>2, RemovedIs
  <2> HIDE DEF R
  <2>2. \A i \in DOMAIN R : R[i] = highlights[h][i]
    BY <2>1
  <2>3. R = [i \in DOMAIN R |-> R[i]]
    BY <2>1
  <2>4. QED
    BY <1>1, <2>1, <2>2, <2>3
<1>3. QED
  BY <1>1, <1>2 DEF MarksOK

LEMMA LightsKept ==
    ASSUME SelectionTypeOK, MadeIsKept, HighlightsHaveBlocks, MarkerIsPlaced, SelectionNext
    PROVE  LightsOK'
<1>0. /\ lookAtBlock \in Place \cup {-1} /\ marker.set \in BOOLEAN
      /\ marker.chunk \in Place \cup {-1} /\ marker.id \in 0..MaxHighlights
      /\ marker = [set |-> marker.set, chunk |-> marker.chunk, id |-> marker.id]
      /\ ids \in [Maker -> 0..MaxHighlights] /\ stale \in [Maker -> BOOLEAN]
      /\ DOMAIN lit = Maker /\ MarksOK /\ \A o \in Maker : lit[o] \subseteq 0..MaxHighlights
      /\ marker \in [set : BOOLEAN, chunk : Place \cup {-1}, id : 0..MaxHighlights]
  BY LightsAre DEF MarksOK, SelectionTypeOK
<1>1. LightsOK
  BY <1>0 DEF LightsOK, SelectionTypeOK
<1>a. ASSUME MarksOK',
             /\ lookAtBlock' \in Place \cup {-1} /\ ids' \in [Maker -> 0..MaxHighlights]
             /\ stale' \in [Maker -> BOOLEAN],
             marker' \in [set : BOOLEAN, chunk : Place \cup {-1}, id : 0..MaxHighlights],
             MarkerIsPlaced',
             lit' = lit \/ FrameBegin
      PROVE  LightsOK'
  <2>1. DOMAIN lit' = Maker /\ \A o \in Maker : lit'[o] \subseteq 0..MaxHighlights
    <3>1. CASE lit' = lit
      BY <1>0, <3>1
    <3>2. CASE FrameBegin
      BY <1>0, <1>a, <3>2 DEF FrameBegin, MarksOK
    <3>3. QED
      BY <1>a, <3>1, <3>2
  <2>2. HighlightsHaveBlocks'
    BY <1>a, <2>1 DEF HighlightsHaveBlocks, MarksOK
  <2>3. \A o \in Maker : DOMAIN highlights'[o] \cup lit'[o] \subseteq 0..MaxHighlights
    BY <1>a, <2>1 DEF MarksOK
  <2>4. QED
    BY <1>a, <2>2, <2>3 DEF LightsOK
<1>b. ASSUME NEW os, StaleAt(os) PROVE stale' \in [Maker -> BOOLEAN]
  BY <1>b, <1>0 DEF StaleAt
<1>2. CASE UNCHANGED <<lookAtBlock, marker, highlights, ids, stale, lit>>
  <2>1. MarksOK' /\ MarkerIsPlaced'
    BY <1>0, <1>2 DEF MarksOK, MarkerIsPlaced
  <2>2. QED
    BY <1>0, <1>2, <1>a, <2>1
<1>3. CASE SetSelectionColor /\ BeginFrame /\ UNCHANGED <<lookAtBlock, marker, ids, lit>>
  <2>1. MarkerIsPlaced'
    BY <1>3 DEF MarkerIsPlaced
  <2>2. MarksOK' /\ stale' \in [Maker -> BOOLEAN]
    <3>1. CASE UNCHANGED <<highlights, stale>>
      BY <1>0, <3>1 DEF MarksOK
    <3>2. ASSUME NEW o \in Maker, stale' = [stale EXCEPT ![o] = TRUE],
                 highlights' = [h \in Maker |->
                     IF h = o THEN [i \in DOMAIN highlights[o] \cup {marker.id} |->
                                      IF i \in DOMAIN highlights[o] THEN highlights[o][i] ELSE -1]
                     ELSE highlights[h]]
          PROVE  MarksOK' /\ stale' \in [Maker -> BOOLEAN]
      <4> DEFINE D == DOMAIN highlights[o] \cup {marker.id}
                 f == [i \in D |-> IF i \in DOMAIN highlights[o] THEN highlights[o][i] ELSE -1]
      <4>1. D \in SUBSET (0..MaxHighlights)
        BY <1>0 DEF MarksOK
      <4>2. \A i \in D : f[i] \in Place \cup {-1}
        BY <1>0 DEF MarksOK
      <4>3. highlights'[o] = f /\ \A h \in Maker : h # o => highlights'[h] = highlights[h]
        BY <3>2
      <4>4. DOMAIN f = D /\ f = [i \in D |-> f[i]] /\ DOMAIN highlights' = Maker
        BY <3>2
      <4> HIDE DEF f, D
      <4>5. MarksOK'
        BY <4>1, <4>2, <4>3, <4>4, MarksKept
      <4>6. stale' \in [Maker -> BOOLEAN]
        BY <1>0, <3>2
      <4>7. QED
        BY <4>5, <4>6
    <3>3. QED
      BY <1>3, <3>1, <3>2, RecolouredIs
  <2>3. QED
    BY <1>0, <1>3, <1>a, <2>1, <2>2
<1>4. CASE UpdateLookAt /\ again /\ LookAndDraw
  <2>0. FrameBegin
    BY <1>4 DEF LookAndDraw
  <2>1. CASE LookPast
    <3>1. /\ lookAtBlock' = -1 /\ UNCHANGED <<marker, highlights, ids, stale>>
      BY <2>1 DEF LookPast
    <3>2. MarksOK' /\ MarkerIsPlaced'
      BY <1>0, <3>1 DEF MarksOK, MarkerIsPlaced
    <3>3. QED
      BY <1>0, <1>a, <2>0, <3>1, <3>2
  <2>2. CASE Forgets
    <3>1. /\ highlights' = Removed /\ marker' = [marker EXCEPT !.set = FALSE]
          /\ StaleAt(RemovedFrom) /\ ids' = ids /\ lookAtBlock' \in Place \cup {-1}
      BY <2>2 DEF Forgets
    <3>2. marker' = [set |-> FALSE, chunk |-> marker.chunk, id |-> marker.id]
      BY <1>0, <3>1
    <3>3. /\ marker' \in [set : BOOLEAN, chunk : Place \cup {-1}, id : 0..MaxHighlights]
          /\ MarkerIsPlaced'
      BY <1>0, <3>2 DEF MarkerIsPlaced
    <3>4. MarksOK'
      BY <1>0, <3>1, RemovedIs DEF MarksOK
    <3>5. QED
      BY <1>0, <1>a, <1>b, <2>0, <3>1, <3>3, <3>4
  <2>3. ASSUME NEW p \in Place, NEW o \in Maker, NEW id \in 0..MaxHighlights, Marks(p, o, id)
        PROVE  LightsOK'
    <3> DEFINE D == DOMAIN Removed[o] \cup {id}
               f == [i \in D |-> IF i = id THEN p ELSE Removed[o][i]]
    <3>1. /\ lookAtBlock' = p /\ ids' = [ids EXCEPT ![o] = id]
          /\ marker' = [set |-> TRUE, chunk |-> p, id |-> id] /\ StaleAt(RemovedFrom \cup {o})
          /\ highlights' = [h \in Maker |-> IF h = o THEN f ELSE Removed[h]]
      BY <2>3 DEF Marks
    <3>2. /\ marker' \in [set : BOOLEAN, chunk : Place \cup {-1}, id : 0..MaxHighlights]
          /\ MarkerIsPlaced' /\ lookAtBlock' \in Place \cup {-1}
      BY <3>1 DEF MarkerIsPlaced
    <3>3. ids' \in [Maker -> 0..MaxHighlights]
      BY <1>0, <3>1
    <3>4. D \in SUBSET (0..MaxHighlights)
      BY <1>0, RemovedIs DEF MarksOK
    <3>5. \A i \in D : f[i] \in Place \cup {-1}
      BY <1>0, RemovedIs DEF MarksOK
    <3>6. highlights'[o] = f /\ \A h \in Maker : h # o => highlights'[h] = Removed[h]
      BY <3>1
    <3>7. DOMAIN f = D /\ f = [i \in D |-> f[i]] /\ DOMAIN highlights' = Maker
      BY <3>1
    <3>8. stale' \in [Maker -> BOOLEAN]
      BY <1>b, <3>1
    <3> HIDE DEF f, D
    <3>9. MarksOK'
      BY <3>4, <3>5, <3>6, <3>7, MarksKept
    <3>10. QED
      BY <1>a, <2>0, <3>2, <3>3, <3>8, <3>9
  <2>4. QED
    BY <1>4, <2>1, <2>2, <2>3, LookedIs
<1>5. CASE LookAndDraw /\ UNCHANGED <<lookAtBlock, marker, highlights, ids, stale>>
  <2>1. MarksOK' /\ MarkerIsPlaced' /\ FrameBegin
    BY <1>0, <1>5 DEF MarksOK, MarkerIsPlaced, LookAndDraw
  <2>2. QED
    BY <1>0, <1>5, <1>a, <2>1
<1>6. CASE NextFrame /\ UNCHANGED <<lookAtBlock, marker, highlights, ids, lit>>
  <2>1. MarksOK' /\ MarkerIsPlaced'
    BY <1>0, <1>6 DEF MarksOK, MarkerIsPlaced
  <2>2. stale' \in [Maker -> BOOLEAN]
    BY <1>0, <1>6 DEF NextFrame
  <2>3. QED
    BY <1>0, <1>6, <1>a, <2>1, <2>2
<1>7. QED
  BY <1>2, <1>3, <1>4, <1>5, <1>6, SelectionStepsAre

LEMMA HighlightIsMarkedKept ==
    ASSUME SelectionTypeOK, MadeIsKept, HighlightsHaveBlocks, MarkerIsPlaced, HighlightIsMarked,
           SelectionNext
    PROVE  HighlightIsMarked'
<1>1. SUFFICES ASSUME NEW o \in Maker, NEW i \in DOMAIN highlights'[o],
                      highlights'[o][i] # -1, <<o, i>> \notin lost'
               PROVE  marker'.set /\ displayed'[marker'.chunk] = o /\ marker'.id = i
  BY DEF HighlightIsMarked
<1> DEFINE Was == i \in DOMAIN highlights[o] /\ highlights[o][i] # -1
           Its == marker.set /\ displayed[marker.chunk] = o /\ marker.id = i
<1>0. lost \subseteq lost'
  <2>1. CASE PruneDisplay
    BY <2>1 DEF PruneDisplay
  <2>2. lost' = lost \/ PruneDisplay
    BY DEF SelectionNext, Turn, OwnChange, RecolourTick, OtherChange, Display, BeginFrame,
           SkipPrune, LookAndDraw, NextFrame
  <2>3. QED
    BY <2>1, <2>2
<1>a. Was => Its
  BY <1>0, <1>1 DEF HighlightIsMarked
<1>b. o # 0 /\ -1 \notin Place
  BY SelectionBounds
<1>2. CASE UNCHANGED <<marker, highlights>>
  <2>1. Its
    BY <1>1, <1>2, <1>a
  <2>2. marker.chunk \in Place
    BY <2>1 DEF MarkerIsPlaced
  <2>3. displayed'[marker.chunk] = o
    <3>1. CASE PruneDisplay
      <4>1. marker.chunk \notin TooFar
        BY <1>1, <2>1, <3>1 DEF PruneDisplay
      <4>2. QED
        BY <2>1, <2>2, <3>1, <4>1 DEF PruneDisplay
    <3>2. ASSUME NEW p \in Place, Display(p) PROVE displayed'[marker.chunk] = o
      <4>1. p # marker.chunk
        BY <1>b, <2>1, <3>2 DEF Display
      <4>2. \E v : displayed' = [displayed EXCEPT ![p] = v]
        BY <3>2 DEF Display
      <4>3. QED
        BY <2>1, <4>1, <4>2
    <3>3. displayed' = displayed \/ PruneDisplay \/ \E p \in Place : Display(p)
      BY DEF SelectionNext, Turn, OwnChange, RecolourTick, OtherChange, BeginFrame,
             SkipPrune, LookAndDraw, NextFrame, display
    <3>4. QED
      BY <2>1, <3>1, <3>2, <3>3
  <2>4. QED
    BY <1>2, <2>1, <2>3
<1>3. CASE SetSelectionColor /\ BeginFrame /\ UNCHANGED <<lookAtBlock, marker, ids, lit>>
  <2>1. Was
    <3>1. CASE UNCHANGED <<highlights, stale>>
      BY <1>1, <3>1
    <3>2. ASSUME NEW q \in Maker,
                 highlights' = [h \in Maker |->
                     IF h = q THEN [j \in DOMAIN highlights[q] \cup {marker.id} |->
                                      IF j \in DOMAIN highlights[q] THEN highlights[q][j] ELSE -1]
                     ELSE highlights[h]]
          PROVE  Was
      <4>1. CASE o = q
        <5> DEFINE f == [j \in DOMAIN highlights[o] \cup {marker.id} |->
                           IF j \in DOMAIN highlights[o] THEN highlights[o][j] ELSE -1]
        <5>1. highlights'[o] = f
          BY <3>2, <4>1
        <5>2. i \in DOMAIN f /\ f[i] # -1
          BY <1>1, <5>1
        <5>3. QED
          BY <5>2
      <4>2. CASE o # q
        BY <1>1, <3>2, <4>2
      <4>3. QED
        BY <4>1, <4>2
    <3>3. QED
      BY <1>3, <3>1, <3>2, RecolouredIs
  <2>2. QED
    BY <1>3, <1>a, <2>1 DEF BeginFrame, display
<1>4. CASE UpdateLookAt /\ again /\ LookAndDraw
  <2>0. displayed' = displayed
    BY <1>4 DEF LookAndDraw, display
  <2>1. CASE LookPast
    BY <1>2, <2>1 DEF LookPast
  <2>a. ASSUME i \in DOMAIN Removed[o], Removed[o][i] # -1 PROVE FALSE
    <3>1. /\ DOMAIN Removed[o] \subseteq DOMAIN highlights[o]
          /\ Removed[o] = [j \in DOMAIN Removed[o] |-> highlights[o][j]]
          /\ marker.set /\ Displays(marker.chunk) = o =>
               DOMAIN Removed[o] = DOMAIN highlights[o] \ {marker.id}
      BY RemovedIs
    <3>2. Was
      BY <2>a, <3>1
    <3>3. Its /\ marker.chunk \in Place
      BY <1>a, <3>2 DEF MarkerIsPlaced
    <3>4. Displays(marker.chunk) = o
      BY <3>3 DEF Displays
    <3>5. QED
      BY <2>a, <3>1, <3>3, <3>4
  <2>2. CASE Forgets
    BY <1>1, <2>2, <2>a DEF Forgets
  <2>3. ASSUME NEW p \in Place, NEW q \in Maker, NEW id \in 0..MaxHighlights, Marks(p, q, id)
        PROVE  marker'.set /\ displayed'[marker'.chunk] = o /\ marker'.id = i
    <3> DEFINE f == [j \in DOMAIN Removed[q] \cup {id} |-> IF j = id THEN p ELSE Removed[q][j]]
    <3>1. /\ displayed[p] = q /\ marker' = [set |-> TRUE, chunk |-> p, id |-> id]
          /\ highlights' = [h \in Maker |-> IF h = q THEN f ELSE Removed[h]]
      BY <2>3 DEF Marks
    <3>2. o = q
      BY <1>1, <2>a, <3>1
    <3>3. i \in DOMAIN f /\ f[i] # -1
      BY <1>1, <3>1, <3>2
    <3>4. i = id
      BY <2>a, <3>2, <3>3
    <3>5. QED
      BY <2>0, <3>1, <3>2, <3>4
  <2>4. QED
    BY <1>4, <2>1, <2>2, <2>3, LookedIs
<1>5. QED
  BY <1>2, <1>3, <1>4, SelectionStepsAre

LEMMA ClickedIsHeldKept ==
    ASSUME SelectionTypeOK, MadeIsKept, HighlightsHaveBlocks, MarkerIsPlaced, ClickedIsHeld,
           phase = "drawn" => ~again, SelectionNext
    PROVE  ClickedIsHeld' /\ (phase' = "drawn" => ~again')
<1> USE DEF lights, display, scenery
<1>1. phase' = "drawn" => ~again'
  BY DEF SelectionNext, Turn, OwnChange, RecolourTick, OtherChange, Display, BeginFrame,
         PruneDisplay, SkipPrune, LookAndDraw, NextFrame
<1> DEFINE b == lookAtBlock'
           Lit == \E i \in DOMAIN highlights'[displayed'[b]] :
                    /\ highlights'[displayed'[b]][i] = b
                    /\ i \in lit'[displayed'[b]] \/ (phase' # "drawn" /\ stale'[displayed'[b]])
           Onscreen == (IF b \in Place THEN displayed'[b] ELSE 0) # 0
<1>2. SUFFICES ASSUME ~again', lookAtBlock' # -1, Onscreen PROVE Lit
  BY <1>1 DEF ClickedIsHeld, Displays, Lights
<1>3. b \in Place /\ displayed'[b] # 0 /\ displayed' [b] \in Maker
  <2>1. LightsOK'
    BY LightsKept
  <2>2. b \in Place
    BY <1>2, <2>1 DEF LightsOK
  <2>3. displayed' \in [Place -> 0..objects'] /\ objects' <= Rim + 1 /\ objects' \in Nat
    BY SelectionDisplayKept DEF MadeIsKept
  <2>4. displayed'[b] # 0
    BY <1>2, <2>2
  <2>5. displayed'[b] \in 0..objects' /\ Rim \in Nat
    BY <2>2, <2>3, SelectionBounds
  <2>6. displayed'[b] \in 1..(Rim + 1)
    BY <2>3, <2>4, <2>5, SelectionBounds
  <2>7. QED
    BY <2>2, <2>4, <2>6, SelectionBounds
<1> DEFINE o == displayed'[b]
<1> HIDE DEF Lit, Onscreen
<1>4. CASE LookAndDraw
  <2>1. /\ displayed' = displayed /\ phase' = "drawn" /\ phase = "shown" /\ FrameBegin
    BY <1>4 DEF LookAndDraw
  <2>2. o \in OnDisplay
    BY <1>3, <2>1 DEF OnDisplay
  <2>a. ASSUME NEW i \in DOMAIN highlights'[o], highlights'[o][i] = b, stale'[o] \/ i \in lit[o]
        PROVE  Lit
    <3>1. i \in lit'[o]
      BY <1>3, <2>1, <2>2, <2>a DEF FrameBegin
    <3>2. QED
      BY <2>a, <3>1 DEF Lit
  <2>3. CASE ~again /\ UNCHANGED <<lookAtBlock, marker, highlights, ids, stale>>
    <3>1. Lights(o, b)
      BY <1>2, <1>3, <2>1, <2>3 DEF ClickedIsHeld, Displays
    <3>2. PICK i \in DOMAIN highlights[o] :
            highlights[o][i] = b /\ (i \in lit[o] \/ (phase # "drawn" /\ stale[o]))
      BY <3>1 DEF Lights
    <3>3. QED
      BY <2>3, <2>a, <3>2
  <2>4. CASE UpdateLookAt /\ again
    <3>1. CASE LookPast \/ Forgets
      BY <1>2, <1>3, <2>1, <3>1 DEF LookPast, Forgets
    <3>2. ASSUME NEW p \in Place, NEW q \in Maker, NEW id \in 0..MaxHighlights, Marks(p, q, id)
          PROVE  Lit
      <4> DEFINE f == [j \in DOMAIN Removed[q] \cup {id} |-> IF j = id THEN p ELSE Removed[q][j]]
      <4>1. /\ b = p /\ displayed[p] = q /\ StaleAt(RemovedFrom \cup {q})
            /\ highlights' = [h \in Maker |-> IF h = q THEN f ELSE Removed[h]]
        BY <3>2 DEF Marks
      <4>2. o = q /\ highlights'[o] = f
        BY <2>1, <4>1
      <4>3. id \in DOMAIN f /\ f[id] = p
        OBVIOUS
      <4>4. stale'[o]
        BY <1>3, <4>1, <4>2 DEF StaleAt
      <4>5. QED
        BY <2>a, <4>1, <4>2, <4>3, <4>4
    <3>3. QED
      BY <2>4, <3>1, <3>2, LookedIs
  <2>5. QED
    BY <1>4, <2>3, <2>4, SelectionStepsAre DEF LookAndDraw, NextFrame, BeginFrame
<1>5. CASE ~LookAndDraw
  <2>1. lookAtBlock' = lookAtBlock /\ lit' = lit /\ DOMAIN highlights = Maker
    BY <1>5, SelectionStepsAre DEF HighlightsHaveBlocks
  <2>2. ~again /\ displayed[b] = o
    <3>1. ~again
      BY <1>2, <1>5 DEF SelectionNext, Turn, OwnChange, RecolourTick, OtherChange, Display,
                        BeginFrame, PruneDisplay, SkipPrune, NextFrame
    <3>2. CASE PruneDisplay
      <4>1. displayed' = [p \in Place |-> IF p \in TooFar THEN 0 ELSE displayed[p]]
        BY <3>2 DEF PruneDisplay
      <4>2. QED
        BY <1>3, <3>1, <4>1
    <3>3. ~PruneDisplay => displayed' = displayed
      BY <1>2, <1>5 DEF SelectionNext, Turn, OwnChange, RecolourTick, OtherChange, Display,
                        BeginFrame, SkipPrune, NextFrame
    <3>4. QED
      BY <3>1, <3>2, <3>3
  <2>3. Lights(o, b)
    BY <1>2, <1>3, <2>1, <2>2 DEF ClickedIsHeld, Displays
  <2>4. PICK i \in DOMAIN highlights[o] :
          highlights[o][i] = b /\ (i \in lit[o] \/ (phase # "drawn" /\ stale[o]))
    BY <2>3 DEF Lights
  <2>5. i \in DOMAIN highlights'[o] /\ highlights'[o][i] = b
    <3>1. CASE highlights' = highlights
      BY <2>4, <3>1
    <3>2. ASSUME NEW q \in Maker,
                 highlights' = [h \in Maker |->
                     IF h = q THEN [j \in DOMAIN highlights[q] \cup {marker.id} |->
                                      IF j \in DOMAIN highlights[q] THEN highlights[q][j] ELSE -1]
                     ELSE highlights[h]]
          PROVE  i \in DOMAIN highlights'[o] /\ highlights'[o][i] = b
      <4>1. CASE o = q
        BY <1>3, <2>4, <3>2, <4>1
      <4>2. CASE o # q
        BY <1>3, <2>4, <3>2, <4>2
      <4>3. QED
        BY <4>1, <4>2
    <3>3. QED
      BY <1>5, <3>1, <3>2, SelectionStepsAre, RecolouredIs
  <2>6. i \in lit'[o] \/ (phase' # "drawn" /\ stale'[o])
    <3>1. CASE i \in lit[o]
      BY <2>1, <3>1
    <3>2. CASE phase # "drawn" /\ stale[o]
      <4>1. stale'[o]
        <5>1. CASE stale' = stale
          BY <3>2, <5>1
        <5>2. CASE NextFrame
          BY <3>2, <5>2 DEF NextFrame
        <5>3. ASSUME NEW q \in Maker, stale' = [stale EXCEPT ![q] = TRUE] PROVE stale'[o]
          BY <1>3, <3>2, <5>3 DEF SelectionTypeOK
        <5>4. QED
          BY <1>5, <5>1, <5>2, <5>3, SelectionStepsAre, RecolouredIs
      <4>2. phase' # "drawn"
        BY <1>5, <3>2 DEF SelectionNext, Turn, OwnChange, RecolourTick, OtherChange, Display,
                          BeginFrame, PruneDisplay, SkipPrune, NextFrame
      <4>3. QED
        BY <4>1, <4>2
    <3>3. QED
      BY <2>4, <3>1, <3>2
  <2>7. QED
    BY <2>5, <2>6 DEF Lit
<1>6. QED
  BY <1>4, <1>5

LEMMA SelectionInitHolds == SelectionInit => SelectionIInv
<1> SUFFICES ASSUME SelectionInit PROVE SelectionIInv
  OBVIOUS
<1>1. /\ eye = 0 /\ blocks = Place /\ turns = 0
      /\ phase = "start" /\ displayed = [p \in Place |-> 0] /\ chunkQueue = {} /\ objects = 0
      /\ lookAtBlock = -1 /\ marker = Nobody /\ again = TRUE /\ recolour = FALSE /\ lost = {}
      /\ highlights = [o \in Maker |-> <<>>] /\ ids = [o \in Maker |-> 0]
      /\ stale = [o \in Maker |-> FALSE] /\ lit = [o \in Maker |-> {}]
  BY DEF SelectionInit
<1>2. Rim \in Nat /\ MaxHighlights \in Nat /\ MaxChanges \in Nat /\ 0 \in Place
  BY SelectionBounds
<1>3. \A o \in Maker : DOMAIN highlights[o] = {} /\ highlights[o] = <<>>
  BY <1>1
<1>4. OnDisplay = {}
  BY <1>1 DEF OnDisplay
<1>5. marker \in [set : BOOLEAN, chunk : Place \cup {-1}, id : 0..MaxHighlights]
  BY <1>1, <1>2 DEF Nobody
<1>6. SelectionTypeOK
  <2>1. \A o \in Maker : DOMAIN highlights[o] \cup lit[o] \subseteq 0..MaxHighlights
    BY <1>1, <1>3
  <2>2. /\ displayed \in [Place -> 0..objects] /\ objects <= Rim + 1 /\ turns \in 0..MaxChanges
        /\ ids \in [Maker -> 0..MaxHighlights] /\ stale \in [Maker -> BOOLEAN]
    BY <1>1, <1>2
  <2>3. \A p, q \in Place : p # q /\ displayed[p] # 0 => displayed[p] # displayed[q]
    BY <1>1
  <2>4. QED
    BY <1>1, <1>2, <1>5, <2>1, <2>2, <2>3 DEF SelectionTypeOK
<1>7. HighlightsHaveBlocks
  <2>1. \A o \in Maker : highlights[o] = [i \in DOMAIN highlights[o] |-> highlights[o][i]]
    BY <1>3
  <2>2. QED
    BY <1>1, <1>3, <2>1 DEF HighlightsHaveBlocks
<1>8. MadeIsKept /\ MarkerIsPlaced /\ ClickedIsHeld /\ HighlightIsMarked
  BY <1>1, <1>3, <1>4 DEF MadeIsKept, MarkerIsPlaced, ClickedIsHeld, HighlightIsMarked, Nobody
<1>9. QED
  BY <1>1, <1>6, <1>7, <1>8 DEF SelectionIInv

LEMMA SelectionStep == SelectionIInv /\ [SelectionNext]_selectionVars => SelectionIInv'
<1> SUFFICES ASSUME SelectionIInv, [SelectionNext]_selectionVars PROVE SelectionIInv'
  OBVIOUS
<1>1. CASE SelectionNext
  <2>1. LightsOK' /\ HighlightIsMarked' /\ ClickedIsHeld' /\ (phase' = "drawn" => ~again')
    BY <1>1, LightsKept, HighlightIsMarkedKept, ClickedIsHeldKept DEF SelectionIInv
  <2>2. SelectionTypeOK'
    BY <1>1, <2>1, SelectionSceneryKept, SelectionDisplayKept
       DEF SelectionIInv, SelectionTypeOK, LightsOK
  <2>3. MadeIsKept'
    BY <1>1, SelectionDisplayKept DEF SelectionIInv
  <2>4. QED
    BY <2>1, <2>2, <2>3 DEF SelectionIInv, LightsOK
<1>2. CASE UNCHANGED selectionVars
  <2>1. /\ UNCHANGED <<eye, blocks, turns, phase, displayed, chunkQueue, objects, lookAtBlock>>
        /\ UNCHANGED <<marker, highlights, ids, stale, lit, again, recolour, lost>>
    BY <1>2 DEF selectionVars, scenery, display, lights
  <2>2. SelectionTypeOK' /\ HighlightsHaveBlocks'
    BY <2>1 DEF SelectionIInv, SelectionTypeOK, HighlightsHaveBlocks, OnDisplay
  <2>3. MadeIsKept' /\ MarkerIsPlaced' /\ ClickedIsHeld' /\ HighlightIsMarked'
    BY <2>1 DEF SelectionIInv, MadeIsKept, MarkerIsPlaced, ClickedIsHeld, HighlightIsMarked,
                OnDisplay, Lights, Displays
  <2>4. QED
    BY <2>1, <2>2, <2>3 DEF SelectionIInv
<1>3. QED
  BY <1>1, <1>2

LEMMA SelectionIInvIsEnough == SelectionIInv => SelectionInv
<1> SUFFICES ASSUME SelectionIInv PROVE SelectionInv
  OBVIOUS
<1>1. ClickedIsLit
  BY DEF SelectionIInv, ClickedIsLit, ClickedIsHeld, Lights
<1>2. LitIsMarked
  <2>1. \A o \in OnDisplay : o \in Maker
    BY SelectionTypesAre DEF SelectionIInv
  <2>2. QED
    BY <2>1 DEF SelectionIInv, LitIsMarked, HighlightIsMarked
<1>3. QED
  BY <1>1, <1>2 DEF SelectionIInv, SelectionInv

(* The block that a click applies to is lit as soon as its chunk is on       *)
(* display, and nothing else is, but for highlights whose marker lost its    *)
(* chunk; no display object is used for two chunks                           *)
(* (src/render/scene/ChunkLoader.cpp, src/render/chunk/WorldChunk.cpp).      *)
THEOREM SelectionSafe == SelectionSpec => []SelectionInv
<1>1. SelectionSpec => []SelectionIInv
  BY SelectionInitHolds, SelectionStep, PTL DEF SelectionSpec
<1>2. QED
  BY <1>1, SelectionIInvIsEnough, PTL

-----------------------------------------------------------------------------
(* The chunk loader.  The inductive invariant: a load on its way is of a     *)
(* position that is being loaded, has the number of its last load, and is in *)
(* no other place; a completion is of such a load, or repeats what is cached *)
(* and too near to be dropped before it is taken.                            *)

SceneTypes ==
    /\ tasks \in Seq(Loads \cup {<<>>})
    /\ shown \in [DOMAIN shown -> Nat]
    /\ cached \in [DOMAIN cached -> Nat] /\ DOMAIN cached \subseteq Column
    /\ drawOrder \subseteq Column /\ toDealloc \subseteq Loads /\ gone \subseteq Loads
    /\ made \in [Column -> Nat] /\ loading \subseteq Column

(* A load that is on its way is the last of its position, and new to all. *)
LoadingIsNew ==
    \A p \in loading :
        made[p] # 0 /\ p \notin DOMAIN cached /\ <<p, made[p]>> \notin toDealloc \cup gone

TasksAreLoads == \A t \in LoadTasks : t[1] \in loading /\ t[2] = made[t[1]]

(* Completes a load, or repeats what is cached and near. *)
Completes(l) ==
    /\ l[1] \in loading
    /\ l[2] = made[l[1]] \/ (l[2] = 0 /\ <<l[1], made[l[1]]>> \in failed)

Repeats(l) ==
    /\ l[1] \in DOMAIN cached /\ l[2] = cached[l[1]]
    /\ turn # "loads" /\ Gap(l[1], center) <= ChunkRange

CompletionsAreDue == \A l \in ToSet(loaded) : Completes(l) \/ Repeats(l)

(* Objects are numbered; 0 is none. *)
ObjectsAreMade ==
    \A l \in Pairs(cached) \cup toDealloc \cup gone : l[2] \in 1..made[l[1]]

BatchIsAll == batch # {} => batch = toDealloc

SceneIInv ==
    /\ SceneInv /\ SceneTypes
    /\ LoadingIsNew /\ TasksAreLoads /\ CompletionsAreDue /\ ObjectsAreMade /\ BatchIsAll

LEMMA SceneBounds ==
    /\ ChunkRange \in Nat /\ CacheDistance \in Nat /\ CacheDistance > ChunkRange
    /\ EagerReset \in Nat /\ PruneReset \in Nat /\ Column \subseteq Int
    /\ <<>> \notin Loads
  BY SceneAssumption DEF Loads

(* Sequences: one without its i-th entry, and a set in some order. *)
From(k, i) == IF k < i THEN k ELSE k + 1

LEMMA RemoveAtHolds ==
    ASSUME NEW S, NEW s \in Seq(S), NEW i \in DOMAIN s
    PROVE  /\ RemoveAt(s, i) \in Seq(S)
           /\ ToSet(s) = ToSet(RemoveAt(s, i)) \cup {s[i]}
           /\ \A k \in DOMAIN RemoveAt(s, i) :
                k \in Nat /\ From(k, i) \in DOMAIN s \ {i} /\ RemoveAt(s, i)[k] = s[From(k, i)]
<1> DEFINE a == SubSeq(s, 1, i - 1)
           b == SubSeq(s, i + 1, Len(s))
           r == a \o b
           n == Len(s)
<1>1. n \in Nat /\ DOMAIN s = 1..n /\ i \in 1..n /\ \A k \in 1..n : s[k] \in S
  BY LenProperties, ElementOfSeq
<1>2. /\ a \in Seq(S) /\ Len(a) = i - 1
      /\ \A k \in 1..(i - 1) : a[k] = s[k]
  <2>1. \A k \in 1..(i - 1) : s[k] \in S
    BY <1>1
  <2>2. i - 1 \in Int /\ 1 \in Int
    BY <1>1
  <2>3. /\ a \in Seq(S) /\ Len(a) = IF 1 <= i - 1 THEN (i - 1) - 1 + 1 ELSE 0
        /\ \A k \in 1..((i - 1) - 1 + 1) : a[k] = s[1 + k - 1]
    BY <2>1, <2>2, SubSeqProperties
  <2>4. (i - 1) - 1 + 1 = i - 1 /\ \A k \in 1..(i - 1) : 1 + k - 1 = k
    BY <1>1
  <2>5. Len(a) = i - 1
    BY <1>1, <2>3
  <2>6. QED
    BY <2>3, <2>4, <2>5
<1>3. /\ b \in Seq(S) /\ Len(b) = n - i
      /\ \A k \in 1..(n - i) : b[k] = s[k + i]
  <2>1. \A k \in (i + 1)..n : s[k] \in S
    BY <1>1
  <2>2. i + 1 \in Int /\ n \in Int
    BY <1>1
  <2>3. /\ b \in Seq(S) /\ Len(b) = IF i + 1 <= n THEN n - (i + 1) + 1 ELSE 0
        /\ \A k \in 1..(n - (i + 1) + 1) : b[k] = s[(i + 1) + k - 1]
    BY <2>1, <2>2, SubSeqProperties
  <2>4. n - (i + 1) + 1 = n - i /\ \A k \in 1..(n - i) : (i + 1) + k - 1 = k + i
    BY <1>1
  <2>5. Len(b) = n - i
    BY <1>1, <2>3
  <2>6. QED
    BY <2>3, <2>4, <2>5
<1>4. RemoveAt(s, i) = r
  BY DEF RemoveAt
<1> HIDE DEF a, b
<1>5. /\ r \in Seq(S) /\ Len(r) = n - 1 /\ DOMAIN r = 1..(n - 1)
      /\ \A k \in 1..(n - 1) : r[k] = IF k <= i - 1 THEN a[k] ELSE b[k - (i - 1)]
  <2>1. /\ r \in Seq(S) /\ Len(r) = Len(a) + Len(b)
        /\ \A k \in 1..(Len(a) + Len(b)) : r[k] = IF k <= Len(a) THEN a[k] ELSE b[k - Len(a)]
    BY <1>2, <1>3, ConcatProperties
  <2>2. Len(a) + Len(b) = n - 1
    BY <1>1, <1>2, <1>3
  <2>3. DOMAIN r = 1..(n - 1)
    BY <2>1, <2>2, LenProperties
  <2>4. QED
    BY <1>2, <2>1, <2>2, <2>3
<1> HIDE DEF r, n
<1>6. ASSUME NEW k \in DOMAIN r
      PROVE  k \in Nat /\ From(k, i) \in DOMAIN s \ {i} /\ r[k] = s[From(k, i)]
  <2>1. k \in 1..(n - 1) /\ k \in Nat
    BY <1>1, <1>5
  <2>2. CASE k < i
    <3>1. k \in 1..(i - 1) /\ k <= i - 1 /\ k \in 1..n /\ k # i
      BY <1>1, <2>1, <2>2
    <3>2. r[k] = s[k]
      BY <1>2, <1>5, <2>1, <3>1
    <3>3. QED
      BY <1>1, <2>1, <2>2, <3>1, <3>2 DEF From
  <2>3. CASE ~(k < i)
    <3>1. /\ ~(k <= i - 1) /\ k - (i - 1) \in 1..(n - i) /\ (k - (i - 1)) + i = k + 1
          /\ k + 1 \in 1..n /\ k + 1 # i
      BY <1>1, <2>1, <2>3
    <3>2. r[k] = s[k + 1]
      BY <1>3, <1>5, <2>1, <3>1
    <3>3. QED
      BY <1>1, <2>1, <2>3, <3>1, <3>2 DEF From
  <2>4. QED
    BY <2>2, <2>3
<1>7. ASSUME NEW j \in DOMAIN s, j # i PROVE \E k \in DOMAIN r : r[k] = s[j]
  <2>1. j \in 1..n /\ j \in Nat
    BY <1>1
  <2>2. CASE j < i
    <3>1. j \in DOMAIN r /\ From(j, i) = j
      BY <1>1, <1>5, <2>1, <2>2 DEF From
    <3>2. QED
      BY <1>6, <3>1
  <2>3. CASE ~(j < i)
    <3>1. j - 1 \in DOMAIN r /\ From(j - 1, i) = j
      BY <1>1, <1>5, <1>7, <2>1, <2>3 DEF From
    <3>2. QED
      BY <1>6, <3>1
  <2>4. QED
    BY <2>2, <2>3
<1>8. ToSet(s) = ToSet(r) \cup {s[i]}
  <2>1. ASSUME NEW x \in ToSet(s) PROVE x \in ToSet(r) \cup {s[i]}
    BY <1>7 DEF ToSet
  <2>2. ASSUME NEW x \in ToSet(r) PROVE x \in ToSet(s)
    BY <1>6 DEF ToSet
  <2>3. QED
    BY <2>1, <2>2 DEF ToSet
<1>9. QED
  BY <1>4, <1>5, <1>6, <1>8

LEMMA OrdersAre ==
    ASSUME NEW S, IsFiniteSet(S), NEW s \in Orders(S)
    PROVE  /\ s \in Seq(S) /\ ToSet(s) = S
           /\ \A i, j \in DOMAIN s : i # j => s[i] # s[j]
<1> DEFINE n == Cardinality(S)
<1>1. n \in Nat
  BY FS_CardinalityType
<1>2. s \in [1..n -> S] /\ \A i, j \in 1..n : s[i] = s[j] => i = j
  BY DEF Orders, IsInjective
<1>3. IsFiniteSet(1..n) /\ Cardinality(1..n) = n
  BY <1>1, FS_Interval
<1>4. s \in Injection(1..n, S)
  BY <1>2 DEF Injection, IsInjective
<1>5. s \in Surjection(1..n, S)
  BY <1>3, <1>4, FS_Injection
<1>6. \A x \in S : \E i \in 1..n : s[i] = x
  BY <1>5 DEF Surjection
<1>7. s \in Seq(S)
  BY <1>1, <1>2, SeqDef
<1>8. QED
  BY <1>2, <1>6, <1>7 DEF ToSet

LEMMA SetToSeqIs ==
    ASSUME NEW S, IsFiniteSet(S)
    PROVE  /\ SetToSeq(S) \in Seq(S) /\ ToSet(SetToSeq(S)) = S
           /\ \A i, j \in DOMAIN SetToSeq(S) : i # j => SetToSeq(S)[i] # SetToSeq(S)[j]
<1> DEFINE n == Cardinality(S)
<1>1. PICK f \in Bijection(1..n, S) : TRUE
  BY FS_CardinalityType DEF ExistsBijection
<1>2. f \in [1..n -> S] /\ IsInjective(f)
  BY <1>1 DEF Bijection, Injection, IsInjective
<1>3. SetToSeq(S) \in Orders(S)
  BY <1>2 DEF SetToSeq, Orders
<1>4. QED
  BY <1>3, OrdersAre

LEMMA FiniteRange ==
    ASSUME NEW S, NEW s \in Seq(S)
    PROVE  IsFiniteSet(ToSet(s))
<1>1. Len(s) \in Nat /\ DOMAIN s = 1..Len(s) /\ IsFiniteSet(1..Len(s))
  BY LenProperties, FS_Interval
<1>2. s \in Surjection(DOMAIN s, ToSet(s))
  BY <1>1, LenProperties DEF ToSet, Surjection
<1>3. QED
  BY <1>1, <1>2, FS_Surjection

LEMMA LaterPart ==
    ASSUME NEW S, NEW s \in Seq(S), NEW i \in Nat
    PROVE  /\ SubSeq(s, i + 1, Len(s)) \in Seq(S)
           /\ ToSet(SubSeq(s, i + 1, Len(s))) \subseteq ToSet(s)
<1> DEFINE n == Len(s)
           b == SubSeq(s, i + 1, n)
<1>1. n \in Nat /\ DOMAIN s = 1..n /\ \A k \in 1..n : s[k] \in S
  BY LenProperties, ElementOfSeq
<1>2. i + 1 \in Int /\ n \in Int /\ \A k \in (i + 1)..n : s[k] \in S
  BY <1>1
<1>3. /\ b \in Seq(S) /\ Len(b) = IF i + 1 <= n THEN n - (i + 1) + 1 ELSE 0
      /\ \A k \in 1..(n - (i + 1) + 1) : b[k] = s[(i + 1) + k - 1]
  BY <1>2, SubSeqProperties
<1>4. DOMAIN b = 1..Len(b)
  BY <1>3, LenProperties
<1> HIDE DEF b, n
<1>5. ASSUME NEW k \in DOMAIN b PROVE b[k] \in ToSet(s)
  <2>1. k \in 1..(n - (i + 1) + 1) /\ (i + 1) + k - 1 \in 1..n
    BY <1>1, <1>3, <1>4
  <2>2. QED
    BY <1>1, <1>3, <2>1 DEF ToSet
<1>6. QED
  BY <1>3, <1>5 DEF ToSet, b, n

-----------------------------------------------------------------------------
(* The types. *)

SceneTyped == SceneTypeOK /\ SceneTypes

LEMMA LoadTasksAre ==
    ASSUME SceneTyped
    PROVE  /\ LoadTasks \subseteq Loads
           /\ \A i \in DOMAIN tasks : i \in Nat /\ (tasks[i] # <<>> => tasks[i] \in LoadTasks)
<1>1. ToSet(tasks) \subseteq Loads \cup {<<>>} /\ DOMAIN tasks \subseteq Nat
  BY HeldIs, LenProperties DEF SceneTyped, SceneTypes
<1>2. QED
  BY <1>1 DEF LoadTasks, ToSet

LEMMA DeliverKeepsTypes ==
    ASSUME SceneTyped, NEW i \in Running, tasks[i] # <<>>, NEW n \in Nat, Deliver(i, n),
           gone' = gone
    PROVE  SceneTyped'
<1>1. i \in DOMAIN tasks /\ tasks[i] \in Loads
  BY LoadTasksAre DEF Running
<1>2. tasks' \in Seq(Loads \cup {<<>>}) /\ ToSet(tasks') \subseteq ToSet(tasks)
  BY <1>1, RemoveAtHolds DEF SceneTyped, SceneTypes, Deliver
<1>3. loaded' \in Seq(Loads)
  <2>1. <<tasks[i][1], n>> \in Loads
    BY <1>1 DEF Loads
  <2>2. QED
    BY <2>1, AppendHolds DEF Deliver, SceneTyped, SceneTypeOK
<1>4. LoadTasks' \subseteq Loads
  BY <1>2, LoadTasksAre DEF LoadTasks
<1>5. SceneTypeOK'
  BY <1>3, <1>4 DEF SceneTyped, SceneTypeOK, Deliver, Pairs
<1>6. QED
  BY <1>2, <1>5 DEF SceneTyped, SceneTypes, Deliver

LEMMA PruneIs ==
    ASSUME SceneTyped, NEW dropped \in SUBSET DOMAIN cached
    PROVE  LET fewer == Except(cached, dropped)
               some == Pairs(Restrict(cached, dropped))
           IN  /\ DOMAIN fewer = DOMAIN cached \ dropped
               /\ \A p \in DOMAIN fewer : fewer[p] = cached[p]
               /\ fewer \in [DOMAIN fewer -> Nat]
               /\ some = {<<p, cached[p]>> : p \in dropped}
               /\ Pairs(cached) = Pairs(fewer) \cup some /\ some \subseteq Loads
  BY DEF Except, Restrict, Pairs, SceneTyped, SceneTypes, SceneTypeOK

LEMMA PruneKeepsTypes ==
    ASSUME SceneTyped, StartOfFrame
    PROVE  SceneTyped'
<1>1. CASE timer = 0
  <2> DEFINE dropped == IF batch # {} THEN {} ELSE Distant(CacheDistance) \cap DOMAIN cached
  <2>1. /\ cached' = Except(cached, dropped)
        /\ toDealloc' = toDealloc \cup Pairs(Restrict(cached, dropped))
        /\ tasks' = IF batch = {} /\ toDealloc' # {} THEN Append(tasks, <<>>) ELSE tasks
        /\ shown' = Except(shown, Distant(ChunkRange)) /\ timer' = PruneReset
    BY <1>1 DEF StartOfFrame, Prune
  <2>2. dropped \subseteq DOMAIN cached
    OBVIOUS
  <2> HIDE DEF dropped
  <2>3. /\ cached' \in [DOMAIN cached' -> Nat] /\ DOMAIN cached' \subseteq Column
        /\ Pairs(cached') \subseteq Loads /\ toDealloc' \subseteq Loads
    <3>1. /\ DOMAIN cached \subseteq Column /\ Pairs(cached) \subseteq Loads
          /\ toDealloc \subseteq Loads
      BY DEF SceneTyped, SceneTypes, SceneTypeOK
    <3>2. dropped \in SUBSET DOMAIN cached
      BY <2>2
    <3>3. /\ DOMAIN cached' = DOMAIN cached \ dropped
          /\ cached' \in [DOMAIN cached' -> Nat]
          /\ Pairs(cached) = Pairs(cached') \cup Pairs(Restrict(cached, dropped))
          /\ Pairs(Restrict(cached, dropped)) \subseteq Loads
      BY <2>1, <3>2, PruneIs
    <3>4. QED
      BY <2>1, <3>1, <3>3
  <2>4. /\ tasks' \in Seq(Loads \cup {<<>>}) /\ ToSet(tasks') \subseteq ToSet(tasks) \cup {<<>>}
    <3>1. tasks \in Seq(Loads \cup {<<>>}) /\ <<>> \in Loads \cup {<<>>}
      BY DEF SceneTyped, SceneTypes
    <3>2. /\ Append(tasks, <<>>) \in Seq(Loads \cup {<<>>})
          /\ ToSet(Append(tasks, <<>>)) = ToSet(tasks) \cup {<<>>}
      BY <3>1, AppendHolds
    <3>3. QED
      BY <2>1, <3>1, <3>2
  <2>5. LoadTasks' \subseteq Loads
    BY <2>4, LoadTasksAre DEF LoadTasks
  <2>6. DOMAIN shown' \subseteq Column /\ shown' \in [DOMAIN shown' -> Nat]
    BY <2>1 DEF Except, Restrict, SceneTyped, SceneTypes, SceneTypeOK
  <2>7. timer' \in 0..PruneReset
    BY <2>1, SceneBounds
  <2>8. batch' \subseteq toDealloc'
    BY <2>1 DEF StartOfFrame, SceneTyped, SceneTypeOK
  <2>9. SceneTypeOK'
    BY <2>3, <2>5, <2>6, <2>7, <2>8 DEF SceneTyped, SceneTypeOK, StartOfFrame, cameraVars
  <2>10. QED
    BY <2>3, <2>4, <2>6, <2>9 DEF SceneTyped, SceneTypes, StartOfFrame
<1>2. CASE timer # 0
  <2>1. timer' \in 0..PruneReset
    BY <1>2, SceneBounds DEF StartOfFrame, SceneTyped, SceneTypeOK
  <2>2. UNCHANGED <<cached, toDealloc, tasks, shown>>
    BY <1>2 DEF StartOfFrame
  <2>3. UNCHANGED LoadTasks
    BY <2>2 DEF LoadTasks
  <2>4. SceneTypeOK'
    BY <2>1, <2>2, <2>3 DEF SceneTyped, SceneTypeOK, StartOfFrame, cameraVars, Pairs
  <2>5. QED
    BY <2>2, <2>4 DEF SceneTyped, SceneTypes, StartOfFrame
<1>3. QED
  BY <1>1, <1>2

LEMMA ArrivedAre ==
    ASSUME SceneTyped
    PROVE  /\ Arrived \subseteq Loads /\ ArrivedAt \subseteq Column
           /\ DOMAIN ChunkObj = ArrivedAt
           /\ \A p \in ArrivedAt : <<p, ChunkObj[p]>> \in Arrived /\ ChunkObj[p] \in Nat \ {0}
           /\ ForLater \subseteq Arrived /\ IsFiniteSet(ForLater)
<1>1. Arrived \subseteq Loads /\ ForLater \subseteq Arrived
  BY HeldIs DEF SceneTyped, SceneTypeOK, Arrived, ForLater
<1>2. ArrivedAt \subseteq Column /\ DOMAIN ChunkObj = ArrivedAt
  BY <1>1 DEF ArrivedAt, ChunkObj, Loads
<1>3. ASSUME NEW p \in ArrivedAt
      PROVE  <<p, ChunkObj[p]>> \in Arrived /\ ChunkObj[p] \in Nat \ {0}
  <2>1. PICK l \in Arrived : l[1] = p /\ ChunkObj[p] = l[2]
    BY DEF ArrivedAt, ChunkObj
  <2>2. l = <<l[1], l[2]>> /\ l[2] \in Nat /\ l[2] # 0
    BY <1>1 DEF Loads, Arrived
  <2>3. QED
    BY <2>1, <2>2
<1>4. IsFiniteSet(ForLater)
  <2>1. IsFiniteSet(ToSet(loaded))
    BY FiniteRange DEF SceneTyped, SceneTypeOK
  <2>2. ForLater \subseteq ToSet(loaded)
    BY DEF Arrived, ForLater
  <2>3. QED
    BY <2>1, <2>2, FS_Subset
<1>5. QED
  BY <1>1, <1>2, <1>3, <1>4

LEMMA AddedAre ==
    ASSUME SceneTyped, NEW P \in SUBSET Column, NEW o, \A p \in P : o[p] \in Nat,
           AddLoadedChunks(P, o)
    PROVE  /\ DOMAIN shown' = DOMAIN shown \cup P /\ DOMAIN shown' \subseteq Column
           /\ shown' \in [DOMAIN shown' -> Nat]
  BY DEF AddLoadedChunks, With, SceneTyped, SceneTypes, SceneTypeOK

LEMMA WaitingIs ==
    ASSUME SceneTyped, NEW later \in Orders(ForLater)
    PROVE  /\ offScreen \o later \in Seq(Loads)
           /\ ToSet(offScreen \o later) = ToSet(offScreen) \cup ForLater
<1>1. later \in Seq(ForLater) /\ ToSet(later) = ForLater
  BY ArrivedAre, OrdersAre
<1>2. later \in Seq(Loads)
  BY <1>1, ArrivedAre, SeqMonotonic
<1>3. QED
  BY <1>1, <1>2, ConcatHolds DEF SceneTyped, SceneTypeOK

LEMMA EagerKeepsTypes ==
    ASSUME SceneTyped, NEW waiting \in Seq(Loads), ShowEagerly(waiting)
    PROVE  /\ DOMAIN shown' \subseteq Column /\ shown' \in [DOMAIN shown' -> Nat]
           /\ offScreen' \in Seq(Loads) /\ ToSet(offScreen') \subseteq ToSet(waiting)
           /\ limit' \in 0..(5 * EagerReset)
<1> DEFINE near == {i \in DOMAIN waiting : ~WayOff(waiting[i][1])}
<1>1. CASE near = {}
  <2>1. offScreen' = <<>> /\ limit' = 0 /\ UNCHANGED shown
    BY <1>1 DEF ShowEagerly
  <2>2. <<>> \in Seq(Loads) /\ ToSet(<<>>) = {}
    BY EmptyHolds
  <2>3. 0 \in 0..(5 * EagerReset)
    BY SceneBounds
  <2>4. QED
    BY <2>1, <2>2, <2>3 DEF SceneTyped, SceneTypes, SceneTypeOK
<1>2. CASE near # {}
  <2>1. near \subseteq DOMAIN waiting /\ DOMAIN waiting = 1..Len(waiting) /\ Len(waiting) \in Nat
        /\ near \subseteq Nat
    BY LenProperties
  <2>2. \E i \in near : \A j \in near : i <= j
    BY <1>2, <2>1, Least
  <2>3. PICK i \in near :
          /\ offScreen' = SubSeq(waiting, i + 1, Len(waiting))
          /\ AddLoadedChunks({waiting[i][1]}, [q \in {waiting[i][1]} |-> waiting[i][2]])
          /\ limit' = EagerReset
    BY <1>2, <2>2 DEF ShowEagerly
  <2>4. i \in Nat /\ i \in DOMAIN waiting /\ waiting[i] \in Loads
    BY <2>1, ElementOfSeq
  <2>5. offScreen' \in Seq(Loads) /\ ToSet(offScreen') \subseteq ToSet(waiting)
    BY <2>1, <2>3, <2>4, LaterPart
  <2>6. waiting[i][1] \in Column /\ waiting[i][2] \in Nat
    BY <2>4 DEF Loads
  <2>7. DOMAIN shown' \subseteq Column /\ shown' \in [DOMAIN shown' -> Nat]
    <3>1. {waiting[i][1]} \in SUBSET Column
      BY <2>6
    <3>2. \A p \in {waiting[i][1]} : [q \in {waiting[i][1]} |-> waiting[i][2]][p] \in Nat
      BY <2>6
    <3>3. QED
      BY <2>3, <3>1, <3>2, AddedAre
  <2>8. limit' \in 0..(5 * EagerReset)
    BY <2>3, SceneBounds
  <2>9. QED
    BY <2>5, <2>7, <2>8
<1>3. QED
  BY <1>1, <1>2

LEMMA VisibleKeepsTypes ==
    ASSUME SceneTyped, NEW waiting, ShowVisible(waiting)
    PROVE  /\ DOMAIN shown' \subseteq Column /\ shown' \in [DOMAIN shown' -> Nat]
           /\ offScreen' = waiting /\ limit' \in 0..(5 * EagerReset)
<1>1. ToDisplay \in SUBSET Column /\ \A p \in ToDisplay : ChunkObj[p] \in Nat
  BY ArrivedAre DEF ToDisplay
<1>2. DOMAIN shown' \subseteq Column /\ shown' \in [DOMAIN shown' -> Nat]
  BY <1>1, AddedAre DEF ShowVisible
<1>3. limit' \in 0..(5 * EagerReset)
  BY SceneBounds DEF ShowVisible, SceneTyped, SceneTypeOK
<1>4. QED
  BY <1>2, <1>3 DEF ShowVisible

LEMMA UpdateShownKeepsTypes ==
    ASSUME SceneTyped, UpdateShown
    PROVE  SceneTyped'
<1>1. PICK later \in Orders(ForLater) :
        \/ ShowVisible(offScreen \o later)
        \/ limit <= 1 /\ ShowEagerly(offScreen \o later)
        \/ ~(limit <= 1) /\ limit' = limit - 1 /\ offScreen' = offScreen \o later
           /\ UNCHANGED <<shown, lookAgain>>
  BY DEF UpdateShown, UpdateDeferredChunks
<1> DEFINE waiting == offScreen \o later
<1>2. waiting \in Seq(Loads) /\ ToSet(waiting) = ToSet(offScreen) \cup ForLater
  BY WaitingIs
<1> HIDE DEF waiting
<1>3. /\ DOMAIN shown' \subseteq Column /\ shown' \in [DOMAIN shown' -> Nat]
      /\ offScreen' \in Seq(Loads) /\ ToSet(offScreen') \subseteq ToSet(waiting)
      /\ limit' \in 0..(5 * EagerReset)
  <2>1. CASE ShowVisible(waiting)
    BY <1>2, <2>1, VisibleKeepsTypes
  <2>2. CASE ShowEagerly(waiting)
    BY <1>2, <2>2, EagerKeepsTypes
  <2>3. CASE ~(limit <= 1) /\ limit' = limit - 1 /\ offScreen' = waiting /\ UNCHANGED shown
    <3>1. limit' \in 0..(5 * EagerReset)
      BY <2>3, SceneBounds DEF SceneTyped, SceneTypeOK
    <3>2. QED
      BY <1>2, <2>3, <3>1 DEF SceneTyped, SceneTypes, SceneTypeOK
  <2>4. QED
    BY <1>1, <2>1, <2>2, <2>3 DEF waiting
<1>4. {offScreen'[i][1] : i \in DOMAIN offScreen'} \subseteq offScreenPos'
  <2>1. {l[1] : l \in ToSet(waiting)} \subseteq offScreenPos'
    BY <1>2 DEF UpdateShown, UpdateDeferredChunks, SceneTyped, SceneTypeOK, ToSet
  <2>2. QED
    BY <1>3, <2>1 DEF ToSet
<1>5. cached' \in [DOMAIN cached' -> Nat] /\ DOMAIN cached' \subseteq Column
      /\ Pairs(cached') \subseteq Loads
  <2>1. cached' = [p \in DOMAIN cached \cup ArrivedAt |->
                     IF p \in ArrivedAt THEN ChunkObj[p] ELSE cached[p]]
    BY DEF UpdateShown, UpdateDeferredChunks, With
  <2>2. \A p \in DOMAIN cached : p \in Column /\ cached[p] \in Nat
    BY DEF SceneTyped, SceneTypes
  <2>3. \A p \in ArrivedAt : p \in Column /\ ChunkObj[p] \in Nat
    BY ArrivedAre
  <2>4. \A p \in DOMAIN cached' : p \in Column /\ cached'[p] \in Nat
    BY <2>1, <2>2, <2>3
  <2>5. QED
    BY <2>1, <2>4 DEF Pairs, Loads
<1>6. loaded' \in Seq(Loads)
  BY EmptyHolds DEF UpdateShown, UpdateDeferredChunks
<1>7. LoadTasks' \subseteq Loads
  BY LoadTasksAre DEF LoadTasks, UpdateShown
<1>8. SceneTypeOK'
  BY <1>3, <1>4, <1>5, <1>6, <1>7 DEF SceneTyped, SceneTypeOK, UpdateShown, cameraVars
<1>9. loading' \subseteq Column
  BY DEF UpdateShown, UpdateDeferredChunks, SceneTyped, SceneTypes
<1>10. QED
  BY <1>3, <1>5, <1>8, <1>9 DEF SceneTyped, SceneTypes, UpdateShown

(* What a move of the camera asks for: new loads, each with its own number,  *)
(* behind the tasks that wait, and what is cached behind the completions.    *)
LEMMA AskedAre ==
    ASSUME SceneTyped, NEW P \in SUBSET Column, IsFiniteSet(P), LoadChunks(P)
    PROVE  LET fake == (P \ DOMAIN shown) \cap DOMAIN cached
               new == P \ (DOMAIN shown \cup DOMAIN cached \cup loading)
           IN  /\ loading' = loading \cup new
               /\ made' \in [Column -> Nat]
               /\ \A p \in Column : made'[p] = IF p \in new THEN made[p] + 1 ELSE made[p]
               /\ \E added \in Seq(Loads) :
                    /\ tasks' = tasks \o added
                    /\ ToSet(added) = {<<p, made'[p]>> : p \in new}
                    /\ \A i, j \in DOMAIN added : i # j => added[i][1] # added[j][1]
               /\ \E copies \in Seq(Loads) :
                    /\ loaded' = loaded \o copies
                    /\ ToSet(copies) = {<<p, cached[p]>> : p \in fake}
                    /\ \A i, j \in DOMAIN copies : i # j => copies[i][1] # copies[j][1]
<1> DEFINE fake == (P \ DOMAIN shown) \cap DOMAIN cached
           new == P \ (DOMAIN shown \cup DOMAIN cached \cup loading)
           reps == {<<p, cached[p]>> : p \in fake}
<1>1. /\ loading' = loading \cup new
      /\ made' = [p \in Column |-> IF p \in new THEN made[p] + 1 ELSE made[p]]
      /\ loaded' = loaded \o SetToSeq(reps)
  BY DEF LoadChunks
<1>2. PICK nearest \in Orders(new) :
        tasks' = tasks \o [i \in DOMAIN nearest |-> <<nearest[i], made'[nearest[i]]>>]
  BY DEF LoadChunks
<1> DEFINE added == [i \in DOMAIN nearest |-> <<nearest[i], made'[nearest[i]]>>]
<1>3. new \subseteq Column /\ IsFiniteSet(new) /\ IsFiniteSet(fake) /\ fake \subseteq DOMAIN cached
  BY FS_Subset
<1>4. made' \in [Column -> Nat]
  BY <1>1 DEF SceneTyped, SceneTypes
<1>5. /\ nearest \in Seq(new) /\ ToSet(nearest) = new
      /\ \A i, j \in DOMAIN nearest : i # j => nearest[i] # nearest[j]
  BY <1>2, <1>3, OrdersAre
<1>6. IsFiniteSet(reps) /\ reps \subseteq Loads
  <2>1. \A p \in fake : <<p, cached[p]>> \in Loads
    BY DEF Loads, SceneTyped, SceneTypes
  <2>2. IsFiniteSet(reps)
    <3>1. [p \in fake |-> <<p, cached[p]>>] \in Surjection(fake, reps)
      BY DEF Surjection
    <3>2. QED
      BY <1>3, <3>1, FS_Surjection
  <2>3. QED
    BY <2>1, <2>2
<1> HIDE DEF fake, new
<1>7. /\ DOMAIN nearest = 1..Len(nearest) /\ Len(nearest) \in Nat
      /\ \A i \in DOMAIN nearest : nearest[i] \in new
  BY <1>5, LenProperties, ElementOfSeq
<1>8. added \in Seq(Loads)
  <2>1. \A i \in 1..Len(nearest) : <<nearest[i], made'[nearest[i]]>> \in Loads
    BY <1>3, <1>4, <1>7 DEF Loads
  <2>2. added \in [1..Len(nearest) -> Loads]
    BY <1>7, <2>1
  <2>3. QED
    BY <1>7, <2>2, SeqDef
<1>9. /\ DOMAIN added = DOMAIN nearest
      /\ \A i \in DOMAIN added : added[i] = <<nearest[i], made'[nearest[i]]>>
  OBVIOUS
<1> HIDE DEF added
<1>10. ToSet(added) = {<<p, made'[p]>> : p \in new}
  <2>1. \A p \in new : \E i \in DOMAIN nearest : nearest[i] = p
    BY <1>5 DEF ToSet
  <2>2. ASSUME NEW p \in new PROVE <<p, made'[p]>> \in ToSet(added)
    <3>1. PICK i \in DOMAIN nearest : nearest[i] = p
      BY <2>1
    <3>2. i \in DOMAIN added /\ added[i] = <<p, made'[p]>>
      BY <1>9, <3>1
    <3>3. QED
      BY <3>2 DEF ToSet
  <2>3. ASSUME NEW x \in ToSet(added) PROVE x \in {<<p, made'[p]>> : p \in new}
    <3>1. PICK i \in DOMAIN added : x = added[i]
      BY DEF ToSet
    <3>2. nearest[i] \in new /\ x = <<nearest[i], made'[nearest[i]]>>
      BY <1>7, <1>9, <3>1
    <3>3. QED
      BY <3>2
  <2>4. QED
    BY <2>2, <2>3
<1>11. \A i, j \in DOMAIN added : i # j => added[i][1] # added[j][1]
  BY <1>5, <1>9
<1>12. /\ SetToSeq(reps) \in Seq(reps) /\ ToSet(SetToSeq(reps)) = reps
       /\ \A i, j \in DOMAIN SetToSeq(reps) : i # j => SetToSeq(reps)[i] # SetToSeq(reps)[j]
  BY <1>6, SetToSeqIs
<1> DEFINE copies == SetToSeq(reps)
<1>13. copies \in Seq(Loads)
  BY <1>6, <1>12, SeqMonotonic
<1>14. \A i, j \in DOMAIN copies : i # j => copies[i][1] # copies[j][1]
  <2>1. \A i \in DOMAIN copies : copies[i] = <<copies[i][1], cached[copies[i][1]]>>
    BY <1>12 DEF ToSet
  <2>2. QED
    BY <1>12, <2>1
<1>15. \A p \in Column : made'[p] = IF p \in new THEN made[p] + 1 ELSE made[p]
  BY <1>1
<1>16. loaded' = loaded \o copies /\ ToSet(copies) = reps
  BY <1>1, <1>12
<1>17. \E s \in Seq(Loads) :
         /\ loaded' = loaded \o s /\ ToSet(s) = reps
         /\ \A i, j \in DOMAIN s : i # j => s[i][1] # s[j][1]
  BY <1>13, <1>14, <1>16
<1>18. \E s \in Seq(Loads) :
         /\ tasks' = tasks \o s /\ ToSet(s) = {<<p, made'[p]>> : p \in new}
         /\ \A i, j \in DOMAIN s : i # j => s[i][1] # s[j][1]
  BY <1>2, <1>8, <1>10, <1>11 DEF added
<1>19. QED
  BY <1>1, <1>4, <1>15, <1>17, <1>18 DEF fake, new

LEMMA WantedAre ==
    ASSUME SceneTyped
    PROVE  LET P == {p \in Around(camera) : NewCenter \/ (Turned /\ p # camera)}
           IN  P \subseteq Column /\ IsFiniteSet(P)
               /\ \A p \in P : Gap(p, camera) <= ChunkRange
<1>1. camera \in Int /\ ChunkRange \in Nat /\ Column \subseteq Int
  BY SceneBounds DEF SceneTyped, SceneTypeOK
<1>2. Around(camera) \subseteq (camera - ChunkRange)..(camera + ChunkRange)
  <2>1. ASSUME NEW p \in Around(camera)
        PROVE  p \in (camera - ChunkRange)..(camera + ChunkRange)
    <3>1. p \in Int /\ Gap(camera, p) <= ChunkRange
      BY <1>1 DEF Around
    <3>2. QED
      BY <1>1, <3>1 DEF Gap
  <2>2. QED
    BY <2>1
<1>3. IsFiniteSet((camera - ChunkRange)..(camera + ChunkRange))
  BY <1>1, FS_Interval
<1>4. IsFiniteSet(Around(camera))
  BY <1>2, <1>3, FS_Subset
<1>5. \A p \in Around(camera) : p \in Column /\ Gap(p, camera) <= ChunkRange
  BY <1>1 DEF Around, Gap
<1>6. QED
  BY <1>4, <1>5, FS_Subset

LEMMA UpdateLoadsKeepsTypes ==
    ASSUME SceneTyped, UpdateLoads
    PROVE  SceneTyped'
<1> DEFINE P == {p \in Around(camera) : NewCenter \/ (Turned /\ p # camera)}
<1>1. LoadChunks(P) /\ P \subseteq Column /\ IsFiniteSet(P)
  BY WantedAre DEF UpdateLoads
<1> HIDE DEF P
<1>2. PICK added \in Seq(Loads) : tasks' = tasks \o added
  BY <1>1, AskedAre
<1>3. PICK copies \in Seq(Loads) : loaded' = loaded \o copies
  BY <1>1, AskedAre
<1>4. loading' \subseteq Column /\ made' \in [Column -> Nat]
  BY <1>1, AskedAre DEF SceneTyped, SceneTypes
<1>5. /\ tasks' \in Seq(Loads \cup {<<>>})
      /\ ToSet(tasks') = ToSet(tasks) \cup ToSet(added)
  <2>1. added \in Seq(Loads \cup {<<>>})
    BY SeqMonotonic
  <2>2. QED
    BY <1>2, <2>1, ConcatHolds DEF SceneTyped, SceneTypes
<1>6. loaded' \in Seq(Loads)
  BY <1>3, ConcatHolds DEF SceneTyped, SceneTypeOK
<1>7. LoadTasks' \subseteq Loads
  BY <1>5, HeldIs, LoadTasksAre DEF LoadTasks
<1>8. drawOrder' \subseteq Column
  BY DEF UpdateLoads, UpdateDrawOrder, SceneTyped, SceneTypes, SceneTypeOK
<1>9. DOMAIN shown' \subseteq Column /\ shown' \in [DOMAIN shown' -> Nat]
  BY <1>8 DEF UpdateLoads, Draw, With, SceneTyped, SceneTypes, SceneTypeOK
<1>10. SceneTypeOK'
  BY <1>6, <1>7, <1>9 DEF SceneTyped, SceneTypeOK, UpdateLoads, cameraVars, Pairs
<1>11. QED
  BY <1>4, <1>5, <1>8, <1>9, <1>10 DEF SceneTyped, SceneTypes, UpdateLoads

LEMMA DeallocKeepsTypes ==
    ASSUME SceneTyped, DeallocBegins \/ DeallocEnds
    PROVE  SceneTyped'
<1>1. CASE DeallocBegins
  <2>1. UNCHANGED LoadTasks
    BY <1>1 DEF DeallocBegins, LoadTasks
  <2>2. SceneTypeOK'
    BY <1>1, <2>1 DEF DeallocBegins, SceneTyped, SceneTypeOK, cameraVars, Pairs
  <2>3. QED
    BY <1>1, <2>2 DEF DeallocBegins, SceneTyped, SceneTypes
<1>2. CASE DeallocEnds
  <2>1. PICK i \in DOMAIN tasks : tasks' = RemoveAt(tasks, i)
    BY <1>2 DEF DeallocEnds, Running
  <2>2. tasks' \in Seq(Loads \cup {<<>>}) /\ ToSet(tasks') \subseteq ToSet(tasks)
    BY <2>1, RemoveAtHolds DEF SceneTyped, SceneTypes
  <2>3. LoadTasks' \subseteq Loads
    BY <2>2, LoadTasksAre DEF LoadTasks
  <2>4. batch \subseteq Loads
    BY DEF SceneTyped, SceneTypes, SceneTypeOK
  <2>5. SceneTypeOK'
    BY <1>2, <2>3 DEF DeallocEnds, SceneTyped, SceneTypeOK, cameraVars, Pairs
  <2>6. QED
    BY <1>2, <2>2, <2>4, <2>5 DEF DeallocEnds, SceneTyped, SceneTypes
<1>3. QED
  BY <1>1, <1>2

LEMMA LookKeepsTypes ==
    ASSUME SceneTyped, Look \/ ForceSelectionUpdate \/ UNCHANGED sceneVars
    PROVE  SceneTyped'
<1>1. UNCHANGED <<turn, lastPos, lastView, center, visible, shown, cached, loading, tasks,
                  loaded, offScreen, offScreenPos, limit, timer, drawOrder,
                  toDealloc, batch, gone, made, failed>>
  BY DEF Look, ForceSelectionUpdate, sceneVars, cameraVars
<1>2. UNCHANGED LoadTasks
  BY <1>1 DEF LoadTasks
<1>3. camera' \in Column /\ view' \in View
  BY DEF Look, ForceSelectionUpdate, sceneVars, cameraVars, SceneTyped, SceneTypeOK
<1>4. SceneTypeOK'
  BY <1>1, <1>2, <1>3 DEF SceneTyped, SceneTypeOK, Pairs
<1>5. QED
  BY <1>1, <1>4 DEF SceneTyped, SceneTypes

LEMMA SceneTypesKept == SceneTyped /\ [SceneNext]_sceneVars => SceneTyped'
<1> SUFFICES ASSUME SceneTyped, [SceneNext]_sceneVars PROVE SceneTyped'
  OBVIOUS
<1>1. ASSUME NEW i \in Running, tasks[i] # <<>> PROVE tasks[i][2] \in Nat
  BY <1>1, LoadTasksAre DEF Running, Loads
<1>2. CASE ChunkLoaded
  BY <1>1, <1>2, DeliverKeepsTypes DEF ChunkLoaded
<1>3. CASE LoadFails
  BY <1>3, DeliverKeepsTypes DEF LoadFails
<1>4. QED
  BY <1>2, <1>3, LookKeepsTypes, PruneKeepsTypes, UpdateShownKeepsTypes, UpdateLoadsKeepsTypes,
     DeallocKeepsTypes DEF SceneNext, Frame, PoolWork

-----------------------------------------------------------------------------
(* Loads, completions, cached objects, and those that were let go.           *)

SceneStock ==
    /\ EachOnce /\ CachedAreLive /\ NoneForgotten
    /\ LoadingIsNew /\ TasksAreLoads /\ CompletionsAreDue /\ ObjectsAreMade /\ BatchIsAll

LEMMA OnceIs ==
    ASSUME SceneTyped, EachOnce
    PROVE  /\ \A t, u \in LoadTasks : t[1] = u[1] => t = u
           /\ \A l, m \in ToSet(loaded) : l[1] = m[1] => l = m
<1>1. ASSUME NEW t \in LoadTasks, NEW u \in LoadTasks, t[1] = u[1] PROVE t = u
  <2>1. PICK i \in DOMAIN tasks, j \in DOMAIN tasks : tasks[i] = t /\ tasks[j] = u
    BY DEF LoadTasks, ToSet
  <2>2. t # <<>> /\ u # <<>>
    BY DEF LoadTasks
  <2>3. i = j
    BY <1>1, <2>1, <2>2 DEF EachOnce
  <2>4. QED
    BY <2>1, <2>3
<1>2. ASSUME NEW l \in ToSet(loaded), NEW m \in ToSet(loaded), l[1] = m[1] PROVE l = m
  <2>1. PICK i \in DOMAIN loaded, j \in DOMAIN loaded : loaded[i] = l /\ loaded[j] = m
    BY DEF ToSet
  <2>2. i = j
    BY <1>2, <2>1 DEF EachOnce
  <2>3. QED
    BY <2>1, <2>2
<1>3. QED
  BY <1>1, <1>2

(* One task less: what is left keeps its order. *)
LEMMA TaskTaken ==
    ASSUME SceneTyped, EachOnce, NEW i \in Running, tasks' = RemoveAt(tasks, i)
    PROVE  /\ \A j, k \in DOMAIN tasks' : tasks'[j] # <<>> /\ tasks'[k] # <<>> /\ j # k
                                             => tasks'[j][1] # tasks'[k][1]
           /\ LoadTasks' = LoadTasks \ {tasks[i]}
           /\ ToSet(tasks) = ToSet(tasks') \cup {tasks[i]}
<1>1. i \in DOMAIN tasks /\ i \in Nat
  BY LoadTasksAre DEF Running
<1>2. /\ ToSet(tasks) = ToSet(tasks') \cup {tasks[i]}
      /\ \A k \in DOMAIN tasks' :
           k \in Nat /\ From(k, i) \in DOMAIN tasks \ {i} /\ tasks'[k] = tasks[From(k, i)]
  BY <1>1, RemoveAtHolds DEF SceneTyped, SceneTypes
<1>3. ASSUME NEW j \in DOMAIN tasks', NEW k \in DOMAIN tasks',
             tasks'[j] # <<>>, tasks'[k] # <<>>, j # k
      PROVE  tasks'[j][1] # tasks'[k][1]
  <2>1. From(j, i) # From(k, i)
    BY <1>1, <1>2, <1>3 DEF From
  <2>2. QED
    BY <1>2, <1>3, <2>1 DEF EachOnce
<1>4. ASSUME NEW t \in LoadTasks' PROVE t \in LoadTasks /\ t # tasks[i]
  <2>1. PICK k \in DOMAIN tasks' : t = tasks'[k] /\ t # <<>>
    BY DEF LoadTasks, ToSet
  <2>2. From(k, i) \in DOMAIN tasks /\ From(k, i) # i /\ t = tasks[From(k, i)]
    BY <1>2, <2>1
  <2>3. t # tasks[i]
    BY <1>1, <2>1, <2>2 DEF EachOnce
  <2>4. QED
    BY <2>1, <2>2, <2>3 DEF LoadTasks, ToSet
<1>5. ASSUME NEW t \in LoadTasks, t # tasks[i] PROVE t \in LoadTasks'
  BY <1>2, <1>5 DEF LoadTasks
<1>6. QED
  BY <1>2, <1>3, <1>4, <1>5

LEMMA DeliverKeepsStock ==
    ASSUME SceneTyped, SceneStock, NEW i \in Running, tasks[i] # <<>>, NEW n \in Nat,
           Deliver(i, n), gone' = gone, failed \subseteq failed',
           n = tasks[i][2] \/ (n = 0 /\ tasks[i] \in failed')
    PROVE  SceneStock'
<1> USE DEF SceneStock
<1>t. PICK t : t = tasks[i]
  OBVIOUS
<1>l. PICK l : l = <<t[1], n>>
  OBVIOUS
<1>1. /\ t \in LoadTasks /\ t \in Loads /\ t = <<t[1], t[2]>> /\ t[1] \in loading
      /\ t[1] \in Column /\ t[2] = made[t[1]] /\ l \in Loads
  <2>1. t \in LoadTasks /\ t \in Loads
    BY <1>t, LoadTasksAre DEF Running
  <2>2. t = <<t[1], t[2]>> /\ t[1] \in Column /\ l \in Loads
    BY <1>l, <2>1 DEF Loads
  <2>3. QED
    BY <2>1, <2>2 DEF TasksAreLoads
<1>2. /\ \A j, k \in DOMAIN tasks' : tasks'[j] # <<>> /\ tasks'[k] # <<>> /\ j # k
                                        => tasks'[j][1] # tasks'[k][1]
      /\ LoadTasks' = LoadTasks \ {t} /\ ToSet(tasks) = ToSet(tasks') \cup {t}
  BY <1>t, TaskTaken DEF Deliver
<1>3. ToSet(loaded') = ToSet(loaded) \cup {l} /\ loaded \in Seq(Loads)
  <2>1. loaded' = Append(loaded, l) /\ loaded \in Seq(Loads)
    BY <1>t, <1>l DEF Deliver, SceneTyped, SceneTypeOK
  <2>2. QED
    BY <1>1, <2>1, AppendHolds
<1>4. \A j, k \in DOMAIN loaded' : j # k => loaded'[j][1] # loaded'[k][1]
  <2>1. /\ DOMAIN loaded' = 1..(Len(loaded) + 1) /\ Len(loaded) \in Nat
        /\ DOMAIN loaded = 1..Len(loaded)
        /\ \A j \in 1..Len(loaded) : loaded'[j] = loaded[j]
        /\ loaded'[Len(loaded) + 1] = l
    BY <1>1, <1>3, AppendProperties, LenProperties, <1>t, <1>l DEF Deliver
  <2>2. \A j \in 1..Len(loaded) : loaded'[j][1] # l[1]
    BY <1>1, <1>l, <2>1 DEF EachOnce, ToSet
  <2>3. \A j \in DOMAIN loaded' : j \in DOMAIN loaded \/ j = Len(loaded) + 1
    BY <2>1
  <2>4. \A j, k \in DOMAIN loaded : j # k => loaded'[j][1] # loaded'[k][1]
    BY <2>1 DEF EachOnce
  <2>5. QED
    BY <2>1, <2>2, <2>3, <2>4
<1>5. UNCHANGED <<turn, center, loading, cached, made, toDealloc, batch, gone>>
  BY DEF Deliver
<1>6. EachOnce'
  <2>1. \A u \in LoadTasks' : u[1] # t[1] /\ u \in LoadTasks
    BY <1>1, <1>2, OnceIs
  <2>2. \A u \in LoadTasks' : u[1] \in loading' /\ \A m \in ToSet(loaded') : m[1] # u[1]
    BY <1>3, <1>5, <1>l, <2>1 DEF EachOnce
  <2>3. QED
    BY <1>2, <1>4, <2>2 DEF EachOnce
<1>7. NoneForgotten'
  <2>1. ASSUME NEW p \in Column, NEW m \in 1..made[p]
        PROVE  <<p, m>> \in LoadTasks' \cup ToSet(loaded') \cup Pairs(cached)
                                \cup toDealloc \cup gone \cup failed'
    <3>1. <<p, m>> \in LoadTasks \cup ToSet(loaded) \cup Pairs(cached) \cup toDealloc
                          \cup gone \cup failed
      BY DEF NoneForgotten
    <3>2. t = l \/ t \in failed'
      BY <1>1, <1>t, <1>l
    <3>3. QED
      BY <1>2, <1>3, <3>1, <3>2
  <2>2. toDealloc # {} => <<>> \in ToSet(tasks')
    BY <1>2, <1>t DEF NoneForgotten
  <2>3. QED
    BY <1>5, <2>1, <2>2 DEF NoneForgotten, Pairs
<1>8. TasksAreLoads'
  BY <1>2, <1>5 DEF TasksAreLoads
<1>9. CompletionsAreDue'
  <2>1. Completes(l)'
    <3>1. l[1] = t[1] /\ l[2] = n
      BY <1>l
    <3>2. l[2] = made'[l[1]] \/ (l[2] = 0 /\ <<l[1], made'[l[1]]>> \in failed')
      BY <1>1, <1>5, <1>t, <3>1
    <3>3. QED
      BY <1>1, <1>5, <3>1, <3>2 DEF Completes
  <2>2. ASSUME NEW m \in ToSet(loaded) PROVE Completes(m)' \/ Repeats(m)'
    BY <1>5 DEF CompletionsAreDue, Completes, Repeats
  <2>3. QED
    BY <1>3, <2>1, <2>2 DEF CompletionsAreDue
<1>10. CachedAreLive' /\ LoadingIsNew' /\ ObjectsAreMade' /\ BatchIsAll'
  BY <1>5 DEF CachedAreLive, LoadingIsNew, ObjectsAreMade, BatchIsAll, Pairs
<1>11. QED
  BY <1>6, <1>7, <1>8, <1>9, <1>10

LEMMA DeallocKeepsStock ==
    ASSUME SceneTyped, SceneStock, DeallocBegins \/ DeallocEnds
    PROVE  SceneStock'
<1> USE DEF SceneStock
<1>1. CASE DeallocBegins
  <2>1. UNCHANGED <<turn, center, tasks, loaded, loading, cached, made, toDealloc, gone, failed>>
    BY <1>1 DEF DeallocBegins
  <2>2. UNCHANGED LoadTasks
    BY <2>1 DEF LoadTasks
  <2>3. BatchIsAll'
    BY <1>1 DEF DeallocBegins, BatchIsAll
  <2>4. CompletionsAreDue'
    BY <2>1 DEF CompletionsAreDue, Completes, Repeats
  <2>5. QED
    BY <2>1, <2>2, <2>3, <2>4 DEF EachOnce, CachedAreLive, NoneForgotten, LoadingIsNew,
       TasksAreLoads, ObjectsAreMade, Pairs
<1>2. CASE DeallocEnds
  <2>1. PICK i \in Running : tasks[i] = <<>> /\ tasks' = RemoveAt(tasks, i)
                               /\ (batch # {} \/ toDealloc = {})
    BY <1>2 DEF DeallocEnds
  <2>2. /\ \A j, k \in DOMAIN tasks' : tasks'[j] # <<>> /\ tasks'[k] # <<>> /\ j # k
                                          => tasks'[j][1] # tasks'[k][1]
        /\ LoadTasks' = LoadTasks \ {tasks[i]}
    BY <2>1, TaskTaken
  <2>3. LoadTasks' = LoadTasks
    BY <2>1, <2>2 DEF LoadTasks
  <2>4. /\ UNCHANGED <<turn, center, loaded, loading, cached, made, failed>>
        /\ gone' = gone \cup toDealloc /\ toDealloc' = {} /\ batch' = {}
    BY <1>2, <2>1 DEF DeallocEnds, BatchIsAll, SceneTyped, SceneTypeOK
  <2>5. EachOnce'
    BY <2>2, <2>3, <2>4 DEF EachOnce
  <2>6. NoneForgotten'
    BY <2>3, <2>4 DEF NoneForgotten, Pairs
  <2>7. CompletionsAreDue'
    BY <2>4 DEF CompletionsAreDue, Completes, Repeats
  <2>8. QED
    BY <2>3, <2>4, <2>5, <2>6, <2>7 DEF CachedAreLive, LoadingIsNew, TasksAreLoads,
       ObjectsAreMade, BatchIsAll, Pairs
<1>3. QED
  BY <1>1, <1>2

LEMMA PruneKeepsStock ==
    ASSUME SceneTyped, SceneStock, StartOfFrame
    PROVE  SceneStock'
<1> USE DEF SceneStock
<1>1. CASE timer = 0
  <2> DEFINE dropped == IF batch # {} THEN {} ELSE Distant(CacheDistance) \cap DOMAIN cached
             some == Pairs(Restrict(cached, dropped))
  <2>1. /\ cached' = Except(cached, dropped) /\ toDealloc' = toDealloc \cup some
        /\ tasks' = IF batch = {} /\ toDealloc' # {} THEN Append(tasks, <<>>) ELSE tasks
        /\ turn = "start" /\ turn' = "shown"
        /\ UNCHANGED <<center, loading, loaded, batch, gone, made, failed>>
    BY <1>1 DEF StartOfFrame, Prune
  <2>2. dropped \in SUBSET DOMAIN cached /\ \A p \in dropped : Gap(p, center) > CacheDistance
    BY DEF Distant
  <2>3. batch # {} => dropped = {}
    OBVIOUS
  <2> HIDE DEF dropped
  <2>4. /\ DOMAIN cached' = DOMAIN cached \ dropped
        /\ \A p \in DOMAIN cached' : cached'[p] = cached[p]
        /\ some = {<<p, cached[p]>> : p \in dropped}
        /\ Pairs(cached) = Pairs(cached') \cup some
    BY <2>1, <2>2, PruneIs
  <2> HIDE DEF some
  <2>5. /\ LoadTasks' = LoadTasks
        /\ \A j, k \in DOMAIN tasks' : tasks'[j] # <<>> /\ tasks'[k] # <<>> /\ j # k
                                          => tasks'[j][1] # tasks'[k][1]
        /\ toDealloc' # {} => <<>> \in ToSet(tasks')
    <3>1. CASE tasks' = tasks /\ ~(batch = {} /\ toDealloc' # {})
      BY <2>1, <2>3, <2>4, <3>1 DEF LoadTasks, EachOnce, NoneForgotten, SceneTyped, SceneTypeOK
    <3>2. CASE tasks' = Append(tasks, <<>>)
      <4>1. tasks \in Seq(Loads \cup {<<>>}) /\ <<>> \in Loads \cup {<<>>}
        BY DEF SceneTyped, SceneTypes
      <4>2. ToSet(tasks') = ToSet(tasks) \cup {<<>>}
        BY <3>2, <4>1, AppendHolds
      <4>3. \A j \in DOMAIN tasks' : tasks'[j] # <<>> => j \in DOMAIN tasks /\ tasks'[j] = tasks[j]
        <5>1. /\ DOMAIN tasks' = 1..(Len(tasks) + 1) /\ Len(tasks) \in Nat
              /\ DOMAIN tasks = 1..Len(tasks)
              /\ \A j \in 1..Len(tasks) : tasks'[j] = tasks[j]
              /\ tasks'[Len(tasks) + 1] = <<>>
          BY <3>2, <4>1, AppendProperties, LenProperties
        <5>2. QED
          BY <5>1
      <4>4. QED
        BY <4>2, <4>3 DEF LoadTasks, EachOnce
    <3>3. QED
      BY <2>1, <3>1, <3>2
  <2>6. EachOnce'
    BY <2>1, <2>5 DEF EachOnce
  <2>7. CachedAreLive'
    <3>1. Pairs(cached') \cap some = {}
      BY <2>4 DEF Pairs
    <3>2. QED
      BY <2>1, <2>4, <3>1 DEF CachedAreLive
  <2>8. NoneForgotten'
    BY <2>1, <2>4, <2>5 DEF NoneForgotten
  <2>9. LoadingIsNew'
    <3>1. ASSUME NEW p \in loading PROVE <<p, made[p]>> \notin some /\ p \notin DOMAIN cached'
      BY <2>2, <2>4 DEF LoadingIsNew
    <3>2. QED
      BY <2>1, <3>1 DEF LoadingIsNew
  <2>10. CompletionsAreDue'
    <3>1. ASSUME NEW l \in ToSet(loaded), Repeats(l) PROVE Repeats(l)'
      <4>1. l[1] \in Column /\ center \in Column /\ Gap(l[1], center) <= ChunkRange
        BY <3>1 DEF Repeats, SceneTyped, SceneTypes, SceneTypeOK
      <4>2. Gap(l[1], center) \in Int
        <5>1. l[1] \in Int /\ center \in Int
          BY <4>1, SceneBounds
        <5>2. QED
          BY <5>1 DEF Gap
      <4>3. l[1] \notin dropped
        BY <2>2, <4>1, <4>2, SceneBounds
      <4>4. QED
        BY <2>1, <2>4, <3>1, <4>3 DEF Repeats
    <3>2. ASSUME NEW l, Completes(l) PROVE Completes(l)'
      BY <2>1, <3>2 DEF Completes
    <3>3. QED
      BY <2>1, <3>1, <3>2 DEF CompletionsAreDue
  <2>11. ObjectsAreMade'
    BY <2>1, <2>4 DEF ObjectsAreMade
  <2>12. TasksAreLoads' /\ BatchIsAll'
    BY <2>1, <2>3, <2>4, <2>5 DEF TasksAreLoads, BatchIsAll
  <2>13. QED
    BY <2>6, <2>7, <2>8, <2>9, <2>10, <2>11, <2>12
<1>2. CASE timer # 0
  <2>1. /\ UNCHANGED <<center, tasks, loaded, loading, cached, made, toDealloc, batch, gone,
                       failed>>
        /\ turn = "start" /\ turn' = "shown"
    BY <1>2 DEF StartOfFrame
  <2>2. UNCHANGED LoadTasks
    BY <2>1 DEF LoadTasks
  <2>3. CompletionsAreDue'
    BY <2>1 DEF CompletionsAreDue, Completes, Repeats
  <2>4. QED
    BY <2>1, <2>2, <2>3 DEF EachOnce, CachedAreLive, NoneForgotten, LoadingIsNew,
       TasksAreLoads, ObjectsAreMade, BatchIsAll, Pairs
<1>3. QED
  BY <1>1, <1>2

LEMMA UpdateShownKeepsStock ==
    ASSUME SceneTyped, SceneStock, UpdateShown
    PROVE  SceneStock'
<1> USE DEF SceneStock
<1>1. /\ turn = "shown" /\ turn' = "loads"
      /\ cached' = [p \in DOMAIN cached \cup ArrivedAt |->
                      IF p \in ArrivedAt THEN ChunkObj[p] ELSE cached[p]]
      /\ loading' = loading \ {l[1] : l \in ToSet(loaded)} /\ loaded' = <<>>
      /\ UNCHANGED <<tasks, toDealloc, batch, gone, made, failed>>
  BY DEF UpdateShown, UpdateDeferredChunks, With
<1>2. UNCHANGED LoadTasks
  BY <1>1 DEF LoadTasks
<1>3. ToSet(loaded') = {} /\ DOMAIN loaded' = {}
  BY <1>1 DEF ToSet
<1>4. ASSUME NEW p \in ArrivedAt
      PROVE  /\ <<p, ChunkObj[p]>> \in ToSet(loaded)
             /\ \/ p \in loading /\ ChunkObj[p] = made[p]
                \/ p \notin loading /\ p \in DOMAIN cached /\ ChunkObj[p] = cached[p]
  <2>1. <<p, ChunkObj[p]>> \in ToSet(loaded) /\ ChunkObj[p] # 0
    BY ArrivedAre DEF Arrived
  <2>2. Completes(<<p, ChunkObj[p]>>) \/ Repeats(<<p, ChunkObj[p]>>)
    BY <2>1 DEF CompletionsAreDue
  <2>3. QED
    BY <2>1, <2>2 DEF Completes, Repeats, LoadingIsNew
<1>5. \A p \in DOMAIN cached : p \in DOMAIN cached' /\ cached'[p] = cached[p]
  BY <1>1, <1>4 DEF LoadingIsNew
<1>6. ASSUME NEW p \in DOMAIN cached', p \notin DOMAIN cached
      PROVE  p \in loading /\ p \in ArrivedAt /\ cached'[p] = made[p]
  BY <1>1, <1>4, <1>6
<1>7. NoneForgotten'
  <2>1. ASSUME NEW p \in Column, NEW n \in 1..made[p], <<p, n>> \in ToSet(loaded)
        PROVE  <<p, n>> \in Pairs(cached')
    <3>1. n # 0
      BY DEF SceneTyped, SceneTypes
    <3>2. p \in ArrivedAt
      BY <2>1, <3>1 DEF Arrived, ArrivedAt
    <3>3. n = ChunkObj[p]
      BY <1>4, <2>1, <3>2, OnceIs
    <3>4. QED
      BY <1>1, <3>2, <3>3 DEF Pairs
  <2>2. Pairs(cached) \subseteq Pairs(cached')
    BY <1>5 DEF Pairs
  <2>3. QED
    BY <1>1, <1>2, <2>1, <2>2 DEF NoneForgotten
<1>8. LoadingIsNew'
  <2>1. ASSUME NEW p \in loading' PROVE p \in loading /\ p \notin ArrivedAt
    BY <1>1 DEF ArrivedAt, Arrived
  <2>2. ASSUME NEW p \in loading' PROVE p \notin DOMAIN cached'
    BY <1>1, <2>1 DEF LoadingIsNew
  <2>3. QED
    BY <1>1, <2>1, <2>2 DEF LoadingIsNew
<1>9. EachOnce' /\ TasksAreLoads'
  BY <1>1, <1>2, <1>3 DEF EachOnce, TasksAreLoads
<1>10. CachedAreLive'
  <2>1. ASSUME NEW p \in DOMAIN cached' PROVE <<p, cached'[p]>> \notin toDealloc \cup gone
    <3>1. CASE p \in DOMAIN cached
      BY <1>5, <3>1 DEF CachedAreLive, Pairs
    <3>2. CASE p \notin DOMAIN cached
      BY <1>6, <3>2 DEF LoadingIsNew
    <3>3. QED
      BY <3>1, <3>2
  <2>2. QED
    BY <1>1, <2>1 DEF CachedAreLive, Pairs
<1>11. ObjectsAreMade'
  <2>1. ASSUME NEW p \in DOMAIN cached' PROVE cached'[p] \in 1..made[p]
    <3>1. CASE p \in DOMAIN cached
      <4>1. <<p, cached[p]>> \in Pairs(cached)
        BY <3>1 DEF Pairs
      <4>2. QED
        BY <1>5, <3>1, <4>1 DEF ObjectsAreMade
    <3>2. CASE p \notin DOMAIN cached
      <4>1. p \in loading /\ p \in Column /\ made[p] \in Nat /\ made[p] # 0
        BY <1>6, <3>2, ArrivedAre DEF LoadingIsNew, SceneTyped, SceneTypes
      <4>2. QED
        BY <1>6, <3>2, <4>1
    <3>3. QED
      BY <3>1, <3>2
  <2>2. \A l \in Pairs(cached') : l[2] \in 1..made[l[1]]
    BY <2>1 DEF Pairs
  <2>3. QED
    BY <1>1, <2>2 DEF ObjectsAreMade
<1>12. CompletionsAreDue' /\ BatchIsAll'
  BY <1>1, <1>3 DEF CompletionsAreDue, BatchIsAll
<1>13. QED
  BY <1>7, <1>8, <1>9, <1>10, <1>11, <1>12

(* Two sequences, no position twice in either or in both. *)
LEMMA ConcatOnce ==
    ASSUME NEW S, NEW s \in Seq(S), NEW r \in Seq(S),
           \A i, j \in DOMAIN s : s[i] # <<>> /\ s[j] # <<>> /\ i # j => s[i][1] # s[j][1],
           \A i, j \in DOMAIN r : i # j => r[i][1] # r[j][1],
           \A x \in ToSet(s), y \in ToSet(r) : x # <<>> => x[1] # y[1]
    PROVE  \A i, j \in DOMAIN (s \o r) :
             (s \o r)[i] # <<>> /\ (s \o r)[j] # <<>> /\ i # j => (s \o r)[i][1] # (s \o r)[j][1]
<1> DEFINE t == s \o r
<1>1. /\ Len(s) \in Nat /\ Len(r) \in Nat /\ DOMAIN s = 1..Len(s) /\ DOMAIN r = 1..Len(r)
      /\ DOMAIN t = 1..(Len(s) + Len(r))
      /\ \A i \in DOMAIN t : t[i] = IF i <= Len(s) THEN s[i] ELSE r[i - Len(s)]
  BY ConcatProperties, LenProperties
<1> HIDE DEF t
<1>2. ASSUME NEW i \in DOMAIN t
      PROVE  \/ i \in DOMAIN s /\ t[i] = s[i] /\ t[i] \in ToSet(s)
             \/ /\ i \notin DOMAIN s /\ i - Len(s) \in DOMAIN r /\ t[i] = r[i - Len(s)]
                /\ t[i] \in ToSet(r)
  <2>1. CASE i <= Len(s)
    <3>1. i \in DOMAIN s /\ t[i] = s[i]
      BY <1>1, <2>1
    <3>2. QED
      BY <3>1 DEF ToSet
  <2>2. CASE ~(i <= Len(s))
    <3>1. i \notin DOMAIN s /\ i - Len(s) \in DOMAIN r /\ t[i] = r[i - Len(s)]
      BY <1>1, <2>2
    <3>2. QED
      BY <3>1 DEF ToSet
  <2>3. QED
    BY <2>1, <2>2
<1>3. ASSUME NEW i \in DOMAIN t, NEW j \in DOMAIN t, t[i] # <<>>, t[j] # <<>>, i # j
      PROVE  t[i][1] # t[j][1]
  <2>1. CASE i \in DOMAIN s /\ j \in DOMAIN s
    BY <1>2, <1>3, <2>1
  <2>2. CASE i \notin DOMAIN s /\ j \notin DOMAIN s
    <3>1. i - Len(s) # j - Len(s)
      BY <1>1, <1>3
    <3>2. QED
      BY <1>2, <2>2, <3>1
  <2>3. CASE i \in DOMAIN s /\ j \notin DOMAIN s
    BY <1>2, <1>3, <2>3
  <2>4. CASE i \notin DOMAIN s /\ j \in DOMAIN s
    BY <1>2, <1>3, <2>4
  <2>5. QED
    BY <2>1, <2>2, <2>3, <2>4
<1>4. QED
  BY <1>3 DEF t

LEMMA UpdateLoadsKeepsStock ==
    ASSUME SceneTyped, SceneStock, UpdateLoads
    PROVE  SceneStock'
<1> USE DEF SceneStock
<1>P. PICK P : P = {p \in Around(camera) : NewCenter \/ (Turned /\ p # camera)}
  OBVIOUS
<1>1. /\ LoadChunks(P) /\ P \subseteq Column /\ IsFiniteSet(P)
      /\ \A p \in P : Gap(p, camera) <= ChunkRange
      /\ turn = "loads" /\ turn' = "start" /\ center' = camera
      /\ UNCHANGED <<cached, toDealloc, batch, gone, failed>>
  BY <1>P, WantedAre DEF UpdateLoads
<1>f. PICK fake : fake = (P \ DOMAIN shown) \cap DOMAIN cached
  OBVIOUS
<1>n. PICK new : new = P \ (DOMAIN shown \cup DOMAIN cached \cup loading)
  OBVIOUS
<1>2. /\ loading' = loading \cup new
      /\ \A p \in Column : made'[p] = IF p \in new THEN made[p] + 1 ELSE made[p]
  BY <1>1, <1>n, AskedAre
<1>3. PICK added \in Seq(Loads) :
        /\ tasks' = tasks \o added /\ ToSet(added) = {<<p, made'[p]>> : p \in new}
        /\ \A i, j \in DOMAIN added : i # j => added[i][1] # added[j][1]
  <2>1. P \in SUBSET Column
    BY <1>1
  <2>2. \E s \in Seq(Loads) :
          /\ tasks' = tasks \o s
          /\ ToSet(s) = {<<p, made'[p]>> :
                           p \in P \ (DOMAIN shown \cup DOMAIN cached \cup loading)}
          /\ \A i, j \in DOMAIN s : i # j => s[i][1] # s[j][1]
    BY <1>1, <2>1, AskedAre
  <2>3. QED
    BY <1>n, <2>2
<1>4. PICK copies \in Seq(Loads) :
        /\ loaded' = loaded \o copies /\ ToSet(copies) = {<<p, cached[p]>> : p \in fake}
        /\ \A i, j \in DOMAIN copies : i # j => copies[i][1] # copies[j][1]
  <2>1. P \in SUBSET Column
    BY <1>1
  <2>2. \E s \in Seq(Loads) :
          /\ loaded' = loaded \o s
          /\ ToSet(s) = {<<p, cached[p]>> : p \in (P \ DOMAIN shown) \cap DOMAIN cached}
          /\ \A i, j \in DOMAIN s : i # j => s[i][1] # s[j][1]
    BY <1>1, <2>1, AskedAre
  <2>3. QED
    BY <1>f, <2>2
<1>5. /\ new \subseteq Column /\ new \cap loading = {} /\ new \cap DOMAIN cached = {}
      /\ fake \subseteq DOMAIN cached /\ fake \subseteq P /\ fake \cap loading = {}
      /\ loading \subseteq Column
  BY <1>1, <1>f, <1>n DEF LoadingIsNew, SceneTyped, SceneTypes
<1>6. \A p \in Column : made[p] \in Nat /\ (p \in loading => made'[p] = made[p])
  BY <1>2, <1>5 DEF SceneTyped, SceneTypes
<1>7. /\ \A t \in ToSet(added) : t \in Loads /\ t # <<>> /\ t[1] \in new /\ t[2] = made'[t[1]]
      /\ \A l \in ToSet(copies) : l[1] \in fake /\ l[2] = cached[l[1]]
  BY <1>3, <1>4, SceneBounds, HeldIs
<1>8. /\ added \in Seq(Loads \cup {<<>>}) /\ tasks \in Seq(Loads \cup {<<>>})
      /\ ToSet(tasks') = ToSet(tasks) \cup ToSet(added)
  <2>1. added \in Seq(Loads \cup {<<>>}) /\ tasks \in Seq(Loads \cup {<<>>})
    BY SeqMonotonic DEF SceneTyped, SceneTypes
  <2>2. QED
    BY <1>3, <2>1, ConcatHolds
<1>9. LoadTasks' = LoadTasks \cup ToSet(added)
  BY <1>7, <1>8 DEF LoadTasks
<1>10. loaded \in Seq(Loads) /\ ToSet(loaded') = ToSet(loaded) \cup ToSet(copies)
  BY <1>4, ConcatHolds DEF SceneTyped, SceneTypeOK
<1>11. \A l \in ToSet(loaded) : Completes(l) /\ l[1] \in loading
  BY <1>1 DEF CompletionsAreDue, Completes, Repeats
<1>12. \A i, j \in DOMAIN tasks' : tasks'[i] # <<>> /\ tasks'[j] # <<>> /\ i # j
                                     => tasks'[i][1] # tasks'[j][1]
  <2>1. \A x \in ToSet(tasks), y \in ToSet(added) : x # <<>> => x[1] # y[1]
    BY <1>5, <1>7 DEF TasksAreLoads, LoadTasks
  <2>2. \A i, j \in DOMAIN tasks : tasks[i] # <<>> /\ tasks[j] # <<>> /\ i # j
                                     => tasks[i][1] # tasks[j][1]
    BY DEF EachOnce
  <2>3. \A i, j \in DOMAIN added : i # j => added[i][1] # added[j][1]
    BY <1>3
  <2>4. \A i, j \in DOMAIN (tasks \o added) :
          (tasks \o added)[i] # <<>> /\ (tasks \o added)[j] # <<>> /\ i # j
             => (tasks \o added)[i][1] # (tasks \o added)[j][1]
    BY <1>8, <2>1, <2>2, <2>3, ConcatOnce
  <2>5. QED
    BY <1>3, <2>4
<1>13. \A i, j \in DOMAIN loaded' : i # j => loaded'[i][1] # loaded'[j][1]
  <2>1. \A x \in ToSet(loaded), y \in ToSet(copies) : x # <<>> => x[1] # y[1]
    BY <1>5, <1>7, <1>11
  <2>2. \A i, j \in DOMAIN loaded : loaded[i] # <<>> /\ loaded[j] # <<>> /\ i # j
                                      => loaded[i][1] # loaded[j][1]
    BY DEF EachOnce
  <2>c. \A i, j \in DOMAIN copies : i # j => copies[i][1] # copies[j][1]
    BY <1>4
  <2>d. \A i, j \in DOMAIN (loaded \o copies) :
          (loaded \o copies)[i] # <<>> /\ (loaded \o copies)[j] # <<>> /\ i # j
             => (loaded \o copies)[i][1] # (loaded \o copies)[j][1]
    BY <1>10, <2>1, <2>2, <2>c, ConcatOnce
  <2>3. \A i, j \in DOMAIN loaded' : loaded'[i] # <<>> /\ loaded'[j] # <<>> /\ i # j
                                      => loaded'[i][1] # loaded'[j][1]
    BY <1>4, <2>d
  <2>4. loaded' \in Seq(Loads)
    BY <1>4, <1>10, ConcatHolds
  <2>5. \A i \in DOMAIN loaded' : loaded'[i] # <<>>
    BY <2>4, HeldIs, SceneBounds DEF ToSet
  <2>6. QED
    BY <2>3, <2>5
<1>14. EachOnce'
  <2>1. ASSUME NEW t \in LoadTasks' PROVE t[1] \in loading'
    BY <1>2, <1>7, <1>9 DEF TasksAreLoads
  <2>2. ASSUME NEW t \in LoadTasks', NEW l \in ToSet(loaded') PROVE l[1] # t[1]
    <3>1. CASE t \in LoadTasks /\ l \in ToSet(loaded)
      BY <3>1 DEF EachOnce
    <3>2. CASE t \in LoadTasks /\ l \in ToSet(copies)
      BY <1>5, <1>7, <3>2 DEF TasksAreLoads
    <3>3. CASE t \in ToSet(added) /\ l \in ToSet(loaded)
      BY <1>5, <1>7, <1>11, <3>3
    <3>4. CASE t \in ToSet(added) /\ l \in ToSet(copies)
      BY <1>5, <1>7, <3>4
    <3>5. QED
      BY <1>9, <1>10, <3>1, <3>2, <3>3, <3>4
  <2>3. QED
    BY <1>12, <1>13, <2>1, <2>2 DEF EachOnce
<1>15. NoneForgotten'
  <2>1. ASSUME NEW p \in Column, NEW n \in 1..made'[p]
        PROVE  <<p, n>> \in LoadTasks' \cup ToSet(loaded') \cup Pairs(cached)
                                \cup toDealloc \cup gone \cup failed
    <3>1. n \in 1..made[p] \/ (p \in new /\ n = made'[p])
      BY <1>2, <1>6
    <3>2. CASE n \in 1..made[p]
      BY <1>9, <1>10, <3>2 DEF NoneForgotten
    <3>3. CASE p \in new /\ n = made'[p]
      BY <1>3, <1>9, <3>3
    <3>4. QED
      BY <3>1, <3>2, <3>3
  <2>2. toDealloc # {} => <<>> \in ToSet(tasks')
    BY <1>8 DEF NoneForgotten
  <2>3. QED
    BY <1>1, <2>1, <2>2 DEF NoneForgotten, Pairs
<1>16. LoadingIsNew'
  <2>1. ASSUME NEW p \in new
        PROVE  made'[p] # 0 /\ p \notin DOMAIN cached /\ <<p, made'[p]>> \notin toDealloc \cup gone
    <3>1. p \in Column /\ made'[p] = made[p] + 1 /\ made[p] \in Nat
      BY <1>2, <1>5, <1>6
    <3>2. ASSUME <<p, made'[p]>> \in toDealloc \cup gone PROVE FALSE
      <4>1. made'[p] \in 1..made[p]
        BY <3>2 DEF ObjectsAreMade
      <4>2. QED
        BY <3>1, <4>1
    <3>3. QED
      BY <1>5, <3>1, <3>2
  <2>2. ASSUME NEW p \in loading
        PROVE  made'[p] # 0 /\ p \notin DOMAIN cached /\ <<p, made'[p]>> \notin toDealloc \cup gone
    BY <1>5, <1>6 DEF LoadingIsNew
  <2>3. QED
    BY <1>1, <1>2, <2>1, <2>2 DEF LoadingIsNew
<1>17. TasksAreLoads'
  <2>1. \A t \in LoadTasks : t[1] \in loading /\ t[2] = made'[t[1]]
    BY <1>5, <1>6 DEF TasksAreLoads
  <2>2. QED
    BY <1>2, <1>7, <1>9, <2>1 DEF TasksAreLoads
<1>18. CompletionsAreDue'
  <2>1. ASSUME NEW l \in ToSet(loaded) PROVE Completes(l)'
    BY <1>1, <1>2, <1>5, <1>6, <1>11 DEF Completes
  <2>2. ASSUME NEW l \in ToSet(copies) PROVE Repeats(l)'
    BY <1>1, <1>5, <1>7 DEF Repeats
  <2>3. QED
    BY <1>10, <2>1, <2>2 DEF CompletionsAreDue
<1>19. ObjectsAreMade'
  <2>1. ASSUME NEW l \in Pairs(cached) \cup toDealloc \cup gone PROVE l[2] \in 1..made'[l[1]]
    <3>1. l[1] \in Column
      BY DEF Pairs, Loads, SceneTyped, SceneTypes
    <3>2. l[2] \in 1..made[l[1]]
      BY DEF ObjectsAreMade
    <3>3. made'[l[1]] = made[l[1]] \/ made'[l[1]] = made[l[1]] + 1
      BY <1>2, <3>1
    <3>4. QED
      BY <1>6, <3>1, <3>2, <3>3
  <2>2. QED
    BY <1>1, <2>1 DEF ObjectsAreMade, Pairs
<1>20. CachedAreLive' /\ BatchIsAll'
  BY <1>1 DEF CachedAreLive, BatchIsAll, Pairs
<1>21. QED
  BY <1>14, <1>15, <1>16, <1>17, <1>18, <1>19, <1>20

LEMMA LookKeepsStock ==
    ASSUME SceneTyped, SceneStock, Look \/ ForceSelectionUpdate \/ UNCHANGED sceneVars
    PROVE  SceneStock'
<1>1. UNCHANGED <<turn, center, cached, loading, tasks, loaded, toDealloc, batch, gone, made,
                  failed>>
  BY DEF Look, ForceSelectionUpdate, sceneVars, cameraVars
<1>2. UNCHANGED LoadTasks
  BY <1>1 DEF LoadTasks
<1>3. CompletionsAreDue'
  BY <1>1 DEF SceneStock, CompletionsAreDue, Completes, Repeats
<1>4. QED
  BY <1>1, <1>2, <1>3 DEF SceneStock, EachOnce, CachedAreLive, NoneForgotten, LoadingIsNew,
     TasksAreLoads, ObjectsAreMade, BatchIsAll, Pairs

LEMMA SceneStockKept == SceneTyped /\ SceneStock /\ [SceneNext]_sceneVars => SceneStock'
<1> SUFFICES ASSUME SceneTyped, SceneStock, [SceneNext]_sceneVars PROVE SceneStock'
  OBVIOUS
<1>1. ASSUME NEW i \in Running, tasks[i] # <<>> PROVE tasks[i][2] \in Nat
  BY <1>1, LoadTasksAre DEF Running, Loads
<1>2. CASE ChunkLoaded
  BY <1>1, <1>2, DeliverKeepsStock DEF ChunkLoaded
<1>3. CASE LoadFails
  <2>1. PICK i \in Running : /\ tasks[i] # <<>> /\ failed' = failed \cup {tasks[i]}
                             /\ Deliver(i, 0) /\ gone' = gone
    BY <1>3 DEF LoadFails
  <2>2. QED
    BY <2>1, DeliverKeepsStock
<1>4. QED
  BY <1>2, <1>3, LookKeepsStock, PruneKeepsStock, UpdateShownKeepsStock, UpdateLoadsKeepsStock,
     DeallocKeepsStock DEF SceneNext, Frame, PoolWork

LEMMA SceneIInvIs == SceneIInv <=> SceneTyped /\ SceneStock
  BY DEF SceneIInv, SceneInv, SceneTyped, SceneStock

LEMMA SceneInitHolds == SceneInit => SceneIInv
<1> SUFFICES ASSUME SceneInit PROVE SceneIInv
  OBVIOUS
<1>1. /\ DOMAIN shown = {} /\ DOMAIN cached = {} /\ ToSet(tasks) = {} /\ ToSet(loaded) = {}
      /\ DOMAIN tasks = {} /\ DOMAIN loaded = {} /\ DOMAIN offScreen = {}
      /\ shown \in [{} -> Nat] /\ cached \in [{} -> Nat]
  BY DEF SceneInit, ToSet
<1>2. tasks \in Seq(Loads \cup {<<>>}) /\ loaded \in Seq(Loads) /\ offScreen \in Seq(Loads)
  BY EmptyHolds DEF SceneInit
<1>3. 0 \in 0..(5 * EagerReset) /\ 0 \in 0..PruneReset
  BY SceneBounds
<1>4. SceneTypeOK
  BY <1>1, <1>2, <1>3 DEF SceneInit, SceneTypeOK, LoadTasks, Pairs
<1>5. SceneTypes
  BY <1>1, <1>2 DEF SceneInit, SceneTypes
<1>6. EachOnce /\ CachedAreLive /\ NoneForgotten
  BY <1>1 DEF SceneInit, EachOnce, CachedAreLive, NoneForgotten, LoadTasks, Pairs
<1>7. LoadingIsNew /\ TasksAreLoads /\ CompletionsAreDue /\ ObjectsAreMade /\ BatchIsAll
  BY <1>1 DEF SceneInit, LoadingIsNew, TasksAreLoads, CompletionsAreDue, ObjectsAreMade,
     BatchIsAll, LoadTasks, Pairs
<1>8. QED
  BY <1>4, <1>5, <1>6, <1>7 DEF SceneIInv, SceneInv

LEMMA SceneStep == SceneIInv /\ [SceneNext]_sceneVars => SceneIInv'
<1> SUFFICES ASSUME SceneIInv, [SceneNext]_sceneVars PROVE SceneIInv'
  OBVIOUS
<1>1. SceneTyped' /\ SceneStock'
  BY SceneIInvIs, SceneTypesKept, SceneStockKept
<1>2. QED
  BY <1>1 DEF SceneIInv, SceneInv, SceneTyped, SceneStock

(* For any number of positions, views, threads and any limits, the chunk    *)
(* loader asks for a position once at a time, what it hands out is not let  *)
(* go, and no chunk is dropped without being looked at for unsaved changes. *)
THEOREM SceneSafe == SceneSpec => []SceneInv
<1>1. SceneSpec => []SceneIInv
  BY SceneInitHolds, SceneStep, PTL DEF SceneSpec
<1>2. SceneIInv => SceneInv
  BY DEF SceneIInv
<1>3. QED
  BY <1>1, <1>2, PTL

-----------------------------------------------------------------------------
(* Globules.  The inductive invariant: what a globule draws that is not      *)
(* marked is as the blocks are, and each face in sight is drawn by the one   *)
(* globule that has to, or that one is marked, or the face is one of those   *)
(* that markBlockChanged forgets.                                            *)

Own(f) == Globe(f[1])
Under(g) == <<g[1], g[2] - Edge, g[3]>>

(* The globule that has to draw a face: the one of the block, but for the    *)
(* lower face of a block of its first slice, which the globule below draws.  *)
Home(f) ==
    IF f[2] = <<0,-1,0>> /\ f[1][2] % Edge = 0 THEN Under(Own(f)) ELSE Own(f)

Excepted(f) == f[2] = <<-1,0,0>> /\ f[1][1] % Edge = 0 /\ changes > 0

FacesAreOfGlobule ==
    \A g \in GlobPos : \A f \in faces[g] :
        f[1][1] \in g[1]..(g[1] + Edge - 1) /\ f[1][3] \in g[3]..(g[3] + Edge - 1)

OldFacesAreMarked == \A g \in GlobPos \ work : \A f \in faces[g] : f[3] = BlockAt(f[1])

HomeDrawsOrIsMarked ==
    \A f \in InSight : Home(f) \in work \/ f \in faces[Home(f)] \/ Excepted(f)

GlobuleIInv ==
    /\ GlobuleTypeOK /\ changes \in Nat
    /\ FacesAreOfGlobule /\ OldFacesAreMarked /\ HomeDrawsOrIsMarked

LEMMA RemainderIs ==
    ASSUME NEW p \in Nat, NEW d \in Nat \ {0}
    PROVE  /\ p % d \in 0..(d - 1) /\ p \div d \in Nat /\ p = d * (p \div d) + (p % d)
           /\ d * (p \div d) \in Nat
<1>1. p \div d \in Nat
  OBVIOUS
<1>2. p = d * (p \div d) + (p % d)
  OBVIOUS
<1>3. p % d \in 0..(d - 1)
  OBVIOUS
<1>4. d * (p \div d) \in Nat
  BY <1>1
<1>5. QED
  BY <1>1, <1>2, <1>3, <1>4

LEMMA RemainderOf ==
    ASSUME NEW d \in Nat \ {0}, NEW q \in Nat, NEW r \in 0..(d - 1)
    PROVE  (d * q + r) % d = r
<1> DEFINE p == d * q + r
           k == p \div d
           m == p % d
<1>1. p \in Nat
  OBVIOUS
<1>2. m \in 0..(d - 1) /\ k \in Nat /\ p = d * k + m
  BY <1>1, RemainderIs
<1> HIDE DEF k, m
<1>3. k = q
  <2>1. CASE k > q
    <3>1. d * k >= d * (q + 1)
      BY <1>2, <2>1
    <3>2. d * (q + 1) = d * q + d
      OBVIOUS
    <3>3. QED
      BY <1>2, <3>1, <3>2
  <2>2. CASE k < q
    <3>1. d * q >= d * (k + 1)
      BY <1>2, <2>2
    <3>2. d * (k + 1) = d * k + d
      BY <1>2
    <3>3. QED
      BY <1>2, <3>1, <3>2
  <2>3. QED
    BY <1>2, <2>1, <2>2
<1>4. m = r
  BY <1>2, <1>3
<1>5. QED
  BY <1>4 DEF m

(* Multiples of a number d, and the one at or under another number. *)
LEMMA BaseIs ==
    ASSUME NEW d \in Nat \ {0, 1}, NEW a \in Nat
    PROVE  /\ a % d \in 0..(d - 1) /\ a - (a % d) \in Nat /\ a - (a % d) <= a
           /\ a < a - (a % d) + d /\ (a - (a % d)) % d = 0
           /\ a > 0 /\ a % d = 0 => (a - 1) % d = d - 1 /\ a >= d
           /\ a % d > 0 => a > 0 /\ (a - 1) % d = (a % d) - 1
           /\ a % d = d - 1 => (a + 1) % d = 0
           /\ a % d < d - 1 => (a + 1) % d = (a % d) + 1
           /\ (a + d) % d = a % d
           /\ a >= d => (a - d) % d = a % d
<1> DEFINE q == a \div d
           r == a % d
<1>1. r \in 0..(d - 1) /\ q \in Nat /\ a = d * q + r /\ d * q \in Nat
  BY RemainderIs
<1> HIDE DEF q, r
<1>2. a - r = d * q + 0 /\ (d * q + 0) % d = 0
  <2>1. 0 \in 0..(d - 1)
    OBVIOUS
  <2>2. QED
    BY <1>1, <2>1, RemainderOf
<1>3. ASSUME a > 0, r = 0 PROVE (a - 1) % d = d - 1 /\ a >= d
  <2>1. q > 0
    BY <1>1, <1>3
  <2>2. d * (q - 1) = d * q - d /\ q - 1 \in Nat /\ d * q >= d
    BY <1>1, <2>1
  <2>3. a - 1 = d * (q - 1) + (d - 1) /\ d - 1 \in 0..(d - 1)
    BY <1>1, <1>3, <2>2
  <2>4. (d * (q - 1) + (d - 1)) % d = d - 1
    BY <2>2, <2>3, RemainderOf
  <2>5. QED
    BY <1>1, <1>3, <2>2, <2>3, <2>4
<1>4. ASSUME r > 0 PROVE a > 0 /\ (a - 1) % d = r - 1
  <2>1. a - 1 = d * q + (r - 1) /\ r - 1 \in 0..(d - 1) /\ a > 0
    BY <1>1, <1>4
  <2>2. QED
    BY <1>1, <2>1, RemainderOf
<1>5. ASSUME r = d - 1 PROVE (a + 1) % d = 0
  <2>1. d * (q + 1) = d * q + d
    BY <1>1
  <2>2. a + 1 = d * (q + 1) + 0 /\ q + 1 \in Nat /\ 0 \in 0..(d - 1)
    BY <1>1, <1>5, <2>1
  <2>3. (d * (q + 1) + 0) % d = 0
    BY <2>2, RemainderOf
  <2>4. QED
    BY <2>2, <2>3
<1>6. ASSUME r < d - 1 PROVE (a + 1) % d = r + 1
  <2>1. a + 1 = d * q + (r + 1) /\ r + 1 \in 0..(d - 1)
    BY <1>1, <1>6
  <2>2. QED
    BY <1>1, <2>1, RemainderOf
<1>7. (a + d) % d = r
  <2>1. d * (q + 1) = d * q + d
    BY <1>1
  <2>2. a + d = d * (q + 1) + r /\ q + 1 \in Nat
    BY <1>1, <2>1
  <2>3. (d * (q + 1) + r) % d = r
    BY <1>1, <2>2, RemainderOf
  <2>4. QED
    BY <2>2, <2>3
<1>8. ASSUME a >= d PROVE (a - d) % d = r
  <2>1. q > 0
    BY <1>1, <1>8
  <2>2. d * (q - 1) = d * q - d /\ q - 1 \in Nat
    BY <1>1, <2>1
  <2>3. a - d = d * (q - 1) + r
    BY <1>1, <2>2
  <2>4. (d * (q - 1) + r) % d = r
    BY <1>1, <2>2, RemainderOf
  <2>5. QED
    BY <2>3, <2>4
<1>9. /\ r \in 0..(d - 1) /\ a - r \in Nat /\ a - r <= a /\ a < a - r + d /\ (a - r) % d = 0
  BY <1>1, <1>2
<1>10. QED
  BY <1>3, <1>4, <1>5, <1>6, <1>7, <1>8, <1>9 DEF r

(* Two multiples that a number is less than d above are one. *)
LEMMA BaseUnique ==
    ASSUME NEW d \in Nat \ {0, 1}, NEW g \in Nat, NEW a \in g..(g + d - 1), g % d = 0
    PROVE  g = a - (a % d)
<1> DEFINE q == g \div d
           r == a - g
<1>1. q \in Nat /\ g = d * q /\ d * q \in Nat
  BY RemainderIs
<1>2. r \in 0..(d - 1) /\ a = g + r
  OBVIOUS
<1> HIDE DEF q, r
<1>3. (d * q + r) % d = r
  BY <1>1, <1>2, RemainderOf
<1>4. a % d = r
  BY <1>1, <1>2, <1>3
<1>5. QED
  BY <1>2, <1>4

(* A multiple of d that is less than d * n leaves room for d. *)
LEMMA RoomAbove ==
    ASSUME NEW d \in Nat \ {0, 1}, NEW n \in Nat \ {0}, NEW g \in 0..(d * n - 1), g % d = 0
    PROVE  g + d <= d * n
<1> DEFINE q == g \div d
<1>1. g \in Nat /\ d * n \in Nat
  OBVIOUS
<1>2. q \in Nat /\ g = d * q /\ d * q \in Nat
  BY <1>1, RemainderIs
<1> HIDE DEF q
<1>3. q < n
  <2>1. CASE q >= n
    <3>1. d * q >= d * n
      BY <1>2, <2>1
    <3>2. QED
      BY <1>1, <1>2, <3>1
  <2>2. QED
    BY <1>2, <2>1
<1>4. d * n >= d * (q + 1) /\ d * (q + 1) = d * q + d
  BY <1>2, <1>3
<1>5. QED
  BY <1>1, <1>2, <1>4

LEMMA SmallRemainder ==
    ASSUME NEW d \in Nat \ {0}, NEW x \in 0..(d - 1)
    PROVE  x % d = x
<1>1. 0 \in Nat /\ d * 0 + x = x
  OBVIOUS
<1>2. (d * 0 + x) % d = x
  BY <1>1, RemainderOf
<1>3. QED
  BY <1>1, <1>2

LEMMA GlobuleNumbers ==
    /\ Edge \in Nat \ {0, 1} /\ PerAxis \in Nat \ {0} /\ Layers \in Nat \ {0}
    /\ Size[1] = Edge * PerAxis /\ Size[3] = Edge * PerAxis /\ Height = Size[2]
    /\ Size[2] = Edge * Layers /\ \A i \in 1..3 : Size[i] \in Nat \ {0}
<1>1. Edge \in Nat \ {0, 1} /\ PerAxis \in Nat \ {0} /\ Layers \in Nat \ {0}
  BY GlobuleAssumption
<1>2. /\ Size[1] = Edge * PerAxis /\ Size[3] = Edge * PerAxis /\ Height = Size[2]
      /\ Size[2] = Edge * Layers
  BY DEF Size, Height
<1>3. Edge * PerAxis \in Nat \ {0} /\ Edge * Layers \in Nat \ {0}
  BY <1>1
<1>4. \A i \in 1..3 : i = 1 \/ i = 2 \/ i = 3
  OBVIOUS
<1>5. QED
  BY <1>1, <1>2, <1>3, <1>4

LEMMA BlocksAre ==
    ASSUME NEW b \in Block
    PROVE  /\ b = <<b[1], b[2], b[3]>>
           /\ \A i \in 1..3 : b[i] \in 0..(Size[i] - 1) /\ b[i] \in Nat
<1>1. /\ b = <<b[1], b[2], b[3]>> /\ b[1] \in 0..(Size[1] - 1) /\ b[2] \in 0..(Size[2] - 1)
      /\ b[3] \in 0..(Size[3] - 1)
  BY GlobuleNumbers DEF Block
<1>2. \A i \in 1..3 : i = 1 \/ i = 2 \/ i = 3
  OBVIOUS
<1>3. \A i \in 1..3 : b[i] \in 0..(Size[i] - 1)
  BY <1>1, <1>2
<1>4. \A i \in 1..3 : b[i] \in Nat
  BY <1>3, GlobuleNumbers
<1>5. QED
  BY <1>1, <1>3, <1>4

LEMMA BlockOf ==
    ASSUME NEW x \in 0..(Size[1] - 1), NEW y \in 0..(Size[2] - 1), NEW z \in 0..(Size[3] - 1)
    PROVE  <<x, y, z>> \in Block
  BY GlobuleNumbers DEF Block

LEMMA GlobuleOf ==
    ASSUME NEW b, b \in Block, \A i \in 1..3 : b[i] % Edge = 0
    PROVE  b \in GlobPos
  BY DEF GlobPos

(* A globule is in the chunk as a whole. *)
LEMMA GlobulesFit ==
    ASSUME NEW g \in GlobPos, NEW i \in 1..3
    PROVE  g[i] + Edge <= Size[i] /\ g[i] % Edge = 0 /\ g \in Block
<1>1. g \in Block /\ g[i] % Edge = 0 /\ g[i] \in 0..(Size[i] - 1)
  BY BlocksAre DEF GlobPos
<1>2. \E n \in Nat \ {0} : Size[i] = Edge * n
  <2>1. i = 1 \/ i = 2 \/ i = 3
    OBVIOUS
  <2>2. QED
    BY <2>1, GlobuleNumbers
<1>3. PICK n \in Nat \ {0} : Size[i] = Edge * n
  BY <1>2
<1>4. g[i] + Edge <= Edge * n
  BY <1>1, <1>3, RoomAbove, GlobuleNumbers
<1>5. QED
  BY <1>1, <1>3, <1>4

(* The globule of a block, and the edges of it that the block is at. *)
LEMMA GlobeIs ==
    ASSUME NEW b \in Block
    PROVE  /\ Globe(b) \in GlobPos
           /\ Globe(b) = <<b[1] - (b[1] % Edge), b[2] - (b[2] % Edge), b[3] - (b[3] % Edge)>>
           /\ \A i \in 1..3 : /\ Globe(b)[i] = b[i] - (b[i] % Edge)
                             /\ b[i] \in Globe(b)[i]..(Globe(b)[i] + Edge - 1)
<1>1. Edge \in Nat \ {0, 1} /\ \A i \in 1..3 : Size[i] \in Nat \ {0}
  BY GlobuleNumbers
<1>2. \A i \in 1..3 : b[i] \in 0..(Size[i] - 1) /\ b[i] \in Nat
  BY BlocksAre
<1>3. ASSUME NEW i \in 1..3
      PROVE  /\ b[i] - (b[i] % Edge) \in 0..(Size[i] - 1)
             /\ (b[i] - (b[i] % Edge)) % Edge = 0
             /\ b[i] \in (b[i] - (b[i] % Edge))..(b[i] - (b[i] % Edge) + Edge - 1)
  <2> DEFINE r == b[i] % Edge
  <2>1. /\ r \in 0..(Edge - 1) /\ b[i] - r \in Nat /\ b[i] - r <= b[i]
        /\ b[i] < b[i] - r + Edge /\ (b[i] - r) % Edge = 0
    BY <1>1, <1>2, BaseIs
  <2> HIDE DEF r
  <2>2. b[i] - r \in 0..(Size[i] - 1) /\ b[i] \in (b[i] - r)..(b[i] - r + Edge - 1)
    BY <1>1, <1>2, <2>1
  <2>3. QED
    BY <2>1, <2>2 DEF r
<1>4. Globe(b) = <<b[1] - (b[1] % Edge), b[2] - (b[2] % Edge), b[3] - (b[3] % Edge)>>
  BY DEF Globe
<1>5. \A i \in 1..3 : Globe(b)[i] = b[i] - (b[i] % Edge)
  BY DEF Globe
<1>6. Globe(b) \in Block
  BY <1>3, <1>4, BlockOf
<1>7. Globe(b) \in GlobPos
  BY <1>3, <1>5, <1>6, GlobuleOf
<1>8. QED
  BY <1>3, <1>4, <1>5, <1>7

(* The neighbours of the globule of a block that are marked with it. *)
LEMMA LowerIsMarked ==
    ASSUME NEW b \in Block, NEW i \in 1..3, b[i] % Edge = 0, b[i] >= Edge, NEW e, e = b[i] - Edge
    PROVE  /\ [Globe(b) EXCEPT ![i] = e] \in Marked(b)
           /\ Globe(b)[i] = b[i]
<1>1. Edge \in Nat \ {0, 1} /\ Size[i] \in Nat \ {0} /\ b[i] \in 0..(Size[i] - 1)
  BY GlobuleNumbers, BlocksAre
<1>2. Globe(b)[i] = b[i]
  BY <1>1, GlobeIs
<1>3. (b[i] + (-1) * Edge) % Size[i] = b[i] - Edge
  <2>1. b[i] + (-1) * Edge = b[i] - Edge /\ b[i] - Edge \in 0..(Size[i] - 1)
    BY <1>1
  <2>2. (b[i] - Edge) % Size[i] = b[i] - Edge
    BY <1>1, <2>1, SmallRemainder
  <2>3. QED
    BY <2>1, <2>2
<1>4. Moved(Globe(b), i, -1) = [Globe(b) EXCEPT ![i] = b[i] - Edge]
  BY <1>2, <1>3 DEF Moved
<1>5. i \in {j \in 1..3 : b[j] % Edge = 0 /\ Globe(b)[j] >= Edge}
  BY <1>2
<1>6. QED
  BY <1>2, <1>4, <1>5 DEF Marked

LEMMA UpperIsMarked ==
    ASSUME NEW b \in Block, b[3] % Edge = Edge - 1, b[3] + 1 < Size[3]
    PROVE  [Globe(b) EXCEPT ![3] = b[3] + 1] \in Marked(b)
<1>1. Edge \in Nat \ {0, 1} /\ Size[3] \in Nat \ {0} /\ b[3] \in 0..(Size[3] - 1)
  BY GlobuleNumbers, BlocksAre
<1>2. Globe(b)[3] = b[3] - (b[3] % Edge)
  BY <1>1, GlobeIs
<1>3. (Globe(b)[3] + 1 * Edge) % Size[3] = b[3] + 1
  <2>1. Globe(b)[3] + 1 * Edge = b[3] + 1 /\ b[3] + 1 \in 0..(Size[3] - 1)
    BY <1>1, <1>2
  <2>2. (b[3] + 1) % Size[3] = b[3] + 1
    BY <1>1, <2>1, SmallRemainder
  <2>3. QED
    BY <2>1, <2>2
<1>4. Moved(Globe(b), 3, 1) = [Globe(b) EXCEPT ![3] = b[3] + 1]
  BY <1>3 DEF Moved
<1>5. 3 \in {j \in 1..3 : b[j] % Edge = Edge - 1 /\ Globe(b)[j] + Edge < Size[j]}
  BY <1>1, <1>2
<1>6. QED
  BY <1>4, <1>5 DEF Marked

LEMMA OwnIsMarked == ASSUME NEW b \in Block PROVE Globe(b) \in Marked(b)
  BY DEF Marked

LEMMA MarkedAreGlobules ==
    ASSUME NEW b \in Block
    PROVE  Marked(b) \subseteq GlobPos
<1>1. Edge \in Nat \ {0, 1} /\ Globe(b) \in GlobPos
  BY GlobuleNumbers, GlobeIs
<1>2. ASSUME NEW i \in 1..3, NEW n \in {-1, 1}, n = -1 => Globe(b)[i] >= Edge
      PROVE  Moved(Globe(b), i, n) \in GlobPos
  <2> DEFINE g == Globe(b)
             m == g[i] + n * Edge
             r == m % Size[i]
  <2>1. /\ g \in Block /\ Size[i] \in Nat \ {0} /\ g[i] \in 0..(Size[i] - 1)
        /\ g[i] % Edge = 0 /\ g[i] + Edge <= Size[i] /\ \A j \in 1..3 : g[j] % Edge = 0
    BY <1>1, GlobulesFit, BlocksAre, GlobuleNumbers
  <2>2. r \in 0..(Size[i] - 1) /\ r % Edge = 0
    <3>1. CASE n = -1
      <4>1. m = g[i] - Edge /\ m \in 0..(Size[i] - 1)
        BY <1>1, <1>2, <2>1, <3>1
      <4>2. m % Edge = 0
        <5>1. g[i] \in Nat /\ g[i] >= Edge
          BY <1>2, <2>1, <3>1
        <5>2. (g[i] - Edge) % Edge = g[i] % Edge
          BY <1>1, <5>1, BaseIs
        <5>3. QED
          BY <2>1, <4>1, <5>2
      <4>3. r = m
        <5> HIDE DEF m
        <5>1. QED
          BY <2>1, <4>1, SmallRemainder
      <4>4. QED
        BY <4>1, <4>2, <4>3
    <3>2. CASE n = 1 /\ g[i] + Edge < Size[i]
      <4>1. m = g[i] + Edge /\ m \in 0..(Size[i] - 1)
        BY <1>1, <2>1, <3>2
      <4>2. m % Edge = 0
        <5>1. g[i] \in Nat
          BY <2>1
        <5>2. (g[i] + Edge) % Edge = g[i] % Edge
          BY <1>1, <5>1, BaseIs
        <5>3. QED
          BY <2>1, <4>1, <5>2
      <4>3. r = m
        <5> HIDE DEF m
        <5>1. QED
          BY <2>1, <4>1, SmallRemainder
      <4>4. QED
        BY <4>1, <4>2, <4>3
    <3>3. CASE n = 1 /\ g[i] + Edge = Size[i]
      <4>1. m = Size[i]
        BY <1>1, <2>1, <3>3
      <4>2. Size[i] * 1 + 0 = Size[i] /\ 0 \in 0..(Size[i] - 1)
        BY <2>1
      <4>3. (Size[i] * 1 + 0) % Size[i] = 0
        BY <2>1, <4>2, RemainderOf
      <4>4. r = 0
        BY <4>1, <4>2, <4>3
      <4>5. Edge * 0 + 0 = 0 /\ (Edge * 0 + 0) % Edge = 0
        BY <1>1, RemainderOf
      <4>6. QED
        BY <2>1, <4>4, <4>5
    <3>4. QED
      BY <1>1, <2>1, <3>1, <3>2, <3>3
  <2>3. Moved(g, i, n) = [g EXCEPT ![i] = r]
    BY DEF Moved
  <2> HIDE DEF r, m
  <2>4. g = <<g[1], g[2], g[3]>> /\ \A j \in 1..3 : g[j] \in 0..(Size[j] - 1)
    BY <2>1, BlocksAre
  <2> DEFINE h == [g EXCEPT ![i] = r]
  <2>5. /\ h = <<h[1], h[2], h[3]>>
        /\ \A j \in 1..3 : h[j] \in 0..(Size[j] - 1) /\ h[j] % Edge = 0
    <3> HIDE DEF g
    <3>1. i = 1 \/ i = 2 \/ i = 3
      OBVIOUS
    <3>2. h[i] = r /\ \A j \in (1..3) \ {i} : h[j] = g[j]
      BY <2>4
    <3>3. h = <<h[1], h[2], h[3]>>
      BY <2>4, <3>1
    <3>4. QED
      BY <2>1, <2>2, <2>4, <3>2, <3>3
  <2> HIDE DEF h
  <2>6. h \in Block
    BY <2>5, BlockOf
  <2>7. QED
    BY <2>3, <2>5, <2>6, GlobuleOf DEF h
<1>3. Marked(b) = {Globe(b)}
          \cup {Moved(Globe(b), i, -1) :
                  i \in {i \in 1..3 : b[i] % Edge = 0 /\ Globe(b)[i] >= Edge}}
          \cup {Moved(Globe(b), IF i = 1 THEN 3 ELSE i, 1) :
                  i \in {i \in 1..3 : b[i] % Edge = Edge - 1 /\ Globe(b)[i] + Edge < Size[i]}}
  BY DEF Marked
<1>4. QED
  BY <1>1, <1>2, <1>3

LEMMA DirectionIs ==
    ASSUME NEW d \in Direction
    PROVE  /\ d = <<d[1], d[2], d[3]>> /\ d[1] \in {-1, 0, 1} /\ d[2] \in {-1, 0, 1}
           /\ d[3] \in {-1, 0, 1}
           /\ d[2] # 0 => d[1] = 0 /\ d[3] = 0
           /\ d # <<0,-1,0>> /\ d # <<0,1,0>> => d[2] = 0
  BY DEF Direction

(* Where the blocks are air, from what the chunk holds. *)
LEMMA OutsideIsAir ==
    ASSUME DOMAIN block \subseteq Block, NEW b, b \notin Block
    PROVE  Air(b)
  BY DEF Air, BlockAt

LEMMA SidesAre ==
    ASSUME DOMAIN block \subseteq Block, NEW f \in InSight
    PROVE  /\ f[1] \in DOMAIN block /\ f[1] \in Block /\ f[2] \in Direction
           /\ f = <<f[1], f[2], block[f[1]]>> /\ f[3] = block[f[1]]
           /\ Next(f[1], f[2])[2] >= 0 /\ Air(Next(f[1], f[2]))
<1>1. f \in Sides /\ Next(f[1], f[2])[2] >= 0
      /\ (Next(f[1], f[2]) \notin Block \/ Air(Next(f[1], f[2])))
  BY DEF InSight
<1>2. PICK b \in DOMAIN block, d \in Direction : f = <<b, d, block[b]>>
  BY <1>1 DEF Sides
<1>3. f[1] = b /\ f[2] = d /\ f[3] = block[b]
  BY <1>2
<1>4. QED
  BY <1>1, <1>2, <1>3, OutsideIsAir

(* The globule that has to draw a face is one, and the block is in its range. *)
LEMMA HomeIs ==
    ASSUME NEW f, f[1] \in Block, f[2] \in Direction, Next(f[1], f[2])[2] >= 0
    PROVE  /\ Home(f) \in GlobPos
           /\ f[1][1] \in Home(f)[1]..(Home(f)[1] + Edge - 1)
           /\ f[1][3] \in Home(f)[3]..(Home(f)[3] + Edge - 1)
           /\ f[1][2] \in Slices(Home(f))
           /\ f[2] = <<0,-1,0>> => f[1][2] > Home(f)[2]
           /\ f[2] = <<0,-1,0>> /\ f[1][2] % Edge = 0 =>
                f[1][2] >= Edge /\ Home(f) = [Globe(f[1]) EXCEPT ![2] = f[1][2] - Edge]
           /\ ~(f[2] = <<0,-1,0>> /\ f[1][2] % Edge = 0) => Home(f) = Globe(f[1])
<1> DEFINE b == f[1]
           g == Globe(b)
<1>1. /\ b \in Block /\ b[2] \in Nat /\ b[2] < Height /\ Edge \in Nat \ {0, 1}
      /\ g \in GlobPos /\ g \in Block
      /\ g[1] \in Nat /\ g[2] \in Nat /\ g[3] \in Nat /\ Height \in Nat
      /\ g = <<g[1], g[2], g[3]>> /\ g[2] + Edge <= Height
      /\ \A i \in 1..3 : b[i] \in g[i]..(g[i] + Edge - 1) /\ g[i] = b[i] - (b[i] % Edge)
  <2>1. b \in Block /\ Edge \in Nat \ {0, 1} /\ Height = Size[2] /\ Height \in Nat
    BY GlobuleNumbers
  <2>2. /\ g \in GlobPos
        /\ \A i \in 1..3 : b[i] \in g[i]..(g[i] + Edge - 1) /\ g[i] = b[i] - (b[i] % Edge)
    BY <2>1, GlobeIs
  <2>3. g \in Block /\ g[2] + Edge <= Height
    BY <2>1, <2>2, GlobulesFit
  <2>4. /\ g[1] \in Nat /\ g[2] \in Nat /\ g[3] \in Nat /\ b[2] \in Nat /\ b[2] < Height
        /\ g = <<g[1], g[2], g[3]>>
    <3> HIDE DEF g, b
    <3>1. g = <<g[1], g[2], g[3]>> /\ \A i \in 1..3 : g[i] \in Nat
      BY <2>3, BlocksAre
    <3>2. b[2] \in 0..(Height - 1)
      BY <2>1, BlocksAre
    <3>3. QED
      BY <2>1, <3>1, <3>2
  <2>5. QED
    BY <2>1, <2>2, <2>3, <2>4
<1> HIDE DEF g, b
<1>2. CASE f[2] = <<0,-1,0>> /\ b[2] % Edge = 0
  <2>1. b[2] > 0
    <3>1. Next(b, f[2])[2] = b[2] + f[2][2]
      BY DEF Next
    <3>2. f[2][2] = -1
      BY <1>2
    <3>3. b[2] + f[2][2] >= 0
      BY <3>1 DEF b
    <3>4. QED
      BY <1>1, <3>2, <3>3
  <2>2. b[2] >= Edge /\ (b[2] - Edge) % Edge = 0 /\ g[2] = b[2]
    BY <1>1, <1>2, <2>1, BaseIs
  <2>3. Home(f) = <<g[1], g[2] - Edge, g[3]>>
    BY <1>2 DEF Home, Own, Under, b, g
  <2> DEFINE h == <<g[1], g[2] - Edge, g[3]>>
  <2>4. h = [g EXCEPT ![2] = b[2] - Edge]
    <3>1. PICK x \in Nat, y \in Nat, z \in Nat : g = <<x, y, z>>
      BY <1>1
    <3>2. [g EXCEPT ![2] = b[2] - Edge] = <<x, b[2] - Edge, z>>
      BY <3>1
    <3>3. h = <<x, b[2] - Edge, z>>
      BY <2>2, <3>1
    <3>4. QED
      BY <3>2, <3>3
  <2>5. h[1] = g[1] /\ h[2] = b[2] - Edge /\ h[3] = g[3]
    BY <2>2
  <2>6. g[1] \in 0..(Size[1] - 1) /\ g[3] \in 0..(Size[3] - 1) /\ g[2] \in 0..(Size[2] - 1)
    BY <1>1, BlocksAre
  <2>7. h \in Block
    <3>1. g[2] - Edge \in 0..(Size[2] - 1)
      <4>1. Size[2] \in Nat /\ g[2] >= Edge /\ g[2] \in Nat /\ g[2] <= Size[2] - 1
        BY <1>1, <2>2, <2>6, GlobuleNumbers
      <4>2. QED
        BY <1>1, <4>1
    <3>2. QED
      BY <2>6, <3>1, BlockOf
  <2>8. \A i \in 1..3 : g[i] % Edge = 0
    BY <1>1, GlobulesFit
  <2>9. \A i \in 1..3 : h[i] % Edge = 0
    <3>1. \A i \in 1..3 : i = 1 \/ i = 2 \/ i = 3
      OBVIOUS
    <3>2. QED
      BY <2>2, <2>5, <2>8, <3>1
  <2>10. h \in GlobPos
    BY <2>7, <2>9, GlobuleOf
  <2> HIDE DEF h
  <2>11. b[2] \in Slices(h)
    <3>0. b[2] \in Nat /\ Edge \in Nat /\ b[2] >= Edge /\ h[2] = b[2] - Edge
      BY <1>1, <2>2, <2>5
    <3>1. h[2] + Edge = b[2] /\ h[2] \in Nat
      BY <3>0
    <3>2. Slices(h) = h[2]..(h[2] + Edge)
      BY <1>1, <3>1 DEF Slices
    <3>3. b[2] \in h[2]..(h[2] + Edge)
      BY <3>0, <3>1
    <3>4. QED
      BY <3>2, <3>3
  <2>12. b[1] \in h[1]..(h[1] + Edge - 1) /\ b[3] \in h[3]..(h[3] + Edge - 1) /\ b[2] > h[2]
    BY <1>1, <2>2, <2>5
  <2>13. Home(f) = h
    BY <2>3 DEF h
  <2>14. QED
    BY <1>2, <2>2, <2>4, <2>10, <2>11, <2>12, <2>13 DEF b, g
<1>3. CASE ~(f[2] = <<0,-1,0>> /\ b[2] % Edge = 0)
  <2>1. Home(f) = g
    BY <1>3 DEF Home, Own, b, g
  <2>2. b[2] \in Slices(g)
    <3>1. b[2] >= g[2] /\ b[2] <= g[2] + Edge - 1 /\ b[2] < Height
      BY <1>1
    <3>2. QED
      BY <1>1, <3>1 DEF Slices
  <2>3. ASSUME f[2] = <<0,-1,0>> PROVE b[2] > g[2]
    BY <1>1, <1>3, <2>3, BaseIs
  <2>4. QED
    BY <1>1, <1>3, <2>1, <2>2, <2>3 DEF b, g
<1>4. QED
  BY <1>2, <1>3 DEF b

(* What is in sight is drawn when the globule that has to is generated. *)
LEMMA InSightIsShown ==
    ASSUME DOMAIN block \subseteq Block, NEW f \in InSight
    PROVE  Home(f) \in GlobPos /\ f \in Faces(Home(f))
<1> DEFINE b == f[1]
           d == f[2]
           g == Home(f)
           n == Next(b, d)
<1>1. /\ b \in DOMAIN block /\ b \in Block /\ d \in Direction /\ f = <<b, d, block[b]>>
      /\ n[2] >= 0 /\ Air(n)
  BY SidesAre
<1>2. /\ g \in GlobPos /\ b[2] \in Slices(g) /\ (d = <<0,-1,0>> => b[2] > g[2])
      /\ b[1] \in g[1]..(g[1] + Edge - 1) /\ b[3] \in g[3]..(g[3] + Edge - 1)
  BY <1>1, HomeIs
<1>3. b \in Blocks(g)
  <2> HIDE DEF b, g, d, n
  <2>1. QED
    BY <1>1, <1>2 DEF Blocks
<1>4. n = <<b[1] + d[1], b[2] + d[2], b[3] + d[3]>>
  BY DEF Next
<1>5. b = <<b[1], b[2], b[3]>> /\ b[1] \in Nat /\ b[2] \in Nat /\ b[3] \in Nat
  BY <1>1, BlocksAre
<1> HIDE DEF b, d, g, n
<1>6. Visible(g, b) /\ Shown(g, b, d)
  <2>1. CASE d = <<0,-1,0>>
    <3>1. n = <<b[1], b[2] - 1, b[3]>>
      BY <1>4, <1>5, <2>1
    <3>2. Below(g, b)
      <4>1. b[2] > g[2]
        BY <1>2, <2>1
      <4>2. Air(<<b[1], b[2] - 1, b[3]>>)
        BY <1>1, <3>1
      <4>3. QED
        BY <4>1, <4>2 DEF Below
    <3>3. QED
      BY <2>1, <3>2 DEF Visible, Shown
  <2>2. CASE d = <<0,1,0>>
    <3>1. n = <<b[1], b[2] + 1, b[3]>>
      BY <1>4, <1>5, <2>2
    <3>2. Above(b)
      BY <1>1, <3>1 DEF Above
    <3>3. d # <<0,-1,0>>
      BY <2>2
    <3>4. QED
      BY <2>2, <3>2, <3>3 DEF Visible, Shown
  <2>3. CASE d # <<0,-1,0>> /\ d # <<0,1,0>>
    <3>1. d[2] = 0
      BY <1>1, <2>3, DirectionIs
    <3>2. Air(Next(b, d))
      BY <1>1 DEF n
    <3>3. QED
      BY <1>1, <2>3, <3>1, <3>2 DEF Visible, Shown
  <2>4. QED
    BY <2>1, <2>2, <2>3
<1>7. f \in Mesh(g)
  BY <1>1, <1>3, <1>6 DEF Mesh
<1>8. f[1] = b /\ f[2] = d /\ Home(f) = g
  BY DEF b, d, g
<1>9. QED
  BY <1>2, <1>6, <1>7, <1>8 DEF Faces

(* What a globule is made to draw is of its blocks, as they are. *)
LEMMA FacesAre ==
    ASSUME DOMAIN block \subseteq Block, NEW g, NEW f \in Faces(g)
    PROVE  /\ f[1] \in DOMAIN block /\ f[1] \in Block /\ f[2] \in Direction
           /\ f[3] = block[f[1]] /\ f[3] = BlockAt(f[1]) /\ f[1][2] \in Slices(g)
           /\ f[1][1] \in g[1]..(g[1] + Edge - 1) /\ f[1][3] \in g[3]..(g[3] + Edge - 1)
<1>1. PICK b \in Blocks(g), d \in Direction : f = <<b, d, block[b]>>
  BY DEF Faces, Mesh
<1>2. f[1] = b /\ f[2] = d /\ f[3] = block[b]
  BY <1>1
<1>3. /\ b \in DOMAIN block /\ b[2] \in Slices(g)
      /\ b[1] \in g[1]..(g[1] + Edge - 1) /\ b[3] \in g[3]..(g[3] + Edge - 1)
  BY DEF Blocks
<1>4. QED
  BY <1>1, <1>2, <1>3 DEF BlockAt

(* What a change of a block does: the block, what is marked, and all others. *)
LEMMA SetBlockIs ==
    ASSUME GlobuleTypeOK, changes \in Nat, SetBlock
    PROVE  \E c \in Block :
             /\ DOMAIN block' \subseteq Block /\ Range(block') \subseteq Solid
             /\ \A b : b # c => /\ BlockAt(b)' = BlockAt(b) /\ (Air(b)' <=> Air(b))
                                /\ (b \in DOMAIN block' <=> b \in DOMAIN block)
                                /\ (b \in DOMAIN block => block'[b] = block[b])
             /\ work' = work \cup Marked(c) /\ changes' = changes + 1 /\ faces' = faces
             /\ specialFrom' = specialFrom
<1>1. PICK c \in Block, k \in Kind :
        /\ block' = [b \in (DOMAIN block \ {c}) \cup (IF k = "air" THEN {} ELSE {c}) |->
                        IF b = c THEN k ELSE block[b]]
        /\ work' = work \cup Marked(c)
  BY DEF SetBlock
<1>2. DOMAIN block' = (DOMAIN block \ {c}) \cup (IF k = "air" THEN {} ELSE {c})
  BY <1>1
<1>3. DOMAIN block' \subseteq Block
  BY <1>2 DEF GlobuleTypeOK
<1>4. \A b \in DOMAIN block' : block'[b] = IF b = c THEN k ELSE block[b]
  BY <1>1
<1>5. ASSUME NEW b \in DOMAIN block' PROVE block'[b] \in Solid
  <2>1. CASE b = c
    BY <1>2, <1>4, <2>1 DEF Kind
  <2>2. CASE b # c
    <3>1. b \in DOMAIN block /\ block'[b] = block[b]
      BY <1>2, <1>4, <2>2
    <3>2. QED
      BY <3>1 DEF GlobuleTypeOK, Range
  <2>3. QED
    BY <2>1, <2>2
<1>6. Range(block') \subseteq Solid
  BY <1>5 DEF Range
<1>7. ASSUME NEW b, b # c
      PROVE  /\ (b \in DOMAIN block' <=> b \in DOMAIN block)
             /\ (b \in DOMAIN block => block'[b] = block[b])
  BY <1>2, <1>4, <1>7
<1>8. ASSUME NEW b, b # c
      PROVE  BlockAt(b)' = BlockAt(b) /\ (Air(b)' <=> Air(b))
  BY <1>7, <1>8 DEF BlockAt, Air
<1>9. changes' = changes + 1 /\ faces' = faces /\ specialFrom' = specialFrom
  BY DEF SetBlock
<1>10. QED
  BY <1>1, <1>3, <1>6, <1>7, <1>8, <1>9

(* A globule that draws faces of a block is marked when the block changes. *)
LEMMA DrawersAreMarked ==
    ASSUME NEW c \in Block, NEW g \in GlobPos, c[2] \in Slices(g),
           c[1] \in g[1]..(g[1] + Edge - 1), c[3] \in g[3]..(g[3] + Edge - 1)
    PROVE  g \in Marked(c)
<1>1. Edge \in Nat \ {0, 1} /\ g \in Block /\ \A i \in 1..3 : g[i] % Edge = 0
  BY GlobulesFit, GlobuleNumbers
<1>2. g = <<g[1], g[2], g[3]>> /\ g[1] \in Nat /\ g[2] \in Nat /\ g[3] \in Nat
      /\ c[2] \in Nat
  BY <1>1, BlocksAre
<1>3. g[1] = c[1] - (c[1] % Edge) /\ g[3] = c[3] - (c[3] % Edge)
  BY <1>1, <1>2, BaseUnique
<1>4. c[2] >= g[2] /\ c[2] <= g[2] + Edge
  <2>1. Slices(g) = g[2]..(IF g[2] + Edge < Height THEN g[2] + Edge ELSE Height - 1)
    BY DEF Slices
  <2>2. CASE g[2] + Edge < Height
    BY <1>1, <1>2, <2>1, <2>2
  <2>3. CASE ~(g[2] + Edge < Height)
    <3>1. Height \in Nat /\ c[2] \in g[2]..(Height - 1)
      BY <2>1, <2>3, GlobuleNumbers
    <3>2. QED
      BY <1>1, <1>2, <2>3, <3>1
  <2>4. QED
    BY <2>2, <2>3
<1>5. CASE c[2] = g[2] + Edge
  <2>1. c[2] % Edge = 0 /\ c[2] >= Edge
    <3>1. (g[2] + Edge) % Edge = g[2] % Edge
      BY <1>1, <1>2, BaseIs
    <3>2. QED
      BY <1>1, <1>2, <1>5, <3>1
  <2>2. [Globe(c) EXCEPT ![2] = c[2] - Edge] \in Marked(c)
    <3>1. 2 \in 1..3
      OBVIOUS
    <3>2. QED
      BY <2>1, <3>1, LowerIsMarked
  <2>3. Globe(c) = <<g[1], c[2] - (c[2] % Edge), g[3]>>
    BY <1>3, GlobeIs
  <2>4. c[2] - Edge = g[2]
    BY <1>1, <1>2, <1>5
  <2>5. [Globe(c) EXCEPT ![2] = c[2] - Edge] = <<g[1], g[2], g[3]>>
    BY <2>3, <2>4
  <2>6. QED
    BY <1>2, <2>2, <2>5
<1>6. CASE c[2] < g[2] + Edge
  <2>1. c[2] \in g[2]..(g[2] + Edge - 1)
    BY <1>1, <1>2, <1>4, <1>6
  <2>2. g[2] = c[2] - (c[2] % Edge)
    BY <1>1, <1>2, <2>1, BaseUnique
  <2>3. Globe(c) = g
    BY <1>2, <1>3, <2>2, GlobeIs
  <2>4. QED
    BY <2>3, OwnIsMarked
<1>7. c[2] = g[2] + Edge \/ c[2] < g[2] + Edge
  <2>1. Edge \in Nat /\ g[2] \in Nat /\ c[2] \in Nat
    BY <1>1, <1>2
  <2>2. QED
    BY <1>4, <2>1
<1>8. QED
  BY <1>5, <1>6, <1>7

(* The globule that has to draw a face towards a block is marked when the    *)
(* block changes, but for the faces towards -x at the edge of a globule.     *)
LEMMA NeighboursAreMarked ==
    ASSUME NEW f, f[1] \in Block, f[2] \in Direction, Next(f[1], f[2]) \in Block,
           ~(f[2] = <<-1,0,0>> /\ f[1][1] % Edge = 0)
    PROVE  Home(f) \in Marked(Next(f[1], f[2]))
<1> DEFINE b == f[1]
           d == f[2]
           c == Next(b, d)
<1>1. /\ b \in Block /\ c \in Block /\ d \in Direction
      /\ ~(d = <<-1,0,0>> /\ b[1] % Edge = 0)
      /\ Home(f) = IF d = <<0,-1,0>> /\ b[2] % Edge = 0 THEN Under(Globe(b)) ELSE Globe(b)
      /\ c = <<b[1] + d[1], b[2] + d[2], b[3] + d[3]>>
  BY DEF Home, Own, Next
<1> HIDE DEF b, c, d
<1>2. Edge \in Nat \ {0, 1}
  BY GlobuleNumbers
<1>3. PICK x \in Nat, y \in Nat, z \in Nat :
        /\ b = <<x, y, z>> /\ Globe(b) = <<x - (x % Edge), y - (y % Edge), z - (z % Edge)>>
        /\ z < Size[3]
  <2>1. b = <<b[1], b[2], b[3]>> /\ \A i \in 1..3 : b[i] \in 0..(Size[i] - 1) /\ b[i] \in Nat
    BY <1>1, BlocksAre
  <2>2. b[3] < Size[3] /\ b[1] \in Nat /\ b[2] \in Nat /\ b[3] \in Nat
    BY <2>1, GlobuleNumbers
  <2>3. Globe(b) = <<b[1] - (b[1] % Edge), b[2] - (b[2] % Edge), b[3] - (b[3] % Edge)>>
    BY <1>1, GlobeIs
  <2>4. QED
    BY <2>1, <2>2, <2>3
<1>4. PICK u \in Nat, v \in Nat, w \in Nat :
        /\ c = <<u, v, w>> /\ Globe(c) = <<u - (u % Edge), v - (v % Edge), w - (w % Edge)>>
  <2>1. c = <<c[1], c[2], c[3]>> /\ \A i \in 1..3 : c[i] \in Nat
    BY <1>1, BlocksAre
  <2>2. Globe(c) = <<c[1] - (c[1] % Edge), c[2] - (c[2] % Edge), c[3] - (c[3] % Edge)>>
    BY <1>1, GlobeIs
  <2>3. QED
    BY <2>1, <2>2
<1>5. u = x + d[1] /\ v = y + d[2] /\ w = z + d[3] /\ b[1] = x /\ b[2] = y /\ b[3] = z
      /\ c[1] = u /\ c[2] = v /\ c[3] = w
  BY <1>1, <1>3, <1>4
<1>6. CASE d = <<0,-1,0>>
  <2>1. u = x /\ v = y - 1 /\ w = z /\ y > 0
    BY <1>3, <1>4, <1>5, <1>6
  <2>2. Home(f) = Globe(c)
    <3>1. CASE y % Edge = 0
      <4>1. v % Edge = Edge - 1 /\ y >= Edge
        BY <1>2, <2>1, <3>1, BaseIs
      <4>2. Home(f) = <<x - (x % Edge), y - (y % Edge) - Edge, z - (z % Edge)>>
        BY <1>1, <1>3, <1>5, <1>6, <3>1 DEF Under
      <4>3. y - (y % Edge) - Edge = v - (v % Edge)
        BY <1>2, <2>1, <3>1, <4>1
      <4>4. QED
        BY <1>4, <2>1, <4>2, <4>3
    <3>2. CASE y % Edge # 0
      <4>1. y % Edge \in 0..(Edge - 1)
        BY <1>2, BaseIs
      <4>2. v % Edge = (y % Edge) - 1
        <5>1. y % Edge > 0
          BY <3>2, <4>1
        <5>2. (y - 1) % Edge = (y % Edge) - 1
          BY <1>2, <5>1, BaseIs
        <5>3. QED
          BY <2>1, <5>2
      <4>3. y - (y % Edge) = v - (v % Edge)
        BY <1>2, <2>1, <4>1, <4>2
      <4>4. Home(f) = Globe(b)
        BY <1>1, <1>5, <3>2
      <4>5. QED
        BY <1>3, <1>4, <2>1, <4>3, <4>4
    <3>3. QED
      BY <3>1, <3>2
  <2>3. QED
    BY <1>1, <2>2, OwnIsMarked DEF b, c, d
<1>7. CASE d # <<0,-1,0>>
  <2>1. Home(f) = Globe(b)
    BY <1>1, <1>7
  <2>2. ASSUME NEW p \in Nat, NEW q \in Nat, q = p + 1
        PROVE  /\ q % Edge = 0 => q - Edge = p - (p % Edge) /\ q >= Edge /\ q - (q % Edge) = q
               /\ q % Edge # 0 => q - (q % Edge) = p - (p % Edge)
               /\ p % Edge # Edge - 1 => q - (q % Edge) = p - (p % Edge)
               /\ p % Edge = Edge - 1 => q - (q % Edge) = q
    <3>1. p % Edge \in 0..(Edge - 1)
      BY <1>2, BaseIs
    <3>2. CASE p % Edge = Edge - 1
      <4>1. q % Edge = 0
        BY <1>2, <2>2, <3>2, BaseIs
      <4>2. q >= Edge
        <5>1. q > 0
          BY <2>2
        <5>2. QED
          BY <1>2, <4>1, <5>1, BaseIs
      <4>3. QED
        BY <1>2, <2>2, <3>2, <4>1, <4>2
    <3>3. CASE p % Edge < Edge - 1
      <4>1. q % Edge = (p % Edge) + 1
        BY <1>2, <2>2, <3>3, BaseIs
      <4>2. QED
        BY <1>2, <2>2, <3>1, <3>3, <4>1
    <3>4. QED
      BY <1>2, <3>1, <3>2, <3>3
  <2>3. CASE d = <<0,1,0>>
    <3>1. u = x /\ v = y + 1 /\ w = z
      BY <1>3, <1>4, <1>5, <2>3
    <3>2. CASE v % Edge = 0
      <4>1. v - Edge = y - (y % Edge) /\ v >= Edge
        BY <1>4, <2>2, <3>1, <3>2
      <4>2. [Globe(c) EXCEPT ![2] = c[2] - Edge] \in Marked(c)
        <5>1. 2 \in 1..3 /\ c[2] % Edge = 0 /\ c[2] >= Edge
          BY <1>5, <3>2, <4>1
        <5>2. QED
          BY <1>1, <5>1, LowerIsMarked
      <4>3. [Globe(c) EXCEPT ![2] = v - Edge] = <<u - (u % Edge), v - Edge, w - (w % Edge)>>
        BY <1>4
      <4>4. QED
        BY <1>3, <1>5, <2>1, <3>1, <4>1, <4>2, <4>3 DEF b, c, d
    <3>3. CASE v % Edge # 0
      <4>1. v - (v % Edge) = y - (y % Edge)
        BY <1>4, <2>2, <3>1, <3>3
      <4>2. QED
        BY <1>1, <1>3, <1>4, <2>1, <3>1, <4>1, OwnIsMarked DEF b, c, d
    <3>4. QED
      BY <3>2, <3>3
  <2>4. CASE d = <<1,0,0>>
    <3>1. u = x + 1 /\ v = y /\ w = z
      BY <1>3, <1>4, <1>5, <2>4
    <3>2. CASE u % Edge = 0
      <4>1. u - Edge = x - (x % Edge) /\ u >= Edge
        BY <1>4, <2>2, <3>1, <3>2
      <4>2. [Globe(c) EXCEPT ![1] = c[1] - Edge] \in Marked(c)
        <5>1. 1 \in 1..3 /\ c[1] % Edge = 0 /\ c[1] >= Edge
          BY <1>5, <3>2, <4>1
        <5>2. QED
          BY <1>1, <5>1, LowerIsMarked
      <4>3. [Globe(c) EXCEPT ![1] = u - Edge] = <<u - Edge, v - (v % Edge), w - (w % Edge)>>
        BY <1>4
      <4>4. QED
        BY <1>3, <1>5, <2>1, <3>1, <4>1, <4>2, <4>3 DEF b, c, d
    <3>3. CASE u % Edge # 0
      <4>1. u - (u % Edge) = x - (x % Edge)
        BY <1>4, <2>2, <3>1, <3>3
      <4>2. QED
        BY <1>1, <1>3, <1>4, <2>1, <3>1, <4>1, OwnIsMarked DEF b, c, d
    <3>4. QED
      BY <3>2, <3>3
  <2>5. CASE d = <<0,0,1>>
    <3>1. u = x /\ v = y /\ w = z + 1
      BY <1>3, <1>4, <1>5, <2>5
    <3>2. CASE w % Edge = 0
      <4>1. w - Edge = z - (z % Edge) /\ w >= Edge
        BY <1>4, <2>2, <3>1, <3>2
      <4>2. [Globe(c) EXCEPT ![3] = c[3] - Edge] \in Marked(c)
        <5>1. 3 \in 1..3 /\ c[3] % Edge = 0 /\ c[3] >= Edge
          BY <1>5, <3>2, <4>1
        <5>2. QED
          BY <1>1, <5>1, LowerIsMarked
      <4>3. [Globe(c) EXCEPT ![3] = w - Edge] = <<u - (u % Edge), v - (v % Edge), w - Edge>>
        BY <1>4
      <4>4. QED
        BY <1>3, <1>5, <2>1, <3>1, <4>1, <4>2, <4>3 DEF b, c, d
    <3>3. CASE w % Edge # 0
      <4>1. w - (w % Edge) = z - (z % Edge)
        BY <1>4, <2>2, <3>1, <3>3
      <4>2. QED
        BY <1>1, <1>3, <1>4, <2>1, <3>1, <4>1, OwnIsMarked DEF b, c, d
    <3>4. QED
      BY <3>2, <3>3
  <2>6. CASE d = <<0,0,-1>>
    <3>1. u = x /\ v = y /\ z = w + 1
      BY <1>3, <1>4, <1>5, <2>6
    <3>2. CASE w % Edge = Edge - 1
      <4>1. z - (z % Edge) = z
        BY <1>4, <2>2, <3>1, <3>2
      <4>2. [Globe(c) EXCEPT ![3] = c[3] + 1] \in Marked(c)
        BY <1>1, <1>3, <1>5, <3>1, <3>2, UpperIsMarked
      <4>3. [Globe(c) EXCEPT ![3] = w + 1] = <<u - (u % Edge), v - (v % Edge), w + 1>>
        BY <1>4
      <4>4. QED
        BY <1>3, <1>5, <2>1, <3>1, <4>1, <4>2, <4>3 DEF b, c, d
    <3>3. CASE w % Edge # Edge - 1
      <4>1. w - (w % Edge) = z - (z % Edge)
        BY <1>4, <2>2, <3>1, <3>3
      <4>2. QED
        BY <1>1, <1>3, <1>4, <2>1, <3>1, <4>1, OwnIsMarked DEF b, c, d
    <3>4. QED
      BY <3>2, <3>3
  <2>7. CASE d = <<-1,0,0>>
    <3>1. x = u + 1 /\ v = y /\ w = z /\ x % Edge # 0
      BY <1>1, <1>3, <1>4, <1>5, <2>7
    <3>2. u - (u % Edge) = x - (x % Edge)
      BY <1>3, <1>4, <2>2, <3>1
    <3>3. QED
      BY <1>1, <1>3, <1>4, <2>1, <3>1, <3>2, OwnIsMarked DEF b, c, d
  <2>8. QED
    BY <1>1, <1>7, <2>3, <2>4, <2>5, <2>6, <2>7 DEF Direction
<1>8. QED
  BY <1>6, <1>7

(* A globule is generated again when it is marked: its bits meet themselves. *)
LEMMA MarkedAreRequested ==
    ASSUME work \subseteq GlobPos
    PROVE  work \subseteq Requested
<1>1. ASSUME NEW g \in work PROVE Bits(g) # {}
  <2>1. Width \in Nat \ {0} /\ Edge \in Nat \ {0, 1} /\ PerAxis \in Nat
    BY GlobuleAssumption
  <2>2. Index(g) % Width \in Bits(g)
    <3>1. g[1] \in Nat /\ g[2] \in Nat /\ g[3] \in Nat
      BY BlocksAre DEF GlobPos
    <3>2. g[1] \div Edge \in Nat /\ g[2] \div Edge \in Nat /\ g[3] \div Edge \in Nat
      BY <2>1, <3>1, RemainderIs
    <3>3. PerAxis * (g[3] \div Edge) \in Nat
      BY <2>1, <3>2
    <3>4. PerAxis * PerAxis \in Nat
      BY <2>1
    <3>5. PerAxis * PerAxis * (g[2] \div Edge) \in Nat
      BY <3>2, <3>4
    <3>6. Index(g) \in Nat
      BY <3>2, <3>3, <3>5 DEF Index
    <3> DEFINE i == Index(g) % Width
    <3>7. i \in 0..(Width - 1)
      BY <2>1, <3>6, RemainderIs
    <3> HIDE DEF i
    <3>8. i \in i..(2 * Width - 1) /\ i \in {i}
      BY <2>1, <3>7
    <3>9. i \in IF i = Width - 1 THEN i..(2 * Width - 1) ELSE {i}
      BY <3>8
    <3>10. QED
      BY <3>9 DEF Bits, i
  <2>3. QED
    BY <2>2
<1>2. ASSUME NEW g \in work PROVE g \in Requested
  <2>1. PICK i : i \in Bits(g)
    BY <1>1
  <2>2. i \in UNION {Bits(h) : h \in work}
    BY <2>1
  <2>3. QED
    BY <2>1, <2>2 DEF Requested
<1>3. QED
  BY <1>2

LEMMA GlobuleInitHolds == GlobuleInit => GlobuleIInv
<1> SUFFICES ASSUME GlobuleInit PROVE GlobuleIInv
  OBVIOUS
<1>1. DOMAIN block \subseteq Block /\ Range(block) \subseteq Solid
  BY GlobuleAssumption DEF GlobuleInit
<1>2. /\ faces = [g \in GlobPos |-> Faces(g)] /\ DOMAIN specialFrom = GlobPos
      /\ work = {} /\ changes = 0
  BY DEF GlobuleInit
<1>3. GlobuleTypeOK
  BY <1>1, <1>2, FacesAre DEF GlobuleTypeOK
<1>4. FacesAreOfGlobule /\ OldFacesAreMarked
  BY <1>1, <1>2, FacesAre DEF FacesAreOfGlobule, OldFacesAreMarked
<1>5. HomeDrawsOrIsMarked
  BY <1>1, <1>2, InSightIsShown DEF HomeDrawsOrIsMarked
<1>6. QED
  BY <1>2, <1>3, <1>4, <1>5 DEF GlobuleIInv

LEMMA SetBlockKeeps == ASSUME GlobuleIInv, SetBlock PROVE GlobuleIInv'
<1>1. /\ GlobuleTypeOK /\ changes \in Nat
      /\ FacesAreOfGlobule /\ OldFacesAreMarked /\ HomeDrawsOrIsMarked
      /\ DOMAIN block \subseteq Block
  BY DEF GlobuleIInv, GlobuleTypeOK
<1>2. PICK c \in Block :
        /\ DOMAIN block' \subseteq Block /\ Range(block') \subseteq Solid
        /\ \A b : b # c => /\ BlockAt(b)' = BlockAt(b) /\ (Air(b)' <=> Air(b))
                           /\ (b \in DOMAIN block' <=> b \in DOMAIN block)
                           /\ (b \in DOMAIN block => block'[b] = block[b])
        /\ work' = work \cup Marked(c) /\ changes' = changes + 1 /\ faces' = faces
        /\ specialFrom' = specialFrom
  BY <1>1, SetBlockIs
<1>3. GlobuleTypeOK'
  <2>1. work' \subseteq GlobPos
    BY <1>1, <1>2, MarkedAreGlobules DEF GlobuleTypeOK
  <2>2. QED
    BY <1>1, <1>2, <2>1 DEF GlobuleTypeOK, Slices
<1>4. FacesAreOfGlobule'
  BY <1>1, <1>2 DEF FacesAreOfGlobule
<1>5. OldFacesAreMarked'
  <2>1. ASSUME NEW g \in GlobPos \ work', NEW f \in faces[g]
        PROVE  f[3] = BlockAt(f[1])'
    <3>1. g \notin work /\ g \notin Marked(c)
      BY <1>2
    <3>2. f[1][2] \in Slices(g) /\ f[1][1] \in g[1]..(g[1] + Edge - 1)
          /\ f[1][3] \in g[3]..(g[3] + Edge - 1)
      BY <1>1 DEF GlobuleTypeOK, FacesAreOfGlobule
    <3>3. f[1] # c
      BY <3>1, <3>2, DrawersAreMarked
    <3>4. f[3] = BlockAt(f[1])
      BY <1>1, <3>1 DEF OldFacesAreMarked
    <3>5. QED
      BY <1>2, <3>3, <3>4
  <2>2. QED
    BY <1>2, <2>1 DEF OldFacesAreMarked
<1>6. HomeDrawsOrIsMarked'
  <2>1. ASSUME NEW f \in InSight'
        PROVE  Home(f) \in work' \/ f \in faces'[Home(f)] \/ Excepted(f)'
    <3> DEFINE b == f[1]
               n == Next(f[1], f[2])
    <3>1. /\ b \in DOMAIN block' /\ b \in Block /\ f[2] \in Direction
          /\ f = <<b, f[2], block'[b]>> /\ n[2] >= 0 /\ Air(n)'
      <4>1. f \in Sides' /\ n[2] >= 0 /\ (n \notin Block \/ Air(n)')
        BY DEF InSight
      <4>2. PICK a \in DOMAIN block', d \in Direction : f = <<a, d, block'[a]>>
        BY <4>1 DEF Sides
      <4>3. f[1] = a /\ f[2] = d
        BY <4>2
      <4>4. n \notin Block => Air(n)'
        BY <1>2 DEF Air, BlockAt
      <4>5. QED
        BY <1>2, <4>1, <4>2, <4>3, <4>4
    <3> HIDE DEF b, n
    <3>2. CASE b = c
      <4>1. /\ Home(f) \in GlobPos /\ b[1] \in Home(f)[1]..(Home(f)[1] + Edge - 1)
            /\ b[3] \in Home(f)[3]..(Home(f)[3] + Edge - 1) /\ b[2] \in Slices(Home(f))
        BY <3>1, HomeIs DEF b, n
      <4>2. QED
        BY <1>2, <3>2, <4>1, DrawersAreMarked
    <3>3. CASE b # c /\ n = c
      <4>1. CASE f[2] = <<-1,0,0>> /\ b[1] % Edge = 0
        BY <1>1, <1>2, <4>1 DEF Excepted, b
      <4>2. CASE ~(f[2] = <<-1,0,0>> /\ b[1] % Edge = 0)
        BY <1>2, <3>1, <3>3, <4>2, NeighboursAreMarked DEF b, n
      <4>3. QED
        BY <4>1, <4>2
    <3>4. CASE b # c /\ n # c
      <4>1. b \in DOMAIN block /\ block'[b] = block[b] /\ Air(n)
        BY <1>2, <3>1, <3>4
      <4>2. f \in Sides
        BY <3>1, <4>1 DEF Sides
      <4>3. f \in InSight
        BY <3>1, <4>1, <4>2 DEF InSight, n
      <4>4. Home(f) \in work \/ f \in faces[Home(f)] \/ Excepted(f)
        BY <1>1, <4>3 DEF HomeDrawsOrIsMarked
      <4>5. Excepted(f) => Excepted(f)'
        BY <1>1, <1>2 DEF Excepted
      <4>6. QED
        BY <1>2, <4>4, <4>5
    <3>5. QED
      BY <3>2, <3>3, <3>4
  <2>2. \A f : Home(f)' = Home(f)
    BY DEF Home, Own, Under, Globe
  <2>3. QED
    BY <2>1, <2>2 DEF HomeDrawsOrIsMarked
<1>7. changes' \in Nat
  BY <1>1, <1>2
<1>8. QED
  BY <1>3, <1>4, <1>5, <1>6, <1>7 DEF GlobuleIInv

LEMMA RegenerateKeeps == ASSUME GlobuleIInv, Regenerate PROVE GlobuleIInv'
<1>1. /\ GlobuleTypeOK /\ changes \in Nat
      /\ FacesAreOfGlobule /\ OldFacesAreMarked /\ HomeDrawsOrIsMarked
      /\ DOMAIN block \subseteq Block /\ work \subseteq GlobPos
  BY DEF GlobuleIInv, GlobuleTypeOK
<1>2. /\ work' = {} /\ block' = block /\ changes' = changes /\ DOMAIN specialFrom' = GlobPos
      /\ DOMAIN faces' = GlobPos
      /\ \A g \in GlobPos : faces'[g] = IF g \in Requested THEN Faces(g) ELSE faces[g]
  BY DEF Regenerate
<1>3. work \subseteq Requested
  BY <1>1, MarkedAreRequested
<1>4. GlobuleTypeOK' /\ FacesAreOfGlobule'
  <2>1. ASSUME NEW g \in GlobPos, NEW f \in faces'[g]
        PROVE  /\ f[1] \in Block /\ f[2] \in Direction /\ f[1][2] \in Slices(g)
               /\ f[1][1] \in g[1]..(g[1] + Edge - 1) /\ f[1][3] \in g[3]..(g[3] + Edge - 1)
    <3>1. CASE g \in Requested
      BY <1>1, <1>2, <3>1, FacesAre
    <3>2. CASE g \notin Requested
      BY <1>1, <1>2, <3>2 DEF GlobuleTypeOK, FacesAreOfGlobule
    <3>3. QED
      BY <3>1, <3>2
  <2>2. Range(block)' = Range(block)
    BY <1>2
  <2>3. QED
    BY <1>1, <1>2, <2>1, <2>2 DEF GlobuleTypeOK, FacesAreOfGlobule, Slices
<1>5. \A b : BlockAt(b)' = BlockAt(b)
  BY <1>2 DEF BlockAt
<1>6. OldFacesAreMarked'
  <2>1. ASSUME NEW g \in GlobPos, NEW f \in faces'[g] PROVE f[3] = BlockAt(f[1])
    <3>1. CASE g \in Requested
      BY <1>1, <1>2, <3>1, FacesAre
    <3>2. CASE g \notin Requested
      BY <1>1, <1>2, <1>3, <3>2 DEF OldFacesAreMarked
    <3>3. QED
      BY <3>1, <3>2
  <2>2. QED
    BY <1>5, <2>1 DEF OldFacesAreMarked
<1>7. HomeDrawsOrIsMarked'
  <2>1. ASSUME NEW f \in InSight
        PROVE  f \in faces'[Home(f)] \/ Excepted(f)
    <3>1. Home(f) \in GlobPos /\ f \in Faces(Home(f))
      BY <1>1, InSightIsShown
    <3>2. CASE Home(f) \in Requested
      BY <1>2, <3>1, <3>2
    <3>3. CASE Home(f) \notin Requested
      BY <1>1, <1>2, <1>3, <3>1, <3>3 DEF HomeDrawsOrIsMarked
    <3>4. QED
      BY <3>2, <3>3
  <2>2. InSight' = InSight
    BY <1>2, <1>5 DEF InSight, Sides, Air
  <2>3. \A f : Home(f)' = Home(f) /\ (Excepted(f)' <=> Excepted(f))
    BY <1>2 DEF Home, Own, Under, Globe, Excepted
  <2>4. QED
    BY <2>1, <2>2, <2>3 DEF HomeDrawsOrIsMarked
<1>8. changes' \in Nat
  BY <1>1, <1>2
<1>9. QED
  BY <1>4, <1>6, <1>7, <1>8 DEF GlobuleIInv

LEMMA GlobuleStep == GlobuleIInv /\ [GlobuleNext]_globuleVars => GlobuleIInv'
<1> SUFFICES ASSUME GlobuleIInv, [GlobuleNext]_globuleVars PROVE GlobuleIInv'
  OBVIOUS
<1>1. CASE SetBlock
  BY <1>1, SetBlockKeeps
<1>2. CASE Regenerate
  BY <1>2, RegenerateKeeps
<1>3. CASE UNCHANGED globuleVars
  <2>1. /\ block' = block /\ faces' = faces /\ specialFrom' = specialFrom /\ work' = work
        /\ changes' = changes
    BY <1>3 DEF globuleVars
  <2>2. \A b : BlockAt(b)' = BlockAt(b)
    BY <2>1 DEF BlockAt
  <2>3. InSight' = InSight
    BY <2>1, <2>2 DEF InSight, Sides, Air
  <2>4. \A f : Home(f)' = Home(f) /\ (Excepted(f)' <=> Excepted(f))
    BY <2>1 DEF Home, Own, Under, Globe, Excepted
  <2>5. HomeDrawsOrIsMarked'
    BY <2>1, <2>3, <2>4 DEF GlobuleIInv, HomeDrawsOrIsMarked
  <2>6. OldFacesAreMarked'
    BY <2>1, <2>2 DEF GlobuleIInv, OldFacesAreMarked
  <2>7. QED
    BY <2>1, <2>5, <2>6 DEF GlobuleIInv, GlobuleTypeOK, FacesAreOfGlobule, Slices
<1>4. QED
  BY <1>1, <1>2, <1>3 DEF GlobuleNext

LEMMA GlobuleIInvIsEnough == GlobuleIInv => GlobuleInv
<1> SUFFICES ASSUME GlobuleIInv PROVE GlobuleInv
  OBVIOUS
<1>1. /\ GlobuleTypeOK /\ OldFacesAreMarked /\ HomeDrawsOrIsMarked
      /\ DOMAIN block \subseteq Block /\ DOMAIN faces = GlobPos
  BY DEF GlobuleIInv, GlobuleTypeOK
<1>2. NoGhosts
  <2>1. ASSUME work = {}, NEW f \in Drawn PROVE f[3] = BlockAt(f[1])
    <3>1. PICK g \in GlobPos : f \in faces[g]
      BY DEF Drawn
    <3>2. QED
      BY <1>1, <2>1, <3>1 DEF OldFacesAreMarked
  <2>2. QED
    BY <2>1 DEF NoGhosts
<1>3. OnlyEdgesAreMissing
  <2>1. ASSUME work = {}, NEW f \in InSight \ Drawn
        PROVE  f[2] = <<-1,0,0>> /\ f[1][1] % Edge = 0 /\ changes > 0
    <3>1. Home(f) \in GlobPos
      BY <1>1, InSightIsShown
    <3>2. f \notin faces[Home(f)]
      BY <3>1 DEF Drawn
    <3>3. QED
      BY <1>1, <2>1, <3>2 DEF HomeDrawsOrIsMarked, Excepted
  <2>2. QED
    BY <2>1 DEF OnlyEdgesAreMissing
<1>4. QED
  BY <1>1, <1>2, <1>3 DEF GlobuleInv

(* What is drawn of a chunk is what there is to see of it, for chunks of any *)
(* size and contents and any number of changes: when no globule is left to   *)
(* be generated again, no face of a block that was taken away is drawn, and  *)
(* every face in sight is, but for those towards -x at the lower edge of a   *)
(* globule (workerGenerate and markBlockChanged).                            *)
THEOREM GlobuleSafe == GlobuleSpec => []GlobuleInv
<1>1. GlobuleInit => GlobuleIInv
  BY GlobuleInitHolds
<1>2. GlobuleIInv /\ [GlobuleNext]_globuleVars => GlobuleIInv'
  BY GlobuleStep
<1>3. GlobuleIInv => GlobuleInv
  BY GlobuleIInvIsEnough
<1>4. QED
  BY <1>1, <1>2, <1>3, PTL DEF GlobuleSpec

=============================================================================
