----------------------------- MODULE PlayProofs -----------------------------
(***************************************************************************)
(* What a player does in a world, for any number of players, any sizes and *)
(* any bounds: the theorems say of each of the modules that MCPlay.tla     *)
(* puts together what the run Play checks on small instances.              *)
(***************************************************************************)
EXTENDS Movement, Interactions, Persistence, Chatting, Torches, SequenceTheorems,
        FiniteSetTheorems, WellFoundedInduction, TLAPS

-----------------------------------------------------------------------------
(* Saving of position, inventory and time.  The inductive invariants: where  *)
(* the newest value is while it is not in the file.                          *)

(* The position: marked, queued, or what the thread of the pool writes.      *)
PositionIsSomewhere ==
    LET pending == posDirty \/ saveWork > 0 IN
    /\ posClosing \in {"play", "remove"} \/ (posClosing = "pool" /\ posHeld = Nothing) =>
            /\ posWriting = Nothing /\ savedPosition # lastPosition => pending
            /\ posWriting # Nothing /\ posWriting # lastPosition => pending
    /\ posClosing \in {"play", "remove"} => posHeld = Nothing
    /\ posClosing = "write" => posHeld = lastPosition
    /\ posClosing \in {"pool", "closed"} /\ posHeld = Nothing => ~posDirty
    /\ posClosing = "pool" /\ posHeld # Nothing => savedPosition = lastPosition \/ overtaken
    /\ posClosing = "closed" => posWriting = Nothing

(* The items: marked, or what the tick writes. *)
ItemsAreSomewhere ==
    /\ invWriting # Nothing => invDirty /\ (invWriting = items \/ crossed)
    /\ savedItems # items => invDirty \/ crossed
    /\ invClosing = "closed" => invWriting = Nothing /\ ~invDirty

TimeIsCounted == worldTime = savedTimeInfo + ticksSinceSave

PersistenceIInv ==
    /\ PersistenceTypeOK /\ LastPositionSaved
    /\ PositionIsSomewhere /\ ItemsAreSomewhere /\ TimeIsCounted

LEMMA PersistenceTypesSplit ==
    ASSUME PersistenceTypeOK
    PROVE  /\ lastPosition \in Change /\ savedPosition \in Change
           /\ items \in Change /\ savedItems \in Change
           /\ worldTime \in 0..MaxTime /\ savedTimeInfo \in 0..MaxTime
           /\ posWriting \in Change \cup {Nothing} /\ posHeld \in Change \cup {Nothing}
           /\ invWriting \in Change \cup {Nothing}
           /\ posDirty \in BOOLEAN /\ invDirty \in BOOLEAN
           /\ overtaken \in BOOLEAN /\ crossed \in BOOLEAN
           /\ dirtyTicks \in 0..SaveDelay /\ ticksSinceSave \in 0..SaveDelay
           /\ saveTimer \in 1..SaveDelay /\ saveWork \in Nat
           /\ MaxChanges \in Nat /\ MaxTime \in Nat /\ SaveDelay \in Nat \ {0}
           /\ Nothing \notin Change
  BY PersistenceAssumption DEF PersistenceTypeOK, Change

LEMMA PersistenceInitHolds == PersistenceInit => PersistenceIInv
<1> SUFFICES ASSUME PersistenceInit PROVE PersistenceIInv
  OBVIOUS
<1> USE DEF PersistenceInit, PositionInit, InventoryInit, TimeInit
<1>1. 0 \in Change /\ 0 \in 0..MaxTime /\ 0 \in 0..SaveDelay /\ SaveDelay \in 1..SaveDelay
  BY PersistenceAssumption DEF Change
<1>2. PersistenceTypeOK
  BY <1>1 DEF PersistenceTypeOK
<1>3. LastPositionSaved /\ PositionIsSomewhere /\ ItemsAreSomewhere /\ TimeIsCounted
  BY DEF LastPositionSaved, PositionIsSomewhere, ItemsAreSomewhere, TimeIsCounted
<1>4. QED
  BY <1>2, <1>3 DEF PersistenceIInv

LEMMA PositionStep ==
    ASSUME PersistenceIInv, PositionNext, UNCHANGED <<inventoryVars, timeVars>>
    PROVE  PersistenceTypeOK' /\ LastPositionSaved' /\ PositionIsSomewhere'
<1> USE DEF PersistenceIInv, PositionIsSomewhere, LastPositionSaved
<1>0. /\ lastPosition \in Change /\ savedPosition \in Change
      /\ posWriting \in Change \cup {Nothing} /\ posHeld \in Change \cup {Nothing}
      /\ posDirty \in BOOLEAN /\ overtaken \in BOOLEAN
      /\ dirtyTicks \in 0..SaveDelay /\ saveWork \in Nat
      /\ MaxChanges \in Nat /\ SaveDelay \in Nat \ {0} /\ Nothing \notin Change
      /\ posClosing \in {"play", "remove", "write", "pool", "closed"}
  BY PersistenceTypesSplit DEF PersistenceTypeOK
<1>9. ASSUME /\ lastPosition' \in Change /\ savedPosition' \in Change
             /\ posWriting' \in Change \cup {Nothing} /\ posHeld' \in Change \cup {Nothing}
             /\ posDirty' \in BOOLEAN /\ overtaken' \in BOOLEAN
             /\ dirtyTicks' \in 0..SaveDelay /\ saveWork' \in Nat
             /\ posClosing' \in {"play", "remove", "write", "pool", "closed"}
      PROVE  PersistenceTypeOK'
  BY <1>9 DEF PersistenceTypeOK, inventoryVars, timeVars
<1>1. CASE StartOfFrame
  <2>1. /\ lastPosition' = lastPosition + 1 /\ lastPosition' \in Change /\ posDirty' = TRUE
        /\ posClosing = "play"
        /\ UNCHANGED <<dirtyTicks, saveWork, posWriting, posClosing, posHeld, savedPosition,
                       overtaken>>
    BY <1>0, <1>1 DEF StartOfFrame, Change
  <2>2. QED
    BY <1>0, <1>9, <2>1
<1>2. CASE PosTick
  <2>1. /\ posClosing \in {"play", "remove"}
        /\ \/ posDirty' = TRUE /\ saveWork' = saveWork
           \/ posDirty' = FALSE /\ saveWork' = saveWork + 1
        /\ dirtyTicks' \in 0..SaveDelay
        /\ UNCHANGED <<lastPosition, posWriting, posClosing, posHeld, savedPosition, overtaken>>
    <3>1. posDirty = TRUE
      BY <1>0, <1>2 DEF PosTick
    <3>2. CASE dirtyTicks < SaveDelay
      BY <1>0, <1>2, <3>1, <3>2 DEF PosTick
    <3>3. CASE ~(dirtyTicks < SaveDelay)
      BY <1>0, <1>2, <3>1, <3>3 DEF PosTick
    <3>4. QED
      BY <3>2, <3>3
  <2>2. CASE posDirty' = TRUE /\ saveWork' = saveWork
    BY <1>0, <1>9, <2>1, <2>2
  <2>3. CASE posDirty' = FALSE /\ saveWork' = saveWork + 1
    <3>1. saveWork' \in Nat /\ saveWork' > 0
      BY <1>0, <2>3
    <3>2. QED
      BY <1>0, <1>9, <2>1, <2>3, <3>1
  <2>4. QED
    BY <2>1, <2>2, <2>3
<1>3. CASE WorkerReads
  <2>1. /\ saveWork > 0 /\ posWriting = Nothing /\ posClosing # "closed"
        /\ saveWork' = saveWork - 1 /\ saveWork' \in Nat /\ posWriting' = lastPosition
        /\ UNCHANGED <<lastPosition, posDirty, dirtyTicks, posClosing, posHeld, savedPosition,
                       overtaken>>
    BY <1>0, <1>3 DEF WorkerReads
  <2>2. QED
    BY <1>0, <1>9, <2>1
<1>4. CASE WorkerPuts
  <2>1. /\ posWriting # Nothing /\ savedPosition' = posWriting /\ posWriting' = Nothing
        /\ overtaken' = (posClosing \in {"pool", "closed"} /\ posHeld # Nothing)
        /\ UNCHANGED <<lastPosition, posDirty, dirtyTicks, saveWork, posClosing, posHeld>>
    BY <1>4 DEF WorkerPuts
  <2>2. overtaken' \in BOOLEAN
    BY <2>1
  <2>3. posClosing = "pool" /\ posHeld # Nothing => overtaken'
    BY <2>1
  <2>4. QED
    BY <1>0, <1>9, <2>1, <2>2, <2>3
<1>5. CASE EndPosition
  <2>0. UNCHANGED <<lastPosition, posDirty, dirtyTicks, saveWork, posWriting, overtaken>>
    BY <1>5 DEF EndPosition
  <2>1. CASE posClosing = "play"
    BY <1>0, <1>5, <1>9, <2>0, <2>1 DEF EndPosition
  <2>2. CASE posClosing = "remove" /\ posDirty
    BY <1>0, <1>5, <1>9, <2>0, <2>2 DEF EndPosition
  <2>3. CASE posClosing = "remove" /\ ~posDirty
    BY <1>0, <1>5, <1>9, <2>0, <2>3 DEF EndPosition
  <2>4. CASE posClosing = "write"
    BY <1>0, <1>5, <1>9, <2>0, <2>4 DEF EndPosition
  <2>5. CASE posClosing = "pool"
    BY <1>0, <1>5, <1>9, <2>0, <2>5 DEF EndPosition
  <2>6. QED
    BY <1>0, <1>5, <2>1, <2>2, <2>3, <2>4, <2>5 DEF EndPosition
<1>6. QED
  BY <1>1, <1>2, <1>3, <1>4, <1>5 DEF PositionNext

LEMMA InventoryStep ==
    ASSUME PersistenceIInv, InventoryNext, UNCHANGED <<positionVars, timeVars>>
    PROVE  PersistenceTypeOK' /\ ItemsAreSomewhere'
<1> USE DEF PersistenceIInv, ItemsAreSomewhere
<1>0. /\ items \in Change /\ savedItems \in Change /\ invWriting \in Change \cup {Nothing}
      /\ invDirty \in BOOLEAN /\ crossed \in BOOLEAN /\ saveTimer \in 1..SaveDelay
      /\ MaxChanges \in Nat /\ SaveDelay \in Nat \ {0} /\ Nothing \notin Change
      /\ invClosing \in {"play", "remove", "closed"}
  BY PersistenceTypesSplit DEF PersistenceTypeOK
<1>9. ASSUME /\ items' \in Change /\ savedItems' \in Change
             /\ invWriting' \in Change \cup {Nothing}
             /\ invDirty' \in BOOLEAN /\ crossed' \in BOOLEAN /\ saveTimer' \in 1..SaveDelay
             /\ invClosing' \in {"play", "remove", "closed"}
      PROVE  PersistenceTypeOK'
  BY <1>9 DEF PersistenceTypeOK, positionVars, timeVars
<1>1. CASE ChangeItems
  <2>1. /\ items' = items + 1 /\ items' \in Change /\ invDirty' = TRUE /\ invClosing = "play"
        /\ UNCHANGED <<saveTimer, invWriting, invClosing, savedItems>>
    BY <1>0, <1>1 DEF ChangeItems, Change
  <2>2. crossed' = (crossed \/ invWriting # Nothing)
    BY <1>1 DEF ChangeItems
  <2>3. crossed' \in BOOLEAN /\ (invWriting # Nothing => crossed')
    BY <2>2
  <2>4. QED
    BY <1>0, <1>9, <2>1, <2>3
<1>2. CASE InvTick
  <2>1. saveTimer' \in 1..SaveDelay
    BY <1>0, <1>2 DEF InvTick
  <2>2. /\ invClosing \in {"play", "remove"} /\ invWriting = Nothing
        /\ \/ invDirty /\ invWriting' = items /\ crossed' = FALSE
           \/ UNCHANGED <<invWriting, crossed>>
        /\ UNCHANGED <<items, invDirty, invClosing, savedItems>>
    BY <1>2 DEF InvTick
  <2>3. CASE invDirty /\ invWriting' = items /\ crossed' = FALSE
    BY <1>0, <1>9, <2>1, <2>2, <2>3
  <2>4. CASE UNCHANGED <<invWriting, crossed>>
    <3>1. PersistenceTypeOK'
      BY <1>0, <1>9, <2>1, <2>2, <2>4
    <3>2. ItemsAreSomewhere'
      BY <2>2, <2>4
    <3>3. QED
      BY <3>1, <3>2
  <2>5. QED
    BY <2>2, <2>3, <2>4
<1>3. CASE InvTickPuts
  BY <1>0, <1>3, <1>9 DEF InvTickPuts
<1>4. CASE EndInventory
  <2>1. UNCHANGED <<items, saveTimer, invWriting, crossed>>
    BY <1>4 DEF EndInventory
  <2>2. \/ /\ invClosing = "play" /\ invClosing' = "remove" /\ UNCHANGED <<savedItems, invDirty>>
        \/ /\ invWriting = Nothing /\ invDirty' = FALSE /\ invClosing' = "closed"
           /\ savedItems' = IF invDirty THEN items ELSE savedItems
    BY <1>4 DEF EndInventory
  <2>3. CASE invClosing = "play"
    BY <1>0, <1>9, <2>1, <2>2, <2>3
  <2>4. CASE invWriting = Nothing /\ invDirty' = FALSE /\ invClosing' = "closed"
    <3>1. savedItems' \in Change /\ (savedItems' # items => crossed)
      BY <1>0, <1>4, <2>4 DEF EndInventory
    <3>2. QED
      BY <1>0, <1>9, <2>1, <2>4, <3>1
  <2>5. QED
    BY <2>2, <2>3, <2>4
<1>5. QED
  BY <1>1, <1>2, <1>3, <1>4 DEF InventoryNext

LEMMA TimeStep ==
    ASSUME PersistenceIInv, TimeTick, UNCHANGED <<positionVars, inventoryVars>>
    PROVE  PersistenceTypeOK' /\ TimeIsCounted'
<1>1. /\ worldTime \in 0..MaxTime /\ savedTimeInfo \in 0..MaxTime /\ MaxTime \in Nat
      /\ ticksSinceSave \in 0..SaveDelay /\ SaveDelay \in Nat \ {0}
      /\ worldTime = savedTimeInfo + ticksSinceSave
  BY PersistenceTypesSplit DEF PersistenceIInv, TimeIsCounted
<1>2. /\ worldTime' \in 0..MaxTime /\ savedTimeInfo' \in 0..MaxTime
      /\ ticksSinceSave' \in 0..SaveDelay
      /\ worldTime' = savedTimeInfo' + ticksSinceSave'
  BY <1>1 DEF TimeTick
<1>3. PersistenceTypeOK'
  BY <1>2 DEF PersistenceIInv, PersistenceTypeOK, positionVars, inventoryVars
<1>4. QED
  BY <1>2, <1>3 DEF TimeIsCounted

LEMMA PersistenceStep ==
    PersistenceIInv /\ [PersistenceNext]_persistenceVars => PersistenceIInv'
<1> SUFFICES ASSUME PersistenceIInv, [PersistenceNext]_persistenceVars PROVE PersistenceIInv'
  OBVIOUS
<1>1. UNCHANGED positionVars => LastPositionSaved' /\ PositionIsSomewhere'
  BY DEF PersistenceIInv, positionVars, LastPositionSaved, PositionIsSomewhere
<1>2. UNCHANGED inventoryVars => ItemsAreSomewhere'
  BY DEF PersistenceIInv, inventoryVars, ItemsAreSomewhere
<1>3. UNCHANGED timeVars => TimeIsCounted'
  BY DEF PersistenceIInv, timeVars, TimeIsCounted
<1>4. UNCHANGED persistenceVars => PersistenceTypeOK'
  BY DEF PersistenceIInv, persistenceVars, positionVars, inventoryVars, timeVars,
         PersistenceTypeOK
<1>5. CASE PositionNext /\ UNCHANGED <<inventoryVars, timeVars>>
  BY <1>2, <1>3, <1>5, PositionStep DEF PersistenceIInv
<1>6. CASE InventoryNext /\ UNCHANGED <<positionVars, timeVars>>
  BY <1>1, <1>3, <1>6, InventoryStep DEF PersistenceIInv
<1>7. CASE TimeTick /\ UNCHANGED <<positionVars, inventoryVars>>
  BY <1>1, <1>2, <1>7, TimeStep DEF PersistenceIInv
<1>8. CASE UNCHANGED persistenceVars
  BY <1>1, <1>2, <1>3, <1>4, <1>8 DEF PersistenceIInv, persistenceVars
<1>9. QED
  BY <1>5, <1>6, <1>7, <1>8 DEF PersistenceNext

(* For all delays: when the program has ended, the file has the last position *)
(* and the last items but for the named races, and a time that is one         *)
(* interval old at most.                                                      *)
THEOREM PersistenceSafe == PersistenceSpec => []PersistenceInv
<1>1. PersistenceIInv => PersistenceInv
  <2> SUFFICES ASSUME PersistenceIInv PROVE PersistenceInv
    OBVIOUS
  <2>1. PersistenceTypeOK /\ LastPositionSaved
    BY DEF PersistenceIInv
  <2>2. LastItemsSaved
    BY DEF PersistenceIInv, ItemsAreSomewhere, LastItemsSaved
  <2>3. TimeLagBounded
    BY PersistenceTypesSplit DEF PersistenceIInv, TimeIsCounted, TimeLagBounded
  <2>4. QED
    BY <2>1, <2>2, <2>3 DEF PersistenceInv
<1>2. QED
  BY <1>1, PersistenceInitHolds, PersistenceStep, PTL DEF PersistenceSpec
-----------------------------------------------------------------------------
(* Sets of numbers have a least and, if they are bounded, a greatest one.    *)

LEMMA Least ==
    ASSUME NEW S \in SUBSET Nat, S # {}
    PROVE  \E x \in S : \A y \in S : x <= y
<1> DEFINE R == OpToRel(<, Nat)
<1>1. IsWellFoundedOn(R, Nat)
  BY NatLessThanWellFounded
<1>2. \A x, y \in Nat : x < y => <<x, y>> \in R
  BY DEF OpToRel
<1> HIDE DEF R
<1>3. PICK x \in S : \A y \in S : ~(<<y, x>> \in R)
  BY <1>1, WFMin
<1>4. ASSUME NEW y \in S PROVE x <= y
  <2>1. x \in Nat /\ y \in Nat /\ ~(<<y, x>> \in R)
    BY <1>3
  <2>2. ~(y < x)
    BY <1>2, <2>1
  <2>3. QED
    BY <2>1, <2>2
<1>5. QED
  BY <1>4

LEMMA Greatest ==
    ASSUME NEW N \in Nat, NEW S \in SUBSET (0..N), S # {}
    PROVE  \E x \in S : \A y \in S : y <= x
<1> DEFINE T == {n \in Nat : N - n \in S}
<1>1. T \in SUBSET Nat /\ T # {}
  <2>1. PICK s \in S : TRUE
    OBVIOUS
  <2>2. N - s \in Nat /\ N - (N - s) = s
    BY <2>1
  <2>3. QED
    BY <2>1, <2>2
<1>2. PICK n \in T : \A m \in T : n <= m
  BY <1>1, Least
<1>3. N - n \in S
  OBVIOUS
<1>4. ASSUME NEW y \in S PROVE y <= N - n
  <2>1. N - y \in T
    BY DEF T
  <2>2. n <= N - y
    BY <1>2, <2>1
  <2>3. QED
    BY <1>3, <2>2
<1>5. QED
  BY <1>3, <1>4
-----------------------------------------------------------------------------
(* Torches.  The inductive invariant: what is lit is a torch, a block that   *)
(* is about to be told as removed is neither, and smokes are counted.        *)

Heard == {Settled} \cup [at : Height, kind : Kinds, removed : BOOLEAN, of : 0..MaxLoads]

TorchTypes ==
    /\ TorchesTypeOK
    /\ setting \in [Setter -> Heard] /\ lit \subseteq Height

LitAreTorches == \A h \in lit : column[h] = "torch"

RemovedAreAir ==
    \A t \in Setter : setting[t] # Settled /\ setting[t].removed /\ setting[t].at \notin mixed =>
        column[setting[t].at] = "air"

LeftAreLeft == current # 0 => current \notin leaving

TorchesIInv ==
    /\ TorchTypes /\ SmokeOnce /\ TorchesSmoke /\ LoadedTells
    /\ LitAreTorches /\ RemovedAreAir /\ LeftAreLeft

LEMMA HeardFields ==
    ASSUME NEW c \in Heard, c # Settled
    PROVE  /\ c.at \in Height /\ c.kind \in Kinds /\ c.removed \in BOOLEAN /\ c.of \in 0..MaxLoads
           /\ c \in [at : Height, kind : Kinds, removed : BOOLEAN, of : 0..MaxLoads]
  BY DEF Heard

LEMMA TorchBounds ==
    /\ Top \in Nat \ {0} /\ Room \in Nat
    /\ MaxSets \in Nat /\ MaxLoads \in Nat \ {0} /\ MaxMet \in Nat
    /\ Height \subseteq Nat /\ 0 \notin Height /\ \A h \in Height : h + 1 \in 1..(Top + 1)
  BY TorchesAssumption DEF Height

LEMMA TorchesInitHolds == TorchesInit => TorchesIInv
<1> SUFFICES ASSUME TorchesInit PROVE TorchesIInv
  OBVIOUS
<1>1. TorchesTypeOK
  BY TorchBounds DEF TorchesInit, TorchesTypeOK, Kinds, Settled
<1>2. TorchTypes
  BY <1>1 DEF TorchesInit, TorchTypes, Heard
<1>3. QED
  BY <1>2 DEF TorchesInit, TorchesIInv, SmokeOnce, TorchesSmoke, LoadedTells, LitAreTorches,
              RemovedAreAir, LeftAreLeft

(* Smokes come and go with the heights that are known. *)
LEMMA AddedTorchCounts ==
    ASSUME TorchTypes, SmokeOnce, NEW h \in Height, AddedTorch(h)
    PROVE  /\ known' = known \cup {h} /\ known' \subseteq Height
           /\ smoke' \in [Height -> Nat] /\ SmokeOnce'
<1>1. known \subseteq Height /\ smoke \in [Height -> Nat]
  BY DEF TorchTypes, TorchesTypeOK
<1>2. /\ known' = known \cup {h}
      /\ smoke' = [g \in Height |-> smoke[g] + (IF g \in {h} \ known THEN 1 ELSE 0)
                                             - (IF g \in {} THEN 1 ELSE 0)]
  BY DEF AddedTorch, Smoking
<1>3. ASSUME NEW g \in Height PROVE smoke'[g] = IF g \in known' THEN 1 ELSE 0
  BY <1>1, <1>2 DEF SmokeOnce
<1>4. SmokeOnce'
  BY <1>3 DEF SmokeOnce
<1>5. smoke' \in [Height -> Nat]
  BY <1>2, <1>3
<1>6. QED
  BY <1>1, <1>2, <1>4, <1>5

LEMMA RemovedTorchesCount ==
    ASSUME TorchTypes, SmokeOnce, NEW H \in SUBSET Height, RemovedTorches(H)
    PROVE  /\ known' = known \ H /\ known' \subseteq Height
           /\ smoke' \in [Height -> Nat] /\ SmokeOnce'
<1>1. known \subseteq Height /\ smoke \in [Height -> Nat]
  BY DEF TorchTypes, TorchesTypeOK
<1>2. /\ known' = known \ H
      /\ smoke' = [g \in Height |-> smoke[g] + (IF g \in {} THEN 1 ELSE 0)
                                             - (IF g \in H \cap known THEN 1 ELSE 0)]
  BY DEF RemovedTorches, Smoking
<1>3. ASSUME NEW g \in Height PROVE smoke'[g] = IF g \in known' THEN 1 ELSE 0
  BY <1>1, <1>2 DEF SmokeOnce
<1>4. SmokeOnce'
  BY <1>3 DEF SmokeOnce
<1>5. smoke' \in [Height -> Nat]
  BY <1>2, <1>3
<1>6. QED
  BY <1>1, <1>2, <1>4, <1>5

(* A new object of the chunk is none that is still to be let go. *)
LEMMA NewestIsNew ==
    ASSUME TorchesTypeOK
    PROVE  Newest \in 0..MaxLoads /\ \A o \in leaving : o <= Newest
<1> DEFINE S == {current} \cup leaving \cup registered \cup {observer}
<1>1. S \in SUBSET (0..MaxLoads) /\ S # {}
  BY TorchBounds DEF TorchesTypeOK
<1>2. \E x \in S : \A y \in S : y <= x
  BY <1>1, Greatest, TorchBounds
<1>3. \E o \in 0..MaxLoads : o \in S /\ \A q \in S : q <= o
  BY <1>1, <1>2
<1>4. Newest \in 0..MaxLoads /\ Newest \in S /\ \A q \in S : q <= Newest
  BY <1>3 DEF Newest
<1>5. QED
  BY <1>4

LEMMA SetKeeps ==
    ASSUME TorchesIInv, NEW t \in Setter, NEW h \in Height, Set(t, h)
    PROVE  TorchesIInv'
<1> USE DEF TorchesIInv, TorchTypes, TorchesTypeOK
<1>0. /\ column \in [Height -> Kinds] /\ setting \in [Setter -> Heard]
      /\ lit \subseteq Height /\ mixed \subseteq 1..(Top + 1)
      /\ current \in 0..MaxLoads /\ heard \in 0..MaxSets
  OBVIOUS
<1>1. PICK k \in Kinds :
        /\ k # column[h] /\ column' = [column EXCEPT ![h] = k]
        /\ setting' = [setting EXCEPT ![t] =
                         [at |-> h, kind |-> IF k = "air" THEN column[h] ELSE k,
                          removed |-> k = "air", of |-> current]]
  BY DEF Set
<1> DEFINE r == [at |-> h, kind |-> IF k = "air" THEN column[h] ELSE k,
                 removed |-> k = "air", of |-> current]
<1>2. /\ setting[t] = Settled /\ heard < MaxSets /\ heard' = heard + 1 /\ lit' = lit \ {h}
      /\ mixed' = IF Busy(h) \/ Busy(h + 1) THEN mixed \cup {h, h + 1} ELSE mixed
      /\ UNCHANGED <<known, smoke, inHand, met, chunks, told>>
  BY DEF Set
<1>3. r \in Heard /\ r.at = h /\ r.removed = (k = "air")
  BY <1>0 DEF Heard, Kinds
<1> HIDE DEF r
<1>4. column' \in [Height -> Kinds] /\ setting' \in [Setter -> Heard] /\ heard' \in 0..MaxSets
  BY <1>0, <1>1, <1>2, <1>3, TorchBounds DEF r
<1>5. mixed \subseteq mixed' /\ mixed' \subseteq 1..(Top + 1)
  BY <1>0, <1>2, TorchBounds DEF Height
<1>6. TorchTypes'
  <2>1. \A u \in Setter : setting'[u] = Settled \/ setting'[u].at \in Height
    BY <1>4, HeardFields
  <2>2. QED
    BY <1>2, <1>4, <1>5, <2>1 DEF chunks
<1>7. RemovedAreAir'
  <2> SUFFICES ASSUME NEW u \in Setter, setting'[u] # Settled, setting'[u].removed,
                      setting'[u].at \notin mixed'
               PROVE  column'[setting'[u].at] = "air"
    BY DEF RemovedAreAir
  <2>1. CASE u = t
    <3>1. setting'[u] = r
      BY <1>0, <1>1, <2>1 DEF r
    <3>2. k = "air"
      BY <1>3, <3>1
    <3>3. QED
      BY <1>0, <1>1, <1>3, <3>1, <3>2
  <2>2. CASE u # t
    <3>1. setting'[u] = setting[u]
      BY <1>0, <1>1, <2>2
    <3>2. setting[u].at \in Height /\ column[setting[u].at] = "air"
      BY <1>0, <1>5, <3>1, HeardFields DEF RemovedAreAir
    <3>3. setting[u].at # h
      <4>1. SUFFICES ASSUME setting[u].at = h PROVE FALSE
        OBVIOUS
      <4>2. Busy(h)
        BY <3>1, <4>1 DEF Busy
      <4>3. QED
        BY <1>2, <3>1, <4>1, <4>2
    <3>4. QED
      BY <1>0, <1>1, <3>1, <3>2, <3>3
  <2>3. QED
    BY <2>1, <2>2
<1>8. LitAreTorches'
  BY <1>0, <1>1, <1>2 DEF LitAreTorches
<1>9. TorchesSmoke'
  BY <1>2, <1>5 DEF TorchesSmoke
<1>10. SmokeOnce' /\ LoadedTells' /\ LeftAreLeft'
  BY <1>2 DEF SmokeOnce, LoadedTells, LeftAreLeft, chunks
<1>11. QED
  BY <1>6, <1>7, <1>8, <1>9, <1>10

LEMMA TellKeeps ==
    ASSUME TorchesIInv, NEW t \in Setter, Tell(t)
    PROVE  TorchesIInv'
<1> USE DEF TorchesIInv, TorchTypes, TorchesTypeOK
<1> DEFINE c == setting[t]
<1>0. /\ column \in [Height -> Kinds] /\ setting \in [Setter -> Heard]
      /\ lit \subseteq Height /\ inHand \in 0..Room
  OBVIOUS
<1>1. /\ c # Settled /\ setting' = [setting EXCEPT ![t] = Settled]
      /\ UNCHANGED <<met, mixed, chunks, told, heard>>
  BY DEF Tell
<1>2. \/ UNCHANGED <<column, known, smoke, inHand, lit>>
      \/ c.removed /\ ToldRemoved(c)
      \/ ToldAdded(c)
  BY DEF Tell
<1>3. c.at \in Height /\ c.kind \in Kinds /\ c.at + 1 \in 1..(Top + 1)
  BY <1>0, <1>1, HeardFields, TorchBounds
<1>4. setting' \in [Setter -> Heard]
  BY <1>0, <1>1 DEF Heard
<1>5. \A u \in Setter : setting'[u] = setting[u] \/ setting'[u] = Settled
  BY <1>0, <1>1
<1>6. ASSUME /\ column' \in [Height -> Kinds] /\ known' \subseteq Height
             /\ smoke' \in [Height -> Nat] /\ inHand' \in 0..Room /\ lit' \subseteq Height
      PROVE  TorchTypes'
  <2>1. \A u \in Setter : setting'[u] = Settled \/ setting'[u].at \in Height
    BY <1>4, HeardFields
  <2>2. QED
    BY <1>1, <1>4, <1>6, <2>1 DEF chunks
<1>7. LoadedTells' /\ LeftAreLeft'
  BY <1>1 DEF LoadedTells, LeftAreLeft, chunks
<1>8. ASSUME \A h \in Height : column'[h] = column[h] \/ column'[h] = "air"
      PROVE  RemovedAreAir'
  <2> SUFFICES ASSUME NEW u \in Setter, setting'[u] # Settled, setting'[u].removed,
                      setting'[u].at \notin mixed'
               PROVE  column'[setting'[u].at] = "air"
    BY DEF RemovedAreAir
  <2>1. setting'[u] = setting[u] /\ setting[u].at \in Height /\ setting[u].at \notin mixed
    BY <1>0, <1>1, <1>5, HeardFields
  <2>2. column[setting[u].at] = "air"
    BY <2>1 DEF RemovedAreAir
  <2>3. QED
    BY <1>8, <2>1, <2>2
<1>9. CASE UNCHANGED <<column, known, smoke, inHand, lit>>
  <2>1. TorchTypes' /\ RemovedAreAir'
    BY <1>6, <1>8, <1>9
  <2>2. SmokeOnce' /\ TorchesSmoke' /\ LitAreTorches'
    BY <1>1, <1>9 DEF SmokeOnce, TorchesSmoke, LitAreTorches
  <2>3. QED
    BY <1>7, <2>1, <2>2
<1>10. CASE c.removed /\ ToldRemoved(c)
  <2> DEFINE H == Above(c) \cup {h \in {c.at} : c.kind = "torch"}
  <2>1. H \in SUBSET Height /\ Above(c) \subseteq Height
    BY <1>3 DEF Above
  <2>2. /\ column' = [h \in Height |-> IF h \in Above(c) THEN "air" ELSE column[h]]
        /\ RemovedTorches(H) /\ lit' = lit \ Above(c)
    BY <1>10 DEF ToldRemoved
  <2>3. inHand' \in 0..Room
    BY <1>0, <1>10, TorchBounds DEF ToldRemoved, AddInventoryItem
  <2>4. /\ known' = known \ H /\ known' \subseteq Height
        /\ smoke' \in [Height -> Nat] /\ SmokeOnce'
    BY <2>1, <2>2, RemovedTorchesCount
  <2>5. /\ column' \in [Height -> Kinds]
        /\ \A h \in Height : column'[h] = column[h] \/ column'[h] = "air"
    BY <1>0, <2>2 DEF Kinds
  <2>6. TorchTypes' /\ RemovedAreAir'
    BY <1>0, <1>6, <1>8, <2>2, <2>3, <2>4, <2>5
  <2>7. LitAreTorches'
    BY <1>0, <2>2 DEF LitAreTorches
  <2>8. c.at \notin mixed => c.at \notin lit
    <3>1. c.at \notin mixed => column[c.at] = "air"
      BY <1>1, <1>10 DEF RemovedAreAir
    <3>2. QED
      BY <3>1 DEF LitAreTorches
  <2>9. TorchesSmoke'
    BY <1>1, <2>2, <2>4, <2>8 DEF TorchesSmoke
  <2>10. QED
    BY <1>7, <2>4, <2>6, <2>7, <2>9
<1>11. CASE ToldAdded(c)
  <2>1. /\ UNCHANGED <<column, inHand>>
        /\ lit' = IF c.kind = "torch" /\ column[c.at] = "torch" THEN lit \cup {c.at} ELSE lit
        /\ c.kind = "torch" => AddedTorch(c.at)
        /\ c.kind # "torch" => UNCHANGED <<known, smoke>>
    BY <1>11 DEF ToldAdded
  <2>2. /\ known \subseteq known' /\ known' \subseteq Height /\ smoke' \in [Height -> Nat]
        /\ SmokeOnce' /\ (c.kind = "torch" => c.at \in known')
    <3>1. CASE c.kind = "torch"
      BY <1>3, <2>1, <3>1, AddedTorchCounts
    <3>2. CASE c.kind # "torch"
      BY <2>1, <3>2 DEF SmokeOnce
    <3>3. QED
      BY <3>1, <3>2
  <2>3. TorchTypes' /\ RemovedAreAir'
    BY <1>0, <1>3, <1>6, <1>8, <2>1, <2>2
  <2>4. LitAreTorches'
    BY <2>1 DEF LitAreTorches
  <2>5. TorchesSmoke'
    BY <1>1, <2>1, <2>2 DEF TorchesSmoke
  <2>6. QED
    BY <1>7, <2>2, <2>3, <2>4, <2>5
<1>12. QED
  BY <1>2, <1>9, <1>10, <1>11

LEMMA WorkerKeeps ==
    ASSUME TorchesIInv, NEW h \in Height, Meet(h) \/ BlockWillDisplay(h)
    PROVE  TorchesIInv'
<1> USE DEF TorchesIInv, TorchTypes, TorchesTypeOK
<1>1. CASE Meet(h)
  <2>1. /\ met' = met \cup {h} /\ told < MaxMet /\ told' = told + 1
        /\ UNCHANGED <<things, setting, chunks, heard>>
    BY <1>1 DEF Meet
  <2>2. told' \in 0..MaxMet /\ met' \subseteq Height
    BY <2>1, TorchBounds
  <2>3. TorchTypes'
    BY <2>1, <2>2 DEF things, chunks
  <2>4. QED
    BY <2>1, <2>3 DEF things, chunks, SmokeOnce, TorchesSmoke, LoadedTells, LitAreTorches,
                      RemovedAreAir, LeftAreLeft
<1>2. CASE BlockWillDisplay(h)
  <2>1. /\ met' = met \ {h} /\ AddedTorch(h)
        /\ lit' = IF column[h] = "torch" THEN lit \cup {h} ELSE lit
        /\ UNCHANGED <<column, inHand, mixed, setting, chunks, told, heard>>
    BY <1>2 DEF BlockWillDisplay
  <2>2. /\ known' = known \cup {h} /\ known' \subseteq Height
        /\ smoke' \in [Height -> Nat] /\ SmokeOnce'
    BY <2>1, AddedTorchCounts
  <2>3. TorchTypes'
    BY <2>1, <2>2 DEF chunks
  <2>4. LitAreTorches' /\ TorchesSmoke'
    BY <2>1, <2>2 DEF LitAreTorches, TorchesSmoke
  <2>5. LoadedTells' /\ RemovedAreAir' /\ LeftAreLeft'
    BY <2>1 DEF chunks, LoadedTells, RemovedAreAir, LeftAreLeft
  <2>6. QED
    BY <2>2, <2>3, <2>4, <2>5
<1>3. QED
  BY <1>1, <1>2

LEMMA ChunksComeAndGo ==
    ASSUME TorchesIInv,
           ChunkWasLoaded \/ LetGo \/ \E o \in leaving : ChunkWillUnload(o)
    PROVE  TorchesIInv'
<1> USE DEF TorchesIInv
<1>0. /\ current \in 0..MaxLoads /\ leaving \subseteq 1..MaxLoads
      /\ registered \subseteq 1..MaxLoads /\ observer \in 0..MaxLoads
  BY DEF TorchTypes, TorchesTypeOK
<1>1. UNCHANGED <<things, setting, met, told, heard>>
  BY DEF ChunkWasLoaded, LetGo, ChunkWillUnload
<1>2. ASSUME /\ current' \in 0..MaxLoads /\ leaving' \subseteq 1..MaxLoads
             /\ registered' \subseteq 1..MaxLoads /\ observer' \in 0..MaxLoads
      PROVE  TorchTypes'
  BY <1>1, <1>2 DEF TorchTypes, TorchesTypeOK, things
<1>3. SmokeOnce' /\ TorchesSmoke' /\ LitAreTorches' /\ RemovedAreAir'
  BY <1>1 DEF things, SmokeOnce, TorchesSmoke, LitAreTorches, RemovedAreAir
<1>4. CASE ChunkWasLoaded
  <2>1. /\ Newest < MaxLoads /\ current' = Newest + 1 /\ observer' = Newest + 1
        /\ registered' = registered \cup {Newest + 1} /\ UNCHANGED leaving
    BY <1>4 DEF ChunkWasLoaded
  <2>2. Newest \in 0..MaxLoads /\ \A o \in leaving : o <= Newest
    BY NewestIsNew DEF TorchTypes
  <2>3. Newest + 1 \in 1..MaxLoads /\ Newest + 1 \notin leaving
    BY <1>0, <2>1, <2>2, TorchBounds
  <2>4. TorchTypes'
    <3>1. current' \in 0..MaxLoads /\ observer' \in 0..MaxLoads
      BY <1>0, <2>1, <2>3, TorchBounds
    <3>2. leaving' \subseteq 1..MaxLoads /\ registered' \subseteq 1..MaxLoads
      BY <1>0, <2>1, <2>3, TorchBounds
    <3>3. QED
      BY <1>2, <3>1, <3>2
  <2>5. LoadedTells' /\ LeftAreLeft'
    BY <2>1, <2>3 DEF LoadedTells, LeftAreLeft
  <2>6. QED
    BY <1>3, <2>4, <2>5
<1>5. CASE LetGo
  <2>1. /\ current # 0 /\ current' = 0 /\ leaving' = leaving \cup {current}
        /\ UNCHANGED <<registered, observer>>
    BY <1>5 DEF LetGo
  <2>2. current \in 1..MaxLoads
    BY <1>0, <2>1
  <2>3. TorchTypes'
    <3>1. current' \in 0..MaxLoads /\ observer' \in 0..MaxLoads
      BY <1>0, <2>1, <2>2, TorchBounds
    <3>2. leaving' \subseteq 1..MaxLoads /\ registered' \subseteq 1..MaxLoads
      BY <1>0, <2>1, <2>2, TorchBounds
    <3>3. QED
      BY <1>2, <3>1, <3>2
  <2>4. LoadedTells' /\ LeftAreLeft'
    BY <2>1 DEF LoadedTells, LeftAreLeft
  <2>5. QED
    BY <1>3, <2>3, <2>4
<1>6. ASSUME NEW o \in leaving, ChunkWillUnload(o) PROVE TorchesIInv'
  <2>1. /\ leaving' = leaving \ {o} /\ observer' = 0 /\ UNCHANGED current
        /\ registered' = registered \/ registered' = registered \ {o}
    BY <1>6 DEF ChunkWillUnload
  <2>2. current # 0 => current # o
    BY DEF LeftAreLeft
  <2>3. TorchTypes'
    <3>1. current' \in 0..MaxLoads /\ observer' \in 0..MaxLoads
      BY <1>0, <2>1, TorchBounds
    <3>2. leaving' \subseteq 1..MaxLoads /\ registered' \subseteq 1..MaxLoads
      BY <1>0, <2>1, TorchBounds
    <3>3. QED
      BY <1>2, <3>1, <3>2
  <2>4. LoadedTells' /\ LeftAreLeft'
    BY <2>1, <2>2 DEF LoadedTells, LeftAreLeft
  <2>5. QED
    BY <1>3, <2>3, <2>4
<1>7. QED
  BY <1>4, <1>5, <1>6

LEMMA TorchesStep == TorchesIInv /\ [TorchesNext]_torchVars => TorchesIInv'
<1> SUFFICES ASSUME TorchesIInv, [TorchesNext]_torchVars PROVE TorchesIInv'
  OBVIOUS
<1>1. CASE TorchesNext
  BY <1>1, SetKeeps, TellKeeps, WorkerKeeps, ChunksComeAndGo DEF TorchesNext
<1>2. CASE UNCHANGED torchVars
  BY <1>2 DEF torchVars, things, chunks, TorchesIInv, TorchTypes, TorchesTypeOK, SmokeOnce,
              TorchesSmoke, LoadedTells, LitAreTorches, RemovedAreAir, LeftAreLeft
<1>3. QED
  BY <1>1, <1>2

(* For columns of any height, and any threads: each torch that is known has   *)
(* one smoke, each that was told of is known, and the chunk that is loaded    *)
(* tells of its changes.                                                      *)
THEOREM TorchesSafe == TorchesSpec => []TorchesInv
<1>1. TorchesIInv => TorchesInv
  BY DEF TorchesIInv, TorchTypes, TorchesInv
<1>2. QED
  BY <1>1, TorchesInitHolds, TorchesStep, PTL DEF TorchesSpec
-----------------------------------------------------------------------------
(* Movement.  The inductive invariant: what a connection that is not made    *)
(* yet has, epochs and numbers of what is on its way, and the order in which *)
(* the saver takes the handlers.                                             *)

MovementTypes ==
    /\ MovementTypeOK
    /\ sent \in 0..MaxUpdates /\ toSave \in (Place \cup {Unset}) \X (0..MaxUpdates)
    /\ casting \in [Session -> Place \cup {Unset}] /\ shown \in [Session -> Place \cup {Unset}]
    /\ lastRead \in [Session -> Place \cup {Unset}]

Fresh ==
    \A s \in Session : s > session =>
        /\ served[s] = "none" /\ lastRead[s] = Unset /\ lastEpoch[s] = 0
        /\ ~dirty[s] /\ ~needsBroadcast[s] /\ casting[s] = Unset /\ saverAt # s

After(e) == IF e + 1 = EpochMod THEN 0 ELSE e + 1

EpochsInRow ==
    Connected =>
        /\ updates = <<>> => nextEpoch = After(lastEpoch[session])
        /\ updates # <<>> => /\ updates[1].epoch = After(lastEpoch[session])
                             /\ nextEpoch = After(updates[Len(updates)].epoch)
        /\ \A i \in DOMAIN updates :
                i + 1 \in DOMAIN updates => updates[i + 1].epoch = After(updates[i].epoch)

(* The camera is near what was sent last, and that is what the server has,   *)
(* or the last of what is on its way.                                        *)
SentIsClose ==
    Connected =>
        /\ joining = "auth" => ~hasSent
        /\ hasSent => /\ Apart(lastPos, at) <= Threshold
                      /\ updates = <<>> => position[session] = lastPos
                      /\ updates # <<>> => updates[Len(updates)].place = lastPos
        /\ ~hasSent => updates = <<>>

Pending(s) == served[s] \in {"open", "gone"} /\ dirty[s]

NumbersGrow ==
    /\ \A i \in DOMAIN updates : /\ updates[i].n > savedVersion /\ updates[i].n <= sent
                                 /\ \A s \in Session : updates[i].n > posVersion[s]
                                 /\ \A j \in DOMAIN updates : i < j => updates[i].n < updates[j].n
    /\ savedVersion <= sent /\ \A s \in Session : posVersion[s] <= sent

SaverInOrder ==
    /\ saverAt # 0 => /\ Pending(saverAt) /\ \A t \in Session : t < saverAt => ~Pending(t)
                      /\ toSave[2] >= savedVersion /\ toSave[2] <= posVersion[saverAt]
    /\ \A s \in Session : Pending(s) =>
            /\ posVersion[s] >= savedVersion /\ s <= session
            /\ \A t \in Session : s < t /\ Pending(t) => posVersion[s] <= posVersion[t]

(* What saver and timer have in hand, while they are at it. *)
InHandIsNew ==
    Connected /\ lastRead[session] # Unset =>
        /\ saverAt = session => toSave[1] = position[session] \/ "save" \in missed
        /\ casting[session] # Unset => casting[session] = position[session] \/ "cast" \in missed
        /\ (\E t \in Session : t < session /\ Pending(t)) => dirty[session]

MovementIInv ==
    /\ MovementTypes /\ Fresh /\ EpochsInRow /\ SentIsClose /\ NumbersGrow /\ SaverInOrder
    /\ InHandIsNew /\ RestMeansTold /\ NoUpdateRefused

LEMMA MovementBounds ==
    /\ Place \subseteq Nat /\ Spawn \in Place /\ Threshold \in Nat
    /\ EpochDiff \in Nat \ {0} /\ EpochMod \in Nat /\ EpochMod > EpochDiff /\ EpochMod > 1
    /\ MaxUpdates \in Nat /\ Session \subseteq Nat /\ 0 \notin Session
    /\ Unset \notin Nat /\ Unset \notin Place
<1>1. Session \subseteq Nat /\ 0 \notin Session /\ MaxUpdates \in Nat
  BY MovementAssumption
<1>2. /\ Place \subseteq Nat /\ Spawn \in Place /\ Threshold \in Nat
      /\ Unset \notin Nat /\ Unset \notin Place
  BY MovementAssumption
<1>3. EpochDiff \in Nat \ {0} /\ EpochMod \in Nat /\ EpochMod > EpochDiff
  BY MovementAssumption
<1>4. QED
  BY <1>1, <1>2, <1>3

(* The types, in groups. *)
LEMMA ClientTypes ==
    ASSUME MovementTypes
    PROVE  /\ session \in Session \cup {0} /\ at \in Place /\ lastPos \in Place
           /\ hasSent \in BOOLEAN /\ nextEpoch \in 0..EpochMod - 1
           /\ joining \in {"auth", "in"} /\ sent \in 0..MaxUpdates
           /\ updates \in Seq(Update) /\ initial \in Place \cup {Unset}
  BY DEF MovementTypes, MovementTypeOK

LEMMA HandlerTypes ==
    ASSUME MovementTypes
    PROVE  /\ served \in [Session -> {"none", "open", "gone", "deleted"}]
           /\ position \in [Session -> Place \cup {Unset}]
           /\ lastEpoch \in [Session -> 0..EpochMod - 1]
           /\ dirty \in [Session -> BOOLEAN] /\ needsBroadcast \in [Session -> BOOLEAN]
           /\ posVersion \in [Session -> 0..MaxUpdates]
           /\ lastRead \in [Session -> Place \cup {Unset}]
  BY DEF MovementTypes, MovementTypeOK

LEMMA SaverTypes ==
    ASSUME MovementTypes
    PROVE  /\ saverAt \in Session \cup {0} /\ saved \in Place \cup {Unset}
           /\ savedVersion \in 0..MaxUpdates
           /\ toSave[1] \in Place \cup {Unset} /\ toSave[2] \in 0..MaxUpdates
           /\ casting \in [Session -> Place \cup {Unset}]
           /\ shown \in [Session -> Place \cup {Unset}]
  BY DEF MovementTypes, MovementTypeOK

LEMMA UpdateFields ==
    ASSUME MovementTypes
    PROVE  \A i \in DOMAIN updates : /\ updates[i] \in Update /\ updates[i].place \in Place
                                     /\ updates[i].epoch \in 0..EpochMod - 1
                                     /\ updates[i].n \in 1..MaxUpdates
<1>1. \A i \in DOMAIN updates : updates[i] \in Update
  BY ClientTypes, ElementOfSeq
<1>2. QED
  BY <1>1 DEF Update

LEMMA EpochAfter ==
    ASSUME NEW e \in 0..EpochMod - 1
    PROVE  /\ (e + 1) % EpochMod = After(e) /\ After(e) \in 0..EpochMod - 1
           /\ ~TooOld(After(e), e)
<1>1. EpochMod \in Nat /\ EpochMod > 1 /\ EpochDiff \in Nat /\ EpochMod > EpochDiff
  BY MovementBounds
<1>2. (e + 1) % EpochMod = After(e)
  <2>1. CASE e + 1 = EpochMod
    BY <1>1, <2>1 DEF After
  <2>2. CASE e + 1 # EpochMod
    BY <1>1, <2>2 DEF After
  <2>3. QED
    BY <2>1, <2>2
<1>3. QED
  BY <1>1, <1>2 DEF After, TooOld

(* What a frame sends. *)
SentUpdate == [place |-> at', epoch |-> nextEpoch, n |-> sent']

LEMMA SentUpdateIs ==
    ASSUME MovementTypes, at' \in Place, sent' = sent + 1, sent < MaxUpdates
    PROVE  /\ SentUpdate \in Update /\ SentUpdate.place = at'
           /\ SentUpdate.epoch = nextEpoch /\ SentUpdate.n = sent + 1
  BY ClientTypes, MovementBounds DEF SentUpdate, Update

(* A frame that sends something. *)
Sends ==
    /\ sent < MaxUpdates /\ at' \in Place /\ lastPos' = at' /\ hasSent' = TRUE
    /\ sent' = sent + 1 /\ updates' = Append(updates, SentUpdate)
    /\ nextEpoch' = After(nextEpoch)

(* A frame that sends nothing. *)
SendsNothing ==
    /\ at' \in Place /\ Apart(at', lastPos) <= Threshold
    /\ UNCHANGED <<lastPos, hasSent, nextEpoch, sent, updates>>

LEMMA FrameIs ==
    ASSUME MovementTypes, PlayerMoved
    PROVE  /\ Connected /\ joining = "in"
           /\ Sends \/ SendsNothing
           /\ UNCHANGED <<session, joining, initial, handlerVars, savingVars, castVars>>
<1>1. at' \in Place
  BY DEF PlayerMoved
<1>2. (nextEpoch + 1) % EpochMod = After(nextEpoch)
  BY ClientTypes, EpochAfter
<1>3. CASE Apart(at', lastPos) <= Threshold
  BY <1>1, <1>3 DEF PlayerMoved, SendsNothing
<1>4. CASE ~(Apart(at', lastPos) <= Threshold)
  BY <1>1, <1>2, <1>4 DEF PlayerMoved, Sends, SentUpdate
<1>5. QED
  BY <1>3, <1>4 DEF PlayerMoved

(* A packet is never refused. *)
LEMMA PacketIs ==
    ASSUME MovementTypes, EpochsInRow, ClientPosChanged
    PROVE  /\ Connected /\ session \in Session /\ updates # <<>> /\ updates' = Tail(updates)
           /\ 1 \in DOMAIN updates
           /\ lastRead' = [lastRead EXCEPT ![session] = updates[1].place]
           /\ lastEpoch' = [lastEpoch EXCEPT ![session] = updates[1].epoch]
           /\ position' = [position EXCEPT ![session] = updates[1].place]
           /\ posVersion' = [posVersion EXCEPT ![session] = updates[1].n]
           /\ dirty' = [dirty EXCEPT ![session] = TRUE]
           /\ needsBroadcast' = [needsBroadcast EXCEPT ![session] = TRUE]
           /\ saverAt = session => "save" \in missed'
           /\ casting[session] # Unset => "cast" \in missed'
           /\ UNCHANGED <<served, initial, clientSide, savingVars, castVars>>
<1>1. Connected /\ session \in Session /\ updates # <<>>
  BY ClientTypes DEF ClientPosChanged, Connected
<1>2. 1 \in DOMAIN updates /\ Head(updates) = updates[1]
  BY <1>1, ClientTypes, HeadTailProperties, EmptySeq
<1>3. ~TooOld(updates[1].epoch, lastEpoch[session])
  <2>1. lastEpoch[session] \in 0..EpochMod - 1
    BY <1>1, HandlerTypes
  <2>2. updates[1].epoch = After(lastEpoch[session])
    BY <1>1 DEF EpochsInRow
  <2>3. QED
    BY <2>1, <2>2, EpochAfter
<1>4. QED
  BY <1>1, <1>2, <1>3 DEF ClientPosChanged

LEMMA MovementInitHolds == MovementInit => MovementIInv
<1> SUFFICES ASSUME MovementInit PROVE MovementIInv
  OBVIOUS
<1> USE DEF MovementInit
<1>1. /\ 1 \in 0..EpochMod - 1 /\ 0 \in 0..EpochMod - 1 /\ 0 \in 0..MaxUpdates /\ Spawn \in Place
      /\ <<>> \in Seq(Update)
  BY MovementBounds, EmptySeq
<1>2. MovementTypeOK
  BY <1>1 DEF MovementTypeOK
<1>3. MovementTypes
  BY <1>1, <1>2 DEF MovementTypes
<1>4. Fresh
  BY MovementBounds DEF Fresh
<1>5. EpochsInRow /\ SentIsClose /\ InHandIsNew /\ RestMeansTold
  BY DEF EpochsInRow, SentIsClose, InHandIsNew, RestMeansTold, Connected
<1>6. NumbersGrow
  BY DEF NumbersGrow
<1>7. SaverInOrder /\ NoUpdateRefused
  BY DEF SaverInOrder, NoUpdateRefused, Pending
<1>8. QED
  BY <1>3, <1>4, <1>5, <1>6, <1>7 DEF MovementIInv

LEMMA MovementTypesKept ==
    ASSUME MovementTypes, EpochsInRow, MovementNext
    PROVE  MovementTypes'
<1> USE DEF clientSide, handlerVars, savingVars, castVars, wire
<1>1. CASE Connect
  <2>1. /\ session + 1 \in Session /\ session' = session + 1
        /\ served' = [served EXCEPT ![session + 1] = "open"]
        /\ position' = [position EXCEPT ![session + 1] = saved]
        /\ posVersion' = [posVersion EXCEPT ![session + 1] = savedVersion]
        /\ initial' = saved /\ updates' = <<>> /\ lastPos' \in Place
        /\ hasSent' = FALSE /\ nextEpoch' = 1 /\ joining' = "auth"
        /\ UNCHANGED <<at, sent, lastEpoch, dirty, needsBroadcast, lastRead, savingVars, castVars>>
    BY <1>1 DEF Connect
  <2>2. /\ served' \in [Session -> {"none", "open", "gone", "deleted"}]
        /\ position' \in [Session -> Place \cup {Unset}]
        /\ posVersion' \in [Session -> 0..MaxUpdates]
    BY <2>1, HandlerTypes, SaverTypes
  <2>3. /\ updates' \in Seq(Update) /\ nextEpoch' \in 0..EpochMod - 1
        /\ initial' \in Place \cup {Unset}
    BY <2>1, EmptySeq, MovementBounds, SaverTypes
  <2>4. QED
    BY <2>1, <2>2, <2>3 DEF MovementTypes, MovementTypeOK
<1>2. CASE Enter
  <2>1. at' \in Place /\ joining' = "in"
    BY <1>2, ClientTypes, MovementBounds DEF Enter
  <2>2. QED
    BY <1>2, <2>1 DEF Enter, MovementTypes, MovementTypeOK
<1>3. CASE PlayerMoved
  <2>1. /\ UNCHANGED <<session, joining, initial, handlerVars, savingVars, castVars>>
        /\ Sends \/ SendsNothing
    BY <1>3, FrameIs
  <2>2. CASE SendsNothing
    BY <2>1, <2>2 DEF SendsNothing, MovementTypes, MovementTypeOK
  <2>3. CASE Sends
    <3>1. SentUpdate \in Update
      BY <2>3, SentUpdateIs DEF Sends
    <3>2. updates' \in Seq(Update)
      BY <2>3, <3>1, ClientTypes, AppendProperties DEF Sends
    <3>3. sent' \in 0..MaxUpdates
      <4>1. sent \in 0..MaxUpdates /\ MaxUpdates \in Nat
        BY ClientTypes, MovementBounds
      <4>2. QED
        BY <2>3, <4>1 DEF Sends
    <3>4. nextEpoch' \in 0..EpochMod - 1
      <4>1. nextEpoch \in 0..EpochMod - 1
        BY ClientTypes
      <4>2. QED
        BY <2>3, <4>1, EpochAfter DEF Sends
    <3>5. at' \in Place /\ lastPos' \in Place /\ hasSent' \in BOOLEAN
      BY <2>3 DEF Sends
    <3>6. QED
      BY <2>1, <3>2, <3>3, <3>4, <3>5 DEF MovementTypes, MovementTypeOK
  <2>4. QED
    BY <2>1, <2>2, <2>3
<1>4. CASE Disconnect
  <2>1. served' \in [Session -> {"none", "open", "gone", "deleted"}] /\ updates' \in Seq(Update)
    BY <1>4, HandlerTypes, EmptySeq DEF Disconnect
  <2>2. QED
    BY <1>4, <2>1 DEF Disconnect, MovementTypes, MovementTypeOK
<1>5. CASE ClientPosChanged
  <2> DEFINE u == updates[1]
  <2>1. /\ u.place \in Place /\ u.epoch \in 0..EpochMod - 1 /\ u.n \in 0..MaxUpdates
        /\ updates' \in Seq(Update)
    <3>1. 1 \in DOMAIN updates /\ updates # <<>> /\ updates' = Tail(updates)
      BY <1>5, PacketIs
    <3>2. u.place \in Place /\ u.epoch \in 0..EpochMod - 1 /\ u.n \in 1..MaxUpdates
      BY <3>1, UpdateFields
    <3>3. updates' \in Seq(Update)
      BY <3>1, ClientTypes, HeadTailProperties
    <3>4. 1..MaxUpdates \subseteq 0..MaxUpdates
      BY MovementBounds
    <3>5. QED
      BY <3>2, <3>3, <3>4
  <2> HIDE DEF u
  <2>2. /\ session \in Session /\ lastRead' = [lastRead EXCEPT ![session] = u.place]
        /\ lastEpoch' = [lastEpoch EXCEPT ![session] = u.epoch]
        /\ position' = [position EXCEPT ![session] = u.place]
        /\ posVersion' = [posVersion EXCEPT ![session] = u.n]
        /\ dirty' = [dirty EXCEPT ![session] = TRUE]
        /\ needsBroadcast' = [needsBroadcast EXCEPT ![session] = TRUE]
        /\ UNCHANGED <<served, initial, clientSide, savingVars, castVars>>
    BY <1>5, PacketIs DEF u
  <2>3. /\ position' \in [Session -> Place \cup {Unset}]
        /\ lastEpoch' \in [Session -> 0..EpochMod - 1]
        /\ posVersion' \in [Session -> 0..MaxUpdates]
        /\ lastRead' \in [Session -> Place \cup {Unset}]
    BY <2>1, <2>2, HandlerTypes
  <2>4. dirty' \in [Session -> BOOLEAN] /\ needsBroadcast' \in [Session -> BOOLEAN]
    BY <2>2, HandlerTypes
  <2>5. QED
    BY <2>1, <2>2, <2>3, <2>4 DEF MovementTypes, MovementTypeOK
<1>6. ASSUME NEW s \in Session, SavePosition(s) PROVE MovementTypes'
  <2>1. /\ toSave' = <<position[s], posVersion[s]>> /\ saverAt' = s
        /\ UNCHANGED <<saved, savedVersion, clientSide, handlerVars, castVars, wire>>
    BY <1>6 DEF SavePosition
  <2>2. toSave' \in (Place \cup {Unset}) \X (0..MaxUpdates)
    BY <2>1, HandlerTypes
  <2>3. QED
    BY <2>1, <2>2 DEF MovementTypes, MovementTypeOK
<1>7. CASE PositionSaved
  <2>1. /\ saved' \in Place \cup {Unset} /\ savedVersion' \in 0..MaxUpdates
        /\ dirty' \in [Session -> BOOLEAN] /\ saverAt' = 0
        /\ toSave' \in (Place \cup {Unset}) \X (0..MaxUpdates)
    BY <1>7, SaverTypes, HandlerTypes, MovementBounds DEF PositionSaved
  <2>2. UNCHANGED <<served, position, lastEpoch, needsBroadcast, posVersion, lastRead,
                    missed, clientSide, castVars, wire>>
    BY <1>7 DEF PositionSaved
  <2>3. QED
    BY <2>1, <2>2 DEF MovementTypes, MovementTypeOK
<1>8. ASSUME NEW s \in Session, BroadcastPosition(s) PROVE MovementTypes'
  <2>1. casting' \in [Session -> Place \cup {Unset}]
    BY <1>8, SaverTypes, HandlerTypes DEF BroadcastPosition
  <2>2. QED
    BY <1>8, <2>1 DEF BroadcastPosition, MovementTypes, MovementTypeOK
<1>9. ASSUME NEW s \in Session, PositionBroadcast(s) PROVE MovementTypes'
  <2>1. /\ casting' \in [Session -> Place \cup {Unset}]
        /\ shown' \in [Session -> Place \cup {Unset}]
        /\ needsBroadcast' \in [Session -> BOOLEAN]
    BY <1>9, SaverTypes, HandlerTypes DEF PositionBroadcast
  <2>2. QED
    BY <1>9, <2>1 DEF PositionBroadcast, MovementTypes, MovementTypeOK
<1>10. ASSUME NEW s \in Session, DeleteHandler(s) PROVE MovementTypes'
  <2>1. served' \in [Session -> {"none", "open", "gone", "deleted"}]
    BY <1>10, HandlerTypes DEF DeleteHandler
  <2>2. QED
    BY <1>10, <2>1 DEF DeleteHandler, MovementTypes, MovementTypeOK
<1>11. QED
  BY <1>1, <1>2, <1>3, <1>4, <1>5, <1>6, <1>7, <1>8, <1>9, <1>10 DEF MovementNext

LEMMA FreshKept ==
    ASSUME MovementTypes, EpochsInRow, Fresh, MovementNext
    PROVE  Fresh'
<1> USE DEF clientSide, handlerVars, savingVars, castVars, wire
<1>0. session \in Nat /\ Session \subseteq Nat /\ \A s \in Session : s > session => s # session
  <2>1. session \in Session \cup {0} /\ Session \subseteq Nat
    BY ClientTypes, MovementBounds
  <2>2. session \in Nat
    BY <2>1
  <2>3. \A s \in Session : s > session => s # session
    BY <2>1, <2>2
  <2>4. QED
    BY <2>1, <2>2, <2>3
<1> SUFFICES ASSUME NEW r \in Session, r > session'
             PROVE  /\ served'[r] = "none" /\ lastRead'[r] = Unset /\ lastEpoch'[r] = 0
                    /\ ~dirty'[r] /\ ~needsBroadcast'[r] /\ casting'[r] = Unset /\ saverAt' # r
  BY DEF Fresh
<1>1. session' >= session
  BY <1>0 DEF MovementNext, Connect, Enter, PlayerMoved, Disconnect, ClientPosChanged,
              PositionSaved,
              SavePosition, BroadcastPosition, PositionBroadcast, DeleteHandler
<1>2. r > session /\ r # session /\ r # session'
  BY <1>0, <1>1 DEF MovementNext, Connect, Enter, PlayerMoved, Disconnect, ClientPosChanged,
              PositionSaved, SavePosition, BroadcastPosition, PositionBroadcast, DeleteHandler
<1>3. /\ served[r] = "none" /\ lastRead[r] = Unset /\ lastEpoch[r] = 0
      /\ ~dirty[r] /\ ~needsBroadcast[r] /\ casting[r] = Unset /\ saverAt # r
  BY <1>2 DEF Fresh
<1>4. CASE Connect
  <2>1. session' = session + 1 /\ served' = [served EXCEPT ![session + 1] = "open"]
        /\ UNCHANGED <<lastRead, lastEpoch, dirty, needsBroadcast, castVars, savingVars>>
    BY <1>4 DEF Connect
  <2>2. QED
    BY <1>2, <1>3, <2>1, HandlerTypes
<1>5. CASE Enter
  BY <1>3, <1>5 DEF Enter
<1>6. CASE PlayerMoved
  BY <1>3, <1>6, FrameIs
<1>7. CASE Disconnect
  BY <1>2, <1>3, <1>7, HandlerTypes DEF Disconnect
<1>8. CASE ClientPosChanged
  BY <1>2, <1>3, <1>8, HandlerTypes, PacketIs
<1>9. ASSUME NEW s \in Session,
             SavePosition(s) \/ BroadcastPosition(s) \/ PositionBroadcast(s) \/ DeleteHandler(s)
      PROVE  /\ served'[r] = "none" /\ lastRead'[r] = Unset /\ lastEpoch'[r] = 0
             /\ ~dirty'[r] /\ ~needsBroadcast'[r] /\ casting'[r] = Unset /\ saverAt' # r
  <2>1. s # r
    <3>1. CASE SavePosition(s)
      BY <1>3, <3>1 DEF SavePosition
    <3>2. CASE BroadcastPosition(s)
      BY <1>3, <3>2 DEF BroadcastPosition
    <3>3. CASE PositionBroadcast(s)
      BY <1>3, <3>3 DEF PositionBroadcast
    <3>4. CASE DeleteHandler(s)
      BY <1>3, <3>4 DEF DeleteHandler
    <3>5. QED
      BY <1>9, <3>1, <3>2, <3>3, <3>4
  <2>2. CASE SavePosition(s)
    BY <1>3, <2>1, <2>2 DEF SavePosition
  <2>3. CASE BroadcastPosition(s)
    BY <1>3, <2>1, <2>3, SaverTypes DEF BroadcastPosition
  <2>4. CASE PositionBroadcast(s)
    BY <1>3, <2>1, <2>4, SaverTypes, HandlerTypes DEF PositionBroadcast
  <2>5. CASE DeleteHandler(s)
    BY <1>3, <2>1, <2>5, HandlerTypes DEF DeleteHandler
  <2>6. QED
    BY <1>9, <2>2, <2>3, <2>4, <2>5
<1>10. CASE PositionSaved
  <2>1. dirty' = [dirty EXCEPT ![saverAt] = FALSE] /\ saverAt' = 0
        /\ UNCHANGED <<served, lastRead, lastEpoch, needsBroadcast, castVars>>
    BY <1>10 DEF PositionSaved
  <2>2. QED
    BY <1>3, <2>1, HandlerTypes, MovementBounds
<1>11. QED
  BY <1>4, <1>5, <1>6, <1>7, <1>8, <1>9, <1>10 DEF MovementNext

LEMMA TailIs ==
    ASSUME NEW S, NEW q \in Seq(S), q # <<>>
    PROVE  /\ 1 \in DOMAIN q /\ Len(q) \in DOMAIN q
           /\ Tail(q) = <<>> => Len(q) = 1
           /\ Tail(q) # <<>> => /\ 1 \in DOMAIN Tail(q) /\ Len(Tail(q)) \in DOMAIN Tail(q)
                                /\ 1 + 1 \in DOMAIN q /\ Tail(q)[1] = q[1 + 1]
                                /\ Tail(q)[Len(Tail(q))] = q[Len(q)]
           /\ \A i \in DOMAIN Tail(q) : i \in Nat /\ i + 1 \in DOMAIN q /\ Tail(q)[i] = q[i + 1]
<1>1. Len(q) \in Nat /\ DOMAIN q = 1..Len(q) /\ Len(q) # 0
  BY LenProperties, EmptySeq
<1>2. /\ Tail(q) \in Seq(S) /\ Len(Tail(q)) = Len(q) - 1
      /\ \A i \in 1..Len(Tail(q)) : Tail(q)[i] = q[i + 1]
  BY HeadTailProperties
<1>3. DOMAIN Tail(q) = 1..Len(q) - 1
  BY <1>2, LenProperties
<1>4. Tail(q) = <<>> <=> Len(Tail(q)) = 0
  BY <1>2, EmptySeq
<1>5. \A i \in DOMAIN Tail(q) : i \in Nat /\ i + 1 \in DOMAIN q /\ Tail(q)[i] = q[i + 1]
  BY <1>1, <1>2, <1>3
<1>6. ASSUME Tail(q) # <<>>
      PROVE  /\ 1 \in DOMAIN Tail(q) /\ Len(Tail(q)) \in DOMAIN Tail(q)
             /\ 1 + 1 \in DOMAIN q /\ Tail(q)[1] = q[1 + 1] /\ Tail(q)[Len(Tail(q))] = q[Len(q)]
  <2>1. Len(q) > 1
    BY <1>1, <1>2, <1>4, <1>6
  <2>2. 1 \in DOMAIN Tail(q) /\ Len(q) - 1 \in DOMAIN Tail(q) /\ Len(q) - 1 + 1 = Len(q)
    BY <1>1, <1>3, <2>1
  <2>3. QED
    BY <1>2, <1>5, <2>2
<1>7. QED
  BY <1>1, <1>2, <1>4, <1>5, <1>6

LEMMA AppendIs ==
    ASSUME NEW S, NEW q \in Seq(S), NEW e \in S
    PROVE  /\ Append(q, e) # <<>> /\ Append(q, e)[Len(Append(q, e))] = e
           /\ q = <<>> => Append(q, e)[1] = e
           /\ q # <<>> => 1 \in DOMAIN q /\ Len(q) \in DOMAIN q /\ Append(q, e)[1] = q[1]
           /\ \A i \in DOMAIN Append(q, e) : \/ i \in DOMAIN q /\ Append(q, e)[i] = q[i]
                                             \/ i = Len(q) + 1 /\ Append(q, e)[i] = e
           /\ DOMAIN q = 1..Len(q) /\ Len(q) \in Nat
           /\ DOMAIN Append(q, e) = 1..Len(q) + 1
<1>1. Len(q) \in Nat /\ DOMAIN q = 1..Len(q) /\ (q = <<>> <=> Len(q) = 0)
  BY LenProperties, EmptySeq
<1>2. /\ Append(q, e) \in Seq(S) /\ Append(q, e) # <<>> /\ Len(Append(q, e)) = Len(q) + 1
      /\ \A i \in 1..Len(q) : Append(q, e)[i] = q[i]
      /\ Append(q, e)[Len(q) + 1] = e
  BY AppendProperties
<1>3. DOMAIN Append(q, e) = 1..Len(q) + 1
  BY <1>2, LenProperties
<1>4. QED
  BY <1>1, <1>2, <1>3

(* A player who is connected was so before, but for the step that connects. *)
LEMMA StaysConnected ==
    ASSUME MovementTypes, MovementNext, ~Connect, Connected'
    PROVE  Connected /\ session' = session /\ session \in Session
<1> USE DEF clientSide, handlerVars, savingVars, castVars, wire
<1>1. CASE Enter \/ PlayerMoved \/ ClientPosChanged \/ PositionSaved
  BY <1>1, ClientTypes DEF Enter, PlayerMoved, ClientPosChanged, PositionSaved, Connected
<1>2. CASE Disconnect
  <2>1. session \in Session /\ session' = session /\ served' = [served EXCEPT ![session] = "gone"]
    BY <1>2, ClientTypes DEF Disconnect, Connected
  <2>2. served'[session'] = "gone"
    BY <2>1, HandlerTypes
  <2>3. QED
    BY <2>2 DEF Connected
<1>3. ASSUME NEW s \in Session, SavePosition(s) \/ BroadcastPosition(s) \/ PositionBroadcast(s)
      PROVE  Connected /\ session' = session /\ session \in Session
  BY <1>3, ClientTypes DEF SavePosition, BroadcastPosition, PositionBroadcast, Connected
<1>4. ASSUME NEW s \in Session, DeleteHandler(s)
      PROVE  Connected /\ session' = session /\ session \in Session
  <2>1. session' = session /\ served' = [served EXCEPT ![s] = "deleted"]
    BY <1>4 DEF DeleteHandler
  <2>2. session # 0 /\ session \in Session /\ served'[session] = "open"
    BY <2>1, ClientTypes DEF Connected
  <2>3. served[session] = "open"
    BY <2>1, <2>2, HandlerTypes
  <2>4. QED
    BY <2>1, <2>2, <2>3 DEF Connected
<1>5. QED
  BY <1>1, <1>2, <1>3, <1>4 DEF MovementNext

(* What a step that makes a connection finds. *)
LEMMA ConnectIs ==
    ASSUME MovementTypes, Fresh, Connect
    PROVE  /\ session + 1 \in Session /\ session' = session + 1 /\ updates' = <<>> /\ nextEpoch' = 1
           /\ session \in Nat
           /\ lastEpoch' = lastEpoch /\ lastEpoch[session + 1] = 0
           /\ lastRead' = lastRead /\ lastRead[session + 1] = Unset
           /\ dirty' = dirty /\ ~dirty[session + 1] /\ saverAt # session + 1
           /\ served' = [served EXCEPT ![session + 1] = "open"]
           /\ position' = [position EXCEPT ![session + 1] = saved]
           /\ posVersion' = [posVersion EXCEPT ![session + 1] = savedVersion]
           /\ hasSent' = FALSE /\ joining' = "auth"
           /\ UNCHANGED <<at, sent, needsBroadcast, savingVars, castVars>>
<1>1. session \in Nat
  <2>1. session \in Session \cup {0} /\ Session \subseteq Nat
    BY ClientTypes, MovementBounds
  <2>2. QED
    BY <2>1
<1>2. session + 1 \in Session /\ session + 1 > session
  BY <1>1 DEF Connect
<1>3. QED
  BY <1>1, <1>2 DEF Connect, Fresh

LEMMA EpochsInRowKept ==
    ASSUME MovementTypes, Fresh, EpochsInRow, MovementNext
    PROVE  EpochsInRow'
<1> USE DEF clientSide, handlerVars, savingVars, castVars, wire
<1>1. CASE Connect
  <2>1. /\ updates' = <<>> /\ nextEpoch' = 1 /\ lastEpoch'[session'] = 0
    BY <1>1, ConnectIs
  <2>2. After(0) = 1
    BY MovementBounds DEF After
  <2>3. DOMAIN updates' = {}
    BY <2>1
  <2>4. QED
    BY <2>1, <2>2, <2>3 DEF EpochsInRow
<1>2. ASSUME ~Connect, Connected', UNCHANGED <<updates, nextEpoch, lastEpoch>> PROVE EpochsInRow'
  BY <1>2, StaysConnected DEF EpochsInRow
<1>3. ASSUME PlayerMoved, ~Connect, Connected' PROVE EpochsInRow'
  <2>1. Connected /\ session' = session /\ lastEpoch' = lastEpoch /\ (Sends \/ SendsNothing)
    BY <1>3, FrameIs
  <2>2. CASE SendsNothing
    BY <1>2, <1>3, <2>1, <2>2 DEF SendsNothing
  <2>3. CASE Sends
    <3>1. /\ SentUpdate \in Update /\ SentUpdate.epoch = nextEpoch /\ updates \in Seq(Update)
          /\ updates' = Append(updates, SentUpdate) /\ nextEpoch' = After(nextEpoch)
      BY <2>3, SentUpdateIs, ClientTypes DEF Sends
    <3> DEFINE e == SentUpdate
    <3> HIDE DEF e
    <3>2. /\ e \in Update /\ e.epoch = nextEpoch /\ updates' = Append(updates, e)
      BY <3>1 DEF e
    <3>3. /\ updates' # <<>> /\ updates'[Len(updates')] = e
          /\ updates = <<>> => updates'[1] = e
          /\ updates # <<>> => updates'[1] = updates[1]
          /\ \A i \in DOMAIN updates' : \/ i \in DOMAIN updates /\ updates'[i] = updates[i]
                                        \/ i = Len(updates) + 1 /\ updates'[i] = e
          /\ DOMAIN updates = 1..Len(updates) /\ Len(updates) \in Nat
          /\ DOMAIN updates' = 1..Len(updates) + 1
      BY <3>1, <3>2, AppendIs
    <3>4. updates'[1].epoch = After(lastEpoch'[session'])
      BY <2>1, <3>2, <3>3 DEF EpochsInRow
    <3>5. nextEpoch' = After(updates'[Len(updates')].epoch)
      BY <3>1, <3>2, <3>3
    <3>6. ASSUME NEW i \in DOMAIN updates', i + 1 \in DOMAIN updates'
          PROVE  updates'[i + 1].epoch = After(updates'[i].epoch)
      <4>1. i \in DOMAIN updates /\ updates'[i] = updates[i]
        BY <3>3, <3>6
      <4>2. CASE i + 1 \in DOMAIN updates
        <5>1. updates'[i + 1] = updates[i + 1]
          BY <3>3, <3>6, <4>2
        <5>2. QED
          BY <2>1, <4>1, <4>2, <5>1 DEF EpochsInRow
      <4>3. CASE i + 1 \notin DOMAIN updates
        <5>1. updates'[i + 1] = e /\ i + 1 = Len(updates) + 1
          BY <3>3, <3>6, <4>3
        <5>2. i = Len(updates) /\ updates # <<>>
          BY <3>3, <4>1, <5>1
        <5>3. nextEpoch = After(updates[i].epoch)
          BY <2>1, <5>2 DEF EpochsInRow
        <5>4. QED
          BY <3>2, <4>1, <5>1, <5>3
      <4>4. QED
        BY <4>2, <4>3
    <3>7. QED
      BY <3>3, <3>4, <3>5, <3>6 DEF EpochsInRow
  <2>4. QED
    BY <2>1, <2>2, <2>3
<1>4. ASSUME ClientPosChanged, ~Connect, Connected' PROVE EpochsInRow'
  <2>1. /\ Connected /\ session' = session /\ session \in Session /\ updates # <<>>
        /\ updates' = Tail(updates) /\ nextEpoch' = nextEpoch
        /\ lastEpoch' = [lastEpoch EXCEPT ![session] = updates[1].epoch]
    BY <1>4, PacketIs
  <2>2. lastEpoch'[session'] = updates[1].epoch
    BY <2>1, HandlerTypes
  <2>3. /\ 1 \in DOMAIN updates
        /\ updates' = <<>> => Len(updates) = 1
        /\ updates' # <<>> => /\ 1 + 1 \in DOMAIN updates /\ updates'[1] = updates[1 + 1]
                              /\ updates'[Len(updates')] = updates[Len(updates)]
        /\ \A i \in DOMAIN updates' : /\ i \in Nat /\ i + 1 \in DOMAIN updates
                                      /\ updates'[i] = updates[i + 1]
    BY <2>1, ClientTypes, TailIs
  <2>4. /\ nextEpoch = After(updates[Len(updates)].epoch)
        /\ \A i \in DOMAIN updates :
                i + 1 \in DOMAIN updates => updates[i + 1].epoch = After(updates[i].epoch)
    BY <2>1 DEF EpochsInRow
  <2>5. CASE updates' = <<>>
    <3>1. nextEpoch' = After(lastEpoch'[session'])
      BY <2>1, <2>2, <2>3, <2>4, <2>5
    <3>2. DOMAIN updates' = {}
      BY <2>5
    <3>3. QED
      BY <2>5, <3>1, <3>2 DEF EpochsInRow
  <2>6. CASE updates' # <<>>
    <3>1. updates'[1].epoch = After(lastEpoch'[session'])
      BY <2>2, <2>3, <2>4, <2>6
    <3>2. nextEpoch' = After(updates'[Len(updates')].epoch)
      BY <2>1, <2>3, <2>4, <2>6
    <3>3. \A i \in DOMAIN updates' :
                i + 1 \in DOMAIN updates' => updates'[i + 1].epoch = After(updates'[i].epoch)
      <4>1. ASSUME NEW i \in DOMAIN updates', i + 1 \in DOMAIN updates'
            PROVE  updates'[i + 1].epoch = After(updates'[i].epoch)
        <5>1. /\ i + 1 \in DOMAIN updates /\ updates'[i] = updates[i + 1]
              /\ i + 1 + 1 \in DOMAIN updates /\ updates'[i + 1] = updates[i + 1 + 1]
          BY <2>3, <4>1
        <5>2. QED
          BY <2>4, <5>1
      <4>2. QED
        BY <4>1
    <3>4. QED
      BY <2>6, <3>1, <3>2, <3>3 DEF EpochsInRow
  <2>7. QED
    BY <2>5, <2>6
<1>5. ASSUME Enter \/ Disconnect \/ PositionSaved, ~Connect, Connected' PROVE EpochsInRow'
  <2>1. CASE Enter \/ PositionSaved
    BY <1>2, <1>5, <2>1 DEF Enter, PositionSaved
  <2>2. CASE Disconnect
    <3>1. Connected /\ session \in Session /\ served' = [served EXCEPT ![session] = "gone"]
          /\ session' = session
      BY <2>2, ClientTypes DEF Disconnect, Connected
    <3>2. served'[session'] = "gone"
      BY <3>1, HandlerTypes
    <3>3. QED
      BY <1>5, <3>2 DEF Connected
  <2>3. QED
    BY <1>5, <2>1, <2>2
<1>6. ASSUME NEW s \in Session, ~Connect, Connected',
             SavePosition(s) \/ BroadcastPosition(s) \/ PositionBroadcast(s) \/ DeleteHandler(s)
      PROVE  EpochsInRow'
  <2>1. UNCHANGED <<updates, nextEpoch, lastEpoch>>
    BY <1>6 DEF SavePosition, BroadcastPosition, PositionBroadcast, DeleteHandler
  <2>2. QED
    BY <1>2, <1>6, <2>1
<1>7. CASE ~Connected'
  BY <1>7 DEF EpochsInRow
<1>8. QED
  BY <1>1, <1>3, <1>4, <1>5, <1>6, <1>7 DEF MovementNext

LEMMA Close ==
    ASSUME NEW p \in Place, NEW q \in Place
    PROVE  Apart(p, q) = Apart(q, p) /\ Apart(p, p) <= Threshold
<1>1. p \in Nat /\ q \in Nat /\ Threshold \in Nat
  BY MovementBounds
<1>2. QED
  BY <1>1 DEF Apart

LEMMA SentIsCloseKept ==
    ASSUME MovementTypes, Fresh, EpochsInRow, SentIsClose, MovementNext
    PROVE  SentIsClose'
<1> USE DEF clientSide, handlerVars, savingVars, castVars, wire
<1>1. CASE Connect
  BY <1>1, ConnectIs DEF SentIsClose
<1>2. ASSUME ~Connect, Connected',
             UNCHANGED <<joining, hasSent, lastPos, at, updates, position>>
      PROVE  SentIsClose'
  BY <1>2, StaysConnected DEF SentIsClose
<1>3. ASSUME Enter, ~Connect, Connected' PROVE SentIsClose'
  <2>1. /\ Connected /\ joining = "auth" /\ joining' = "in"
        /\ UNCHANGED <<hasSent, updates>>
    BY <1>3 DEF Enter
  <2>2. ~hasSent /\ updates = <<>>
    BY <2>1 DEF SentIsClose
  <2>3. QED
    BY <2>1, <2>2 DEF SentIsClose
<1>4. ASSUME PlayerMoved, ~Connect, Connected' PROVE SentIsClose'
  <2>1. /\ Connected /\ session' = session /\ position' = position /\ (Sends \/ SendsNothing)
        /\ joining' = joining /\ joining = "in"
    BY <1>4, FrameIs
  <2>2. CASE SendsNothing
    <3>1. Apart(lastPos, at') <= Threshold
      BY <2>2, ClientTypes, Close DEF SendsNothing
    <3>2. UNCHANGED <<lastPos, hasSent, updates>>
      BY <2>2 DEF SendsNothing
    <3>3. QED
      BY <2>1, <3>1, <3>2 DEF SentIsClose
  <2>3. CASE Sends
    <3>1. /\ SentUpdate \in Update /\ SentUpdate.place = at' /\ updates \in Seq(Update)
          /\ updates' = Append(updates, SentUpdate) /\ lastPos' = at' /\ hasSent' /\ at' \in Place
      BY <2>3, SentUpdateIs, ClientTypes DEF Sends
    <3>2. updates' # <<>> /\ updates'[Len(updates')] = SentUpdate
      BY <3>1, AppendIs
    <3>3. Apart(lastPos', at') <= Threshold
      BY <3>1, Close
    <3>4. QED
      BY <2>1, <3>1, <3>2, <3>3 DEF SentIsClose
  <2>4. QED
    BY <2>1, <2>2, <2>3
<1>5. ASSUME ClientPosChanged, ~Connect, Connected' PROVE SentIsClose'
  <2>1. /\ Connected /\ session' = session /\ session \in Session /\ updates # <<>>
        /\ updates' = Tail(updates)
        /\ UNCHANGED <<joining, hasSent, lastPos, at>>
        /\ position' = [position EXCEPT ![session] = updates[1].place]
    BY <1>5, PacketIs
  <2>2. position'[session'] = updates[1].place
    BY <2>1, HandlerTypes
  <2>3. /\ updates' = <<>> => Len(updates) = 1
        /\ updates' # <<>> => updates'[Len(updates')] = updates[Len(updates)]
    BY <2>1, ClientTypes, TailIs
  <2>4. /\ hasSent /\ joining # "auth" /\ Apart(lastPos, at) <= Threshold
        /\ updates[Len(updates)].place = lastPos
    BY <2>1 DEF SentIsClose
  <2>5. QED
    BY <2>1, <2>2, <2>3, <2>4 DEF SentIsClose
<1>6. ASSUME PositionSaved, ~Connect, Connected' PROVE SentIsClose'
  BY <1>2, <1>6 DEF PositionSaved
<1>7. ASSUME NEW s \in Session, ~Connect, Connected',
             SavePosition(s) \/ BroadcastPosition(s) \/ PositionBroadcast(s) \/ DeleteHandler(s)
      PROVE  SentIsClose'
  <2>1. UNCHANGED <<joining, hasSent, lastPos, at, updates, position>>
    BY <1>7 DEF SavePosition, BroadcastPosition, PositionBroadcast, DeleteHandler
  <2>2. QED
    BY <1>2, <1>7, <2>1
<1>8. CASE ~Connected'
  BY <1>8 DEF SentIsClose
<1>9. ASSUME Disconnect, ~Connect, Connected' PROVE FALSE
  <2>1. /\ Connected /\ session \in Session /\ session' = session
        /\ served' = [served EXCEPT ![session] = "gone"]
    BY <1>9, StaysConnected DEF Disconnect
  <2>2. QED
    BY <1>9, <2>1, HandlerTypes DEF Connected
<1>10. QED
  BY <1>1, <1>3, <1>4, <1>5, <1>6, <1>7, <1>8, <1>9 DEF MovementNext

LEMMA NumbersAre ==
    ASSUME MovementTypes
    PROVE  /\ sent \in Nat /\ savedVersion \in Nat /\ toSave[2] \in Nat
           /\ \A s \in Session : posVersion[s] \in Nat
           /\ \A i \in DOMAIN updates : updates[i].n \in Nat
<1>1. sent \in Nat /\ savedVersion \in Nat /\ toSave[2] \in Nat
  BY ClientTypes, SaverTypes, MovementBounds
<1>2. \A s \in Session : posVersion[s] \in Nat
  BY HandlerTypes, MovementBounds
<1>3. \A i \in DOMAIN updates : updates[i].n \in Nat
  BY UpdateFields, MovementBounds
<1>4. QED
  BY <1>1, <1>2, <1>3

LEMMA NumbersGrowKept ==
    ASSUME MovementTypes, Fresh, EpochsInRow, NumbersGrow, SaverInOrder, MovementNext
    PROVE  NumbersGrow'
<1> USE DEF clientSide, handlerVars, savingVars, castVars, wire
<1>1. CASE Connect
  <2>1. /\ session + 1 \in Session /\ updates' = <<>> /\ UNCHANGED <<sent, savedVersion>>
        /\ posVersion' = [posVersion EXCEPT ![session + 1] = savedVersion]
    BY <1>1, ConnectIs
  <2>2. \A s \in Session : posVersion'[s] <= sent
    BY <2>1, HandlerTypes DEF NumbersGrow
  <2>3. DOMAIN updates' = {}
    BY <2>1
  <2>4. QED
    BY <2>1, <2>2, <2>3 DEF NumbersGrow
<1>2. ASSUME UNCHANGED <<sent, savedVersion, posVersion>>, updates' \in {updates, <<>>}
      PROVE  NumbersGrow'
  BY <1>2 DEF NumbersGrow
<1>3. CASE PlayerMoved
  <2>1. (Sends \/ SendsNothing) /\ UNCHANGED <<savedVersion, posVersion>>
    BY <1>3, FrameIs
  <2>2. CASE SendsNothing
    BY <1>2, <2>1, <2>2 DEF SendsNothing
  <2>3. CASE Sends
    <3>1. /\ SentUpdate \in Update /\ SentUpdate.n = sent + 1 /\ updates \in Seq(Update)
          /\ updates' = Append(updates, SentUpdate) /\ sent' = sent + 1
      BY <2>3, SentUpdateIs, ClientTypes DEF Sends
    <3> DEFINE e == SentUpdate
    <3>2. /\ e \in Update /\ e.n = sent + 1 /\ updates' = Append(updates, e)
      BY <3>1
    <3> HIDE DEF e
    <3>3. \A i \in DOMAIN updates' : \/ i \in DOMAIN updates /\ updates'[i] = updates[i]
                                     \/ i = Len(updates) + 1 /\ updates'[i] = e
      BY <3>1, <3>2, AppendIs
    <3>4. DOMAIN updates = 1..Len(updates) /\ Len(updates) \in Nat
      BY <3>1, <3>2, AppendIs
    <3>5. \A i \in DOMAIN updates' : /\ updates'[i].n > savedVersion' /\ updates'[i].n <= sent'
                                     /\ \A s \in Session : updates'[i].n > posVersion'[s]
      BY <2>1, <3>1, <3>2, <3>3, NumbersAre DEF NumbersGrow
    <3>6. ASSUME NEW i \in DOMAIN updates', NEW j \in DOMAIN updates', i < j
          PROVE  updates'[i].n < updates'[j].n
      <4>1. i \in DOMAIN updates /\ updates'[i] = updates[i]
        BY <3>3, <3>4, <3>6
      <4>2. updates[i].n \in Nat /\ updates[i].n <= sent /\ sent \in Nat
        BY <4>1, NumbersAre DEF NumbersGrow
      <4>3. CASE j \in DOMAIN updates /\ updates'[j] = updates[j]
        BY <3>6, <4>1, <4>3 DEF NumbersGrow
      <4>4. CASE updates'[j] = e
        BY <3>2, <4>1, <4>2, <4>4
      <4>5. QED
        BY <3>3, <4>3, <4>4
    <3>7. savedVersion' <= sent' /\ \A s \in Session : posVersion'[s] <= sent'
      BY <2>1, <3>1, NumbersAre DEF NumbersGrow
    <3>8. QED
      BY <3>5, <3>6, <3>7 DEF NumbersGrow
  <2>4. QED
    BY <2>1, <2>2, <2>3
<1>4. CASE ClientPosChanged
  <2>1. /\ session \in Session /\ updates # <<>> /\ updates' = Tail(updates)
        /\ posVersion' = [posVersion EXCEPT ![session] = updates[1].n]
        /\ UNCHANGED <<sent, savedVersion>>
    BY <1>4, PacketIs
  <2>2. /\ 1 \in DOMAIN updates
        /\ \A i \in DOMAIN updates' : /\ i \in Nat /\ i + 1 \in DOMAIN updates
                                      /\ updates'[i] = updates[i + 1]
    BY <2>1, ClientTypes, TailIs
  <2>3. \A s \in Session : posVersion'[s] = posVersion[s] \/ posVersion'[s] = updates[1].n
    BY <2>1, HandlerTypes
  <2>4. \A s \in Session : posVersion'[s] <= sent
    BY <2>2, <2>3 DEF NumbersGrow
  <2>5. ASSUME NEW i \in DOMAIN updates'
        PROVE  /\ updates'[i].n > savedVersion /\ updates'[i].n <= sent
               /\ \A s \in Session : updates'[i].n > posVersion'[s]
               /\ \A j \in DOMAIN updates' : i < j => updates'[i].n < updates'[j].n
    <3>0. DOMAIN updates' \subseteq Nat /\ i > 0
      <4>1. updates' \in Seq(Update)
        BY <2>1, ClientTypes, HeadTailProperties
      <4>2. DOMAIN updates' = 1..Len(updates') /\ Len(updates') \in Nat
        BY <4>1, LenProperties
      <4>3. QED
        BY <2>5, <4>2
    <3>1. /\ i + 1 \in DOMAIN updates /\ updates'[i] = updates[i + 1] /\ 1 < i + 1
      BY <2>2, <2>5, <3>0
    <3>2. updates[1].n < updates[i + 1].n
      BY <2>2, <3>1 DEF NumbersGrow
    <3>3. \A s \in Session : updates'[i].n > posVersion'[s]
      BY <2>3, <3>1, <3>2 DEF NumbersGrow
    <3>4. ASSUME NEW j \in DOMAIN updates', i < j PROVE updates'[i].n < updates'[j].n
      <4>1. j + 1 \in DOMAIN updates /\ updates'[j] = updates[j + 1] /\ i + 1 < j + 1
        BY <2>2, <3>0, <3>4
      <4>2. QED
        BY <3>1, <4>1 DEF NumbersGrow
    <3>5. QED
      BY <3>1, <3>3, <3>4 DEF NumbersGrow
  <2>6. savedVersion <= sent
    BY DEF NumbersGrow
  <2>7. QED
    BY <2>1, <2>4, <2>5, <2>6 DEF NumbersGrow
<1>5. CASE PositionSaved
  <2>1. /\ saverAt # 0 /\ saverAt \in Session /\ savedVersion' = toSave[2]
        /\ UNCHANGED <<sent, posVersion, updates>>
    BY <1>5, SaverTypes DEF PositionSaved
  <2>2. toSave[2] <= posVersion[saverAt]
    BY <2>1 DEF SaverInOrder
  <2>3. savedVersion' <= sent'
    BY <2>1, <2>2, NumbersAre DEF NumbersGrow
  <2>4. \A i \in DOMAIN updates : updates[i].n > savedVersion'
    BY <2>1, <2>2, NumbersAre DEF NumbersGrow
  <2>5. QED
    BY <2>1, <2>3, <2>4 DEF NumbersGrow
<1>6. CASE Enter \/ Disconnect
  BY <1>2, <1>6 DEF Enter, Disconnect
<1>7. ASSUME NEW s \in Session,
             SavePosition(s) \/ BroadcastPosition(s) \/ PositionBroadcast(s) \/ DeleteHandler(s)
      PROVE  NumbersGrow'
  <2>1. UNCHANGED <<sent, savedVersion, posVersion, updates>>
    BY <1>7 DEF SavePosition, BroadcastPosition, PositionBroadcast, DeleteHandler
  <2>2. QED
    BY <1>2, <2>1
<1>8. QED
  BY <1>1, <1>3, <1>4, <1>5, <1>6, <1>7 DEF MovementNext

LEMMA SessionNumbers ==
    ASSUME MovementTypes
    PROVE  /\ Session \subseteq Nat /\ 0 \notin Session /\ session \in Nat
           /\ saverAt \in Session \cup {0}
<1>1. Session \subseteq Nat /\ 0 \notin Session
  BY MovementBounds
<1>2. session \in Session \cup {0}
  BY ClientTypes
<1>3. saverAt \in Session \cup {0}
  BY SaverTypes
<1>4. session \in Nat
  BY <1>1, <1>2
<1>5. QED
  BY <1>1, <1>3, <1>4

(* The saver's order, with a player's connections at most once in the list. *)
LEMMA SaverInOrderKept ==
    ASSUME MovementTypes, Fresh, EpochsInRow, NumbersGrow, SaverInOrder, MovementNext
    PROVE  SaverInOrder'
<1> USE DEF clientSide, handlerVars, savingVars, castVars, wire
<1>0. /\ Session \subseteq Nat /\ 0 \notin Session /\ session \in Nat
      /\ saverAt \in Session \cup {0}
  BY SessionNumbers
<1>1. CASE Connect
  <2>1. /\ session + 1 \in Session /\ session' = session + 1 /\ saverAt # session + 1
        /\ served' = [served EXCEPT ![session + 1] = "open"] /\ dirty' = dirty
        /\ posVersion' = [posVersion EXCEPT ![session + 1] = savedVersion]
        /\ UNCHANGED <<savedVersion, saverAt, toSave>> /\ ~dirty[session + 1]
    BY <1>1, ConnectIs
  <2>2. \A s \in Session : Pending(s)' => Pending(s) /\ s # session + 1
    BY <2>1, HandlerTypes DEF Pending
  <2>3. \A s \in Session : s # session + 1 => posVersion'[s] = posVersion[s]
    BY <2>1, HandlerTypes
  <2>4. saverAt # 0 => Pending(saverAt)'
    BY <1>0, <2>1, HandlerTypes DEF Pending, SaverInOrder
  <2>5. saverAt # 0 => /\ \A t \in Session : t < saverAt => ~Pending(t)'
                       /\ toSave[2] >= savedVersion /\ toSave[2] <= posVersion'[saverAt]
    BY <1>0, <2>1, <2>2, <2>3 DEF SaverInOrder
  <2>6. ASSUME NEW s \in Session, Pending(s)'
        PROVE  /\ posVersion'[s] >= savedVersion /\ s <= session'
               /\ \A t \in Session : s < t /\ Pending(t)' => posVersion'[s] <= posVersion'[t]
    BY <1>0, <2>1, <2>2, <2>3, <2>6 DEF SaverInOrder
  <2>7. QED
    BY <2>1, <2>4, <2>5, <2>6 DEF SaverInOrder
<1>2. ASSUME UNCHANGED <<session, saverAt, toSave, savedVersion, posVersion>>,
             \A s \in Session : Pending(s)' => Pending(s),
             saverAt # 0 => Pending(saverAt)'
      PROVE  SaverInOrder'
  BY <1>0, <1>2 DEF SaverInOrder
<1>3. ASSUME UNCHANGED <<session, saverAt, toSave, savedVersion, posVersion, dirty, served>>
      PROVE  SaverInOrder'
  BY <1>0, <1>2, <1>3 DEF Pending, SaverInOrder
<1>4. CASE PlayerMoved \/ Enter
  BY <1>3, <1>4, FrameIs DEF Enter
<1>5. CASE Disconnect
  <2>1. /\ session \in Session /\ served[session] = "open"
        /\ served' = [served EXCEPT ![session] = "gone"]
        /\ UNCHANGED <<session, saverAt, toSave, savedVersion, posVersion, dirty>>
    BY <1>5, ClientTypes DEF Disconnect, Connected
  <2>2. \A s \in Session : Pending(s)' <=> Pending(s)
    BY <2>1, HandlerTypes DEF Pending
  <2>3. QED
    BY <1>0, <1>2, <2>1, <2>2 DEF SaverInOrder
<1>6. CASE ClientPosChanged
  <2>1. /\ session \in Session /\ served[session] = "open" /\ 1 \in DOMAIN updates
        /\ posVersion' = [posVersion EXCEPT ![session] = updates[1].n]
        /\ dirty' = [dirty EXCEPT ![session] = TRUE]
        /\ UNCHANGED <<session, saverAt, toSave, savedVersion, served>>
    BY <1>6, PacketIs DEF Connected
  <2> DEFINE n == updates[1].n
  <2>2. /\ n \in Nat /\ n > savedVersion /\ \A s \in Session : n > posVersion[s]
    BY <2>1, NumbersAre DEF NumbersGrow
  <2>3. posVersion' = [posVersion EXCEPT ![session] = n]
    BY <2>1
  <2> HIDE DEF n
  <2>4. /\ posVersion'[session] = n
        /\ \A s \in Session : s # session => posVersion'[s] = posVersion[s]
        /\ \A s \in Session : posVersion'[s] >= posVersion[s]
    BY <2>1, <2>2, <2>3, HandlerTypes, NumbersAre
  <2>5. Pending(session)' /\ \A s \in Session : s # session => (Pending(s)' <=> Pending(s))
    BY <2>1, HandlerTypes DEF Pending
  <2>6. ASSUME saverAt # 0
        PROVE  /\ Pending(saverAt)' /\ \A t \in Session : t < saverAt => ~Pending(t)'
               /\ toSave[2] >= savedVersion /\ toSave[2] <= posVersion'[saverAt]
    <3>1. /\ saverAt \in Session /\ Pending(saverAt) /\ saverAt <= session
          /\ \A t \in Session : t < saverAt => ~Pending(t)
          /\ toSave[2] >= savedVersion /\ toSave[2] <= posVersion[saverAt]
      BY <1>0, <2>6 DEF SaverInOrder
    <3>2. Pending(saverAt)'
      BY <2>1, <2>5, <3>1
    <3>3. \A t \in Session : t < saverAt => ~Pending(t)'
      <4>1. \A t \in Session : t < saverAt => t # session
        BY <1>0, <3>1
      <4>2. QED
        BY <2>5, <3>1, <4>1
    <3>4. toSave[2] <= posVersion'[saverAt]
      <4>1. posVersion'[saverAt] >= posVersion[saverAt]
        BY <2>4, <3>1
      <4>2. posVersion[saverAt] \in Nat /\ toSave[2] \in Nat /\ posVersion'[saverAt] \in Nat
        BY <2>2, <2>4, <3>1, NumbersAre
      <4>3. QED
        BY <3>1, <4>1, <4>2
    <3>5. QED
      BY <3>1, <3>2, <3>3, <3>4
  <2>7. ASSUME NEW s \in Session, Pending(s)'
        PROVE  /\ posVersion'[s] >= savedVersion /\ s <= session
               /\ \A t \in Session : s < t /\ Pending(t)' => posVersion'[s] <= posVersion'[t]
    <3>1. CASE s = session
      <4>1. ASSUME NEW t \in Session, s < t, Pending(t)' PROVE FALSE
        <5>1. Pending(t)
          BY <1>0, <2>5, <3>1, <4>1
        <5>2. t <= session
          BY <5>1 DEF SaverInOrder
        <5>3. QED
          BY <1>0, <3>1, <4>1, <5>2
      <4>2. posVersion'[s] >= savedVersion
        BY <2>2, <2>4, <3>1, NumbersAre
      <4>3. s <= session
        BY <1>0, <3>1
      <4>4. QED
        BY <4>1, <4>2, <4>3
    <3>2. CASE s # session
      <4>1. Pending(s) /\ posVersion'[s] = posVersion[s]
        BY <2>4, <2>5, <2>7, <3>2
      <4>2. posVersion[s] >= savedVersion /\ s <= session
        BY <4>1 DEF SaverInOrder
      <4>3. ASSUME NEW t \in Session, s < t, Pending(t)' PROVE posVersion'[s] <= posVersion'[t]
        <5>1. CASE t = session
          BY <2>2, <2>4, <4>1, <5>1, NumbersAre
        <5>2. CASE t # session
          <6>1. Pending(t) /\ posVersion'[t] = posVersion[t]
            BY <2>4, <2>5, <4>3, <5>2
          <6>2. QED
            BY <4>1, <4>3, <6>1 DEF SaverInOrder
        <5>3. QED
          BY <5>1, <5>2
      <4>4. QED
        BY <4>1, <4>2, <4>3
    <3>3. QED
      BY <3>1, <3>2
  <2>8. QED
    BY <2>1, <2>6, <2>7 DEF SaverInOrder
<1>7. ASSUME NEW s \in Session, SavePosition(s) PROVE SaverInOrder'
  <2>1. /\ saverAt' = s /\ toSave'[2] = posVersion[s] /\ Pending(s)
        /\ \A t \in Session : t < s => ~Pending(t)
        /\ UNCHANGED <<session, savedVersion, posVersion, dirty, served>>
    BY <1>7 DEF SavePosition, Pending
  <2>2. \A t \in Session : Pending(t)' <=> Pending(t)
    BY <2>1 DEF Pending
  <2>3. posVersion[s] >= savedVersion /\ posVersion[s] \in Nat
    BY <2>1, NumbersAre DEF SaverInOrder
  <2>4. \A t \in Session : Pending(t) =>
            /\ posVersion[t] >= savedVersion /\ t <= session
            /\ \A r \in Session : t < r /\ Pending(r) => posVersion[t] <= posVersion[r]
    BY DEF SaverInOrder
  <2>5. QED
    BY <2>1, <2>2, <2>3, <2>4 DEF SaverInOrder
<1>8. CASE PositionSaved
  <2>1. /\ saverAt # 0 /\ saverAt \in Session /\ savedVersion' = toSave[2]
        /\ dirty' = [dirty EXCEPT ![saverAt] = FALSE] /\ saverAt' = 0
        /\ UNCHANGED <<session, posVersion, served>>
    BY <1>0, <1>8 DEF PositionSaved
  <2>2. \A s \in Session : Pending(s)' => Pending(s) /\ s # saverAt
    BY <2>1, HandlerTypes DEF Pending
  <2>3. /\ Pending(saverAt) /\ toSave[2] <= posVersion[saverAt]
        /\ \A t \in Session : t < saverAt => ~Pending(t)
    BY <2>1 DEF SaverInOrder
  <2>4. ASSUME NEW s \in Session, Pending(s)'
        PROVE  /\ posVersion[s] >= savedVersion' /\ s <= session
               /\ \A t \in Session : s < t /\ Pending(t)' => posVersion[s] <= posVersion[t]
    <3>1. Pending(s) /\ saverAt < s
      BY <1>0, <2>1, <2>2, <2>3, <2>4
    <3>2. posVersion[saverAt] <= posVersion[s]
      BY <2>1, <2>3, <3>1 DEF SaverInOrder
    <3>3. posVersion[s] >= savedVersion'
      BY <2>1, <2>3, <3>2, NumbersAre
    <3>4. QED
      BY <2>2, <3>1, <3>3 DEF SaverInOrder
  <2>5. QED
    BY <2>1, <2>4 DEF SaverInOrder
<1>9. ASSUME NEW s \in Session, BroadcastPosition(s) \/ PositionBroadcast(s) PROVE SaverInOrder'
  BY <1>3, <1>9 DEF BroadcastPosition, PositionBroadcast
<1>10. ASSUME NEW s \in Session, DeleteHandler(s) PROVE SaverInOrder'
  <2>1. /\ saverAt = 0 /\ served' = [served EXCEPT ![s] = "deleted"]
        /\ UNCHANGED <<session, saverAt, toSave, savedVersion, posVersion, dirty>>
    BY <1>10 DEF DeleteHandler
  <2>2. \A t \in Session : Pending(t)' => Pending(t)
    BY <2>1, HandlerTypes DEF Pending
  <2>3. QED
    BY <1>2, <2>1, <2>2
<1>11. QED
  BY <1>1, <1>4, <1>5, <1>6, <1>7, <1>8, <1>9, <1>10 DEF MovementNext

InHandIInv == InHandIsNew /\ RestMeansTold

LEMMA InHandKept ==
    ASSUME MovementTypes, Fresh, EpochsInRow, SaverInOrder, InHandIInv, MovementNext
    PROVE  InHandIInv'
<1> USE DEF clientSide, handlerVars, savingVars, castVars, wire
<1> SUFFICES ASSUME Connected', lastRead'[session'] # Unset PROVE InHandIInv'
  BY DEF InHandIInv, InHandIsNew, RestMeansTold
<1>0. /\ Session \subseteq Nat /\ 0 \notin Session /\ session \in Nat
      /\ saverAt \in Session \cup {0}
  BY SessionNumbers
<1>1. ~Connect
  BY ConnectIs
<1>2. Connected /\ session' = session /\ session \in Session
  BY <1>1, StaysConnected
<1>3. ASSUME UNCHANGED <<saverAt, toSave, position, casting, shown, dirty, needsBroadcast, saved,
                         missed, lastRead>>,
             \A s \in Session : Pending(s)' => Pending(s)
      PROVE  InHandIInv'
  BY <1>2, <1>3 DEF InHandIInv, InHandIsNew, RestMeansTold
<1>4. CASE Enter \/ PlayerMoved
  BY <1>3, <1>4, FrameIs DEF Enter, Pending
<1>5. CASE Disconnect
  <2>1. session' = session /\ served' = [served EXCEPT ![session] = "gone"]
    BY <1>5 DEF Disconnect
  <2>2. QED
    BY <1>2, <2>1, HandlerTypes DEF Connected
<1>6. CASE ClientPosChanged
  <2>1. /\ dirty' = [dirty EXCEPT ![session] = TRUE]
        /\ needsBroadcast' = [needsBroadcast EXCEPT ![session] = TRUE]
        /\ saverAt = session => "save" \in missed'
        /\ casting[session] # Unset => "cast" \in missed'
        /\ UNCHANGED <<saverAt, casting>>
    BY <1>6, PacketIs
  <2>2. dirty'[session'] /\ needsBroadcast'[session']
    BY <1>2, <2>1, HandlerTypes
  <2>3. QED
    BY <1>2, <2>1, <2>2 DEF InHandIInv, InHandIsNew, RestMeansTold
<1>7. lastRead' = lastRead \/ ClientPosChanged
  BY <1>1, FrameIs DEF MovementNext, Enter, Disconnect, PositionSaved, SavePosition,
                       BroadcastPosition, PositionBroadcast, DeleteHandler
<1>8. ASSUME lastRead' = lastRead
      PROVE  /\ saverAt = session => toSave[1] = position[session] \/ "save" \in missed
             /\ casting[session] # Unset =>
                    casting[session] = position[session] \/ "cast" \in missed
             /\ (\E t \in Session : t < session /\ Pending(t)) => dirty[session]
             /\ saverAt = 0 /\ ~dirty[session] =>
                    saved = position[session] \/ "save" \in missed
             /\ casting[session] = Unset /\ ~needsBroadcast[session] =>
                    shown[session] = position[session] \/ "cast" \in missed
  BY <1>2, <1>8 DEF InHandIInv, InHandIsNew, RestMeansTold
<1>9. ASSUME NEW s \in Session, SavePosition(s) PROVE InHandIInv'
  <2>1. /\ saverAt' = s /\ saverAt' # 0 /\ toSave'[1] = position[s]
        /\ UNCHANGED <<position, casting, shown, dirty, needsBroadcast, served, missed, lastRead>>
    BY <1>0, <1>9 DEF SavePosition
  <2>2. \A t \in Session : Pending(t)' <=> Pending(t)
    BY <2>1 DEF Pending
  <2>3. QED
    BY <1>2, <1>8, <2>1, <2>2 DEF InHandIInv, InHandIsNew, RestMeansTold
<1>10. CASE PositionSaved
  <2>1. /\ saverAt \in Session /\ saved' = toSave[1] /\ saverAt' = 0
        /\ dirty' = [dirty EXCEPT ![saverAt] = FALSE]
        /\ UNCHANGED <<position, casting, shown, needsBroadcast, served, missed, lastRead>>
    BY <1>0, <1>10 DEF PositionSaved
  <2>2. /\ Pending(saverAt) /\ saverAt <= session
        /\ \A t \in Session : t < saverAt => ~Pending(t)
    BY <1>0, <2>1 DEF SaverInOrder
  <2>3. \A t \in Session : Pending(t)' => Pending(t) /\ t # saverAt
    BY <2>1, HandlerTypes DEF Pending
  <2>4. CASE saverAt = session
    <3>1. ~ \E t \in Session : t < session /\ Pending(t)'
      BY <2>2, <2>3, <2>4
    <3>2. saved' = position[session] \/ "save" \in missed
      BY <1>8, <2>1, <2>4
    <3>3. QED
      BY <1>0, <1>2, <1>8, <2>1, <3>1, <3>2 DEF InHandIInv, InHandIsNew, RestMeansTold
  <2>5. CASE saverAt # session
    <3>1. saverAt < session
      BY <1>0, <2>1, <2>2, <2>5
    <3>2. dirty[session]
      BY <1>8, <2>1, <2>2, <3>1
    <3>3. dirty'[session]
      BY <1>2, <2>1, <2>5, <3>2, HandlerTypes
    <3>4. QED
      BY <1>0, <1>2, <1>8, <2>1, <3>3 DEF InHandIInv, InHandIsNew, RestMeansTold
  <2>6. QED
    BY <2>4, <2>5
<1>11. ASSUME NEW s \in Session, BroadcastPosition(s) PROVE InHandIInv'
  <2>1. /\ casting' = [casting EXCEPT ![s] = position[s]] /\ needsBroadcast[s]
        /\ UNCHANGED <<saverAt, toSave, position, shown, dirty, needsBroadcast, served, saved,
                       missed, lastRead>>
    BY <1>11 DEF BroadcastPosition
  <2>2. \A t \in Session : Pending(t)' <=> Pending(t)
    BY <2>1 DEF Pending
  <2>3. /\ s = session => casting'[session] = position[session] /\ needsBroadcast[session]
        /\ s # session => casting'[session] = casting[session]
    BY <1>2, <2>1, SaverTypes
  <2>4. QED
    BY <1>2, <1>8, <2>1, <2>2, <2>3 DEF InHandIInv, InHandIsNew, RestMeansTold
<1>12. ASSUME NEW s \in Session, PositionBroadcast(s) PROVE InHandIInv'
  <2>1. /\ casting[s] # Unset /\ shown' = [shown EXCEPT ![s] = casting[s]]
        /\ casting' = [casting EXCEPT ![s] = Unset]
        /\ needsBroadcast' = [needsBroadcast EXCEPT ![s] = FALSE]
        /\ UNCHANGED <<saverAt, toSave, position, dirty, served, saved, missed, lastRead>>
    BY <1>12 DEF PositionBroadcast
  <2>2. \A t \in Session : Pending(t)' <=> Pending(t)
    BY <2>1 DEF Pending
  <2>3. /\ s = session => casting'[session] = Unset /\ shown'[session] = casting[session]
        /\ s # session => /\ casting'[session] = casting[session]
                          /\ shown'[session] = shown[session]
                          /\ needsBroadcast'[session] = needsBroadcast[session]
    BY <1>2, <2>1, SaverTypes, HandlerTypes
  <2>4. QED
    BY <1>2, <1>8, <2>1, <2>2, <2>3 DEF InHandIInv, InHandIsNew, RestMeansTold
<1>13. ASSUME NEW s \in Session, DeleteHandler(s) PROVE InHandIInv'
  <2>1. /\ served' = [served EXCEPT ![s] = "deleted"]
        /\ UNCHANGED <<saverAt, toSave, position, casting, shown, dirty, needsBroadcast, saved,
                       missed, lastRead>>
    BY <1>13 DEF DeleteHandler
  <2>2. \A t \in Session : Pending(t)' => Pending(t)
    BY <2>1, HandlerTypes DEF Pending
  <2>3. QED
    BY <1>3, <2>1, <2>2
<1>14. QED
  BY <1>1, <1>4, <1>5, <1>6, <1>9, <1>10, <1>11, <1>12, <1>13 DEF MovementNext

LEMMA NoUpdateRefusedKept ==
    ASSUME MovementTypes, Fresh, EpochsInRow, NoUpdateRefused, MovementNext
    PROVE  NoUpdateRefused'
<1> USE DEF clientSide, handlerVars, savingVars, castVars, wire
<1>1. CASE Connect
  BY <1>1, ConnectIs, HandlerTypes DEF NoUpdateRefused
<1>2. CASE ClientPosChanged
  <2> DEFINE p == updates[1].place
  <2>1. /\ lastRead' = [lastRead EXCEPT ![session] = p]
        /\ position' = [position EXCEPT ![session] = p]
    BY <1>2, PacketIs
  <2> HIDE DEF p
  <2>2. QED
    BY <2>1, HandlerTypes DEF NoUpdateRefused
<1>3. CASE Enter \/ PlayerMoved \/ Disconnect \/ PositionSaved
  <2>1. UNCHANGED <<position, lastRead>>
    BY <1>3, FrameIs DEF Enter, Disconnect, PositionSaved
  <2>2. QED
    BY <2>1 DEF NoUpdateRefused
<1>4. ASSUME NEW s \in Session,
             SavePosition(s) \/ BroadcastPosition(s) \/ PositionBroadcast(s) \/ DeleteHandler(s)
      PROVE  NoUpdateRefused'
  <2>1. UNCHANGED <<position, lastRead>>
    BY <1>4 DEF SavePosition, BroadcastPosition, PositionBroadcast, DeleteHandler
  <2>2. QED
    BY <2>1 DEF NoUpdateRefused
<1>5. QED
  BY <1>1, <1>2, <1>3, <1>4 DEF MovementNext

LEMMA MovementStep ==
    ASSUME MovementIInv, [MovementNext]_movementVars
    PROVE  MovementIInv'
<1>1. CASE MovementNext
  <2>1. /\ MovementTypes /\ Fresh /\ EpochsInRow /\ SentIsClose /\ NumbersGrow /\ SaverInOrder
        /\ InHandIInv /\ NoUpdateRefused
    BY DEF MovementIInv, InHandIInv
  <2>2. MovementTypes' /\ Fresh' /\ EpochsInRow' /\ SentIsClose'
    BY <1>1, <2>1, MovementTypesKept, FreshKept, EpochsInRowKept, SentIsCloseKept
  <2>3. NumbersGrow' /\ SaverInOrder' /\ InHandIInv' /\ NoUpdateRefused'
    BY <1>1, <2>1, NumbersGrowKept, SaverInOrderKept, InHandKept, NoUpdateRefusedKept
  <2>4. QED
    BY <2>2, <2>3 DEF MovementIInv, InHandIInv
<1>2. CASE UNCHANGED movementVars
  <2>1. UNCHANGED <<clientSide, handlerVars, savingVars, castVars, wire>>
    BY <1>2 DEF movementVars
  <2> USE DEF clientSide, handlerVars, savingVars, castVars, wire
  <2>2. MovementTypes' /\ Fresh'
    BY <2>1 DEF MovementIInv, MovementTypes, MovementTypeOK, Fresh
  <2>3. EpochsInRow' /\ SentIsClose' /\ NumbersGrow'
    BY <2>1 DEF MovementIInv, EpochsInRow, SentIsClose, NumbersGrow, Connected
  <2>4. SaverInOrder' /\ InHandIsNew' /\ RestMeansTold' /\ NoUpdateRefused'
    BY <2>1 DEF MovementIInv, SaverInOrder, InHandIsNew, RestMeansTold, NoUpdateRefused, Connected,
                Pending
  <2>5. QED
    BY <2>2, <2>3, <2>4 DEF MovementIInv
<1>3. QED
  BY <1>1, <1>2

LEMMA MovementIInvImplies == MovementIInv => MovementInv
<1> SUFFICES ASSUME MovementIInv PROVE MovementInv
  OBVIOUS
<1>1. MovementTypeOK /\ NoUpdateRefused /\ RestMeansTold
  BY DEF MovementIInv, MovementTypes
<1>2. ServerIsClose
  <2>1. ASSUME Connected, hasSent, updates = <<>> PROVE Apart(position[session], at) <= Threshold
    BY <2>1 DEF MovementIInv, SentIsClose
  <2>2. QED
    BY <2>1 DEF ServerIsClose
<1>3. QED
  BY <1>1, <1>2 DEF MovementInv

(* At rest the server has a player within the threshold of the camera, no    *)
(* packet of a connection is refused by its epoch, and what the file and the *)
(* other players have is old only where a packet came between the read and   *)
(* the clear of a flag: for every width of the epoch, every threshold and    *)
(* any number of connections of the player (PlayerMovement.cpp:80, :130 and  *)
(* :200).                                                                    *)
THEOREM MovementSafe == MovementSpec => []MovementInv
<1>1. MovementInit => MovementIInv
  BY MovementInitHolds
<1>2. MovementIInv /\ [MovementNext]_movementVars => MovementIInv'
  BY MovementStep
<1>3. QED
  BY <1>1, <1>2, MovementIInvImplies, PTL DEF MovementSpec

(* The position of a player in the file is never replaced by an older one,   *)
(* though the handler of a connection that ended is still saved              *)
(* (PlayerMovement.cpp:130).                                                 *)
THEOREM SavedOnlyNewer == MovementSpec => SavedNeverOlder
<1>1. MovementIInv /\ [MovementNext]_movementVars => savedVersion' >= savedVersion
  <2> SUFFICES ASSUME MovementIInv, [MovementNext]_movementVars
               PROVE  savedVersion' >= savedVersion
    OBVIOUS
  <2>1. MovementTypes /\ SaverInOrder /\ savedVersion \in Nat
    BY NumbersAre DEF MovementIInv
  <2>2. CASE PositionSaved
    <3>1. saverAt # 0 /\ savedVersion' = toSave[2]
      BY <2>2 DEF PositionSaved
    <3>2. QED
      BY <2>1, <3>1 DEF SaverInOrder
  <2>3. CASE ~PositionSaved
    <3>1. savedVersion' = savedVersion
      BY <2>3 DEF MovementNext, Connect, Enter, PlayerMoved, Disconnect, ClientPosChanged,
                  SavePosition, BroadcastPosition, PositionBroadcast, DeleteHandler,
                  movementVars, savingVars
    <3>2. QED
      BY <2>1, <3>1
  <2>4. QED
    BY <2>2, <2>3
<1>2. MovementInit => MovementIInv
  BY MovementInitHolds
<1>3. MovementIInv /\ [MovementNext]_movementVars => MovementIInv'
  BY MovementStep
<1>4. QED
  BY <1>1, <1>2, <1>3, PTL DEF MovementSpec, SavedNeverOlder
-----------------------------------------------------------------------------
(* Taking and placing of blocks.  The inductive invariant adds that a timer  *)
(* which runs finds room for its expiration.                                 *)

TimerHasRoom ==
    /\ deferred \in 0..MaxDeferred
    /\ destroyTimer \notin {0, Wrapped} => deferred < MaxDeferred

InteractionsIInv == InteractionsInv /\ TimerHasRoom

LEMMA InteractionsBounds ==
    /\ MaxPerSlot \in Nat /\ MaxPerSlot > 1 /\ IsFiniteSet(Slots) /\ IsFiniteSet(Pos)
    /\ Slots \subseteq Nat /\ 1 \in Slots
    /\ Beside \in [Pos -> SUBSET Pos] /\ Air \notin Kind /\ Collectable \subseteq Kind
    /\ DestroyTicks \in [Kind -> Nat] /\ Wrapped \notin Nat
    /\ MaxPlaced \in Nat /\ MaxDeferred \in Nat
    /\ StartWorld \in [Pos -> Kind \cup {Air}] /\ StartSlots \in [Slots -> Stack \cup {NoStack}]
<1>1. /\ IsFiniteSet(Slots) /\ Slots # {} /\ Slots = 1..Cardinality(Slots)
      /\ MaxPerSlot \in Nat \ {0, 1} /\ IsFiniteSet(Pos)
  BY InteractionsAssumption
<1>2. Slots \subseteq Nat /\ 1 \in Slots
  <2>1. Cardinality(Slots) \in Nat
    BY <1>1, FS_CardinalityType
  <2> DEFINE c == Cardinality(Slots)
  <2>2. c \in Nat /\ Slots = 1..c /\ Slots # {}
    BY <1>1, <2>1
  <2> HIDE DEF c
  <2>3. QED
    BY <2>2
<1>3. MaxPerSlot \in Nat /\ MaxPerSlot > 1
  BY <1>1
<1>4. /\ Beside \in [Pos -> SUBSET Pos] /\ Air \notin Kind /\ Collectable \subseteq Kind
      /\ DestroyTicks \in [Kind -> Nat] /\ Wrapped \notin Nat
      /\ MaxPlaced \in Nat /\ MaxDeferred \in Nat
      /\ StartWorld \in [Pos -> Kind \cup {Air}] /\ StartSlots \in [Slots -> Stack \cup {NoStack}]
  BY InteractionsAssumption
<1>5. QED
  BY <1>1, <1>2, <1>3, <1>4

(* What a slot holds. *)
LEMMA SlotHolds ==
    ASSUME NEW s \in [Slots -> Stack \cup {NoStack}], NEW i \in Slots
    PROVE  /\ s[i] = NoStack => s[i].kind = Air /\ s[i].count = 0
           /\ s[i] # NoStack => s[i].kind \in Kind /\ s[i].count \in 1..MaxPerSlot
           /\ s[i].kind = Air <=> s[i] = NoStack
           /\ s[i].count \in Nat
           /\ s[i] = [kind |-> s[i].kind, count |-> s[i].count]
<1>1. Air \notin Kind /\ MaxPerSlot \in Nat
  BY InteractionsBounds
<1>2. CASE s[i] = NoStack
  BY <1>1, <1>2 DEF NoStack
<1>3. CASE s[i] \in Stack
  <2>1. /\ s[i].kind \in Kind /\ s[i].count \in 1..MaxPerSlot
        /\ s[i] = [kind |-> s[i].kind, count |-> s[i].count]
    BY <1>3 DEF Stack
  <2>2. s[i] # NoStack
    BY <1>1, <2>1 DEF NoStack
  <2>3. QED
    BY <1>1, <2>1, <2>2
<1>4. QED
  BY <1>2, <1>3

LEMMA CountsAreFinite ==
    ASSUME NEW k, NEW g, NEW s
    PROVE  /\ IsFiniteSet(BlocksOf(k, g)) /\ Cardinality(BlocksOf(k, g)) \in Nat
           /\ IsFiniteSet(ItemsOf(k, s)) /\ Cardinality(ItemsOf(k, s)) \in Nat
<1>1. IsFiniteSet(BlocksOf(k, g))
  BY InteractionsBounds, FS_Subset DEF BlocksOf
<1>2. IsFiniteSet(Slots \X (1..MaxPerSlot))
  <2>1. MaxPerSlot \in Int /\ 1 \in Int /\ IsFiniteSet(Slots)
    BY InteractionsBounds
  <2>2. IsFiniteSet(1..MaxPerSlot)
    BY <2>1, FS_Interval
  <2>3. QED
    BY <2>1, <2>2, FS_Product
<1>3. IsFiniteSet(ItemsOf(k, s))
  BY <1>2, FS_Subset DEF ItemsOf
<1>4. QED
  BY <1>1, <1>3, FS_CardinalityType

LEMMA BlockTaken ==
    ASSUME NEW g \in [Pos -> Kind \cup {Air}], NEW p \in Pos, NEW k \in Kind
    PROVE  LET h == [g EXCEPT ![p] = Air] IN
           /\ g[p] # k => BlocksOf(k, h) = BlocksOf(k, g)
           /\ g[p] = k => Cardinality(BlocksOf(k, h)) = Cardinality(BlocksOf(k, g)) - 1
<1> DEFINE h == [g EXCEPT ![p] = Air]
<1>1. BlocksOf(k, h) = BlocksOf(k, g) \ {p}
  BY InteractionsBounds DEF BlocksOf
<1>2. g[p] = k => p \in BlocksOf(k, g)
  BY DEF BlocksOf
<1>3. g[p] # k => p \notin BlocksOf(k, g)
  BY DEF BlocksOf
<1>4. Cardinality(BlocksOf(k, g) \ {p}) =
        IF p \in BlocksOf(k, g) THEN Cardinality(BlocksOf(k, g)) - 1
                                ELSE Cardinality(BlocksOf(k, g))
  BY CountsAreFinite, FS_RemoveElement
<1> HIDE DEF h
<1>5. QED
  BY <1>1, <1>2, <1>3, <1>4 DEF h

LEMMA BlockPlaced ==
    ASSUME NEW g \in [Pos -> Kind \cup {Air}], NEW p \in Pos, NEW j \in Kind, g[p] = Air,
           NEW k \in Kind
    PROVE  LET h == [g EXCEPT ![p] = j] IN
           /\ j # k => BlocksOf(k, h) = BlocksOf(k, g)
           /\ j = k => Cardinality(BlocksOf(k, h)) = Cardinality(BlocksOf(k, g)) + 1
<1> DEFINE h == [g EXCEPT ![p] = j]
<1>1. p \notin BlocksOf(k, g)
  BY InteractionsBounds DEF BlocksOf
<1>2. j = k => BlocksOf(k, h) = BlocksOf(k, g) \cup {p}
  BY DEF BlocksOf
<1>3. j # k => BlocksOf(k, h) = BlocksOf(k, g)
  BY <1>1 DEF BlocksOf
<1>4. Cardinality(BlocksOf(k, g) \cup {p}) =
        IF p \in BlocksOf(k, g) THEN Cardinality(BlocksOf(k, g))
                                ELSE Cardinality(BlocksOf(k, g)) + 1
  BY CountsAreFinite, FS_AddElement
<1> HIDE DEF h
<1>5. QED
  BY <1>1, <1>2, <1>3, <1>4 DEF h

(* One item more of type j in slot i, which was free or has some of that.    *)
LEMMA ItemAdded ==
    ASSUME NEW s \in [Slots -> Stack \cup {NoStack}], NEW i \in Slots, NEW j \in Kind,
           NEW t \in [Slots -> Stack \cup {NoStack}], NEW k \in Kind,
           \A n \in Slots : n # i => t[n] = s[n],
           t[i].kind = j, t[i].count = s[i].count + 1, s[i].kind \in {j, Air}
    PROVE  /\ j # k => ItemsOf(k, t) = ItemsOf(k, s)
           /\ j = k => Cardinality(ItemsOf(k, t)) = Cardinality(ItemsOf(k, s)) + 1
<1>1. /\ Air \notin Kind /\ MaxPerSlot \in Nat /\ s[i].count \in Nat
      /\ s[i].kind = Air => s[i].count = 0
      /\ t[i].count \in 1..MaxPerSlot
  BY InteractionsBounds, SlotHolds
<1>2. ASSUME j # k PROVE ItemsOf(k, t) = ItemsOf(k, s)
  <2>1. \A x \in Slots \X (1..MaxPerSlot) :
            x[1] \in Slots /\ (x[1] = i => t[i].kind # k /\ s[i].kind # k)
    BY <1>1, <1>2
  <2>2. QED
    BY <2>1 DEF ItemsOf
<1>3. ASSUME j = k
      PROVE  Cardinality(ItemsOf(k, t)) = Cardinality(ItemsOf(k, s)) + 1
  <2> DEFINE e == <<i, s[i].count + 1>>
  <2>1. e \in Slots \X (1..MaxPerSlot) /\ e \notin ItemsOf(k, s)
    BY <1>1 DEF ItemsOf
  <2>2. ASSUME NEW x \in Slots \X (1..MaxPerSlot)
        PROVE  x \in ItemsOf(k, t) <=> x \in ItemsOf(k, s) \/ x = e
    <3>1. x = <<x[1], x[2]>> /\ x[1] \in Slots /\ x[2] \in Nat /\ x[2] > 0
      BY <1>1
    <3>2. CASE x[1] # i
      BY <3>1, <3>2 DEF ItemsOf
    <3>3. CASE x[1] = i
      <4>1. x = e <=> x[2] = s[i].count + 1
        BY <3>1, <3>3
      <4>2. x \in ItemsOf(k, t) <=> x[2] <= s[i].count + 1
        BY <1>3, <3>3 DEF ItemsOf
      <4>3. x \in ItemsOf(k, s) <=> x[2] <= s[i].count
        <5>1. CASE s[i].kind = Air
          BY <1>1, <3>1, <3>3, <5>1 DEF ItemsOf
        <5>2. CASE s[i].kind = j
          BY <1>3, <3>3, <5>2 DEF ItemsOf
        <5>3. QED
          BY <5>1, <5>2
      <4>4. QED
        BY <1>1, <3>1, <4>1, <4>2, <4>3
    <3>4. QED
      BY <3>2, <3>3
  <2>3. ItemsOf(k, t) = ItemsOf(k, s) \cup {e}
    BY <2>1, <2>2 DEF ItemsOf
  <2> HIDE DEF e
  <2>4. QED
    BY <2>1, <2>3, CountsAreFinite, FS_AddElement
<1>4. QED
  BY <1>2, <1>3

(* One item less in slot i. *)
LEMMA ItemDequeued ==
    ASSUME NEW s \in [Slots -> Stack \cup {NoStack}], NEW i \in Slots, s[i] # NoStack,
           NEW t \in [Slots -> Stack \cup {NoStack}], NEW k \in Kind,
           \A n \in Slots : n # i => t[n] = s[n],
           t[i].kind \in {s[i].kind, Air}, t[i].count = s[i].count - 1
    PROVE  /\ s[i].kind # k => ItemsOf(k, t) = ItemsOf(k, s)
           /\ s[i].kind = k => Cardinality(ItemsOf(k, t)) = Cardinality(ItemsOf(k, s)) - 1
<1>1. /\ Air \notin Kind /\ MaxPerSlot \in Nat /\ s[i].count \in 1..MaxPerSlot
      /\ t[i].kind = Air => t[i].count = 0
  BY InteractionsBounds, SlotHolds
<1>2. ASSUME s[i].kind # k PROVE ItemsOf(k, t) = ItemsOf(k, s)
  <2>1. \A x \in Slots \X (1..MaxPerSlot) :
            x[1] \in Slots /\ (x[1] = i => t[i].kind # k /\ s[i].kind # k)
    BY <1>1, <1>2
  <2>2. QED
    BY <2>1 DEF ItemsOf
<1>3. ASSUME s[i].kind = k
      PROVE  Cardinality(ItemsOf(k, t)) = Cardinality(ItemsOf(k, s)) - 1
  <2> DEFINE e == <<i, s[i].count>>
  <2>1. e \in ItemsOf(k, s)
    BY <1>1, <1>3 DEF ItemsOf
  <2>2. ASSUME NEW x \in Slots \X (1..MaxPerSlot)
        PROVE  x \in ItemsOf(k, t) <=> x \in ItemsOf(k, s) /\ x # e
    <3>1. x = <<x[1], x[2]>> /\ x[1] \in Slots /\ x[2] \in Nat /\ x[2] > 0
      BY <1>1
    <3>2. CASE x[1] # i
      BY <3>1, <3>2 DEF ItemsOf
    <3>3. CASE x[1] = i
      <4>1. x = e <=> x[2] = s[i].count
        BY <3>1, <3>3
      <4>2. x \in ItemsOf(k, s) <=> x[2] <= s[i].count
        BY <1>3, <3>3 DEF ItemsOf
      <4>3. x \in ItemsOf(k, t) <=> x[2] <= s[i].count - 1
        <5>1. CASE t[i].kind = Air
          BY <1>1, <3>1, <3>3, <5>1 DEF ItemsOf
        <5>2. CASE t[i].kind = k
          BY <1>3, <3>3, <5>2 DEF ItemsOf
        <5>3. QED
          BY <1>3, <5>1, <5>2
      <4>4. QED
        BY <1>1, <3>1, <4>1, <4>2, <4>3
    <3>4. QED
      BY <3>2, <3>3
  <2>3. ItemsOf(k, t) = ItemsOf(k, s) \ {e}
    BY <2>1, <2>2 DEF ItemsOf
  <2> HIDE DEF e
  <2>4. QED
    BY <2>1, <2>3, CountsAreFinite, FS_RemoveElement
<1>4. QED
  BY <1>2, <1>3

(* Where a block goes to: one slot, or nowhere. *)
Goes(j) ==
    \E i \in Slots :
        /\ slots' \in [Slots -> Stack \cup {NoStack}] /\ slots[i].kind \in {j, Air}
        /\ \A n \in Slots : n # i => slots'[n] = slots[n]
        /\ slots'[i].kind = j /\ slots'[i].count = slots[i].count + 1

LEMMA AddItemIs ==
    ASSUME slots \in [Slots -> Stack \cup {NoStack}], NEW j \in Kind, AddItem(j)
    PROVE  \/ Goes(j) /\ wasted' = wasted
           \/ slots' = slots /\ wasted' = wasted + 1
<1> DEFINE fits == {i \in Slots : slots[i].kind = j /\ slots[i].count < MaxPerSlot}
           free == {i \in Slots : slots[i] = NoStack}
<1>0. Slots \subseteq Nat /\ MaxPerSlot \in Nat /\ MaxPerSlot > 1 /\ Air \notin Kind
  BY InteractionsBounds
<1>1. ASSUME NEW S \in SUBSET Slots, S # {} PROVE First(S) \in S
  <2>1. \E x \in S : \A y \in S : x <= y
    BY <1>0, <1>1, Least
  <2>2. QED
    BY <2>1 DEF First
<1>2. CASE fits # {}
  <2> DEFINE i == First(fits)
  <2>1. /\ slots' = [slots EXCEPT ![i].count = @ + 1] /\ wasted' = wasted
    BY <1>2 DEF AddItem
  <2>2. i \in fits
    BY <1>1, <1>2
  <2>3. i \in Slots /\ slots[i].kind = j /\ slots[i].count < MaxPerSlot
    BY <2>2
  <2> HIDE DEF i
  <2> DEFINE st == [kind |-> j, count |-> slots[i].count + 1]
  <2>4. slots[i] = [kind |-> slots[i].kind, count |-> slots[i].count] /\ slots[i].count \in Nat
    BY <2>3, SlotHolds
  <2>5. [slots[i] EXCEPT !.count = slots[i].count + 1] = st
    BY <2>3, <2>4
  <2>6. st \in Stack
    BY <1>0, <2>3, <2>4 DEF Stack
  <2>7. st.kind = j /\ st.count = slots[i].count + 1
    OBVIOUS
  <2> HIDE DEF st
  <2>8. slots' = [slots EXCEPT ![i] = st]
    BY <2>1, <2>3, <2>5
  <2>9. slots' \in [Slots -> Stack \cup {NoStack}]
    BY <2>6, <2>8
  <2>10. slots'[i] = st /\ \A n \in Slots : n # i => slots'[n] = slots[n]
    BY <2>3, <2>8
  <2>11. Goes(j)
    BY <2>3, <2>7, <2>9, <2>10 DEF Goes
  <2>12. QED
    BY <2>1, <2>11
<1>3. CASE fits = {} /\ free # {}
  <2> DEFINE i == First(free)
             st == [kind |-> j, count |-> 1]
  <2>1. slots' = [slots EXCEPT ![i] = st] /\ wasted' = wasted
    BY <1>3 DEF AddItem
  <2>2. i \in free
    BY <1>1, <1>3
  <2>3. i \in Slots /\ slots[i].kind = Air /\ slots[i].count = 0
    BY <2>2, SlotHolds
  <2> HIDE DEF i
  <2>4. st \in Stack /\ st.kind = j /\ st.count = slots[i].count + 1
    BY <1>0, <2>3 DEF Stack
  <2> HIDE DEF st
  <2>5. slots' \in [Slots -> Stack \cup {NoStack}]
    BY <2>1, <2>4
  <2>6. slots'[i] = st /\ \A n \in Slots : n # i => slots'[n] = slots[n]
    BY <2>1, <2>3
  <2>7. Goes(j)
    BY <2>3, <2>4, <2>5, <2>6 DEF Goes
  <2>8. QED
    BY <2>1, <2>7
<1>4. CASE fits = {} /\ free = {}
  BY <1>4 DEF AddItem
<1>5. QED
  BY <1>2, <1>3, <1>4

Sum(k) == CountOf(k, grid, slots)

LEMMA SumsAre ==
    ASSUME InteractionsTypeOK, NEW k
    PROVE  Sum(k) \in Nat /\ wasted \in Nat
  BY CountsAreFinite DEF Sum, CountOf, InteractionsTypeOK

(* A block is taken: the sum stays, but for what finds no place or is not    *)
(* collectable.                                                              *)
LEMMA TakeIs ==
    ASSUME InteractionsTypeOK, NEW p \in Pos, grid[p] # Air, Take(p)
    PROVE  /\ grid' = [grid EXCEPT ![p] = Air] /\ grid' \in [Pos -> Kind \cup {Air}]
           /\ slots' \in [Slots -> Stack \cup {NoStack}] /\ wasted' \in Nat
           /\ \A k \in Kind : CountOf(k, grid', slots') <= Sum(k)
           /\ \A k \in Collectable : CountOf(k, grid', slots') + wasted' >= Sum(k) + wasted
<1> DEFINE j == grid[p]
<1>1. /\ grid \in [Pos -> Kind \cup {Air}] /\ slots \in [Slots -> Stack \cup {NoStack}]
      /\ wasted \in Nat /\ Air \notin Kind /\ Collectable \subseteq Kind
  BY InteractionsBounds DEF InteractionsTypeOK
<1>2. j \in Kind /\ grid' = [grid EXCEPT ![p] = Air] /\ grid' \in [Pos -> Kind \cup {Air}]
  BY <1>1 DEF Take
<1>3. \A k \in Kind : /\ j # k => BlocksOf(k, grid') = BlocksOf(k, grid)
                      /\ j = k => Cardinality(BlocksOf(k, grid')) =
                                        Cardinality(BlocksOf(k, grid)) - 1
  BY <1>1, <1>2, BlockTaken
<1>4. j \in Collectable => AddItem(j)
  BY DEF Take
<1>5. j \notin Collectable => slots' = slots /\ wasted' = wasted
  BY DEF Take
<1> HIDE DEF j
<1>6. ASSUME NEW k \in Kind
      PROVE  /\ Cardinality(BlocksOf(k, grid)) \in Nat /\ Cardinality(BlocksOf(k, grid')) \in Nat
             /\ Cardinality(ItemsOf(k, slots)) \in Nat /\ Cardinality(ItemsOf(k, slots')) \in Nat
  BY CountsAreFinite
<1>7. CASE slots' = slots /\ wasted' \in {wasted, wasted + 1}
           /\ (j \in Collectable => wasted' = wasted + 1)
  <2>1. \A k \in Kind : CountOf(k, grid', slots') <= Sum(k)
    BY <1>3, <1>6, <1>7 DEF CountOf, Sum
  <2>2. \A k \in Collectable : CountOf(k, grid', slots') + wasted' >= Sum(k) + wasted
    BY <1>1, <1>3, <1>6, <1>7 DEF CountOf, Sum
  <2>3. slots' \in [Slots -> Stack \cup {NoStack}] /\ wasted' \in Nat
    BY <1>1, <1>7
  <2>4. QED
    BY <1>2, <2>1, <2>2, <2>3
<1>8. CASE Goes(j) /\ wasted' = wasted
  <2>1. PICK i \in Slots :
            /\ slots' \in [Slots -> Stack \cup {NoStack}] /\ slots[i].kind \in {j, Air}
            /\ \A n \in Slots : n # i => slots'[n] = slots[n]
            /\ slots'[i].kind = j /\ slots'[i].count = slots[i].count + 1
    BY <1>8 DEF Goes
  <2>2. \A k \in Kind : /\ j # k => ItemsOf(k, slots') = ItemsOf(k, slots)
                        /\ j = k => Cardinality(ItemsOf(k, slots')) =
                                        Cardinality(ItemsOf(k, slots)) + 1
    BY <1>1, <1>2, <2>1, ItemAdded
  <2>3. \A k \in Kind : CountOf(k, grid', slots') = Sum(k)
    BY <1>3, <1>6, <2>2 DEF CountOf, Sum
  <2>4. \A k \in Kind : Sum(k) \in Nat
    BY SumsAre
  <2>5. \A k \in Kind : CountOf(k, grid', slots') <= Sum(k)
    BY <2>3, <2>4
  <2>6. \A k \in Collectable : CountOf(k, grid', slots') + wasted' >= Sum(k) + wasted
    BY <1>1, <1>8, <2>3, <2>4
  <2>7. wasted' \in Nat /\ slots' \in [Slots -> Stack \cup {NoStack}]
    BY <1>1, <1>8, <2>1
  <2>8. QED
    BY <1>2, <2>5, <2>6, <2>7
<1>9. CASE j \in Collectable
  BY <1>1, <1>2, <1>4, <1>7, <1>8, <1>9, AddItemIs
<1>10. CASE j \notin Collectable
  BY <1>5, <1>7, <1>10
<1>11. QED
  BY <1>9, <1>10

(* A block is placed: it comes from the slot. *)
LEMMA PlaceIs ==
    ASSUME InteractionsTypeOK, PlaceBlock
    PROVE  /\ grid' \in [Pos -> Kind \cup {Air}] /\ slots' \in [Slots -> Stack \cup {NoStack}]
           /\ \A k \in Kind : CountOf(k, grid', slots') = Sum(k)
           /\ placed' \in 0..MaxPlaced /\ marked' = TRUE
           /\ UNCHANGED <<currentSlot, timerVars, wasted, ticking, deferred, pressed>>
<1> DEFINE i == currentSlot
           j == slots[i].kind
<1>1. /\ grid \in [Pos -> Kind \cup {Air}] /\ slots \in [Slots -> Stack \cup {NoStack}]
      /\ i \in Slots /\ Air \notin Kind /\ Beside \in [Pos -> SUBSET Pos]
  BY InteractionsBounds DEF InteractionsTypeOK
<1>2. PICK p \in Pos : grid[p] = Air /\ slots[i] # NoStack /\ grid' = [grid EXCEPT ![p] = j]
  BY <1>1 DEF PlaceBlock
<1>3. /\ j \in Kind /\ slots[i].count \in 1..MaxPerSlot /\ MaxPerSlot \in Nat
      /\ slots[i] = [kind |-> j, count |-> slots[i].count]
  BY <1>1, <1>2, SlotHolds, InteractionsBounds
<1>4. slots' = [slots EXCEPT ![i] = IF slots[i].count = 1 THEN NoStack
                                    ELSE [kind |-> j, count |-> slots[i].count - 1]]
  BY DEF PlaceBlock, DequeueSlotBlock
<1> HIDE DEF j, i
<1>5. /\ slots' \in [Slots -> Stack \cup {NoStack}]
      /\ \A n \in Slots : n # i => slots'[n] = slots[n]
      /\ slots'[i].kind \in {j, Air} /\ slots'[i].count = slots[i].count - 1
  <2>1. CASE slots[i].count = 1
    <3>1. slots' = [slots EXCEPT ![i] = NoStack]
      BY <1>4, <2>1
    <3>2. QED
      BY <1>1, <2>1, <3>1 DEF NoStack
  <2>2. CASE slots[i].count # 1
    <3> DEFINE st == [kind |-> j, count |-> slots[i].count - 1]
    <3>2. st \in Stack /\ st.kind = j /\ st.count = slots[i].count - 1
      BY <1>3, <2>2 DEF Stack
    <3>3. slots' = [slots EXCEPT ![i] = st]
      BY <1>1, <1>4, <2>2
    <3> HIDE DEF st
    <3>4. QED
      BY <1>1, <3>2, <3>3
  <2>3. QED
    BY <2>1, <2>2
<1>6. \A k \in Kind : /\ j # k => ItemsOf(k, slots') = ItemsOf(k, slots)
                      /\ j = k => Cardinality(ItemsOf(k, slots')) =
                                        Cardinality(ItemsOf(k, slots)) - 1
  BY <1>1, <1>2, <1>5, ItemDequeued DEF j
<1>7. ASSUME NEW k \in Kind
      PROVE  /\ j # k => BlocksOf(k, grid') = BlocksOf(k, grid)
             /\ j = k => Cardinality(BlocksOf(k, grid')) = Cardinality(BlocksOf(k, grid)) + 1
  <2> DEFINE h == [grid EXCEPT ![p] = j]
  <2>1. /\ j # k => BlocksOf(k, h) = BlocksOf(k, grid)
        /\ j = k => Cardinality(BlocksOf(k, h)) = Cardinality(BlocksOf(k, grid)) + 1
    BY <1>1, <1>2, <1>3, BlockPlaced
  <2>2. grid' = h
    BY <1>2
  <2> HIDE DEF h
  <2>3. QED
    BY <2>1, <2>2
<1>8. ASSUME NEW k \in Kind
      PROVE  /\ Cardinality(BlocksOf(k, grid)) \in Nat /\ Cardinality(BlocksOf(k, grid')) \in Nat
             /\ Cardinality(ItemsOf(k, slots)) \in Nat /\ Cardinality(ItemsOf(k, slots')) \in Nat
  BY CountsAreFinite
<1>9. \A k \in Kind : CountOf(k, grid', slots') = Sum(k)
  BY <1>6, <1>7, <1>8 DEF CountOf, Sum
<1>10. grid' \in [Pos -> Kind \cup {Air}]
  BY <1>1, <1>2, <1>3
<1>11. placed' \in 0..MaxPlaced
  BY InteractionsBounds DEF PlaceBlock, InteractionsTypeOK
<1>12. QED
  BY <1>5, <1>9, <1>10, <1>11 DEF PlaceBlock

(* What the timer may be. *)
LEMMA TimerIs ==
    ASSUME NEW n \in TimerValues \cup {Wrapped}
    PROVE  /\ Less(n) \in TimerValues \cup {Wrapped}
           /\ Less(n) = 0 => n \notin {0, Wrapped}
           /\ Less(n) \notin {0, Wrapped} => n \notin {0, Wrapped}
           /\ 0 \in TimerValues /\ Wrapped \notin TimerValues
           /\ \A k \in Kind : DestroyTicks[k] \in TimerValues
<1>1. \A k \in Kind : DestroyTicks[k] \in Nat
  BY InteractionsBounds
<1>2. Wrapped \notin Nat
  BY InteractionsBounds
<1>3. TimerValues \subseteq Nat /\ 0 \in TimerValues
  BY <1>1 DEF TimerValues
<1>4. ASSUME n \notin {0, Wrapped} PROVE Less(n) \in TimerValues
  <2>1. PICK k \in Kind : n \in 0..DestroyTicks[k]
    BY <1>4 DEF TimerValues
  <2>2. n - 1 \in 0..DestroyTicks[k]
    BY <1>1, <1>4, <2>1
  <2>3. QED
    BY <1>4, <2>1, <2>2 DEF TimerValues, Less
<1>5. \A k \in Kind : DestroyTicks[k] \in TimerValues
  BY <1>1 DEF TimerValues
<1>6. n \in {0, Wrapped} => Less(n) = Wrapped
  BY DEF Less
<1>7. QED
  BY <1>2, <1>3, <1>4, <1>5, <1>6

LEMMA InteractionsInitHolds == InteractionsInit => InteractionsIInv
<1> SUFFICES ASSUME InteractionsInit PROVE InteractionsIInv
  OBVIOUS
<1>1. 0 \in TimerValues
  BY DEF TimerValues
<1>2. InteractionsTypeOK
  <2>1. grid \in [Pos -> Kind \cup {Air}] /\ slots \in [Slots -> Stack \cup {NoStack}]
    BY InteractionsBounds DEF InteractionsInit
  <2>2. currentSlot \in Slots /\ placed \in 0..MaxPlaced /\ deferred \in 0..MaxDeferred
    BY InteractionsBounds DEF InteractionsInit
  <2>3. QED
    BY <1>1, <2>1, <2>2 DEF InteractionsInit, InteractionsTypeOK
<1>3. grid = StartWorld /\ slots = StartSlots /\ wasted = 0
  BY DEF InteractionsInit
<1>4. \A k : CountOf(k, StartWorld, StartSlots) \in Nat
  BY CountsAreFinite DEF CountOf
<1>5. BlocksAreConserved
  BY <1>3, <1>4 DEF BlocksAreConserved
<1>6. ChangesAreMarked
  BY <1>3 DEF ChangesAreMarked
<1>7. TimerHasRoom
  BY InteractionsBounds DEF InteractionsInit, TimerHasRoom
<1>8. QED
  BY <1>2, <1>5, <1>6, <1>7 DEF InteractionsIInv, InteractionsInv

LEMMA InteractionsStep ==
    ASSUME InteractionsIInv, [InteractionsNext]_interactionsVars
    PROVE  InteractionsIInv'
<1> USE DEF handVars, timerVars, chunkVars
<1>0. InteractionsTypeOK /\ BlocksAreConserved /\ ChangesAreMarked /\ TimerHasRoom
  BY DEF InteractionsIInv, InteractionsInv
<1>1. ASSUME UNCHANGED <<grid, slots, wasted, marked>>, InteractionsTypeOK', TimerHasRoom'
      PROVE  InteractionsIInv'
  <2>1. BlocksAreConserved' /\ ChangesAreMarked'
    BY <1>0, <1>1 DEF BlocksAreConserved, ChangesAreMarked
  <2>2. QED
    BY <1>1, <2>1 DEF InteractionsIInv, InteractionsInv
<1>2. ASSUME \A k \in Kind : CountOf(k, grid', slots') <= Sum(k),
             \A k \in Collectable : CountOf(k, grid', slots') + wasted' >= Sum(k) + wasted,
             wasted' \in Nat
      PROVE  BlocksAreConserved'
  <2>1. \A k : Sum(k) \in Nat /\ CountOf(k, grid', slots') \in Nat
               /\ CountOf(k, StartWorld, StartSlots) \in Nat
    BY CountsAreFinite DEF Sum, CountOf
  <2>2. wasted \in Nat
    BY <1>0 DEF InteractionsTypeOK
  <2>3. \A k \in Kind : Sum(k) <= CountOf(k, StartWorld, StartSlots)
    BY <1>0 DEF BlocksAreConserved, Sum
  <2>4. \A k \in Collectable : Sum(k) + wasted >= CountOf(k, StartWorld, StartSlots)
    BY <1>0 DEF BlocksAreConserved, Sum
  <2>5. \A k \in Kind : CountOf(k, grid', slots') <= CountOf(k, StartWorld, StartSlots)
    BY <1>2, <2>1, <2>3
  <2>6. \A k \in Collectable :
            CountOf(k, grid', slots') + wasted' >= CountOf(k, StartWorld, StartSlots)
    BY <1>2, <2>1, <2>2, <2>4
  <2>7. QED
    BY <2>5, <2>6 DEF BlocksAreConserved
<1>3. CASE SelectSlot
  <2>1. /\ currentSlot' \in Slots
        /\ UNCHANGED <<slots, timerVars, chunkVars, ticking, deferred, pressed>>
    BY <1>3 DEF SelectSlot
  <2>2. InteractionsTypeOK' /\ TimerHasRoom'
    BY <1>0, <2>1 DEF InteractionsTypeOK, TimerHasRoom
  <2>3. QED
    BY <1>1, <2>1, <2>2
<1>4. ASSUME NEW p \in Pos, DestroyAtOnce(p) PROVE InteractionsIInv'
  <2>1. /\ grid[p] # Air /\ DestroyTicks[grid[p]] = 0 /\ Take(p)
        /\ UNCHANGED <<currentSlot, timerVars, marked, placed, ticking, deferred, pressed>>
    BY <1>4 DEF DestroyAtOnce
  <2>2. /\ grid' = [grid EXCEPT ![p] = Air] /\ grid' \in [Pos -> Kind \cup {Air}]
        /\ slots' \in [Slots -> Stack \cup {NoStack}] /\ wasted' \in Nat
        /\ BlocksAreConserved'
    BY <1>0, <1>2, <2>1, TakeIs
  <2>3. InteractionsTypeOK' /\ TimerHasRoom'
    BY <1>0, <2>1, <2>2 DEF InteractionsTypeOK, TimerHasRoom
  <2>4. ChangesAreMarked'
    <3>1. ASSUME NEW q \in Pos, grid'[q] # StartWorld[q]
          PROVE  marked' \/ (StartWorld[q] # Air /\ DestroyTicks[StartWorld[q]] = 0)
      <4>1. q # p => grid'[q] = grid[q]
        BY <1>0, <2>2 DEF InteractionsTypeOK
      <4>2. CASE grid[q] # StartWorld[q]
        BY <1>0, <2>1, <4>2 DEF ChangesAreMarked
      <4>3. CASE grid[q] = StartWorld[q]
        BY <2>1, <3>1, <4>1, <4>3
      <4>4. QED
        BY <4>2, <4>3
    <3>2. QED
      BY <3>1 DEF ChangesAreMarked
  <2>5. QED
    BY <2>2, <2>3, <2>4 DEF InteractionsIInv, InteractionsInv
<1>5. ASSUME NEW p \in Pos, StartTimer(p) PROVE InteractionsIInv'
  <2>1. grid[p] \in Kind
    BY <1>0, <1>5 DEF StartTimer, InteractionsTypeOK
  <2>2. /\ deferred < MaxDeferred /\ destroyTimer' = DestroyTicks[grid[p]]
        /\ destroyTimerTotal' = DestroyTicks[grid[p]] /\ destroyPos' = p
        /\ destroyTimerActive' = TRUE /\ pressed' = p
        /\ UNCHANGED <<handVars, chunkVars, ticking, deferred>>
    BY <1>5 DEF StartTimer
  <2>3. DestroyTicks[grid[p]] \in TimerValues
    BY <2>1, TimerIs
  <2>4. InteractionsTypeOK' /\ TimerHasRoom'
    BY <1>0, <2>2, <2>3 DEF InteractionsTypeOK, TimerHasRoom
  <2>5. QED
    BY <1>1, <2>2, <2>4
<1>6. CASE Release
  <2>1. /\ pressed' = Air /\ destroyTimerActive' = FALSE
        /\ UNCHANGED <<handVars, chunkVars, destroyTimer, destroyTimerTotal, destroyPos, ticking,
                       deferred>>
    BY <1>6 DEF Release
  <2>2. InteractionsTypeOK' /\ TimerHasRoom'
    BY <1>0, <2>1 DEF InteractionsTypeOK, TimerHasRoom
  <2>3. QED
    BY <1>1, <2>1, <2>2
<1>7. CASE PlaceBlock
  <2>1. /\ grid' \in [Pos -> Kind \cup {Air}] /\ slots' \in [Slots -> Stack \cup {NoStack}]
        /\ \A k \in Kind : CountOf(k, grid', slots') = Sum(k)
        /\ placed' \in 0..MaxPlaced /\ marked' = TRUE
        /\ UNCHANGED <<currentSlot, timerVars, wasted, ticking, deferred, pressed>>
    BY <1>0, <1>7, PlaceIs
  <2>2. InteractionsTypeOK' /\ TimerHasRoom'
    BY <1>0, <2>1 DEF InteractionsTypeOK, TimerHasRoom
  <2>3. BlocksAreConserved'
    <3>1. Collectable \subseteq Kind /\ \A k : Sum(k) \in Nat /\ wasted \in Nat
      BY <1>0, InteractionsBounds, SumsAre
    <3>2. QED
      BY <1>2, <2>1, <3>1
  <2>4. ChangesAreMarked'
    BY <2>1 DEF ChangesAreMarked
  <2>5. QED
    BY <2>2, <2>3, <2>4 DEF InteractionsIInv, InteractionsInv
<1>8. CASE Tick
  <2>1. /\ destroyTimerTotal' \in {destroyTimerTotal, 0} /\ destroyTimer' = Less(destroyTimer)
        /\ UNCHANGED <<handVars, chunkVars, destroyTimerActive, destroyPos, pressed>>
    BY <1>8 DEF Tick
  <2>2. \/ destroyTimer' = 0 /\ deferred' = deferred + 1 /\ ticking' = "expired"
        \/ destroyTimer' # 0 /\ UNCHANGED <<deferred, ticking>>
    BY <1>8 DEF Tick, Defer
  <2>3. /\ destroyTimer \in TimerValues \cup {Wrapped} /\ deferred \in 0..MaxDeferred
        /\ MaxDeferred \in Nat /\ (destroyTimer \notin {0, Wrapped} => deferred < MaxDeferred)
    BY <1>0, InteractionsBounds DEF InteractionsTypeOK, TimerHasRoom
  <2>4. /\ destroyTimer' \in TimerValues \cup {Wrapped}
        /\ destroyTimer' = 0 => destroyTimer \notin {0, Wrapped}
        /\ destroyTimer' \notin {0, Wrapped} => destroyTimer \notin {0, Wrapped}
        /\ 0 \in TimerValues
    BY <2>1, <2>3, TimerIs
  <2>5. TimerHasRoom' /\ ticking' \in {"idle", "expired"}
    BY <1>0, <2>2, <2>3, <2>4 DEF InteractionsTypeOK, TimerHasRoom
  <2>6. InteractionsTypeOK'
    BY <1>0, <2>1, <2>4, <2>5 DEF InteractionsTypeOK, TimerHasRoom
  <2>7. QED
    BY <1>1, <2>1, <2>5, <2>6
<1>9. CASE TickEnds
  <2>1. /\ ticking' = "idle" /\ destroyTimerActive' = FALSE
        /\ UNCHANGED <<handVars, chunkVars, destroyTimer, destroyTimerTotal, destroyPos, deferred,
                       pressed>>
    BY <1>9 DEF TickEnds
  <2>2. InteractionsTypeOK' /\ TimerHasRoom'
    BY <1>0, <2>1 DEF InteractionsTypeOK, TimerHasRoom
  <2>3. QED
    BY <1>1, <2>1, <2>2
<1>10. CASE Expired
  <2>1. /\ deferred > 0 /\ deferred' = deferred - 1
        /\ UNCHANGED <<currentSlot, timerVars, ticking, pressed>>
    BY <1>10 DEF Expired, DoDeferredWork
  <2>2. TimerHasRoom' /\ destroyPos \in Pos
    BY <1>0, <2>1, InteractionsBounds DEF TimerHasRoom, InteractionsTypeOK
  <2>3. CASE grid[destroyPos] = Air
    <3>1. UNCHANGED <<slots, chunkVars>>
      BY <1>10, <2>3 DEF Expired
    <3>2. InteractionsTypeOK'
      BY <1>0, <2>1, <2>2, <3>1 DEF InteractionsTypeOK, TimerHasRoom
    <3>3. QED
      BY <1>1, <2>2, <3>1, <3>2
  <2>4. CASE grid[destroyPos] # Air
    <3>1. Take(destroyPos) /\ marked' = TRUE /\ placed' = placed
      BY <1>10, <2>4 DEF Expired
    <3>2. /\ grid' \in [Pos -> Kind \cup {Air}]
          /\ slots' \in [Slots -> Stack \cup {NoStack}] /\ wasted' \in Nat
          /\ BlocksAreConserved'
      BY <1>0, <1>2, <2>2, <2>4, <3>1, TakeIs
    <3>3. InteractionsTypeOK'
      BY <1>0, <2>1, <2>2, <3>1, <3>2 DEF InteractionsTypeOK, TimerHasRoom
    <3>4. ChangesAreMarked'
      BY <3>1 DEF ChangesAreMarked
    <3>5. QED
      BY <2>2, <3>2, <3>3, <3>4 DEF InteractionsIInv, InteractionsInv
  <2>5. QED
    BY <2>3, <2>4
<1>11. CASE UNCHANGED interactionsVars
  <2>1. UNCHANGED <<handVars, timerVars, chunkVars, ticking, deferred, pressed>>
    BY <1>11 DEF interactionsVars
  <2>2. InteractionsTypeOK' /\ TimerHasRoom'
    BY <1>0, <2>1 DEF InteractionsTypeOK, TimerHasRoom
  <2>3. QED
    BY <1>1, <2>1, <2>2
<1>12. QED
  BY <1>3, <1>4, <1>5, <1>6, <1>7, <1>8, <1>9, <1>10, <1>11 DEF InteractionsNext, DestroyBlock

(* Blocks of a type are in the world, in the inventory or were wasted, as    *)
(* many as there were, in a world and an inventory of any size; and what is  *)
(* changed is marked to be saved, but for what is destroyed at once          *)
(* (BlockInteractions.cpp:60 to 250, Manager.cpp:120).                       *)
THEOREM InteractionsSafe == InteractionsSpec => []InteractionsInv
<1>1. InteractionsInit => InteractionsIInv
  BY InteractionsInitHolds
<1>2. InteractionsIInv /\ [InteractionsNext]_interactionsVars => InteractionsIInv'
  BY InteractionsStep
<1>3. InteractionsIInv => InteractionsInv
  BY DEF InteractionsIInv
<1>4. QED
  BY <1>1, <1>2, <1>3, PTL DEF InteractionsSpec
-----------------------------------------------------------------------------
(* Chat.  The inductive invariant: what is on its way to a player, in the    *)
(* queue of the broadcaster or in the player's inbox, is in order, is true,  *)
(* and has what the player does not know yet.                                *)

Items(s) == {s[i] : i \in DOMAIN s}
IsMessage(x) == x.kind = "message"
IsJoined(x, q) == x.kind = "joined" /\ x.who = q
IsLeft(x, q) == x.kind = "left" /\ x.who = q
IsList(x) == x.kind = "list"

ChattingTypes ==
    /\ ChattingTypeOK
    /\ audience \in [1..MaxMessages -> SUBSET Person]
    /\ presentAtStart \in [Person -> SUBSET Person]

(* What an item says has happened. *)
TrueNews(x) ==
    /\ IsMessage(x) => x.n \in 1..sentMessages
    /\ x.kind = "joined" => present[x.who] \notin {"out", "in"}
    /\ x.kind = "left" => present[x.who] \in {"leaving", "left"}

NewsIsTrue ==
    /\ \A x \in Items(broadcastQueue) : TrueNews(x)
    /\ \A p \in Person : \A x \in Items(inbox[p]) : TrueNews(x)

InOrder(s) ==
    \A i, j \in DOMAIN s : i < j /\ IsMessage(s[i]) /\ IsMessage(s[j]) => s[i].n < s[j].n

MessagesInOrder ==
    /\ InOrder(broadcastQueue)
    /\ \A p \in Person :
        /\ InOrder(inbox[p])
        /\ \A x \in Items(inbox[p]), y \in Items(broadcastQueue) :
                IsMessage(x) /\ IsMessage(y) => x.n < y.n
        /\ \A m \in Items(scrollback[p]) :
                /\ m <= sentMessages
                /\ \A y \in Items(inbox[p]) \cup Items(broadcastQueue) : IsMessage(y) => m < y.n
    /\ OneOrder

(* A list is made once, while the player waits for it. *)
ListsAreAsked ==
    \A p \in Person :
        /\ listing[p] # {Nobody} => chat[p] = "asked" /\ \A x \in Items(inbox[p]) : ~IsList(x)
        /\ \A i \in DOMAIN inbox[p] : IsList(inbox[p][i]) =>
                chat[p] = "asked" /\ \A j \in DOMAIN inbox[p] : IsList(inbox[p][j]) => j = i
        /\ received[p] # {} => chat[p] = "listed"

(* Only who came has a chat. *)
ChatIsOfWhoCame ==
    \A p \in Person : /\ present[p] = "out" => chat[p] = "none"
                      /\ chat[p] = "none" => \A n \in 1..MaxMessages : p \notin audience[n]

NoListYet(p) ==
    chat[p] = "asked" /\ listing[p] = {Nobody} /\ \A x \in Items(inbox[p]) : ~IsList(x)

Coming(p, q) == \E x \in Items(inbox[p]) \cup Items(broadcastQueue) : IsJoined(x, q)
InList(p, q) == \E x \in Items(inbox[p]) : IsList(x) /\ q \in x.names

WillKnow(p, q) ==
    \/ q \in info[p] \/ Coming(p, q) \/ NoListYet(p)
    \/ q \in listing[p] \/ InList(p, q) \/ q \in received[p]

KnownLater ==
    \A p, q \in Person :
        Works(p) /\ chat[p] # "none" /\ present[q] = "told" => WillKnow(p, q)

(* Of one who came after the chat was made, the coming is told first. *)
JoinedBeforeLeft ==
    \A p, q \in Person : Works(p) /\ chat[p] # "none" /\ q \notin presentAtStart[p] =>
        /\ present[q] \notin {"out", "in"} => q \in info[p] \/ Coming(p, q)
        /\ \A i \in DOMAIN inbox[p] : IsLeft(inbox[p][i], q) =>
                q \in info[p] \/ \E j \in DOMAIN inbox[p] : j < i /\ IsJoined(inbox[p][j], q)
        /\ \A i \in DOMAIN broadcastQueue : IsLeft(broadcastQueue[i], q) =>
                \/ q \in info[p]
                \/ \E x \in Items(inbox[p]) : IsJoined(x, q)
                \/ \E j \in DOMAIN broadcastQueue : j < i /\ IsJoined(broadcastQueue[j], q)

ArriveLater ==
    \A p \in Person, n \in 1..MaxMessages : Works(p) /\ p \in audience[n] =>
        \/ n \in Items(scrollback[p])
        \/ \E x \in Items(inbox[p]) \cup Items(broadcastQueue) : IsMessage(x) /\ x.n = n

ChattingIInv ==
    /\ ChattingTypes /\ NewsIsTrue /\ MessagesInOrder /\ ListsAreAsked /\ ChatIsOfWhoCame
    /\ KnownLater /\ JoinedBeforeLeft /\ ArriveLater /\ DroppedByEarlierOnly

LEMMA ItemsOfAppend ==
    ASSUME NEW S, NEW q \in Seq(S), NEW e \in S
    PROVE  Items(Append(q, e)) = Items(q) \cup {e}
<1>1. /\ \A i \in DOMAIN Append(q, e) : \/ i \in DOMAIN q /\ Append(q, e)[i] = q[i]
                                        \/ i = Len(q) + 1 /\ Append(q, e)[i] = e
      /\ DOMAIN q = 1..Len(q) /\ Len(q) \in Nat
      /\ DOMAIN Append(q, e) = 1..Len(q) + 1
  BY AppendIs
<1>2. Append(q, e)[Len(q) + 1] = e /\ \A i \in 1..Len(q) : Append(q, e)[i] = q[i]
  BY AppendProperties
<1>3. Len(q) + 1 \in DOMAIN Append(q, e) /\ \A i \in DOMAIN q : i \in DOMAIN Append(q, e)
  BY <1>1
<1>4. Items(Append(q, e)) \subseteq Items(q) \cup {e}
  BY <1>1 DEF Items
<1>5. e \in Items(Append(q, e)) /\ Items(q) \subseteq Items(Append(q, e))
  BY <1>1, <1>2, <1>3 DEF Items
<1>6. QED
  BY <1>4, <1>5

LEMMA ItemsOfTail ==
    ASSUME NEW S, NEW q \in Seq(S), q # <<>>
    PROVE  /\ Items(q) = Items(Tail(q)) \cup {Head(q)} /\ Head(q) \in S /\ Head(q) = q[1]
           /\ 1 \in DOMAIN q /\ Head(q) \in Items(q)
<1>1. /\ 1 \in DOMAIN q /\ Head(q) = q[1] /\ Head(q) \in S
  BY TailIs, HeadTailProperties, ElementOfSeq
<1>2. \A i \in DOMAIN Tail(q) : i + 1 \in DOMAIN q /\ Tail(q)[i] = q[i + 1]
  BY TailIs
<1>3. Items(Tail(q)) \cup {Head(q)} \subseteq Items(q)
  BY <1>1, <1>2 DEF Items
<1>4. ASSUME NEW i \in DOMAIN q PROVE q[i] = Head(q) \/ q[i] \in Items(Tail(q))
  <2>1. DOMAIN q = 1..Len(q) /\ Len(q) \in Nat /\ Tail(q) \in Seq(S) /\ Len(Tail(q)) = Len(q) - 1
    BY LenProperties, HeadTailProperties
  <2>2. DOMAIN Tail(q) = 1..Len(q) - 1
    BY <2>1, LenProperties
  <2>3. CASE i = 1
    BY <1>1, <2>3
  <2>4. CASE i # 1
    <3>1. i - 1 \in DOMAIN Tail(q) /\ i - 1 + 1 = i
      BY <1>4, <2>1, <2>2, <2>4
    <3>2. QED
      BY <1>2, <3>1 DEF Items
  <2>5. QED
    BY <2>3, <2>4
<1>5. QED
  BY <1>1, <1>3, <1>4 DEF Items

LEMMA ItemsOfNone == Items(<<>>) = {}
  BY DEF Items

LEMMA ItemsAre ==
    ASSUME ChattingTypes
    PROVE  /\ broadcastQueue \in Seq(Item) /\ Items(broadcastQueue) \subseteq Item
           /\ inbox \in [Person -> Seq(Item \cup Listed)]
           /\ \A p \in Person : /\ inbox[p] \in Seq(Item \cup Listed)
                                /\ Items(inbox[p]) \subseteq Item \cup Listed
                                /\ scrollback[p] \in Seq(1..MaxMessages)
                                /\ Items(scrollback[p]) \subseteq 1..MaxMessages
<1>1. /\ broadcastQueue \in Seq(Item) /\ inbox \in [Person -> Seq(Item \cup Listed)]
      /\ scrollback \in [Person -> Seq(1..MaxMessages)]
  BY DEF ChattingTypes, ChattingTypeOK
<1>2. \A i \in DOMAIN broadcastQueue : broadcastQueue[i] \in Item
  BY <1>1, ElementOfSeq
<1>3. ASSUME NEW p \in Person
      PROVE  /\ inbox[p] \in Seq(Item \cup Listed) /\ scrollback[p] \in Seq(1..MaxMessages)
             /\ \A i \in DOMAIN inbox[p] : inbox[p][i] \in Item \cup Listed
             /\ \A i \in DOMAIN scrollback[p] : scrollback[p][i] \in 1..MaxMessages
  <2>1. inbox[p] \in Seq(Item \cup Listed) /\ scrollback[p] \in Seq(1..MaxMessages)
    BY <1>1
  <2>2. \A i \in DOMAIN inbox[p] : inbox[p][i] \in Item \cup Listed
    BY <2>1, ElementOfSeq
  <2> DEFINE N == 1..MaxMessages
             s == scrollback[p]
  <2> HIDE DEF N
  <2>a. s \in Seq(N)
    BY <2>1 DEF N
  <2> HIDE DEF s
  <2>b. \A i \in DOMAIN s : s[i] \in N
    BY <2>a, ElementOfSeq
  <2>3. \A i \in DOMAIN scrollback[p] : scrollback[p][i] \in 1..MaxMessages
    BY <2>b DEF N, s
  <2>4. QED
    BY <2>1, <2>2, <2>3
<1>4. QED
  BY <1>1, <1>2, <1>3 DEF Items

(* The other state, and an item. *)
LEMMA ChatTypes ==
    ASSUME ChattingTypes
    PROVE  /\ present \in [Person -> {"out", "in", "told", "leaving", "left"}]
           /\ listing \in [Person -> (SUBSET Person) \cup {{Nobody}}]
           /\ chat \in [Person -> {"none", "asked", "listed", "open"}]
           /\ received \in [Person -> SUBSET Person] /\ info \in [Person -> SUBSET Person]
           /\ scrollback \in [Person -> Seq(1..MaxMessages)]
           /\ dropped \in [Person -> Person \cup {Nobody}] /\ sentMessages \in 0..MaxMessages
           /\ audience \in [1..MaxMessages -> SUBSET Person]
           /\ presentAtStart \in [Person -> SUBSET Person]
           /\ Nobody \notin Person /\ MaxMessages \in Nat
  BY ChattingAssumption DEF ChattingTypes, ChattingTypeOK

LEMMA NewItemIs ==
    ASSUME NEW k \in {"message", "joined", "left"}, NEW p \in Person, NEW n \in 0..MaxMessages
    PROVE  /\ NewItem(k, p, n) \in Item /\ NewItem(k, p, n).kind = k
           /\ NewItem(k, p, n).who = p /\ NewItem(k, p, n).n = n
  BY DEF NewItem, Item

LEMMA ItemKinds ==
    /\ \A x \in Item : x.kind \in {"message", "joined", "left"} /\ x.who \in Person /\ ~IsList(x)
                       /\ x.n \in 0..MaxMessages
    /\ \A x \in Listed : x.kind = "list" /\ x.names \subseteq Person
  BY DEF Item, Listed, IsList

(* The broadcaster's step. *)
LEMMA BroadcastIs ==
    ASSUME ChattingTypes, BroadcasterMain
    PROVE  LET h == Head(broadcastQueue) IN
           /\ broadcastQueue # <<>> /\ broadcastQueue' = Tail(broadcastQueue)
           /\ h \in Item /\ h = broadcastQueue[1] /\ 1 \in DOMAIN broadcastQueue
           /\ Items(broadcastQueue) = Items(broadcastQueue') \cup {h}
           /\ \A p \in Person :
                \/ /\ Here(p) /\ dropped[p] = Nobody /\ inbox'[p] = Append(inbox[p], h)
                   /\ Items(inbox'[p]) = Items(inbox[p]) \cup {h}
                \/ ~(Here(p) /\ dropped[p] = Nobody) /\ inbox'[p] = inbox[p]
           /\ inbox' \in [Person -> Seq(Item \cup Listed)] /\ broadcastQueue' \in Seq(Item)
           /\ UNCHANGED <<present, listing, chatClientVars, chatHistory>>
<1> DEFINE h == Head(broadcastQueue)
<1>1. /\ broadcastQueue # <<>> /\ broadcastQueue' = Tail(broadcastQueue)
      /\ UNCHANGED <<present, listing, chatClientVars, chatHistory>>
      /\ inbox' = [p \in Person |-> IF Here(p) /\ dropped[p] = Nobody THEN Append(inbox[p], h)
                                    ELSE inbox[p]]
  BY DEF BroadcasterMain
<1>2. /\ h \in Item /\ h = broadcastQueue[1] /\ 1 \in DOMAIN broadcastQueue
      /\ Items(broadcastQueue) = Items(broadcastQueue') \cup {h} /\ broadcastQueue' \in Seq(Item)
  BY <1>1, ItemsAre, ItemsOfTail, HeadTailProperties
<1> HIDE DEF h
<1>3. ASSUME NEW p \in Person
      PROVE  /\ Append(inbox[p], h) \in Seq(Item \cup Listed)
             /\ Items(Append(inbox[p], h)) = Items(inbox[p]) \cup {h}
             /\ inbox[p] \in Seq(Item \cup Listed)
  <2>1. inbox[p] \in Seq(Item \cup Listed) /\ h \in Item \cup Listed
    BY <1>2, ItemsAre
  <2>2. QED
    BY <2>1, ItemsOfAppend, AppendProperties
<1>4. ASSUME NEW p \in Person
      PROVE  \/ /\ Here(p) /\ dropped[p] = Nobody /\ inbox'[p] = Append(inbox[p], h)
                /\ Items(inbox'[p]) = Items(inbox[p]) \cup {h}
             \/ ~(Here(p) /\ dropped[p] = Nobody) /\ inbox'[p] = inbox[p]
  <2>1. CASE Here(p) /\ dropped[p] = Nobody
    BY <1>1, <1>3, <2>1
  <2>2. CASE ~(Here(p) /\ dropped[p] = Nobody)
    BY <1>1, <2>2
  <2>3. QED
    BY <2>1, <2>2
<1>5. inbox' \in [Person -> Seq(Item \cup Listed)]
  BY <1>1, <1>3
<1>6. QED
  BY <1>1, <1>2, <1>4, <1>5 DEF h

(* A packet is taken from the inbox. *)
LEMMA ReceiveIs ==
    ASSUME ChattingTypes, NEW p \in Person, Receive(p)
    PROVE  LET h == Head(inbox[p]) IN
           /\ Works(p) /\ inbox[p] # <<>> /\ inbox'[p] = Tail(inbox[p])
           /\ h \in Item \cup Listed /\ h = inbox[p][1] /\ 1 \in DOMAIN inbox[p]
           /\ Items(inbox[p]) = Items(inbox'[p]) \cup {h}
           /\ \A q \in Person : q # p => inbox'[q] = inbox[q]
           /\ inbox' \in [Person -> Seq(Item \cup Listed)]
           /\ UNCHANGED <<chatServerVars, chatHistory>>
<1>1. /\ Works(p) /\ inbox[p] # <<>> /\ inbox' = [inbox EXCEPT ![p] = Tail(inbox[p])]
      /\ UNCHANGED <<chatServerVars, chatHistory>>
  BY DEF Receive
<1>2. inbox[p] \in Seq(Item \cup Listed) /\ inbox \in [Person -> Seq(Item \cup Listed)]
  BY ItemsAre
<1>3. inbox'[p] = Tail(inbox[p]) /\ \A q \in Person : q # p => inbox'[q] = inbox[q]
  BY <1>1, <1>2
<1>4. Tail(inbox[p]) \in Seq(Item \cup Listed)
  BY <1>1, <1>2, HeadTailProperties
<1>5. inbox' \in [Person -> Seq(Item \cup Listed)]
  BY <1>1, <1>2, <1>4
<1>6. QED
  BY <1>1, <1>2, <1>3, <1>5, ItemsOfTail

(* Something is put in the queue. *)
LEMMA EnqueueIs ==
    ASSUME ChattingTypes, NEW k \in {"message", "joined", "left"}, NEW p \in Person,
           NEW n \in 0..MaxMessages, broadcastQueue' = Append(broadcastQueue, NewItem(k, p, n))
    PROVE  LET e == NewItem(k, p, n) IN
           /\ e \in Item /\ e.kind = k /\ e.who = p /\ e.n = n
           /\ broadcastQueue' \in Seq(Item)
           /\ Items(broadcastQueue') = Items(broadcastQueue) \cup {e}
           /\ \A i \in DOMAIN broadcastQueue' :
                \/ i \in DOMAIN broadcastQueue /\ broadcastQueue'[i] = broadcastQueue[i]
                \/ i = Len(broadcastQueue) + 1 /\ broadcastQueue'[i] = e
           /\ DOMAIN broadcastQueue = 1..Len(broadcastQueue) /\ Len(broadcastQueue) \in Nat
<1> DEFINE e == NewItem(k, p, n)
<1>1. e \in Item /\ e.kind = k /\ e.who = p /\ e.n = n
  BY NewItemIs
<1>2. broadcastQueue \in Seq(Item) /\ broadcastQueue' = Append(broadcastQueue, e)
  BY ItemsAre
<1> HIDE DEF e
<1>3. /\ broadcastQueue' \in Seq(Item)
      /\ Items(broadcastQueue') = Items(broadcastQueue) \cup {e}
  BY <1>1, <1>2, ItemsOfAppend, AppendProperties
<1>4. /\ \A i \in DOMAIN broadcastQueue' :
                \/ i \in DOMAIN broadcastQueue /\ broadcastQueue'[i] = broadcastQueue[i]
                \/ i = Len(broadcastQueue) + 1 /\ broadcastQueue'[i] = e
      /\ DOMAIN broadcastQueue = 1..Len(broadcastQueue) /\ Len(broadcastQueue) \in Nat
  BY <1>1, <1>2, AppendIs
<1>5. QED
  BY <1>1, <1>3, <1>4 DEF e

ListOf(p) == [kind |-> "list", who |-> Nobody, n |-> 0, names |-> listing[p]]

(* A list is sent. *)
LEMMA SendListIs ==
    ASSUME ChattingTypes, NEW p \in Person, SendList(p)
    PROVE  /\ ListOf(p) \in Listed /\ IsList(ListOf(p)) /\ ListOf(p).names = listing[p]
           /\ inbox'[p] = Append(inbox[p], ListOf(p))
           /\ Items(inbox'[p]) = Items(inbox[p]) \cup {ListOf(p)}
           /\ \A q \in Person : q # p => inbox'[q] = inbox[q]
           /\ inbox' \in [Person -> Seq(Item \cup Listed)]
           /\ listing' = [listing EXCEPT ![p] = {Nobody}] /\ listing[p] # {Nobody}
           /\ \A i \in DOMAIN inbox'[p] :
                \/ i \in DOMAIN inbox[p] /\ inbox'[p][i] = inbox[p][i]
                \/ i = Len(inbox[p]) + 1 /\ inbox'[p][i] = ListOf(p)
           /\ DOMAIN inbox[p] = 1..Len(inbox[p]) /\ Len(inbox[p]) \in Nat
           /\ UNCHANGED <<present, broadcastQueue, chatClientVars, chatHistory>>
<1>1. /\ inbox' = [inbox EXCEPT ![p] = Append(inbox[p], ListOf(p))]
      /\ listing' = [listing EXCEPT ![p] = {Nobody}] /\ listing[p] # {Nobody}
      /\ UNCHANGED <<present, broadcastQueue, chatClientVars, chatHistory>>
  BY DEF SendList, ListOf
<1>2. /\ listing[p] \subseteq Person /\ inbox[p] \in Seq(Item \cup Listed)
      /\ inbox \in [Person -> Seq(Item \cup Listed)]
  <2>1. listing[p] \subseteq Person
    BY <1>1, ChatTypes
  <2>2. QED
    BY <2>1, ItemsAre
<1>3. ListOf(p) \in Listed /\ IsList(ListOf(p)) /\ ListOf(p).names = listing[p]
  BY <1>2 DEF ListOf, Listed, IsList
<1> DEFINE e == ListOf(p)
           s == Append(inbox[p], e)
<1>4. e \in Item \cup Listed /\ e = ListOf(p)
  BY <1>3
<1> HIDE DEF e
<1>5. s \in Seq(Item \cup Listed) /\ Items(s) = Items(inbox[p]) \cup {e}
  BY <1>2, <1>4, ItemsOfAppend, AppendProperties
<1>6. /\ \A i \in DOMAIN s : \/ i \in DOMAIN inbox[p] /\ s[i] = inbox[p][i]
                             \/ i = Len(inbox[p]) + 1 /\ s[i] = e
      /\ DOMAIN inbox[p] = 1..Len(inbox[p]) /\ Len(inbox[p]) \in Nat
  BY <1>2, <1>4, AppendIs
<1>7. inbox' = [inbox EXCEPT ![p] = s]
  BY <1>1, <1>4
<1> HIDE DEF s
<1>8. inbox'[p] = s /\ \A q \in Person : q # p => inbox'[q] = inbox[q]
  BY <1>2, <1>7
<1>9. inbox' \in [Person -> Seq(Item \cup Listed)]
  BY <1>2, <1>5, <1>7
<1>10. QED
  BY <1>1, <1>3, <1>4, <1>5, <1>6, <1>8, <1>9 DEF s

(* A list that waits to be sent has players only. *)
LEMMA ListedAre ==
    ASSUME ChattingTypes, NEW p \in Person, NEW q \in Person
    PROVE  q \in listing[p] => listing[p] # {Nobody}
  BY ChatTypes

(* The worker's step, for a piece of news. *)
LEMMA ChatEventIs ==
    ASSUME ChattingTypes, NEW p \in Person, ChatEvent(p)
    PROVE  LET h == Head(inbox[p]) IN
           /\ Receive(p) /\ h \in Item /\ UNCHANGED <<chat, received>>
           /\ \/ /\ chat[p] = "none" /\ UNCHANGED <<info, scrollback, dropped>>
              \/ /\ IsMessage(h) /\ chat[p] # "none" /\ UNCHANGED <<info, dropped>>
                 /\ scrollback' = [scrollback EXCEPT ![p] = Append(scrollback[p], h.n)]
              \/ /\ h.kind = "joined" /\ chat[p] # "none" /\ UNCHANGED <<scrollback, dropped>>
                 /\ info' = [info EXCEPT ![p] = info[p] \cup {h.who}]
              \/ /\ h.kind = "left" /\ chat[p] # "none" /\ UNCHANGED <<info, scrollback>>
                 /\ dropped' = IF h.who \in info[p] THEN dropped
                               ELSE [dropped EXCEPT ![p] = h.who]
<1> DEFINE h == Head(inbox[p])
<1>1. Receive(p) /\ h \in Item \cup Listed
  BY ReceiveIs DEF ChatEvent
<1> HIDE DEF h
<1>2. /\ UNCHANGED <<chat, received>>
      /\ \/ /\ h.kind # "list" /\ chat[p] = "none" /\ UNCHANGED <<info, scrollback, dropped>>
         \/ /\ h.kind = "message" /\ chat[p] # "none" /\ UNCHANGED <<info, dropped>>
            /\ scrollback' = [scrollback EXCEPT ![p] = Append(scrollback[p], h.n)]
         \/ /\ h.kind = "joined" /\ chat[p] # "none" /\ UNCHANGED <<scrollback, dropped>>
            /\ info' = [info EXCEPT ![p] = info[p] \cup {h.who}]
         \/ /\ h.kind = "left" /\ chat[p] # "none" /\ UNCHANGED <<info, scrollback>>
            /\ dropped' = IF h.who \in info[p] THEN dropped ELSE [dropped EXCEPT ![p] = h.who]
  BY DEF ChatEvent, h
<1>3. h \in Item
  <2>1. h.kind # "list"
    BY <1>2
  <2>2. QED
    BY <1>1, <2>1, ItemKinds
<1>4. QED
  BY <1>1, <1>2, <1>3 DEF h, IsMessage

LEMMA ConnectedReplyIs ==
    ASSUME ChattingTypes, NEW p \in Person, ConnectedReply(p)
    PROVE  LET h == Head(inbox[p]) IN
           /\ Receive(p) /\ h \in Listed /\ IsList(h) /\ h.names \subseteq Person
           /\ received' = [received EXCEPT ![p] = h.names] /\ chat' = [chat EXCEPT ![p] = "listed"]
           /\ UNCHANGED <<info, scrollback, dropped>>
<1> DEFINE h == Head(inbox[p])
<1>1. Receive(p) /\ h \in Item \cup Listed
  BY ReceiveIs DEF ConnectedReply
<1>2. h.kind = "list" /\ received' = [received EXCEPT ![p] = h.names]
      /\ chat' = [chat EXCEPT ![p] = "listed"] /\ UNCHANGED <<info, scrollback, dropped>>
  BY DEF ConnectedReply
<1> HIDE DEF h
<1>3. h \in Listed /\ IsList(h) /\ h.names \subseteq Person
  BY <1>1, <1>2, ItemKinds DEF IsList
<1>4. QED
  BY <1>1, <1>2, <1>3 DEF h

LEMMA ChattingTypesKept ==
    ASSUME ChattingTypes, NewsIsTrue, ChattingNext
    PROVE  ChattingTypes'
<1> USE DEF chatServerVars, chatClientVars, chatHistory
<1>0. ChattingTypeOK
  BY DEF ChattingTypes
<1>1. CASE BroadcasterMain
  <2>1. /\ inbox' \in [Person -> Seq(Item \cup Listed)] /\ broadcastQueue' \in Seq(Item)
        /\ UNCHANGED <<present, listing, chatClientVars, chatHistory>>
    BY <1>1, BroadcastIs
  <2>2. QED
    BY <2>1 DEF ChattingTypes, ChattingTypeOK
<1>2. ASSUME NEW p \in Person, Join(p) PROVE ChattingTypes'
  <2>1. present' \in [Person -> {"out", "in", "told", "leaving", "left"}]
    BY <1>2, ChatTypes DEF Join
  <2>2. QED
    BY <1>2, <2>1 DEF Join, ChattingTypes, ChattingTypeOK
<1>3. ASSUME NEW p \in Person, PlayerJoined(p) \/ PlayerLeft(p) PROVE ChattingTypes'
  <2>1. 0 \in 0..MaxMessages
    BY ChatTypes
  <2>2. broadcastQueue' \in Seq(Item)
    BY <1>3, <2>1, EnqueueIs DEF PlayerJoined, PlayerLeft
  <2>3. present' \in [Person -> {"out", "in", "told", "leaving", "left"}]
    BY <1>3, ChatTypes DEF PlayerJoined, PlayerLeft
  <2>4. UNCHANGED <<listing, inbox, chatClientVars, chatHistory>>
    BY <1>3 DEF PlayerJoined, PlayerLeft
  <2>5. QED
    BY <2>2, <2>3, <2>4 DEF ChattingTypes, ChattingTypeOK
<1>4. ASSUME NEW p \in Person, PlayerMessage(p) PROVE ChattingTypes'
  <2>1. /\ sentMessages < MaxMessages /\ sentMessages' = sentMessages + 1
        /\ broadcastQueue' = Append(broadcastQueue, NewItem("message", p, sentMessages'))
        /\ audience' = [audience EXCEPT ![sentMessages'] =
                            {q \in Person : Here(q) /\ chat[q] # "none"}]
        /\ UNCHANGED <<present, listing, inbox, chatClientVars, presentAtStart>>
    BY <1>4 DEF PlayerMessage
  <2>2. sentMessages' \in 0..MaxMessages
    BY <2>1, ChatTypes
  <2>3. broadcastQueue' \in Seq(Item)
    BY <2>1, <2>2, EnqueueIs
  <2>4. audience' \in [1..MaxMessages -> SUBSET Person]
    BY <2>1, ChatTypes
  <2>5. QED
    BY <2>1, <2>2, <2>3, <2>4 DEF ChattingTypes, ChattingTypeOK
<1>5. ASSUME NEW p \in Person, ListUsers(p) PROVE ChattingTypes'
  <2>1. /\ listing' = [listing EXCEPT ![p] = {q \in Person : Here(q)}]
        /\ UNCHANGED <<present, broadcastQueue, inbox, chatClientVars, chatHistory>>
    BY <1>5 DEF ListUsers
  <2>2. listing' \in [Person -> (SUBSET Person) \cup {{Nobody}}]
    BY <2>1, ChatTypes
  <2>3. QED
    BY <2>1, <2>2 DEF ChattingTypes, ChattingTypeOK
<1>6. ASSUME NEW p \in Person, SendList(p) PROVE ChattingTypes'
  <2>1. /\ inbox' \in [Person -> Seq(Item \cup Listed)]
        /\ listing' = [listing EXCEPT ![p] = {Nobody}]
        /\ UNCHANGED <<present, broadcastQueue, chatClientVars, chatHistory>>
    BY <1>6, SendListIs
  <2>2. listing' \in [Person -> (SUBSET Person) \cup {{Nobody}}]
    BY <2>1, ChatTypes
  <2>3. QED
    BY <2>1, <2>2 DEF ChattingTypes, ChattingTypeOK
<1>7. ASSUME NEW p \in Person, Removed(p) PROVE ChattingTypes'
  <2>1. /\ present' = [present EXCEPT ![p] = "left"] /\ inbox' = [inbox EXCEPT ![p] = <<>>]
        /\ UNCHANGED <<broadcastQueue, listing, chatClientVars, chatHistory>>
    BY <1>7 DEF Removed
  <2>2. present' \in [Person -> {"out", "in", "told", "leaving", "left"}]
    BY <2>1, ChatTypes
  <2>3. <<>> \in Seq(Item \cup Listed) /\ inbox \in [Person -> Seq(Item \cup Listed)]
    BY ItemsAre, EmptySeq
  <2>4. inbox' \in [Person -> Seq(Item \cup Listed)]
    BY <2>1, <2>3
  <2>5. QED
    BY <2>1, <2>2, <2>4 DEF ChattingTypes, ChattingTypeOK
<1>8. ASSUME NEW p \in Person, MakeChat(p) PROVE ChattingTypes'
  <2>1. /\ chat' = [chat EXCEPT ![p] = "asked"]
        /\ presentAtStart' = [presentAtStart EXCEPT ![p] = {q \in Person : present[q] # "out"}]
        /\ UNCHANGED <<chatServerVars, inbox, received, info, scrollback, dropped, sentMessages,
                       audience>>
    BY <1>8 DEF MakeChat
  <2>2. /\ chat' \in [Person -> {"none", "asked", "listed", "open"}]
        /\ presentAtStart' \in [Person -> SUBSET Person]
    BY <2>1, ChatTypes
  <2>3. QED
    BY <2>1, <2>2 DEF ChattingTypes, ChattingTypeOK
<1>9. ASSUME NEW p \in Person, InsertPlayers(p) PROVE ChattingTypes'
  <2>1. /\ chat' = [chat EXCEPT ![p] = "open"]
        /\ info' = [info EXCEPT ![p] = info[p] \cup received[p]]
        /\ received' = [received EXCEPT ![p] = {}]
        /\ UNCHANGED <<chatServerVars, inbox, scrollback, dropped, chatHistory>>
    BY <1>9 DEF InsertPlayers
  <2>2. /\ chat' \in [Person -> {"none", "asked", "listed", "open"}]
        /\ info' \in [Person -> SUBSET Person] /\ received' \in [Person -> SUBSET Person]
    BY <2>1, ChatTypes
  <2>3. QED
    BY <2>1, <2>2 DEF ChattingTypes, ChattingTypeOK
<1>10. ASSUME NEW p \in Person, ConnectedReply(p) PROVE ChattingTypes'
  <2> DEFINE h == Head(inbox[p])
  <2>1. /\ Receive(p) /\ h.names \subseteq Person
        /\ received' = [received EXCEPT ![p] = h.names] /\ chat' = [chat EXCEPT ![p] = "listed"]
        /\ UNCHANGED <<info, scrollback, dropped>>
    BY <1>10, ConnectedReplyIs
  <2> HIDE DEF h
  <2>2. /\ inbox' \in [Person -> Seq(Item \cup Listed)] /\ UNCHANGED <<chatServerVars, chatHistory>>
    BY <2>1, ReceiveIs
  <2>3. /\ chat' \in [Person -> {"none", "asked", "listed", "open"}]
        /\ received' \in [Person -> SUBSET Person]
    BY <2>1, ChatTypes
  <2>4. QED
    BY <2>1, <2>2, <2>3 DEF ChattingTypes, ChattingTypeOK
<1>11. ASSUME NEW p \in Person, ChatEvent(p) PROVE ChattingTypes'
  <2> DEFINE h == Head(inbox[p])
  <2>1. /\ Receive(p) /\ h \in Item /\ UNCHANGED <<chat, received>>
        /\ \/ /\ chat[p] = "none" /\ UNCHANGED <<info, scrollback, dropped>>
           \/ /\ IsMessage(h) /\ chat[p] # "none" /\ UNCHANGED <<info, dropped>>
              /\ scrollback' = [scrollback EXCEPT ![p] = Append(scrollback[p], h.n)]
           \/ /\ h.kind = "joined" /\ chat[p] # "none" /\ UNCHANGED <<scrollback, dropped>>
              /\ info' = [info EXCEPT ![p] = info[p] \cup {h.who}]
           \/ /\ h.kind = "left" /\ chat[p] # "none" /\ UNCHANGED <<info, scrollback>>
              /\ dropped' = IF h.who \in info[p] THEN dropped ELSE [dropped EXCEPT ![p] = h.who]
    BY <1>11, ChatEventIs
  <2>2. /\ inbox' \in [Person -> Seq(Item \cup Listed)] /\ UNCHANGED <<chatServerVars, chatHistory>>
        /\ h \in Items(inbox[p])
    BY <2>1, ReceiveIs
  <2> HIDE DEF h
  <2>3. h.who \in Person /\ (IsMessage(h) => h.n \in 1..MaxMessages)
    <3>1. h.who \in Person
      BY <2>1, ItemKinds
    <3>2. IsMessage(h) => h.n \in 1..sentMessages
      BY <2>2 DEF NewsIsTrue, TrueNews
    <3>3. 1..sentMessages \subseteq 1..MaxMessages
      BY ChatTypes
    <3>4. QED
      BY <3>1, <3>2, <3>3
  <2>4. scrollback' \in [Person -> Seq(1..MaxMessages)]
    <3>1. scrollback \in [Person -> Seq(1..MaxMessages)]
      BY ChatTypes
    <3>2. CASE scrollback' = scrollback
      BY <3>1, <3>2
    <3>3. CASE IsMessage(h) /\ scrollback' = [scrollback EXCEPT ![p] = Append(scrollback[p], h.n)]
      <4> DEFINE N == 1..MaxMessages
                 s == Append(scrollback[p], h.n)
      <4>1. h.n \in N /\ scrollback \in [Person -> Seq(N)] /\ scrollback[p] \in Seq(N)
        BY <2>3, <3>1, <3>3
      <4> HIDE DEF N
      <4>2. s \in Seq(N)
        BY <4>1, AppendProperties
      <4>3. scrollback' = [scrollback EXCEPT ![p] = s]
        BY <3>3
      <4> HIDE DEF s
      <4>4. scrollback' \in [Person -> Seq(N)]
        BY <4>1, <4>2, <4>3
      <4>5. QED
        BY <4>4 DEF N
    <3>4. QED
      BY <2>1, <3>2, <3>3
  <2>5. info' \in [Person -> SUBSET Person]
    <3>1. info \in [Person -> SUBSET Person] /\ info[p] \cup {h.who} \in SUBSET Person
      BY <2>3, ChatTypes
    <3>2. info' = info \/ info' = [info EXCEPT ![p] = info[p] \cup {h.who}]
      BY <2>1
    <3>3. QED
      BY <3>1, <3>2
  <2>6. dropped' \in [Person -> Person \cup {Nobody}]
    BY <2>1, <2>3, ChatTypes
  <2>7. QED
    BY <2>1, <2>2, <2>4, <2>5, <2>6 DEF ChattingTypes, ChattingTypeOK
<1>12. QED
  BY <1>1, <1>2, <1>3, <1>4, <1>5, <1>6, <1>7, <1>8, <1>9, <1>10, <1>11 DEF ChattingNext

(* Players only go on, and who works did so before or has just come. *)
LEMMA PresentGoesOn ==
    ASSUME ChattingTypes, ChattingNext
    PROVE  /\ \A p \in Person : present[p] \notin {"out", "in"} => present'[p] \notin {"out", "in"}
           /\ \A p \in Person : present[p] \in {"leaving", "left"} =>
                                    present'[p] \in {"leaving", "left"}
           /\ \A p \in Person : present[p] # "out" => present'[p] # "out"
           /\ \A p \in Person : chat[p] # "none" => chat'[p] # "none"
<1> USE DEF chatServerVars, chatClientVars, chatHistory
<1>1. CASE BroadcasterMain
  BY <1>1 DEF BroadcasterMain
<1>2. ASSUME NEW q \in Person,
             Join(q) \/ PlayerJoined(q) \/ PlayerLeft(q) \/ Removed(q)
      PROVE  /\ \A p \in Person :
                    present[p] \notin {"out", "in"} => present'[p] \notin {"out", "in"}
             /\ \A p \in Person : present[p] \in {"leaving", "left"} =>
                                    present'[p] \in {"leaving", "left"}
             /\ \A p \in Person : present[p] # "out" => present'[p] # "out"
             /\ chat' = chat
  BY <1>2, ChatTypes DEF Join, PlayerJoined, PlayerLeft, Removed
<1>3. ASSUME NEW q \in Person, PlayerMessage(q) \/ ListUsers(q) \/ SendList(q)
      PROVE  UNCHANGED <<present, chat>>
  BY <1>3 DEF PlayerMessage, ListUsers, SendList
<1>4. ASSUME NEW q \in Person, MakeChat(q) \/ InsertPlayers(q)
      PROVE  present' = present /\ \A p \in Person : chat[p] # "none" => chat'[p] # "none"
  BY <1>4, ChatTypes DEF MakeChat, InsertPlayers
<1>5. ASSUME NEW q \in Person, ConnectedReply(q) \/ ChatEvent(q)
      PROVE  present' = present /\ \A p \in Person : chat[p] # "none" => chat'[p] # "none"
  BY <1>5, ChatTypes DEF ConnectedReply, ChatEvent, Receive
<1>6. QED
  BY <1>1, <1>2, <1>3, <1>4, <1>5 DEF ChattingNext

LEMMA WorkedBefore ==
    ASSUME ChattingTypes, ChatIsOfWhoCame, ChattingNext,
           NEW p \in Person, Works(p)', chat[p] # "none" \/ ~Join(p)
    PROVE  Works(p)
<1> USE DEF chatServerVars, chatClientVars, chatHistory
<1>1. present'[p] \in {"in", "told"} /\ dropped'[p] = Nobody
  BY DEF Works
<1>2. CASE BroadcasterMain
  BY <1>1, <1>2 DEF BroadcasterMain, Works
<1>3. ASSUME NEW q \in Person, PlayerJoined(q) \/ PlayerLeft(q) \/ Removed(q) PROVE Works(p)
  BY <1>1, <1>3, ChatTypes DEF PlayerJoined, PlayerLeft, Removed, Works
<1>4. ASSUME NEW q \in Person, Join(q) PROVE Works(p)
  <2>1. q # p
    BY <1>4 DEF ChatIsOfWhoCame, Join
  <2>2. QED
    BY <1>1, <1>4, <2>1, ChatTypes DEF Join, Works
<1>5. ASSUME NEW q \in Person,
             PlayerMessage(q) \/ ListUsers(q) \/ SendList(q) \/ MakeChat(q) \/ InsertPlayers(q)
      PROVE  Works(p)
  BY <1>1, <1>5 DEF PlayerMessage, ListUsers, SendList, MakeChat, InsertPlayers, Works
<1>6. ASSUME NEW q \in Person, ConnectedReply(q) PROVE Works(p)
  BY <1>1, <1>6 DEF ConnectedReply, Receive, Works
<1>7. ASSUME NEW q \in Person, ChatEvent(q) PROVE Works(p)
  <2>1. present' = present
    BY <1>7 DEF ChatEvent, Receive
  <2>2. CASE q = p
    BY <1>7, <2>2 DEF ChatEvent, Receive
  <2>3. CASE q # p
    <3>1. dropped'[p] = dropped[p]
      <4> DEFINE w == Head(inbox[q]).who
      <4>1. dropped' = dropped \/ dropped' = [dropped EXCEPT ![q] = w]
        BY <1>7, ChatEventIs
      <4> HIDE DEF w
      <4>2. QED
        BY <2>3, <4>1, ChatTypes
    <3>2. QED
      BY <1>1, <2>1, <3>1 DEF Works
  <2>4. QED
    BY <2>2, <2>3
<1>8. QED
  BY <1>2, <1>3, <1>4, <1>5, <1>6, <1>7 DEF ChattingNext

(* What comes into the queue, and into an inbox. *)
LEMMA NewItems ==
    ASSUME ChattingTypes, ChattingNext
    PROVE  /\ \A x \in Items(broadcastQueue') : x \in Items(broadcastQueue) \/ TrueNews(x)'
           /\ \A p \in Person : \A x \in Items(inbox'[p]) :
                    x \in Items(inbox[p]) \/ x \in Items(broadcastQueue) \/ x \in Listed
           /\ sentMessages' \in Nat /\ sentMessages' >= sentMessages /\ sentMessages \in Nat
<1> USE DEF chatServerVars, chatClientVars, chatHistory
<1>0. sentMessages \in Nat /\ 0 \in 0..MaxMessages
  BY ChatTypes
<1>1. CASE BroadcasterMain
  BY <1>0, <1>1, BroadcastIs
<1>2. ASSUME NEW q \in Person, PlayerJoined(q) \/ PlayerLeft(q)
      PROVE  /\ \A x \in Items(broadcastQueue') : x \in Items(broadcastQueue) \/ TrueNews(x)'
             /\ UNCHANGED <<inbox, sentMessages>>
  <2>1. CASE PlayerJoined(q)
    <3> DEFINE e == NewItem("joined", q, 0)
    <3>1. e.kind = "joined" /\ e.who = q /\ Items(broadcastQueue') = Items(broadcastQueue) \cup {e}
      BY <1>0, <2>1, EnqueueIs DEF PlayerJoined
    <3>2. present'[q] = "told" /\ UNCHANGED <<inbox, sentMessages>>
      BY <2>1, ChatTypes DEF PlayerJoined
    <3> HIDE DEF e
    <3>3. TrueNews(e)'
      BY <3>1, <3>2 DEF TrueNews, IsMessage
    <3>4. QED
      BY <3>1, <3>2, <3>3
  <2>2. CASE PlayerLeft(q)
    <3> DEFINE e == NewItem("left", q, 0)
    <3>1. e.kind = "left" /\ e.who = q /\ Items(broadcastQueue') = Items(broadcastQueue) \cup {e}
      BY <1>0, <2>2, EnqueueIs DEF PlayerLeft
    <3>2. present'[q] = "leaving" /\ UNCHANGED <<inbox, sentMessages>>
      BY <2>2, ChatTypes DEF PlayerLeft
    <3> HIDE DEF e
    <3>3. TrueNews(e)'
      BY <3>1, <3>2 DEF TrueNews, IsMessage
    <3>4. QED
      BY <3>1, <3>2, <3>3
  <2>3. QED
    BY <1>2, <2>1, <2>2
<1>3. ASSUME NEW q \in Person, PlayerMessage(q)
      PROVE  /\ \A x \in Items(broadcastQueue') : x \in Items(broadcastQueue) \/ TrueNews(x)'
             /\ inbox' = inbox /\ sentMessages' = sentMessages + 1
  <2>1. /\ sentMessages < MaxMessages /\ sentMessages' = sentMessages + 1 /\ inbox' = inbox
        /\ broadcastQueue' = Append(broadcastQueue, NewItem("message", q, sentMessages'))
    BY <1>3 DEF PlayerMessage
  <2>2. sentMessages' \in 0..MaxMessages
    BY <2>1, ChatTypes
  <2>3. PICK e : /\ e.kind = "message" /\ e.n = sentMessages'
                 /\ Items(broadcastQueue') = Items(broadcastQueue) \cup {e}
    BY <2>1, <2>2, EnqueueIs
  <2>4. TrueNews(e)'
    BY <1>0, <2>1, <2>3 DEF TrueNews
  <2>5. QED
    BY <2>1, <2>3, <2>4
<1>4. ASSUME NEW q \in Person, SendList(q)
      PROVE  /\ UNCHANGED <<broadcastQueue, sentMessages>>
             /\ \A p \in Person : \A x \in Items(inbox'[p]) : x \in Items(inbox[p]) \/ x \in Listed
  <2>1. /\ ListOf(q) \in Listed /\ Items(inbox'[q]) = Items(inbox[q]) \cup {ListOf(q)}
        /\ \A p \in Person : p # q => inbox'[p] = inbox[p]
        /\ UNCHANGED <<broadcastQueue, sentMessages>>
    BY <1>4, SendListIs
  <2>2. QED
    BY <2>1
<1>5. ASSUME NEW q \in Person, Removed(q)
      PROVE  /\ UNCHANGED <<broadcastQueue, sentMessages>>
             /\ \A p \in Person : \A x \in Items(inbox'[p]) : x \in Items(inbox[p])
  <2>1. inbox' = [inbox EXCEPT ![q] = <<>>] /\ UNCHANGED <<broadcastQueue, sentMessages>>
    BY <1>5 DEF Removed
  <2>2. \A p \in Person : inbox'[p] \in {inbox[p], <<>>}
    BY <2>1, ItemsAre
  <2>3. QED
    BY <2>1, <2>2, ItemsOfNone
<1>6. ASSUME NEW q \in Person, ConnectedReply(q) \/ ChatEvent(q)
      PROVE  /\ UNCHANGED <<broadcastQueue, sentMessages>>
             /\ \A p \in Person : \A x \in Items(inbox'[p]) : x \in Items(inbox[p])
  <2>1. Receive(q)
    BY <1>6 DEF ConnectedReply, ChatEvent
  <2>2. /\ \E h : Items(inbox[q]) = Items(inbox'[q]) \cup {h}
        /\ \A p \in Person : p # q => inbox'[p] = inbox[p]
        /\ UNCHANGED <<broadcastQueue, sentMessages>>
    BY <2>1, ReceiveIs
  <2>3. QED
    BY <2>2
<1>7. ASSUME NEW q \in Person, Join(q) \/ ListUsers(q) \/ MakeChat(q) \/ InsertPlayers(q)
      PROVE  UNCHANGED <<broadcastQueue, inbox, sentMessages>>
  BY <1>7 DEF Join, ListUsers, MakeChat, InsertPlayers
<1>8. CASE BroadcasterMain \/ ~BroadcasterMain
  <2>1. CASE \E q \in Person : PlayerMessage(q)
    BY <1>0, <1>3, <2>1
  <2>2. CASE ~(\E q \in Person : PlayerMessage(q)) /\ ~BroadcasterMain
    BY <1>0, <1>2, <1>4, <1>5, <1>6, <1>7, <2>2 DEF ChattingNext
  <2>3. QED
    BY <1>1, <2>1, <2>2
<1>9. QED
  BY <1>8

LEMMA NewsIsTrueKept ==
    ASSUME ChattingTypes, NewsIsTrue, ChattingNext
    PROVE  NewsIsTrue'
<1>1. ASSUME NEW x \in Item \cup Listed, TrueNews(x) PROVE TrueNews(x)'
  <2>1. IsMessage(x) => x.n \in 1..sentMessages'
    BY <1>1, NewItems DEF TrueNews
  <2>2. CASE x \in Item
    BY <1>1, <2>1, <2>2, ItemKinds, PresentGoesOn DEF TrueNews
  <2>3. CASE x \in Listed
    BY <1>1, <2>1, <2>3, ItemKinds DEF TrueNews
  <2>4. QED
    BY <2>2, <2>3
<1>2. \A x \in Listed : TrueNews(x)'
  BY ItemKinds DEF TrueNews, IsMessage
<1>3. ASSUME NEW x \in Items(broadcastQueue') PROVE TrueNews(x)'
  BY <1>1, <1>3, NewItems, ItemsAre DEF NewsIsTrue
<1>4. ASSUME NEW p \in Person, NEW x \in Items(inbox'[p]) PROVE TrueNews(x)'
  BY <1>1, <1>2, <1>4, NewItems, ItemsAre DEF NewsIsTrue
<1>5. QED
  BY <1>3, <1>4 DEF NewsIsTrue

LEMMA ChatIsOfWhoCameKept ==
    ASSUME ChattingTypes, ChatIsOfWhoCame, ChattingNext
    PROVE  ChatIsOfWhoCame'
<1> USE DEF chatServerVars, chatClientVars, chatHistory
<1>1. ASSUME NEW p \in Person, present'[p] = "out" PROVE chat'[p] = "none"
  <2>1. present[p] = "out" /\ chat[p] = "none"
    BY <1>1, PresentGoesOn DEF ChatIsOfWhoCame
  <2>2. CASE chat' = chat
    BY <2>1, <2>2
  <2>3. ASSUME NEW q \in Person, MakeChat(q) \/ InsertPlayers(q) \/ ConnectedReply(q)
        PROVE  chat'[p] = "none"
    <3>1. q # p
      <4>1. CASE MakeChat(q)
        BY <2>1, <4>1 DEF MakeChat, Works
      <4>2. CASE InsertPlayers(q)
        BY <2>1, <4>2 DEF InsertPlayers
      <4>3. CASE ConnectedReply(q)
        BY <2>1, <4>3 DEF ConnectedReply, Receive, Works
      <4>4. QED
        BY <2>3, <4>1, <4>2, <4>3
    <3>2. chat'[p] = chat[p]
      BY <2>3, <3>1, ChatTypes DEF MakeChat, InsertPlayers, ConnectedReply
    <3>3. QED
      BY <2>1, <3>2
  <2>4. chat' = chat \/ \E q \in Person : MakeChat(q) \/ InsertPlayers(q) \/ ConnectedReply(q)
    BY DEF ChattingNext, BroadcasterMain, Join, PlayerJoined, PlayerMessage, ListUsers, SendList,
           PlayerLeft, Removed, ChatEvent
  <2>5. QED
    BY <2>2, <2>3, <2>4
<1>2. ASSUME NEW p \in Person, chat'[p] = "none", NEW n \in 1..MaxMessages
      PROVE  p \notin audience'[n]
  <2>1. chat[p] = "none" /\ p \notin audience[n]
    BY <1>2, PresentGoesOn DEF ChatIsOfWhoCame
  <2>2. CASE audience' = audience
    BY <2>1, <2>2
  <2>3. ASSUME NEW q \in Person, PlayerMessage(q) PROVE p \notin audience'[n]
    BY <2>1, <2>3, ChatTypes DEF PlayerMessage
  <2>4. audience' = audience \/ \E q \in Person : PlayerMessage(q)
    BY DEF ChattingNext, BroadcasterMain, Join, PlayerJoined, ListUsers, SendList, PlayerLeft,
           Removed, MakeChat, InsertPlayers, ConnectedReply, ChatEvent, Receive
  <2>5. QED
    BY <2>2, <2>3, <2>4
<1>3. QED
  BY <1>1, <1>2 DEF ChatIsOfWhoCame

LEMMA InOrderAppend ==
    ASSUME NEW S, NEW q \in Seq(S), NEW e \in S, InOrder(q),
           \A x \in Items(q) : IsMessage(x) /\ IsMessage(e) => x.n < e.n
    PROVE  InOrder(Append(q, e))
<1> DEFINE s == Append(q, e)
<1>1. /\ \A i \in DOMAIN s : \/ i \in DOMAIN q /\ s[i] = q[i]
                             \/ i = Len(q) + 1 /\ s[i] = e
      /\ DOMAIN q = 1..Len(q) /\ Len(q) \in Nat
  BY AppendIs
<1> HIDE DEF s
<1>2. ASSUME NEW i \in DOMAIN s, NEW j \in DOMAIN s, i < j, IsMessage(s[i]), IsMessage(s[j])
      PROVE  s[i].n < s[j].n
  <2>1. i \in DOMAIN q /\ s[i] = q[i]
    BY <1>1, <1>2
  <2>2. CASE j \in DOMAIN q /\ s[j] = q[j]
    BY <1>2, <2>1, <2>2 DEF InOrder
  <2>3. CASE s[j] = e
    BY <1>2, <2>1, <2>3 DEF Items
  <2>4. QED
    BY <1>1, <2>2, <2>3
<1>3. QED
  BY <1>2 DEF InOrder, s

LEMMA InOrderTail ==
    ASSUME NEW S, NEW q \in Seq(S), q # <<>>, InOrder(q)
    PROVE  /\ InOrder(Tail(q))
           /\ \A x \in Items(Tail(q)) : IsMessage(Head(q)) /\ IsMessage(x) => Head(q).n < x.n
<1> DEFINE s == Tail(q)
<1>1. /\ \A i \in DOMAIN s : i \in Nat /\ i > 0 /\ i + 1 \in DOMAIN q /\ s[i] = q[i + 1]
      /\ 1 \in DOMAIN q /\ Head(q) = q[1]
  <2>1. s \in Seq(S)
    BY HeadTailProperties
  <2>2. DOMAIN s = 1..Len(s) /\ Len(s) \in Nat
    BY <2>1, LenProperties
  <2>3. QED
    BY <2>2, TailIs, ItemsOfTail
<1> HIDE DEF s
<1>2. ASSUME NEW i \in DOMAIN s, NEW j \in DOMAIN s, i < j, IsMessage(s[i]), IsMessage(s[j])
      PROVE  s[i].n < s[j].n
  <2>1. /\ i + 1 \in DOMAIN q /\ s[i] = q[i + 1] /\ j + 1 \in DOMAIN q /\ s[j] = q[j + 1]
        /\ i + 1 < j + 1
    BY <1>1, <1>2
  <2>2. QED
    BY <1>2, <2>1 DEF InOrder
<1>3. ASSUME NEW i \in DOMAIN s, IsMessage(Head(q)), IsMessage(s[i]) PROVE Head(q).n < s[i].n
  <2>1. 1 < i + 1 /\ i + 1 \in DOMAIN q /\ s[i] = q[i + 1]
    BY <1>1, <1>3
  <2>2. QED
    BY <1>1, <1>3, <2>1 DEF InOrder
<1>4. QED
  BY <1>2, <1>3 DEF InOrder, Items, s

(* The order for one player. *)
OrderOf(p) ==
    /\ InOrder(inbox[p])
    /\ \A x \in Items(inbox[p]), y \in Items(broadcastQueue) :
                IsMessage(x) /\ IsMessage(y) => x.n < y.n
    /\ \A m \in Items(scrollback[p]) :
                /\ m <= sentMessages
                /\ \A y \in Items(inbox[p]) \cup Items(broadcastQueue) : IsMessage(y) => m < y.n
    /\ \A i, j \in DOMAIN scrollback[p] : i < j => scrollback[p][i] < scrollback[p][j]

LEMMA OrderIs == MessagesInOrder <=> InOrder(broadcastQueue) /\ \A p \in Person : OrderOf(p)
  BY DEF MessagesInOrder, OrderOf, OneOrder

(* Numbers of messages. *)
LEMMA MessageNumbers ==
    ASSUME ChattingTypes, NewsIsTrue
    PROVE  /\ \A x \in Items(broadcastQueue) : IsMessage(x) => x.n \in Nat /\ x.n <= sentMessages
           /\ \A p \in Person : \A x \in Items(inbox[p]) :
                    IsMessage(x) => x.n \in Nat /\ x.n <= sentMessages
           /\ sentMessages \in Nat
           /\ \A p \in Person : \A m \in Items(scrollback[p]) : m \in Nat
<1>1. sentMessages \in Nat /\ MaxMessages \in Nat
  BY ChatTypes
<1>2. \A x : TrueNews(x) /\ IsMessage(x) => x.n \in Nat /\ x.n <= sentMessages
  BY <1>1 DEF TrueNews
<1>3. \A p \in Person : \A m \in Items(scrollback[p]) : m \in Nat
  <2>1. 1..MaxMessages \subseteq Nat
    BY <1>1
  <2>2. QED
    BY <2>1, ItemsAre
<1>4. QED
  BY <1>1, <1>2, <1>3 DEF NewsIsTrue

LEMMA MessagesInOrderKept ==
    ASSUME ChattingTypes, NewsIsTrue, MessagesInOrder, ChattingNext
    PROVE  MessagesInOrder'
<1> USE DEF chatServerVars, chatClientVars, chatHistory
<1>0. InOrder(broadcastQueue) /\ \A p \in Person : OrderOf(p)
  BY OrderIs
<1>1. CASE BroadcasterMain
  <2> DEFINE h == Head(broadcastQueue)
  <2>1. /\ broadcastQueue # <<>> /\ broadcastQueue' = Tail(broadcastQueue) /\ h \in Item
        /\ Items(broadcastQueue) = Items(broadcastQueue') \cup {h}
        /\ \A p \in Person :
                \/ /\ inbox'[p] = Append(inbox[p], h)
                   /\ Items(inbox'[p]) = Items(inbox[p]) \cup {h}
                \/ inbox'[p] = inbox[p]
        /\ UNCHANGED <<scrollback, sentMessages>>
    BY <1>1, BroadcastIs
  <2>2. /\ InOrder(broadcastQueue')
        /\ \A x \in Items(broadcastQueue') : IsMessage(h) /\ IsMessage(x) => h.n < x.n
    BY <1>0, <2>1, ItemsAre, InOrderTail
  <2> HIDE DEF h
  <2>3. ASSUME NEW p \in Person PROVE OrderOf(p)'
    <3>1. inbox[p] \in Seq(Item \cup Listed) /\ h \in Item \cup Listed
      BY <2>1, ItemsAre
    <3>2. \A x \in Items(inbox[p]) : IsMessage(x) /\ IsMessage(h) => x.n < h.n
      BY <1>0, <2>1 DEF OrderOf
    <3>3. InOrder(Append(inbox[p], h))
      BY <1>0, <3>1, <3>2, InOrderAppend DEF OrderOf
    <3>4. CASE inbox'[p] = Append(inbox[p], h) /\ Items(inbox'[p]) = Items(inbox[p]) \cup {h}
      <4>1. InOrder(inbox'[p])
        BY <3>3, <3>4
      <4>2. \A x \in Items(inbox'[p]), y \in Items(broadcastQueue') :
                IsMessage(x) /\ IsMessage(y) => x.n < y.n
        BY <1>0, <2>1, <2>2, <3>4 DEF OrderOf
      <4>3. \A m \in Items(scrollback'[p]) :
                /\ m <= sentMessages'
                /\ \A y \in Items(inbox'[p]) \cup Items(broadcastQueue') : IsMessage(y) => m < y.n
        BY <1>0, <2>1, <3>4 DEF OrderOf
      <4>4. QED
        BY <1>0, <2>1, <4>1, <4>2, <4>3 DEF OrderOf
    <3>5. CASE inbox'[p] = inbox[p]
      BY <1>0, <2>1, <3>5 DEF OrderOf
    <3>6. QED
      BY <2>1, <3>4, <3>5
  <2>4. QED
    BY <2>2, <2>3, OrderIs DEF MessagesInOrder, OrderOf, OneOrder
<1>2. ASSUME UNCHANGED <<broadcastQueue, inbox, scrollback, sentMessages>> PROVE MessagesInOrder'
  BY <1>2 DEF MessagesInOrder, OneOrder
<1>3. ASSUME NEW e \in Item, broadcastQueue' = Append(broadcastQueue, e),
             Items(broadcastQueue') = Items(broadcastQueue) \cup {e},
             IsMessage(e) => e.n = sentMessages + 1,
             sentMessages' \in {sentMessages, sentMessages + 1}, UNCHANGED <<inbox, scrollback>>
      PROVE  MessagesInOrder'
  <2>1. \A x \in Items(broadcastQueue) : IsMessage(x) /\ IsMessage(e) => x.n < e.n
    BY <1>3, MessageNumbers
  <2>2. InOrder(broadcastQueue')
    BY <1>0, <1>3, <2>1, ItemsAre, InOrderAppend
  <2>3. ASSUME NEW p \in Person PROVE OrderOf(p)'
    <3>1. \A x \in Items(inbox[p]) : IsMessage(x) /\ IsMessage(e) => x.n < e.n
      BY <1>3, MessageNumbers
    <3>2. \A m \in Items(scrollback[p]) :
                /\ m <= sentMessages'
                /\ IsMessage(e) => m < e.n
      <4>1. \A m \in Items(scrollback[p]) : m <= sentMessages
        BY <1>0 DEF OrderOf
      <4>2. sentMessages \in Nat /\ \A m \in Items(scrollback[p]) : m \in Nat
        BY MessageNumbers
      <4>3. sentMessages' >= sentMessages /\ sentMessages' \in Nat
        BY <1>3, <4>2
      <4>4. QED
        BY <1>3, <4>1, <4>2, <4>3
    <3>3. QED
      BY <1>0, <1>3, <3>1, <3>2 DEF OrderOf
  <2>4. QED
    BY <2>2, <2>3 DEF MessagesInOrder, OrderOf, OneOrder
<1>4. ASSUME NEW q \in Person, PlayerJoined(q) \/ PlayerLeft(q) PROVE MessagesInOrder'
  <2>1. 0 \in 0..MaxMessages
    BY ChatTypes
  <2>2. PICK k \in {"joined", "left"} : broadcastQueue' = Append(broadcastQueue, NewItem(k, q, 0))
    BY <1>4 DEF PlayerJoined, PlayerLeft
  <2> DEFINE e == NewItem(k, q, 0)
  <2>3. /\ e \in Item /\ e.kind = k /\ broadcastQueue' = Append(broadcastQueue, e)
        /\ Items(broadcastQueue') = Items(broadcastQueue) \cup {e}
    BY <2>1, <2>2, EnqueueIs
  <2>4. UNCHANGED <<inbox, scrollback, sentMessages>>
    BY <1>4 DEF PlayerJoined, PlayerLeft
  <2> HIDE DEF e
  <2>5. QED
    BY <1>3, <2>2, <2>3, <2>4 DEF IsMessage
<1>5. ASSUME NEW q \in Person, PlayerMessage(q) PROVE MessagesInOrder'
  <2>1. /\ sentMessages < MaxMessages /\ sentMessages' = sentMessages + 1
        /\ broadcastQueue' = Append(broadcastQueue, NewItem("message", q, sentMessages'))
        /\ UNCHANGED <<inbox, scrollback>>
    BY <1>5 DEF PlayerMessage
  <2>2. sentMessages' \in 0..MaxMessages
    BY <2>1, ChatTypes
  <2>3. PICK e \in Item : /\ e.n = sentMessages' /\ broadcastQueue' = Append(broadcastQueue, e)
                          /\ Items(broadcastQueue') = Items(broadcastQueue) \cup {e}
    BY <2>1, <2>2, EnqueueIs
  <2>4. QED
    BY <1>3, <2>1, <2>3
<1>6. ASSUME NEW q \in Person, SendList(q) PROVE MessagesInOrder'
  <2> DEFINE e == ListOf(q)
  <2>1. /\ e \in Listed /\ IsList(e) /\ inbox'[q] = Append(inbox[q], e)
        /\ Items(inbox'[q]) = Items(inbox[q]) \cup {e}
        /\ \A p \in Person : p # q => inbox'[p] = inbox[p]
        /\ UNCHANGED <<broadcastQueue, scrollback, sentMessages>>
    BY <1>6, SendListIs
  <2> HIDE DEF e
  <2>2. ~IsMessage(e)
    BY <2>1 DEF IsList, IsMessage
  <2>3. inbox[q] \in Seq(Item \cup Listed) /\ e \in Item \cup Listed
    BY <2>1, ItemsAre
  <2>4. InOrder(inbox'[q])
    BY <1>0, <2>1, <2>2, <2>3, InOrderAppend DEF OrderOf
  <2>5. OrderOf(q)'
    BY <1>0, <2>1, <2>2, <2>4 DEF OrderOf
  <2>6. \A p \in Person : p # q => OrderOf(p)'
    BY <1>0, <2>1 DEF OrderOf
  <2>7. QED
    BY <1>0, <2>1, <2>5, <2>6 DEF MessagesInOrder, OrderOf, OneOrder
<1>7. ASSUME NEW q \in Person, Removed(q) PROVE MessagesInOrder'
  <2>1. /\ inbox' = [inbox EXCEPT ![q] = <<>>]
        /\ UNCHANGED <<broadcastQueue, scrollback, sentMessages>>
    BY <1>7 DEF Removed
  <2>2. \A p \in Person : inbox'[p] \in {inbox[p], <<>>}
    BY <2>1, ItemsAre
  <2>3. InOrder(<<>>)
    BY DEF InOrder
  <2>4. ASSUME NEW p \in Person PROVE OrderOf(p)'
    <3>1. CASE inbox'[p] = inbox[p]
      BY <1>0, <2>1, <3>1 DEF OrderOf
    <3>2. CASE inbox'[p] = <<>>
      BY <1>0, <2>1, <2>3, <3>2, ItemsOfNone DEF OrderOf
    <3>3. QED
      BY <2>2, <3>1, <3>2
  <2>5. QED
    BY <1>0, <2>1, <2>4 DEF MessagesInOrder, OrderOf, OneOrder
<1>8. ASSUME NEW q \in Person, Receive(q),
             scrollback' = scrollback \/ (/\ IsMessage(Head(inbox[q]))
                                          /\ scrollback' = [scrollback EXCEPT ![q] =
                                                Append(scrollback[q], Head(inbox[q]).n)])
      PROVE  MessagesInOrder'
  <2> DEFINE h == Head(inbox[q])
  <2>1. /\ inbox[q] # <<>> /\ inbox'[q] = Tail(inbox[q])
        /\ Items(inbox[q]) = Items(inbox'[q]) \cup {h}
        /\ \A p \in Person : p # q => inbox'[p] = inbox[p]
        /\ UNCHANGED <<broadcastQueue, sentMessages>>
    BY <1>8, ReceiveIs
  <2>2. /\ InOrder(inbox'[q])
        /\ \A x \in Items(inbox'[q]) : IsMessage(h) /\ IsMessage(x) => h.n < x.n
    BY <1>0, <2>1, ItemsAre, InOrderTail DEF OrderOf
  <2>3. scrollback' = scrollback \/ (/\ IsMessage(h)
                                     /\ scrollback' = [scrollback EXCEPT ![q] =
                                            Append(scrollback[q], h.n)])
    BY <1>8
  <2> HIDE DEF h
  <2>4. CASE scrollback' = scrollback
    <3>1. OrderOf(q)'
      BY <1>0, <2>1, <2>2, <2>4 DEF OrderOf
    <3>2. \A p \in Person : p # q => OrderOf(p)'
      BY <1>0, <2>1, <2>4 DEF OrderOf
    <3>3. QED
      BY <1>0, <2>1, <3>1, <3>2 DEF MessagesInOrder, OrderOf, OneOrder
  <2>5. CASE /\ IsMessage(h)
             /\ scrollback' = [scrollback EXCEPT ![q] = Append(scrollback[q], h.n)]
    <3> DEFINE N == Nat
               s == scrollback[q]
    <3>1. h.n \in Nat /\ h.n <= sentMessages
      BY <2>1, <2>5, MessageNumbers
    <3>2. s \in Seq(Nat)
      <4>1. s \in Seq(1..MaxMessages) /\ 1..MaxMessages \subseteq Nat
        BY ItemsAre, ChatTypes
      <4>2. \A i \in 1..Len(s) : s[i] \in Nat
        <5>1. Len(s) \in Nat /\ DOMAIN s = 1..Len(s)
          BY <4>1, LenProperties
        <5>2. \A i \in DOMAIN s : s[i] \in Items(s)
          BY DEF Items
        <5>3. QED
          BY <5>1, <5>2, MessageNumbers
      <4>3. Len(s) \in Nat /\ DOMAIN s = 1..Len(s) /\ s = [i \in 1..Len(s) |-> s[i]]
        BY <4>1, LenProperties, SeqDef
      <4>4. QED
        BY <4>2, <4>3, SeqDef
    <3> HIDE DEF s
    <3>3. /\ Items(Append(s, h.n)) = Items(s) \cup {h.n}
          /\ \A i \in DOMAIN Append(s, h.n) :
                \/ i \in DOMAIN s /\ Append(s, h.n)[i] = s[i]
                \/ i = Len(s) + 1 /\ Append(s, h.n)[i] = h.n
          /\ DOMAIN s = 1..Len(s) /\ Len(s) \in Nat
      BY <3>1, <3>2, ItemsOfAppend, AppendIs
    <3>4. \A m \in Items(s) : m < h.n
      BY <1>0, <2>1, <2>5 DEF OrderOf, s
    <3>5. /\ scrollback'[q] = Append(s, h.n)
          /\ \A p \in Person : p # q => scrollback'[p] = scrollback[p]
      BY <2>5, ChatTypes DEF s
    <3>6. ASSUME NEW i \in DOMAIN Append(s, h.n), NEW j \in DOMAIN Append(s, h.n), i < j
          PROVE  Append(s, h.n)[i] < Append(s, h.n)[j]
      <4>1. i \in DOMAIN s /\ Append(s, h.n)[i] = s[i] /\ s[i] \in Items(s)
        BY <3>3, <3>6 DEF Items
      <4>2. CASE j \in DOMAIN s /\ Append(s, h.n)[j] = s[j]
        BY <1>0, <3>6, <4>1, <4>2 DEF OrderOf, s
      <4>3. CASE Append(s, h.n)[j] = h.n
        BY <3>4, <4>1, <4>3
      <4>4. QED
        BY <3>3, <4>2, <4>3
    <3>7. \A y \in Items(inbox'[q]) \cup Items(broadcastQueue') : IsMessage(y) => h.n < y.n
      BY <1>0, <2>1, <2>2, <2>5 DEF OrderOf
    <3>8. \A m \in Items(scrollback'[q]) :
                /\ m <= sentMessages'
                /\ \A y \in Items(inbox'[q]) \cup Items(broadcastQueue') : IsMessage(y) => m < y.n
      BY <1>0, <2>1, <3>1, <3>3, <3>5, <3>7 DEF OrderOf, s
    <3>9. \A x \in Items(inbox'[q]), y \in Items(broadcastQueue') :
                IsMessage(x) /\ IsMessage(y) => x.n < y.n
      BY <1>0, <2>1 DEF OrderOf
    <3>10. OrderOf(q)'
      BY <2>2, <3>5, <3>6, <3>8, <3>9 DEF OrderOf
    <3>11. \A p \in Person : p # q => OrderOf(p)'
      BY <1>0, <2>1, <3>5 DEF OrderOf
    <3>12. QED
      BY <1>0, <2>1, <3>10, <3>11 DEF MessagesInOrder, OrderOf, OneOrder
  <2>6. QED
    BY <2>3, <2>4, <2>5
<1>9. ASSUME NEW q \in Person, ConnectedReply(q) PROVE MessagesInOrder'
  BY <1>8, <1>9, ConnectedReplyIs
<1>10. ASSUME NEW q \in Person, ChatEvent(q) PROVE MessagesInOrder'
  BY <1>8, <1>10, ChatEventIs
<1>11. ASSUME NEW q \in Person, Join(q) \/ ListUsers(q) \/ MakeChat(q) \/ InsertPlayers(q)
      PROVE  MessagesInOrder'
  BY <1>2, <1>11 DEF Join, ListUsers, MakeChat, InsertPlayers
<1>12. QED
  BY <1>1, <1>4, <1>5, <1>6, <1>7, <1>9, <1>10, <1>11 DEF ChattingNext

LEMMA ListsAreAskedKept ==
    ASSUME ChattingTypes, ListsAreAsked, ChattingNext
    PROVE  ListsAreAsked'
<1> USE DEF chatServerVars, chatClientVars, chatHistory
<1> DEFINE Fine(p) ==
        /\ listing[p] # {Nobody} => chat[p] = "asked" /\ \A x \in Items(inbox[p]) : ~IsList(x)
        /\ \A i \in DOMAIN inbox[p] : IsList(inbox[p][i]) =>
                chat[p] = "asked" /\ \A j \in DOMAIN inbox[p] : IsList(inbox[p][j]) => j = i
        /\ received[p] # {} => chat[p] = "listed"
<1>0. \A p \in Person : Fine(p)
  BY DEF ListsAreAsked
<1>1. CASE BroadcasterMain
  <2> DEFINE h == Head(broadcastQueue)
  <2>1. /\ h \in Item
        /\ \A p \in Person :
                \/ /\ inbox'[p] = Append(inbox[p], h)
                   /\ Items(inbox'[p]) = Items(inbox[p]) \cup {h}
                \/ inbox'[p] = inbox[p]
        /\ UNCHANGED <<chat, listing, received>>
    BY <1>1, BroadcastIs
  <2> HIDE DEF h
  <2>2. ~IsList(h)
    BY <2>1, ItemKinds
  <2>3. ASSUME NEW p \in Person PROVE Fine(p)'
    <3>1. CASE inbox'[p] = inbox[p]
      BY <1>0, <2>1, <3>1
    <3>2. CASE inbox'[p] = Append(inbox[p], h) /\ Items(inbox'[p]) = Items(inbox[p]) \cup {h}
      <4>1. inbox[p] \in Seq(Item \cup Listed) /\ h \in Item \cup Listed
        BY <2>1, ItemsAre
      <4>2. \A i \in DOMAIN inbox'[p] : IsList(inbox'[p][i]) =>
                i \in DOMAIN inbox[p] /\ inbox'[p][i] = inbox[p][i]
        BY <2>2, <3>2, <4>1, AppendIs
      <4>3. \A i \in DOMAIN inbox'[p] : IsList(inbox'[p][i]) =>
                chat[p] = "asked" /\ \A j \in DOMAIN inbox'[p] : IsList(inbox'[p][j]) => j = i
        BY <1>0, <4>2
      <4>4. QED
        BY <1>0, <2>1, <2>2, <3>2, <4>3
    <3>3. QED
      BY <2>1, <3>1, <3>2
  <2>4. QED
    BY <2>3 DEF ListsAreAsked
<1>2. ASSUME UNCHANGED <<chat, listing, received, inbox>> PROVE ListsAreAsked'
  BY <1>2 DEF ListsAreAsked
<1>3. ASSUME NEW q \in Person, ListUsers(q) PROVE ListsAreAsked'
  <2>1. /\ chat[q] = "asked" /\ ~\E i \in DOMAIN inbox[q] : inbox[q][i].kind = "list"
        /\ listing' = [listing EXCEPT ![q] = {r \in Person : Here(r)}]
        /\ UNCHANGED <<chat, received, inbox>>
    BY <1>3 DEF ListUsers
  <2>2. \A p \in Person : p # q => listing'[p] = listing[p]
    BY <2>1, ChatTypes
  <2>3. \A x \in Items(inbox[q]) : ~IsList(x)
    BY <2>1 DEF Items, IsList
  <2>4. \A p \in Person : Fine(p)'
    BY <1>0, <2>1, <2>2, <2>3
  <2>5. QED
    BY <2>4 DEF ListsAreAsked
<1>4. ASSUME NEW q \in Person, SendList(q) PROVE ListsAreAsked'
  <2> DEFINE e == ListOf(q)
  <2>1. /\ IsList(e) /\ \A p \in Person : p # q => inbox'[p] = inbox[p]
        /\ listing[q] # {Nobody} /\ UNCHANGED <<chat, received>>
        /\ listing' = [listing EXCEPT ![q] = {Nobody}]
        /\ \A i \in DOMAIN inbox'[q] :
                \/ i \in DOMAIN inbox[q] /\ inbox'[q][i] = inbox[q][i]
                \/ i = Len(inbox[q]) + 1 /\ inbox'[q][i] = e
    BY <1>4, SendListIs
  <2> HIDE DEF e
  <2>2. chat[q] = "asked" /\ \A i \in DOMAIN inbox[q] : ~IsList(inbox[q][i])
    BY <1>0, <2>1 DEF Items
  <2>3. listing'[q] = {Nobody} /\ \A p \in Person : p # q => listing'[p] = listing[p]
    BY <2>1, ChatTypes
  <2>4. \A i \in DOMAIN inbox'[q] : IsList(inbox'[q][i]) => i = Len(inbox[q]) + 1
    BY <2>1, <2>2
  <2>5. Fine(q)'
    BY <1>0, <2>1, <2>2, <2>3, <2>4
  <2>6. \A p \in Person : p # q => Fine(p)'
    BY <1>0, <2>1, <2>3
  <2>7. QED
    BY <2>5, <2>6 DEF ListsAreAsked
<1>5. ASSUME NEW q \in Person, Removed(q) PROVE ListsAreAsked'
  <2>1. inbox' = [inbox EXCEPT ![q] = <<>>] /\ UNCHANGED <<chat, listing, received>>
    BY <1>5 DEF Removed
  <2>2. inbox'[q] = <<>> /\ \A p \in Person : p # q => inbox'[p] = inbox[p]
    BY <2>1, ItemsAre
  <2>3. DOMAIN inbox'[q] = {} /\ Items(inbox'[q]) = {}
    BY <2>2 DEF Items
  <2>4. Fine(q)'
    BY <1>0, <2>1, <2>3
  <2>5. \A p \in Person : p # q => Fine(p)'
    BY <1>0, <2>1, <2>2
  <2>6. QED
    BY <2>4, <2>5 DEF ListsAreAsked
<1>6. ASSUME NEW q \in Person, MakeChat(q) PROVE ListsAreAsked'
  <2>1. /\ chat[q] = "none" /\ chat' = [chat EXCEPT ![q] = "asked"]
        /\ UNCHANGED <<listing, received, inbox>>
    BY <1>6 DEF MakeChat
  <2>2. chat'[q] = "asked" /\ \A p \in Person : p # q => chat'[p] = chat[p]
    BY <2>1, ChatTypes
  <2>3. Fine(q)'
    BY <1>0, <2>1, <2>2
  <2>4. \A p \in Person : p # q => Fine(p)'
    BY <1>0, <2>1, <2>2
  <2>5. QED
    BY <2>3, <2>4 DEF ListsAreAsked
<1>7. ASSUME NEW q \in Person, InsertPlayers(q) PROVE ListsAreAsked'
  <2>1. /\ chat[q] = "listed" /\ chat' = [chat EXCEPT ![q] = "open"]
        /\ received' = [received EXCEPT ![q] = {}] /\ UNCHANGED <<listing, inbox>>
    BY <1>7 DEF InsertPlayers
  <2>2. /\ received'[q] = {}
        /\ \A p \in Person : p # q => chat'[p] = chat[p] /\ received'[p] = received[p]
    BY <2>1, ChatTypes
  <2>3. listing[q] = {Nobody} /\ \A i \in DOMAIN inbox[q] : ~IsList(inbox[q][i])
    BY <1>0, <2>1
  <2>4. Fine(q)'
    BY <2>1, <2>2, <2>3
  <2>5. \A p \in Person : p # q => Fine(p)'
    BY <1>0, <2>1, <2>2
  <2>6. QED
    BY <2>4, <2>5 DEF ListsAreAsked
<1>8. ASSUME NEW q \in Person, ConnectedReply(q) PROVE ListsAreAsked'
  <2> DEFINE h == Head(inbox[q])
  <2>1. /\ Receive(q) /\ IsList(h) /\ chat' = [chat EXCEPT ![q] = "listed"]
        /\ received' = [received EXCEPT ![q] = h.names]
    BY <1>8, ConnectedReplyIs
  <2>2. /\ inbox[q] # <<>> /\ inbox'[q] = Tail(inbox[q]) /\ h = inbox[q][1]
        /\ 1 \in DOMAIN inbox[q] /\ inbox[q] \in Seq(Item \cup Listed)
        /\ \A p \in Person : p # q => inbox'[p] = inbox[p]
        /\ listing' = listing /\ Items(inbox[q]) = Items(inbox'[q]) \cup {h}
    BY <2>1, ReceiveIs, ItemsAre
  <2>3. \A i \in DOMAIN inbox'[q] : /\ i \in Nat /\ i > 0 /\ i + 1 \in DOMAIN inbox[q]
                                    /\ inbox'[q][i] = inbox[q][i + 1]
    <3>1. inbox'[q] \in Seq(Item \cup Listed)
      BY <2>2, HeadTailProperties
    <3>2. DOMAIN inbox'[q] = 1..Len(inbox'[q]) /\ Len(inbox'[q]) \in Nat
      BY <3>1, LenProperties
    <3>3. QED
      BY <2>2, <3>2, TailIs
  <2> HIDE DEF h
  <2>4. \A i \in DOMAIN inbox'[q] : ~IsList(inbox'[q][i])
    <3>1. \A j \in DOMAIN inbox[q] : IsList(inbox[q][j]) => j = 1
      BY <1>0, <2>1, <2>2
    <3>2. \A i \in DOMAIN inbox'[q] : i + 1 # 1
      BY <2>3
    <3>3. QED
      BY <2>3, <3>1, <3>2
  <2>5. /\ chat'[q] = "listed"
        /\ \A p \in Person : p # q => chat'[p] = chat[p] /\ received'[p] = received[p]
    BY <2>1, ChatTypes
  <2>6. listing[q] = {Nobody}
    BY <1>0, <2>1, <2>2
  <2>7. Fine(q)'
    BY <2>2, <2>4, <2>5, <2>6
  <2>8. \A p \in Person : p # q => Fine(p)'
    BY <1>0, <2>2, <2>5
  <2>9. QED
    BY <2>7, <2>8 DEF ListsAreAsked
<1>9. ASSUME NEW q \in Person, ChatEvent(q) PROVE ListsAreAsked'
  <2>1. Receive(q) /\ UNCHANGED <<chat, received>>
    BY <1>9, ChatEventIs
  <2>2. /\ inbox[q] # <<>> /\ inbox'[q] = Tail(inbox[q]) /\ inbox[q] \in Seq(Item \cup Listed)
        /\ \A p \in Person : p # q => inbox'[p] = inbox[p]
        /\ listing' = listing /\ Items(inbox'[q]) \subseteq Items(inbox[q])
    BY <2>1, ReceiveIs, ItemsAre
  <2>3. \A i \in DOMAIN inbox'[q] : /\ i \in Nat /\ i + 1 \in DOMAIN inbox[q]
                                    /\ inbox'[q][i] = inbox[q][i + 1]
    BY <2>2, TailIs
  <2>4. ASSUME NEW i \in DOMAIN inbox'[q], IsList(inbox'[q][i])
        PROVE  chat[q] = "asked" /\ \A j \in DOMAIN inbox'[q] : IsList(inbox'[q][j]) => j = i
    <3>1. \A j \in DOMAIN inbox'[q] : IsList(inbox'[q][j]) => j + 1 = i + 1
      BY <1>0, <2>3, <2>4
    <3>2. QED
      BY <1>0, <2>3, <2>4, <3>1
  <2>5. Fine(q)'
    BY <1>0, <2>1, <2>2, <2>4
  <2>6. \A p \in Person : p # q => Fine(p)'
    BY <1>0, <2>1, <2>2
  <2>7. QED
    BY <2>5, <2>6 DEF ListsAreAsked
<1>10. ASSUME NEW q \in Person, Join(q) \/ PlayerJoined(q) \/ PlayerLeft(q) \/ PlayerMessage(q)
       PROVE  ListsAreAsked'
  BY <1>2, <1>10 DEF Join, PlayerJoined, PlayerLeft, PlayerMessage
<1>11. QED
  BY <1>1, <1>3, <1>4, <1>5, <1>6, <1>7, <1>8, <1>9, <1>10 DEF ChattingNext

(* An inbox that a step does not read or write. *)
LEMMA StillKnows ==
    ASSUME NEW p \in Person, NEW q \in Person, WillKnow(p, q),
           chat'[p] = chat[p], info'[p] = info[p], listing'[p] = listing[p],
           received'[p] = received[p], Items(inbox'[p]) = Items(inbox[p]),
           Items(broadcastQueue) \subseteq Items(broadcastQueue')
    PROVE  WillKnow(p, q)'
<1>1. Coming(p, q) => Coming(p, q)'
  BY DEF Coming
<1>2. InList(p, q) => InList(p, q)'
  BY DEF InList
<1>3. NoListYet(p) => NoListYet(p)'
  BY DEF NoListYet
<1>4. QED
  BY <1>1, <1>2, <1>3 DEF WillKnow

LEMMA KnownLaterKept ==
    ASSUME ChattingTypes, ListsAreAsked, ChatIsOfWhoCame, KnownLater, ChattingNext
    PROVE  KnownLater'
<1> USE DEF chatServerVars, chatClientVars, chatHistory
<1> SUFFICES ASSUME NEW p \in Person, NEW q \in Person, Works(p)', chat'[p] # "none",
                    present'[q] = "told"
             PROVE  WillKnow(p, q)'
  BY DEF KnownLater
<1>0. 0 \in 0..MaxMessages
  BY ChatTypes
<1>1. ASSUME NEW r \in Person, MakeChat(r) PROVE WillKnow(p, q)'
  <2>1. /\ chat[r] = "none" /\ chat' = [chat EXCEPT ![r] = "asked"]
        /\ UNCHANGED <<present, dropped, broadcastQueue, listing, inbox, received, info>>
    BY <1>1 DEF MakeChat
  <2>2. CASE r = p
    <3>1. listing[p] = {Nobody} /\ \A x \in Items(inbox[p]) : ~IsList(x)
      BY <2>1, <2>2 DEF ListsAreAsked, Items
    <3>2. NoListYet(p)'
      BY <2>1, <2>2, <3>1, ChatTypes DEF NoListYet
    <3>3. QED
      BY <3>2 DEF WillKnow
  <2>3. CASE r # p
    <3>1. chat'[p] = chat[p] /\ Works(p)
      BY <2>1, <2>3, ChatTypes DEF Works
    <3>2. WillKnow(p, q)
      BY <2>1, <3>1 DEF KnownLater
    <3>3. QED
      BY <2>1, <3>1, <3>2, StillKnows
  <2>4. QED
    BY <2>2, <2>3
<1>2. ASSUME NEW r \in Person, PlayerJoined(r), r = q PROVE WillKnow(p, q)'
  <2>1. \E e : IsJoined(e, q) /\ Items(broadcastQueue') = Items(broadcastQueue) \cup {e}
    BY <1>0, <1>2, EnqueueIs DEF PlayerJoined, IsJoined
  <2>2. Coming(p, q)'
    BY <2>1 DEF Coming
  <2>3. QED
    BY <2>2 DEF WillKnow
<1>3. ASSUME ~\E r \in Person : MakeChat(r), ~PlayerJoined(q)
      PROVE  Works(p) /\ chat[p] # "none" /\ present[q] = "told" /\ WillKnow(p, q)
  <2>1. chat[p] # "none"
    <3>1. CASE chat' = chat
      BY <3>1
    <3>2. ASSUME NEW r \in Person, InsertPlayers(r) \/ ConnectedReply(r) PROVE chat[p] # "none"
      <4>1. CASE r # p
        BY <3>2, <4>1, ChatTypes DEF InsertPlayers, ConnectedReply
      <4>2. CASE r = p /\ InsertPlayers(r)
        BY <4>2 DEF InsertPlayers
      <4>3. CASE r = p /\ ConnectedReply(r)
        <5>1. \E x : x \in Items(inbox[p]) /\ IsList(x)
          BY <4>3, ConnectedReplyIs, ReceiveIs
        <5>2. QED
          BY <5>1 DEF ListsAreAsked, Items
      <4>4. QED
        BY <3>2, <4>1, <4>2, <4>3
    <3>3. chat' = chat \/ \E r \in Person : InsertPlayers(r) \/ ConnectedReply(r)
      BY <1>3 DEF ChattingNext, BroadcasterMain, Join, PlayerJoined, PlayerMessage, ListUsers,
                  SendList, PlayerLeft, Removed, ChatEvent
    <3>4. QED
      BY <3>1, <3>2, <3>3
  <2>2. Works(p)
    BY <2>1, WorkedBefore
  <2>3. present[q] = "told"
    <3>1. ASSUME NEW r \in Person, Join(r) \/ PlayerJoined(r) \/ PlayerLeft(r) \/ Removed(r)
          PROVE  present[q] = "told"
      BY <1>3, <3>1, ChatTypes DEF Join, PlayerJoined, PlayerLeft, Removed
    <3>2. \/ present' = present
          \/ \E r \in Person : Join(r) \/ PlayerJoined(r) \/ PlayerLeft(r) \/ Removed(r)
      BY DEF ChattingNext, BroadcasterMain, PlayerMessage, ListUsers, SendList, MakeChat,
             InsertPlayers, ConnectedReply, ChatEvent, Receive
    <3>3. QED
      BY <3>1, <3>2
  <2>4. QED
    BY <2>1, <2>2, <2>3 DEF KnownLater
<1> DEFINE Before == Works(p) /\ chat[p] # "none" /\ present[q] = "told" /\ WillKnow(p, q)
<1>4. ASSUME Before, BroadcasterMain PROVE WillKnow(p, q)'
  <2> DEFINE h == Head(broadcastQueue)
  <2>1. /\ h \in Item /\ Items(broadcastQueue) = Items(broadcastQueue') \cup {h}
        /\ \/ Items(inbox'[p]) = Items(inbox[p]) \cup {h}
           \/ ~(Here(p) /\ dropped[p] = Nobody)
        /\ UNCHANGED <<chat, info, listing, received>>
    BY <1>4, BroadcastIs
  <2>2. Here(p) /\ dropped[p] = Nobody
    BY <1>4 DEF Works, Here
  <2> HIDE DEF h
  <2>3. Items(inbox'[p]) = Items(inbox[p]) \cup {h} /\ ~IsList(h)
    BY <2>1, <2>2, ItemKinds
  <2>4. Coming(p, q) => Coming(p, q)'
    BY <2>1, <2>3 DEF Coming
  <2>5. (NoListYet(p) => NoListYet(p)') /\ (InList(p, q) => InList(p, q)')
    BY <2>1, <2>3 DEF NoListYet, InList
  <2>6. QED
    BY <1>4, <2>1, <2>4, <2>5 DEF WillKnow
<1>5. ASSUME NEW r \in Person, Before, PlayerJoined(r) \/ PlayerLeft(r) PROVE WillKnow(p, q)'
  <2>1. Items(broadcastQueue) \subseteq Items(broadcastQueue')
    BY <1>0, <1>5, EnqueueIs DEF PlayerJoined, PlayerLeft
  <2>2. UNCHANGED <<listing, inbox, chatClientVars>>
    BY <1>5 DEF PlayerJoined, PlayerLeft
  <2>3. QED
    BY <1>5, <2>1, <2>2, StillKnows
<1>6. ASSUME NEW r \in Person, Before, PlayerMessage(r) PROVE WillKnow(p, q)'
  <2>1. /\ broadcastQueue' = Append(broadcastQueue, NewItem("message", r, sentMessages'))
        /\ sentMessages' = sentMessages + 1 /\ sentMessages < MaxMessages
        /\ UNCHANGED <<listing, inbox, chatClientVars>>
    BY <1>6 DEF PlayerMessage
  <2>2. sentMessages' \in 0..MaxMessages
    BY <2>1, ChatTypes
  <2>3. Items(broadcastQueue) \subseteq Items(broadcastQueue')
    BY <2>1, <2>2, EnqueueIs
  <2>4. QED
    BY <1>6, <2>1, <2>3, StillKnows
<1>7. ASSUME NEW r \in Person, Before, ListUsers(r) PROVE WillKnow(p, q)'
  <2>1. /\ listing' = [listing EXCEPT ![r] = {s \in Person : Here(s)}] /\ listing[r] = {Nobody}
        /\ UNCHANGED <<broadcastQueue, inbox, chatClientVars>>
    BY <1>7 DEF ListUsers
  <2>2. CASE r = p
    <3>1. q \in listing'[p]
      BY <1>7, <2>1, <2>2, ChatTypes DEF Here
    <3>2. QED
      BY <3>1 DEF WillKnow
  <2>3. CASE r # p
    <3>1. listing'[p] = listing[p]
      BY <2>1, <2>3, ChatTypes
    <3>2. QED
      BY <1>7, <2>1, <3>1, StillKnows
  <2>4. QED
    BY <2>2, <2>3
<1>8. ASSUME NEW r \in Person, Before, SendList(r) PROVE WillKnow(p, q)'
  <2> DEFINE e == ListOf(r)
  <2>1. /\ e \in Listed /\ IsList(e) /\ e.names = listing[r]
        /\ Items(inbox'[r]) = Items(inbox[r]) \cup {e}
        /\ \A s \in Person : s # r => inbox'[s] = inbox[s]
        /\ listing' = [listing EXCEPT ![r] = {Nobody}] /\ listing[r] # {Nobody}
        /\ UNCHANGED <<present, broadcastQueue, chatClientVars, chatHistory>>
    BY <1>8, SendListIs
  <2> HIDE DEF e
  <2>2. CASE r = p
    <3>1. ~NoListYet(p)
      BY <2>1, <2>2 DEF NoListYet
    <3>2. (Coming(p, q) => Coming(p, q)') /\ (InList(p, q) => InList(p, q)')
      BY <2>1, <2>2 DEF Coming, InList
    <3>3. q \in listing[p] => InList(p, q)'
      BY <2>1, <2>2 DEF InList
    <3>4. QED
      BY <1>8, <2>1, <3>1, <3>2, <3>3 DEF WillKnow
  <2>3. CASE r # p
    <3>1. listing'[p] = listing[p] /\ inbox'[p] = inbox[p]
      BY <2>1, <2>3, ChatTypes
    <3>2. QED
      BY <1>8, <2>1, <3>1, StillKnows
  <2>4. QED
    BY <2>2, <2>3
<1>9. ASSUME NEW r \in Person, Before, Removed(r) PROVE WillKnow(p, q)'
  <2>1. /\ present[r] = "leaving" /\ inbox' = [inbox EXCEPT ![r] = <<>>]
        /\ UNCHANGED <<broadcastQueue, listing, chatClientVars>>
    BY <1>9 DEF Removed
  <2>2. r # p
    BY <1>9, <2>1 DEF Works
  <2>3. inbox'[p] = inbox[p]
    BY <2>1, <2>2, ItemsAre
  <2>4. QED
    BY <1>9, <2>1, <2>3, StillKnows
<1>10. ASSUME NEW r \in Person, Before, InsertPlayers(r) PROVE WillKnow(p, q)'
  <2>1. /\ chat[r] = "listed" /\ chat' = [chat EXCEPT ![r] = "open"]
        /\ info' = [info EXCEPT ![r] = info[r] \cup received[r]]
        /\ received' = [received EXCEPT ![r] = {}]
        /\ UNCHANGED <<broadcastQueue, listing, inbox>>
    BY <1>10 DEF InsertPlayers
  <2>2. CASE r = p
    <3>1. info'[p] = info[p] \cup received[p] /\ ~NoListYet(p)
      BY <2>1, <2>2, ChatTypes DEF NoListYet
    <3>2. (Coming(p, q) => Coming(p, q)') /\ (InList(p, q) => InList(p, q)')
      BY <2>1 DEF Coming, InList
    <3>3. QED
      BY <1>10, <2>1, <3>1, <3>2 DEF WillKnow
  <2>3. CASE r # p
    <3>1. chat'[p] = chat[p] /\ info'[p] = info[p] /\ received'[p] = received[p]
      BY <2>1, <2>3, ChatTypes
    <3>2. QED
      BY <1>10, <2>1, <3>1, StillKnows
  <2>4. QED
    BY <2>2, <2>3
<1>11. ASSUME NEW r \in Person, Before, ConnectedReply(r) PROVE WillKnow(p, q)'
  <2> DEFINE h == Head(inbox[r])
  <2>1. /\ Receive(r) /\ h \in Listed /\ IsList(h)
        /\ received' = [received EXCEPT ![r] = h.names] /\ chat' = [chat EXCEPT ![r] = "listed"]
        /\ UNCHANGED <<info, scrollback, dropped>>
    BY <1>11, ConnectedReplyIs
  <2>2. /\ Items(inbox[r]) = Items(inbox'[r]) \cup {h}
        /\ \A s \in Person : s # r => inbox'[s] = inbox[s]
        /\ UNCHANGED <<broadcastQueue, listing>>
    BY <2>1, ReceiveIs
  <2> HIDE DEF h
  <2>3. CASE r = p
    <3>1. chat[p] = "asked" /\ ~NoListYet(p)
      BY <2>1, <2>2, <2>3 DEF ListsAreAsked, Items, NoListYet
    <3>2. received[p] = {} /\ received'[p] = h.names
      BY <2>1, <2>3, <3>1, ChatTypes DEF ListsAreAsked
    <3>3. Coming(p, q) => Coming(p, q)'
      BY <2>1, <2>2, <2>3 DEF Coming, IsJoined, IsList
    <3>4. InList(p, q) => InList(p, q)' \/ q \in received'[p]
      BY <2>2, <2>3, <3>2 DEF InList
    <3>5. QED
      BY <1>11, <2>1, <2>2, <3>1, <3>2, <3>3, <3>4 DEF WillKnow
  <2>4. CASE r # p
    <3>1. chat'[p] = chat[p] /\ received'[p] = received[p] /\ inbox'[p] = inbox[p]
      BY <2>1, <2>2, <2>4, ChatTypes
    <3>2. QED
      BY <1>11, <2>1, <2>2, <3>1, StillKnows
  <2>5. QED
    BY <2>3, <2>4
<1>12. ASSUME NEW r \in Person, Before, ChatEvent(r) PROVE WillKnow(p, q)'
  <2> DEFINE h == Head(inbox[r])
  <2>1. /\ Receive(r) /\ h \in Item /\ UNCHANGED <<chat, received>>
        /\ \/ chat[r] = "none" /\ UNCHANGED <<info, scrollback, dropped>>
           \/ IsMessage(h) /\ info' = info
           \/ h.kind = "joined" /\ info' = [info EXCEPT ![r] = info[r] \cup {h.who}]
           \/ h.kind = "left" /\ info' = info
    BY <1>12, ChatEventIs
  <2>2. /\ Items(inbox[r]) = Items(inbox'[r]) \cup {h}
        /\ \A s \in Person : s # r => inbox'[s] = inbox[s]
        /\ UNCHANGED <<broadcastQueue, listing>>
    BY <2>1, ReceiveIs
  <2> HIDE DEF h
  <2>3. CASE r = p
    <3>1. info[p] \subseteq info'[p] /\ (IsJoined(h, q) => q \in info'[p])
      BY <1>12, <2>1, <2>3, ChatTypes DEF IsJoined, IsMessage
    <3>2. Coming(p, q) => Coming(p, q)' \/ q \in info'[p]
      BY <2>2, <2>3, <3>1 DEF Coming
    <3>3. (NoListYet(p) => NoListYet(p)') /\ (InList(p, q) => InList(p, q)')
      BY <2>1, <2>2, <2>3, ItemKinds DEF NoListYet, InList
    <3>4. QED
      BY <1>12, <2>1, <2>2, <3>1, <3>2, <3>3 DEF WillKnow
  <2>4. CASE r # p
    <3>1. info'[p] = info[p] /\ inbox'[p] = inbox[p]
      BY <2>1, <2>2, <2>4, ChatTypes
    <3>2. QED
      BY <1>12, <2>1, <2>2, <3>1, StillKnows
  <2>5. QED
    BY <2>3, <2>4
<1>13. ASSUME NEW r \in Person, Before, Join(r) PROVE WillKnow(p, q)'
  BY <1>13, StillKnows DEF Join
<1>14. CASE Before
  BY <1>1, <1>4, <1>5, <1>6, <1>7, <1>8, <1>9, <1>10, <1>11, <1>12, <1>13, <1>14 DEF ChattingNext
<1>15. QED
  BY <1>1, <1>2, <1>3, <1>14

(* Who has a chat had one before, unless this step makes it. *)
LEMMA ChatWasMade ==
    ASSUME ChattingTypes, ListsAreAsked, ChatIsOfWhoCame, ChattingNext,
           NEW p \in Person, Works(p)', chat'[p] # "none", ~MakeChat(p)
    PROVE  Works(p) /\ chat[p] # "none" /\ presentAtStart'[p] = presentAtStart[p]
<1>1. chat[p] # "none"
  <2>1. CASE chat' = chat
    BY <2>1
  <2>2. ASSUME NEW r \in Person, MakeChat(r) \/ InsertPlayers(r) \/ ConnectedReply(r)
        PROVE  chat[p] # "none"
    <3>1. CASE r # p
      BY <2>2, <3>1, ChatTypes DEF MakeChat, InsertPlayers, ConnectedReply
    <3>2. CASE r = p /\ InsertPlayers(r)
      BY <3>2 DEF InsertPlayers
    <3>3. CASE r = p /\ ConnectedReply(r)
      <4>1. \E x : x \in Items(inbox[p]) /\ IsList(x)
        BY <3>3, ConnectedReplyIs, ReceiveIs
      <4>2. QED
        BY <4>1 DEF ListsAreAsked, Items
    <3>4. QED
      BY <2>2, <3>1, <3>2, <3>3
  <2>3. chat' = chat \/ \E r \in Person : MakeChat(r) \/ InsertPlayers(r) \/ ConnectedReply(r)
    BY DEF ChattingNext, BroadcasterMain, Join, PlayerJoined, PlayerMessage, ListUsers,
           SendList, PlayerLeft, Removed, ChatEvent, chatClientVars
  <2>4. QED
    BY <2>1, <2>2, <2>3
<1>2. Works(p)
  BY <1>1, WorkedBefore
<1>3. presentAtStart'[p] = presentAtStart[p]
  <2>1. CASE presentAtStart' = presentAtStart
    BY <2>1
  <2>2. ASSUME NEW r \in Person, MakeChat(r) PROVE presentAtStart'[p] = presentAtStart[p]
    BY <2>2, ChatTypes DEF MakeChat
  <2>3. presentAtStart' = presentAtStart \/ \E r \in Person : MakeChat(r)
    BY DEF ChattingNext, BroadcasterMain, Join, PlayerJoined, PlayerMessage, ListUsers,
           SendList, PlayerLeft, Removed, ChatEvent, ConnectedReply, InsertPlayers, Receive,
           chatHistory
  <2>4. QED
    BY <2>1, <2>2, <2>3
<1>4. QED
  BY <1>1, <1>2, <1>3

(* In s, the coming of q stands before the news that q left, if q is not in K. *)
Told(s, q, K) ==
    \A i \in DOMAIN s : IsLeft(s[i], q) =>
        q \in K \/ \E j \in DOMAIN s : j < i /\ IsJoined(s[j], q)

KnownSoon(p) == info[p] \cup {r \in Person : \E x \in Items(inbox[p]) : IsJoined(x, r)}

InTime(p, q) ==
    /\ present[q] \notin {"out", "in"} => q \in info[p] \/ Coming(p, q)
    /\ Told(inbox[p], q, info[p])
    /\ Told(broadcastQueue, q, KnownSoon(p))

LEMMA JoinedBeforeLeftIs ==
    JoinedBeforeLeft <=>
        \A p, q \in Person : Works(p) /\ chat[p] # "none" /\ q \notin presentAtStart[p] =>
            InTime(p, q)
<1>1. \A p, q \in Person : q \in KnownSoon(p) <=>
            q \in info[p] \/ \E x \in Items(inbox[p]) : IsJoined(x, q)
  BY DEF KnownSoon
<1>2. QED
  BY <1>1 DEF JoinedBeforeLeft, InTime, Told

LEMMA ToldMore ==
    ASSUME NEW s, NEW q, NEW K, NEW L, Told(s, q, K), q \in K => q \in L
    PROVE  Told(s, q, L)
  BY DEF Told

LEMMA ToldAppend ==
    ASSUME NEW S, NEW s \in Seq(S), NEW e \in S, NEW q, NEW K, Told(s, q, K),
           IsLeft(e, q) => q \in K \/ \E x \in Items(s) : IsJoined(x, q)
    PROVE  Told(Append(s, e), q, K)
<1> DEFINE t == Append(s, e)
<1>1. /\ \A i \in DOMAIN t : \/ i \in DOMAIN s /\ t[i] = s[i]
                             \/ i = Len(s) + 1 /\ t[i] = e
      /\ DOMAIN s = 1..Len(s) /\ Len(s) \in Nat
      /\ DOMAIN t = 1..Len(s) + 1
  BY AppendIs
<1>2. \A i \in 1..Len(s) : t[i] = s[i]
  BY AppendProperties
<1> HIDE DEF t
<1>3. \A j \in DOMAIN s : j \in DOMAIN t /\ t[j] = s[j] /\ j < Len(s) + 1
  BY <1>1, <1>2
<1>4. ASSUME NEW i \in DOMAIN t, IsLeft(t[i], q), q \notin K
      PROVE  \E j \in DOMAIN t : j < i /\ IsJoined(t[j], q)
  <2>1. CASE i \in DOMAIN s /\ t[i] = s[i]
    <3>1. PICK j \in DOMAIN s : j < i /\ IsJoined(s[j], q)
      BY <1>4, <2>1 DEF Told
    <3>2. QED
      BY <1>3, <3>1
  <2>2. CASE i = Len(s) + 1 /\ t[i] = e
    <3>1. PICK j \in DOMAIN s : IsJoined(s[j], q)
      BY <1>4, <2>2 DEF Items
    <3>2. QED
      BY <1>3, <2>2, <3>1
  <2>3. QED
    BY <1>1, <1>4, <2>1, <2>2
<1>5. QED
  BY <1>4 DEF Told, t

LEMMA ToldTail ==
    ASSUME NEW S, NEW s \in Seq(S), s # <<>>, NEW q, NEW K, NEW L, Told(s, q, K),
           q \in K => q \in L, IsJoined(Head(s), q) => q \in L
    PROVE  /\ Told(Tail(s), q, L)
           /\ IsLeft(Head(s), q) => q \in K
<1> DEFINE t == Tail(s)
<1>1. /\ \A i \in DOMAIN t : i \in Nat /\ i > 0 /\ i + 1 \in DOMAIN s /\ t[i] = s[i + 1]
      /\ \A i \in DOMAIN s : i \in Nat /\ i > 0 /\ (i # 1 => i - 1 \in DOMAIN t)
      /\ 1 \in DOMAIN s /\ Head(s) = s[1]
  <2>1. t \in Seq(S) /\ Len(t) = Len(s) - 1
    BY HeadTailProperties
  <2>2. DOMAIN t = 1..Len(t) /\ Len(t) \in Nat /\ DOMAIN s = 1..Len(s) /\ Len(s) \in Nat
    BY <2>1, LenProperties
  <2>3. \A i \in DOMAIN s : i \in Nat /\ i > 0 /\ (i # 1 => i - 1 \in DOMAIN t)
    BY <2>1, <2>2
  <2>4. QED
    BY <2>2, <2>3, TailIs, ItemsOfTail
<1> HIDE DEF t
<1>2. ASSUME IsLeft(Head(s), q) PROVE q \in K
  <2>1. q \in K \/ \E j \in DOMAIN s : j < 1
    BY <1>1, <1>2 DEF Told
  <2>2. QED
    BY <1>1, <2>1
<1>3. ASSUME NEW i \in DOMAIN t, IsLeft(t[i], q), q \notin L
      PROVE  \E j \in DOMAIN t : j < i /\ IsJoined(t[j], q)
  <2>1. PICK j \in DOMAIN s : j < i + 1 /\ IsJoined(s[j], q)
    BY <1>1, <1>3 DEF Told
  <2>2. j # 1
    BY <1>1, <1>3, <2>1
  <2>3. j - 1 \in DOMAIN t /\ j - 1 < i /\ j - 1 + 1 = j
    <3>1. i \in Nat /\ j \in Nat /\ j - 1 \in DOMAIN t
      BY <1>1, <1>3, <2>1, <2>2
    <3>2. QED
      BY <2>1, <3>1
  <2>4. t[j - 1] = s[j]
    BY <1>1, <2>3
  <2>5. QED
    BY <2>1, <2>3, <2>4
<1>4. QED
  BY <1>2, <1>3 DEF Told, t

(* What a step that leaves the player's inbox may do to the order. *)
LEMMA StillInTime ==
    ASSUME NEW p \in Person, NEW q \in Person, InTime(p, q),
           inbox'[p] = inbox[p], info[p] \subseteq info'[p], broadcastQueue' = broadcastQueue,
           present'[q] \notin {"out", "in"} => present[q] \notin {"out", "in"}
    PROVE  InTime(p, q)'
<1>1. Coming(p, q) => Coming(p, q)'
  BY DEF Coming
<1>2. KnownSoon(p) \subseteq KnownSoon(p)'
  BY DEF KnownSoon
<1>3. Told(inbox[p], q, info'[p])
  BY ToldMore DEF InTime
<1>4. Told(broadcastQueue, q, KnownSoon(p)')
  BY <1>2, ToldMore DEF InTime
<1>5. Told(inbox[p], q, info[p])'
  BY <1>3 DEF Told
<1>6. Told(broadcastQueue, q, KnownSoon(p))'
  BY <1>4 DEF Told
<1>7. QED
  BY <1>1, <1>5, <1>6 DEF InTime

LEMMA EnqueuedInTime ==
    ASSUME ChattingTypes, NEW p \in Person, NEW q \in Person, InTime(p, q), NEW e \in Item,
           broadcastQueue' = Append(broadcastQueue, e), inbox'[p] = inbox[p], info'[p] = info[p],
           IsLeft(e, q) => present[q] \notin {"out", "in"},
           present'[q] \notin {"out", "in"} => present[q] \notin {"out", "in"} \/ IsJoined(e, q)
    PROVE  InTime(p, q)'
<1>1. broadcastQueue \in Seq(Item) /\ Items(broadcastQueue') = Items(broadcastQueue) \cup {e}
  BY ItemsAre, ItemsOfAppend
<1>2. KnownSoon(p)' = KnownSoon(p)
  BY DEF KnownSoon
<1>3. IsLeft(e, q) => q \in KnownSoon(p) \/ \E x \in Items(broadcastQueue) : IsJoined(x, q)
  BY DEF InTime, Coming, KnownSoon
<1>4. Told(Append(broadcastQueue, e), q, KnownSoon(p))
  BY <1>1, <1>3, ToldAppend DEF InTime
<1>5. Told(broadcastQueue, q, KnownSoon(p))'
  BY <1>2, <1>4 DEF Told
<1>6. Told(inbox[p], q, info[p])'
  BY DEF InTime, Told
<1>7. present'[q] \notin {"out", "in"} => q \in info'[p] \/ Coming(p, q)'
  BY <1>1 DEF InTime, Coming
<1>8. QED
  BY <1>5, <1>6, <1>7 DEF InTime

LEMMA ReceivedInTime ==
    ASSUME ChattingTypes, NEW p \in Person, NEW q \in Person, InTime(p, q), Receive(p),
           info[p] \subseteq info'[p], IsJoined(Head(inbox[p]), q) => q \in info'[p]
    PROVE  InTime(p, q)'
<1> DEFINE h == Head(inbox[p])
<1>1. /\ inbox[p] # <<>> /\ inbox'[p] = Tail(inbox[p])
      /\ Items(inbox[p]) = Items(inbox'[p]) \cup {h}
      /\ inbox[p] \in Seq(Item \cup Listed) /\ UNCHANGED <<present, broadcastQueue>>
  BY ReceiveIs, ItemsAre DEF chatServerVars
<1>2. Told(Tail(inbox[p]), q, info'[p])
  BY <1>1, ToldTail DEF InTime
<1>3. IsJoined(h, q) => q \in info'[p]
  OBVIOUS
<1> HIDE DEF h
<1>4. q \in KnownSoon(p) => q \in KnownSoon(p)'
  BY <1>1, <1>3 DEF KnownSoon
<1>5. Told(broadcastQueue, q, KnownSoon(p)')
  BY <1>4, ToldMore DEF InTime
<1>6. Told(broadcastQueue, q, KnownSoon(p))'
  BY <1>1, <1>5 DEF Told
<1>7. Told(inbox[p], q, info[p])'
  BY <1>1, <1>2 DEF Told
<1>8. present'[q] \notin {"out", "in"} => q \in info'[p] \/ Coming(p, q)'
  BY <1>1, <1>3 DEF InTime, Coming
<1>9. QED
  BY <1>6, <1>7, <1>8 DEF InTime

LEMMA JoinedBeforeLeftKept ==
    ASSUME ChattingTypes, NewsIsTrue, ListsAreAsked, ChatIsOfWhoCame, JoinedBeforeLeft, ChattingNext
    PROVE  JoinedBeforeLeft'
<1> USE DEF chatServerVars, chatClientVars, chatHistory
<1>a. SUFFICES ASSUME NEW p \in Person, NEW q \in Person, Works(p)', chat'[p] # "none",
                    q \notin presentAtStart'[p]
             PROVE  InTime(p, q)'
  BY JoinedBeforeLeftIs DEF JoinedBeforeLeft, InTime, Told, KnownSoon
<1>0. 0 \in 0..MaxMessages
  BY ChatTypes
<1>1. CASE MakeChat(p)
  <2>1. /\ presentAtStart' = [presentAtStart EXCEPT ![p] = {r \in Person : present[r] # "out"}]
        /\ UNCHANGED <<present, broadcastQueue, inbox, info>>
    BY <1>1 DEF MakeChat
  <2>2. present[q] = "out"
    BY <1>a, <2>1, ChatTypes
  <2>3. ASSUME NEW x \in Items(inbox[p]) \cup Items(broadcastQueue) PROVE ~IsLeft(x, q)
    BY <2>2, <2>3 DEF NewsIsTrue, TrueNews, IsLeft
  <2>4. Told(inbox[p], q, info[p])' /\ Told(broadcastQueue, q, KnownSoon(p))'
    BY <2>1, <2>3 DEF Told, Items
  <2>5. QED
    BY <2>1, <2>2, <2>4 DEF InTime
<1> DEFINE Before == Works(p) /\ chat[p] # "none" /\ InTime(p, q)
<1>2. ASSUME ~MakeChat(p) PROVE Before
  <2>1. Works(p) /\ chat[p] # "none" /\ presentAtStart'[p] = presentAtStart[p]
    BY <1>2, <1>a, ChatWasMade
  <2>2. QED
    BY <1>a, <2>1, JoinedBeforeLeftIs
<1>3. ASSUME Before, BroadcasterMain PROVE InTime(p, q)'
  <2> DEFINE h == Head(broadcastQueue)
  <2>1. /\ broadcastQueue # <<>> /\ broadcastQueue' = Tail(broadcastQueue) /\ h \in Item
        /\ Items(broadcastQueue) = Items(broadcastQueue') \cup {h}
        /\ \/ inbox'[p] = Append(inbox[p], h) /\ Items(inbox'[p]) = Items(inbox[p]) \cup {h}
           \/ ~(Here(p) /\ dropped[p] = Nobody)
        /\ UNCHANGED <<present, chat, info>>
    BY <1>3, BroadcastIs
  <2>2. Here(p) /\ dropped[p] = Nobody
    BY <1>3 DEF Works, Here
  <2>3. inbox'[p] = Append(inbox[p], h) /\ Items(inbox'[p]) = Items(inbox[p]) \cup {h}
    BY <2>1, <2>2
  <2>4. /\ q \in KnownSoon(p) => q \in KnownSoon(p)'
        /\ IsJoined(h, q) => q \in KnownSoon(p)'
    BY <2>1, <2>3 DEF KnownSoon
  <2>5. broadcastQueue \in Seq(Item) /\ inbox[p] \in Seq(Item \cup Listed)
    BY ItemsAre
  <2>6. Told(broadcastQueue, q, KnownSoon(p))
    BY <1>3 DEF InTime
  <2>7. Told(Tail(broadcastQueue), q, KnownSoon(p)') /\ (IsLeft(h, q) => q \in KnownSoon(p))
    BY <2>1, <2>4, <2>5, <2>6, ToldTail
  <2> HIDE DEF h
  <2>8. IsLeft(h, q) => q \in info[p] \/ \E x \in Items(inbox[p]) : IsJoined(x, q)
    BY <2>7 DEF KnownSoon
  <2>9. Told(Append(inbox[p], h), q, info[p])
    BY <1>3, <2>1, <2>5, <2>8, ToldAppend DEF InTime
  <2>10. Told(inbox[p], q, info[p])' /\ Told(broadcastQueue, q, KnownSoon(p))'
    BY <2>1, <2>3, <2>7, <2>9 DEF Told
  <2>11. Coming(p, q) => Coming(p, q)'
    BY <2>1, <2>3 DEF Coming
  <2>12. QED
    BY <1>3, <2>1, <2>10, <2>11 DEF InTime
<1>4. ASSUME NEW r \in Person, Before, PlayerJoined(r) PROVE InTime(p, q)'
  <2> DEFINE e == NewItem("joined", r, 0)
  <2>1. e \in Item /\ e.kind = "joined" /\ e.who = r
    BY <1>0, NewItemIs
  <2>2. /\ broadcastQueue' = Append(broadcastQueue, e) /\ present' = [present EXCEPT ![r] = "told"]
        /\ UNCHANGED <<inbox, info>>
    BY <1>4 DEF PlayerJoined
  <2> HIDE DEF e
  <2>3. ~IsLeft(e, q) /\ (r # q => present'[q] = present[q]) /\ (r = q => IsJoined(e, q))
    BY <2>1, <2>2, ChatTypes DEF IsLeft, IsJoined
  <2>4. QED
    BY <1>4, <2>1, <2>2, <2>3, EnqueuedInTime
<1>5. ASSUME NEW r \in Person, Before, PlayerLeft(r) PROVE InTime(p, q)'
  <2> DEFINE e == NewItem("left", r, 0)
  <2>1. e \in Item /\ e.kind = "left" /\ e.who = r
    BY <1>0, NewItemIs
  <2>2. /\ broadcastQueue' = Append(broadcastQueue, e) /\ present[r] = "told"
        /\ present' = [present EXCEPT ![r] = "leaving"]
        /\ UNCHANGED <<inbox, info>>
    BY <1>5 DEF PlayerLeft
  <2> HIDE DEF e
  <2>3. (r # q => present'[q] = present[q]) /\ (IsLeft(e, q) => r = q)
    BY <2>1, <2>2, ChatTypes DEF IsLeft
  <2>4. QED
    BY <1>5, <2>1, <2>2, <2>3, EnqueuedInTime
<1>6. ASSUME NEW r \in Person, Before, PlayerMessage(r) PROVE InTime(p, q)'
  <2> DEFINE e == NewItem("message", r, sentMessages')
  <2>1. /\ broadcastQueue' = Append(broadcastQueue, e)
        /\ sentMessages' = sentMessages + 1 /\ sentMessages < MaxMessages
        /\ UNCHANGED <<present, inbox, info>>
    BY <1>6 DEF PlayerMessage
  <2>2. sentMessages' \in 0..MaxMessages
    BY <2>1, ChatTypes
  <2>3. e \in Item /\ e.kind = "message"
    BY <2>2, NewItemIs
  <2> HIDE DEF e
  <2>4. ~IsLeft(e, q)
    BY <2>3 DEF IsLeft
  <2>5. QED
    BY <1>6, <2>1, <2>3, <2>4, EnqueuedInTime
<1>7. ASSUME NEW r \in Person, Before,
             Join(r) \/ ListUsers(r) \/ MakeChat(r) \/ Removed(r) \/ InsertPlayers(r)
      PROVE  InTime(p, q)'
  <2>1. inbox'[p] = inbox[p]
    <3>1. CASE Removed(r)
      <4>1. r # p /\ inbox' = [inbox EXCEPT ![r] = <<>>]
        BY <1>7, <3>1 DEF Removed, Works
      <4>2. QED
        BY <4>1, ItemsAre
    <3>2. CASE ~Removed(r)
      BY <1>7, <3>2 DEF Join, ListUsers, MakeChat, InsertPlayers
    <3>3. QED
      BY <3>1, <3>2
  <2>2. info[p] \subseteq info'[p]
    <3>1. CASE InsertPlayers(r)
      BY <3>1, ChatTypes DEF InsertPlayers
    <3>2. CASE ~InsertPlayers(r)
      BY <1>7, <3>2 DEF Join, ListUsers, MakeChat, Removed
    <3>3. QED
      BY <3>1, <3>2
  <2>3. present'[q] \notin {"out", "in"} => present[q] \notin {"out", "in"}
    BY <1>7, ChatTypes DEF Join, ListUsers, MakeChat, Removed, InsertPlayers
  <2>4. broadcastQueue' = broadcastQueue
    BY <1>7 DEF Join, ListUsers, MakeChat, Removed, InsertPlayers
  <2>5. QED
    BY <1>7, <2>1, <2>2, <2>3, <2>4, StillInTime
<1>8. ASSUME NEW r \in Person, Before, SendList(r) PROVE InTime(p, q)'
  <2> DEFINE e == ListOf(r)
  <2>1. /\ e \in Listed /\ IsList(e) /\ inbox'[r] = Append(inbox[r], e)
        /\ Items(inbox'[r]) = Items(inbox[r]) \cup {e}
        /\ \A s \in Person : s # r => inbox'[s] = inbox[s]
        /\ UNCHANGED <<present, broadcastQueue, chatClientVars, chatHistory>>
    BY <1>8, SendListIs
  <2> HIDE DEF e
  <2>2. CASE r = p
    <3>1. ~IsLeft(e, q) /\ ~IsJoined(e, q)
      BY <2>1 DEF IsList, IsLeft, IsJoined
    <3>2. inbox[p] \in Seq(Item \cup Listed) /\ e \in Item \cup Listed
      BY <2>1, ItemsAre
    <3>3. Told(Append(inbox[p], e), q, info[p])
      BY <1>8, <3>1, <3>2, ToldAppend DEF InTime
    <3>4. Told(inbox[p], q, info[p])'
      BY <2>1, <2>2, <3>3 DEF Told
    <3>5. KnownSoon(p) = KnownSoon(p)'
      <4>1. \A s \in Person : ~IsJoined(e, s)
        BY <2>1 DEF IsList, IsJoined
      <4>2. QED
        BY <2>1, <2>2, <4>1 DEF KnownSoon
    <3>6. Told(broadcastQueue, q, KnownSoon(p))'
      BY <1>8, <2>1, <3>5 DEF InTime, Told
    <3>7. Coming(p, q) => Coming(p, q)'
      BY <2>1, <2>2 DEF Coming
    <3>8. QED
      BY <1>8, <2>1, <3>4, <3>6, <3>7 DEF InTime
  <2>3. CASE r # p
    BY <1>8, <2>1, <2>3, StillInTime
  <2>4. QED
    BY <2>2, <2>3
<1>9. ASSUME NEW r \in Person, Before, ConnectedReply(r) \/ ChatEvent(r) PROVE InTime(p, q)'
  <2> DEFINE h == Head(inbox[r])
  <2>1. /\ Receive(r) /\ \A s \in Person : s # r => inbox'[s] = inbox[s]
        /\ UNCHANGED <<present, broadcastQueue>>
    <3>1. Receive(r)
      BY <1>9 DEF ConnectedReply, ChatEvent
    <3>2. QED
      BY <3>1, ReceiveIs
  <2>2. \/ IsList(h) /\ info' = info
        \/ /\ ChatEvent(r) /\ h \in Item
           /\ \/ chat[r] = "none"
              \/ IsMessage(h) /\ info' = info
              \/ h.kind = "joined" /\ info' = [info EXCEPT ![r] = info[r] \cup {h.who}]
              \/ h.kind = "left" /\ info' = info
           /\ \A s \in Person : info[s] \subseteq info'[s]
           /\ \A s \in Person : s # r => info'[s] = info[s]
    <3>1. CASE ConnectedReply(r)
      BY <3>1, ConnectedReplyIs
    <3>2. CASE ChatEvent(r)
      <4>1. /\ h \in Item
            /\ \/ chat[r] = "none" /\ info' = info
               \/ IsMessage(h) /\ info' = info
               \/ h.kind = "joined" /\ info' = [info EXCEPT ![r] = info[r] \cup {h.who}]
               \/ h.kind = "left" /\ info' = info
        BY <3>2, ChatEventIs
      <4> HIDE DEF h
      <4>2. \A s \in Person : info[s] \subseteq info'[s] /\ (s # r => info'[s] = info[s])
        BY <4>1, ChatTypes
      <4>3. QED
        BY <3>2, <4>1, <4>2
    <3>3. QED
      BY <1>9, <3>1, <3>2
  <2>3. info[p] \subseteq info'[p] /\ (r # p => info'[p] = info[p])
    BY <2>2
  <2>4. CASE r = p
    <3> HIDE DEF h
    <3>1. IsJoined(h, q) => q \in info'[p]
      BY <1>9, <2>2, <2>4, ChatTypes DEF IsJoined, IsList, IsMessage
    <3>2. IsJoined(Head(inbox[p]), q) => q \in info'[p]
      BY <2>4, <3>1 DEF h
    <3>3. QED
      BY <1>9, <2>1, <2>3, <2>4, <3>2, ReceivedInTime
  <2>5. CASE r # p
    BY <1>9, <2>1, <2>3, <2>5, StillInTime
  <2>6. QED
    BY <2>4, <2>5
<1>10. CASE Before
  BY <1>3, <1>4, <1>5, <1>6, <1>7, <1>8, <1>9, <1>10 DEF ChattingNext
<1>11. QED
  BY <1>1, <1>2, <1>10

Arrives(p, n) ==
    \/ n \in Items(scrollback[p])
    \/ \E x \in Items(inbox[p]) \cup Items(broadcastQueue) : IsMessage(x) /\ x.n = n

LEMMA StillArrives ==
    ASSUME NEW p \in Person, NEW n, Arrives(p, n), scrollback'[p] = scrollback[p],
           inbox'[p] = inbox[p] \/ Items(inbox[p]) \subseteq Items(inbox'[p]),
           Items(broadcastQueue) \subseteq Items(broadcastQueue')
    PROVE  Arrives(p, n)'
  BY DEF Arrives

LEMMA ArriveLaterKept ==
    ASSUME ChattingTypes, NewsIsTrue, ListsAreAsked, ChatIsOfWhoCame, ArriveLater, ChattingNext
    PROVE  ArriveLater'
<1> USE DEF chatServerVars, chatClientVars, chatHistory
<1>a. SUFFICES ASSUME NEW p \in Person, NEW n \in 1..MaxMessages, Works(p)', p \in audience'[n]
               PROVE  Arrives(p, n)'
  BY DEF ArriveLater, Arrives
<1>0. 0 \in 0..MaxMessages /\ sentMessages \in Nat
  BY ChatTypes
<1>1. ASSUME NEW r \in Person, PlayerMessage(r)
      PROVE  /\ Items(broadcastQueue) \subseteq Items(broadcastQueue')
             /\ UNCHANGED <<inbox, scrollback, dropped>>
             /\ n = sentMessages' =>
                    \E x \in Items(broadcastQueue') : IsMessage(x) /\ x.n = sentMessages'
             /\ n # sentMessages' => audience'[n] = audience[n]
  <2> DEFINE e == NewItem("message", r, sentMessages')
  <2>1. /\ broadcastQueue' = Append(broadcastQueue, e)
        /\ sentMessages' = sentMessages + 1 /\ sentMessages < MaxMessages
        /\ audience' = [audience EXCEPT ![sentMessages'] =
                            {q \in Person : Here(q) /\ chat[q] # "none"}]
        /\ UNCHANGED <<inbox, scrollback, dropped>>
    BY <1>1 DEF PlayerMessage
  <2>2. sentMessages' \in 0..MaxMessages
    BY <2>1, ChatTypes
  <2>3. /\ Items(broadcastQueue') = Items(broadcastQueue) \cup {e}
        /\ e.kind = "message" /\ e.n = sentMessages'
    BY <2>1, <2>2, EnqueueIs
  <2> HIDE DEF e
  <2>4. n # sentMessages' => audience'[n] = audience[n]
    BY <2>1, ChatTypes
  <2>5. QED
    BY <2>1, <2>3, <2>4 DEF IsMessage
<1> DEFINE NewOne == n = sentMessages' /\ \E r \in Person : PlayerMessage(r)
           Before == Works(p) /\ chat[p] # "none" /\ Arrives(p, n)
<1>2. CASE NewOne
  BY <1>1, <1>2 DEF Arrives
<1>3. ASSUME ~NewOne PROVE Before
  <2>1. audience'[n] = audience[n]
    <3>1. audience' = audience \/ \E r \in Person : PlayerMessage(r)
      BY DEF ChattingNext, BroadcasterMain, Join, PlayerJoined, ListUsers, SendList, PlayerLeft,
             Removed, MakeChat, InsertPlayers, ConnectedReply, ChatEvent, Receive
    <3>2. QED
      BY <1>1, <1>3, <3>1
  <2>2. chat[p] # "none"
    BY <1>a, <2>1 DEF ChatIsOfWhoCame
  <2>3. Works(p)
    BY <1>a, <2>2, WorkedBefore
  <2>4. QED
    BY <1>a, <2>1, <2>2, <2>3 DEF ArriveLater, Arrives
<1>4. ASSUME Before, BroadcasterMain PROVE Arrives(p, n)'
  <2> DEFINE h == Head(broadcastQueue)
  <2>1. /\ Items(broadcastQueue) = Items(broadcastQueue') \cup {h}
        /\ Items(inbox'[p]) = Items(inbox[p]) \cup {h} \/ ~(Here(p) /\ dropped[p] = Nobody)
        /\ scrollback' = scrollback
    BY <1>4, BroadcastIs
  <2>2. Here(p) /\ dropped[p] = Nobody
    BY <1>4 DEF Works, Here
  <2> HIDE DEF h
  <2>3. QED
    BY <1>4, <2>1, <2>2 DEF Arrives
<1>5. ASSUME NEW r \in Person, Before, PlayerJoined(r) \/ PlayerLeft(r) PROVE Arrives(p, n)'
  <2>1. Items(broadcastQueue) \subseteq Items(broadcastQueue')
    BY <1>0, <1>5, EnqueueIs DEF PlayerJoined, PlayerLeft
  <2>2. UNCHANGED <<inbox, scrollback>>
    BY <1>5 DEF PlayerJoined, PlayerLeft
  <2>3. QED
    BY <1>5, <2>1, <2>2, StillArrives
<1>6. ASSUME NEW r \in Person, Before, PlayerMessage(r) PROVE Arrives(p, n)'
  BY <1>1, <1>6, StillArrives
<1>7. ASSUME NEW r \in Person, Before,
             Join(r) \/ ListUsers(r) \/ MakeChat(r) \/ InsertPlayers(r)
      PROVE  Arrives(p, n)'
  <2>1. UNCHANGED <<broadcastQueue, inbox, scrollback>>
    BY <1>7 DEF Join, ListUsers, MakeChat, InsertPlayers
  <2>2. QED
    BY <1>7, <2>1, StillArrives
<1>8. ASSUME NEW r \in Person, Before, Removed(r) PROVE Arrives(p, n)'
  <2>1. r # p /\ inbox' = [inbox EXCEPT ![r] = <<>>] /\ UNCHANGED <<broadcastQueue, scrollback>>
    BY <1>8 DEF Removed, Works
  <2>2. inbox'[p] = inbox[p]
    BY <2>1, ItemsAre
  <2>3. QED
    BY <1>8, <2>1, <2>2, StillArrives
<1>9. ASSUME NEW r \in Person, Before, SendList(r) PROVE Arrives(p, n)'
  <2>1. Items(inbox[p]) \subseteq Items(inbox'[p]) /\ UNCHANGED <<broadcastQueue, scrollback>>
    <3>1. CASE r = p
      BY <1>9, <3>1, SendListIs
    <3>2. CASE r # p
      <4>1. inbox'[p] = inbox[p] /\ UNCHANGED <<broadcastQueue, scrollback>>
        BY <1>9, <3>2, SendListIs
      <4>2. QED
        BY <4>1
    <3>3. QED
      BY <3>1, <3>2
  <2>2. QED
    BY <1>9, <2>1, StillArrives
<1>10. ASSUME NEW r \in Person, Before, ConnectedReply(r) PROVE Arrives(p, n)'
  <2> DEFINE h == Head(inbox[r])
  <2>1. /\ IsList(h) /\ Items(inbox[r]) = Items(inbox'[r]) \cup {h}
        /\ \A s \in Person : s # r => inbox'[s] = inbox[s]
        /\ UNCHANGED <<broadcastQueue, scrollback>>
    BY <1>10, ConnectedReplyIs, ReceiveIs
  <2> HIDE DEF h
  <2>2. CASE r = p
    BY <1>10, <2>1, <2>2 DEF Arrives, IsList, IsMessage
  <2>3. CASE r # p
    BY <1>10, <2>1, <2>3, StillArrives
  <2>4. QED
    BY <2>2, <2>3
<1>11. ASSUME NEW r \in Person, Before, ChatEvent(r) PROVE Arrives(p, n)'
  <2> DEFINE h == Head(inbox[r])
  <2>1. /\ Items(inbox[r]) = Items(inbox'[r]) \cup {h} /\ h \in Items(inbox[r])
        /\ \A s \in Person : s # r => inbox'[s] = inbox[s]
        /\ UNCHANGED <<present, broadcastQueue, sentMessages>> /\ h \in Item
        /\ \/ chat[r] = "none" /\ scrollback' = scrollback
           \/ /\ IsMessage(h)
              /\ scrollback' = [scrollback EXCEPT ![r] = Append(scrollback[r], h.n)]
           \/ h.kind = "joined" /\ scrollback' = scrollback
           \/ h.kind = "left" /\ scrollback' = scrollback
    <3>1. Receive(r)
      BY <1>11 DEF ChatEvent
    <3>2. /\ Items(inbox[r]) = Items(inbox'[r]) \cup {h}
          /\ \A s \in Person : s # r => inbox'[s] = inbox[s]
          /\ UNCHANGED <<present, broadcastQueue, sentMessages>>
      BY <3>1, ReceiveIs
    <3>3. /\ h \in Item
          /\ \/ chat[r] = "none" /\ scrollback' = scrollback
             \/ /\ IsMessage(h)
                /\ scrollback' = [scrollback EXCEPT ![r] = Append(scrollback[r], h.n)]
             \/ h.kind = "joined" /\ scrollback' = scrollback
             \/ h.kind = "left" /\ scrollback' = scrollback
      BY <1>11, ChatEventIs
    <3>4. QED
      BY <3>2, <3>3
  <2> HIDE DEF h
  <2>2. CASE r = p
    <3>1. CASE IsMessage(h) /\ scrollback' = [scrollback EXCEPT ![p] = Append(scrollback[p], h.n)]
      <4>1. h.n \in 1..MaxMessages
        <5>1. h.n \in 1..sentMessages
          BY <2>1, <2>2, <3>1 DEF NewsIsTrue, TrueNews
        <5>2. QED
          BY <5>1, ChatTypes
      <4> DEFINE N == 1..MaxMessages
                 m == h.n
                 s == scrollback[p]
                 t == Append(s, m)
      <4>2. s \in Seq(N) /\ m \in N
        BY <4>1, ItemsAre
      <4>3. scrollback'[p] = t
        BY <3>1, ChatTypes
      <4> HIDE DEF N, m, s
      <4>4. Items(t) = Items(s) \cup {m}
        BY <4>2, ItemsOfAppend
      <4> HIDE DEF t
      <4>5. Items(scrollback'[p]) = Items(scrollback[p]) \cup {h.n}
        BY <4>3, <4>4 DEF m, s
      <4>6. QED
        BY <1>11, <2>1, <2>2, <4>5 DEF Arrives
    <3>2. CASE ~IsMessage(h) /\ scrollback' = scrollback
      BY <1>11, <2>1, <2>2, <3>2 DEF Arrives
    <3>3. QED
      BY <1>11, <2>1, <2>2, <3>1, <3>2 DEF IsMessage
  <2>3. CASE r # p
    <3>1. inbox'[p] = inbox[p] /\ scrollback'[p] = scrollback[p]
      BY <2>1, <2>3, ChatTypes
    <3>2. QED
      BY <1>11, <2>1, <3>1, StillArrives
  <2>4. QED
    BY <2>2, <2>3
<1>12. CASE Before
  BY <1>4, <1>5, <1>6, <1>7, <1>8, <1>9, <1>10, <1>11, <1>12 DEF ChattingNext
<1>13. QED
  BY <1>2, <1>3, <1>12

LEMMA DroppedByEarlierOnlyKept ==
    ASSUME ChattingTypes, NewsIsTrue, JoinedBeforeLeft, DroppedByEarlierOnly, ChattingNext
    PROVE  DroppedByEarlierOnly'
<1> USE DEF chatServerVars, chatClientVars, chatHistory
<1>1. CASE UNCHANGED <<dropped, presentAtStart>>
  BY <1>1 DEF DroppedByEarlierOnly
<1>2. ASSUME NEW r \in Person, MakeChat(r) PROVE DroppedByEarlierOnly'
  <2>1. dropped[r] = Nobody /\ dropped' = dropped
    BY <1>2 DEF MakeChat, Works
  <2>2. \A p \in Person : p # r => presentAtStart'[p] = presentAtStart[p]
    BY <1>2, ChatTypes DEF MakeChat
  <2>3. QED
    BY <2>1, <2>2 DEF DroppedByEarlierOnly
<1>3. ASSUME NEW r \in Person, ChatEvent(r), dropped' # dropped PROVE DroppedByEarlierOnly'
  <2> DEFINE h == Head(inbox[r])
             q == h.who
  <2>1. /\ Receive(r) /\ h \in Item /\ h.kind = "left" /\ chat[r] # "none" /\ q \notin info[r]
        /\ dropped' = [dropped EXCEPT ![r] = q]
    BY <1>3, ChatEventIs
  <2>2. /\ Works(r) /\ h \in Items(inbox[r]) /\ inbox[r] # <<>> /\ presentAtStart' = presentAtStart
        /\ inbox[r] \in Seq(Item \cup Listed)
    BY <2>1, ReceiveIs, ItemsAre
  <2> HIDE DEF h
  <2>3. q \in Person
    BY <2>1, ItemKinds
  <2>4. present[q] \in {"leaving", "left"}
    BY <2>1, <2>2 DEF NewsIsTrue, TrueNews
  <2>5. q # r
    BY <2>2, <2>4 DEF Works
  <2>6. q \in presentAtStart[r]
    <3>1. SUFFICES ASSUME q \notin presentAtStart[r] PROVE FALSE
      OBVIOUS
    <3>2. Told(inbox[r], q, info[r])
      BY <2>1, <2>2, <2>3, <3>1, JoinedBeforeLeftIs DEF InTime
    <3>3. IsLeft(Head(inbox[r]), q)
      BY <2>1 DEF IsLeft, h
    <3>4. q \in info[r]
      BY <2>2, <3>2, <3>3, ToldTail
    <3>5. QED
      BY <2>1, <3>4
  <2> HIDE DEF q
  <2>7. dropped'[r] = q /\ \A p \in Person : p # r => dropped'[p] = dropped[p]
    BY <2>1, ChatTypes
  <2>8. QED
    BY <2>2, <2>5, <2>6, <2>7 DEF DroppedByEarlierOnly
<1>4. ASSUME NEW r \in Person, ChatEvent(r), dropped' = dropped PROVE DroppedByEarlierOnly'
  BY <1>1, <1>4 DEF ChatEvent, Receive
<1>5. \/ UNCHANGED <<dropped, presentAtStart>>
      \/ \E r \in Person : MakeChat(r) \/ ChatEvent(r)
  BY DEF ChattingNext, BroadcasterMain, Join, PlayerJoined, PlayerMessage, ListUsers, SendList,
         PlayerLeft, Removed, InsertPlayers, ConnectedReply, Receive
<1>6. QED
  BY <1>1, <1>2, <1>3, <1>4, <1>5

LEMMA ChattingInitHolds == ChattingInit => ChattingIInv
<1> SUFFICES ASSUME ChattingInit PROVE ChattingIInv
  OBVIOUS
<1>1. /\ broadcastQueue = <<>> /\ sentMessages = 0
      /\ \A p \in Person : /\ inbox[p] = <<>> /\ scrollback[p] = <<>> /\ listing[p] = {Nobody}
                           /\ chat[p] = "none" /\ present[p] = "out" /\ received[p] = {}
                           /\ dropped[p] = Nobody /\ presentAtStart[p] = {} /\ ~Works(p)
      /\ \A n \in 1..MaxMessages : audience[n] = {}
  BY DEF ChattingInit, Works
<1>2. /\ Items(broadcastQueue) = {}
      /\ \A p \in Person : Items(inbox[p]) = {} /\ Items(scrollback[p]) = {}
      /\ DOMAIN broadcastQueue = {}
      /\ \A p \in Person : DOMAIN inbox[p] = {} /\ DOMAIN scrollback[p] = {}
  BY <1>1 DEF Items
<1>3. ChattingTypes
  <2>1. /\ broadcastQueue \in Seq(Item)
        /\ inbox \in [Person -> Seq(Item \cup Listed)]
        /\ scrollback \in [Person -> Seq(1..MaxMessages)]
    BY DEF ChattingInit
  <2>2. sentMessages \in 0..MaxMessages
    BY ChattingAssumption DEF ChattingInit
  <2>3. QED
    BY <2>1, <2>2 DEF ChattingTypes, ChattingTypeOK, ChattingInit
<1>4. NewsIsTrue /\ MessagesInOrder /\ ListsAreAsked /\ ChatIsOfWhoCame
  BY <1>1, <1>2 DEF NewsIsTrue, MessagesInOrder, OneOrder, InOrder, ListsAreAsked, ChatIsOfWhoCame
<1>5. KnownLater /\ JoinedBeforeLeft /\ ArriveLater /\ DroppedByEarlierOnly
  BY <1>1 DEF KnownLater, JoinedBeforeLeft, ArriveLater, DroppedByEarlierOnly
<1>6. QED
  BY <1>3, <1>4, <1>5 DEF ChattingIInv

LEMMA ChattingStep == ChattingIInv /\ [ChattingNext]_chattingVars => ChattingIInv'
<1> SUFFICES ASSUME ChattingIInv, [ChattingNext]_chattingVars PROVE ChattingIInv'
  OBVIOUS
<1>1. CASE ChattingNext
  BY <1>1, ChattingTypesKept, NewsIsTrueKept, MessagesInOrderKept, ListsAreAskedKept,
     ChatIsOfWhoCameKept, KnownLaterKept, JoinedBeforeLeftKept, ArriveLaterKept,
     DroppedByEarlierOnlyKept DEF ChattingIInv
<1>2. CASE UNCHANGED chattingVars
  <2>1. /\ UNCHANGED <<present, broadcastQueue, listing, inbox, chat, received, info, scrollback>>
        /\ UNCHANGED <<dropped, sentMessages, audience, presentAtStart>>
    BY <1>2 DEF chattingVars, chatServerVars, chatClientVars, chatHistory
  <2>2. ChattingTypes'
    BY <2>1 DEF ChattingIInv, ChattingTypes, ChattingTypeOK
  <2>3. NewsIsTrue'
    BY <2>1 DEF ChattingIInv, NewsIsTrue, TrueNews
  <2>4. MessagesInOrder'
    BY <2>1 DEF ChattingIInv, MessagesInOrder, OneOrder
  <2>5. ListsAreAsked' /\ ChatIsOfWhoCame'
    BY <2>1 DEF ChattingIInv, ListsAreAsked, ChatIsOfWhoCame
  <2>6. KnownLater'
    BY <2>1 DEF ChattingIInv, KnownLater, WillKnow, Coming, NoListYet, InList, Works
  <2>7. JoinedBeforeLeft'
    BY <2>1 DEF ChattingIInv, JoinedBeforeLeft, Coming, Works
  <2>8. ArriveLater' /\ DroppedByEarlierOnly'
    BY <2>1 DEF ChattingIInv, ArriveLater, Works, DroppedByEarlierOnly
  <2>9. QED
    BY <2>2, <2>3, <2>4, <2>5, <2>6, <2>7, <2>8 DEF ChattingIInv
<1>3. QED
  BY <1>1, <1>2

LEMMA ChattingIInvIsEnough == ChattingIInv => ChattingInv
<1> SUFFICES ASSUME ChattingIInv PROVE ChattingInv
  OBVIOUS
<1>1. EveryoneIsKnown
  <2>1. ASSUME NEW p \in Person, Works(p), chat[p] = "open", inbox[p] = <<>>, broadcastQueue = <<>>,
               NEW q \in Person, present[q] = "told"
        PROVE  q \in info[p]
    <3>1. Items(inbox[p]) = {} /\ Items(broadcastQueue) = {}
      BY <2>1, ItemsOfNone
    <3>2. WillKnow(p, q)
      BY <2>1 DEF ChattingIInv, KnownLater
    <3>3. received[p] = {} /\ q \notin listing[p]
      <4>1. ChattingTypes /\ ListsAreAsked
        BY DEF ChattingIInv
      <4>2. received[p] = {} /\ listing[p] = {Nobody}
        BY <2>1, <4>1 DEF ListsAreAsked
      <4>3. QED
        BY <4>1, <4>2, ChatTypes
    <3>4. QED
      BY <2>1, <3>1, <3>2, <3>3 DEF WillKnow, Coming, NoListYet, InList
  <2>2. QED
    BY <2>1 DEF EveryoneIsKnown
<1>2. MessagesArrive
  <2>1. ASSUME NEW p \in Person, Works(p), inbox[p] = <<>>, broadcastQueue = <<>>,
               NEW n \in 1..MaxMessages, p \in audience[n]
        PROVE  \E i \in DOMAIN scrollback[p] : scrollback[p][i] = n
    <3>1. Items(inbox[p]) = {} /\ Items(broadcastQueue) = {}
      BY <2>1, ItemsOfNone
    <3>2. n \in Items(scrollback[p])
      BY <2>1, <3>1 DEF ChattingIInv, ArriveLater
    <3>3. QED
      BY <3>2 DEF Items
  <2>2. QED
    BY <2>1 DEF MessagesArrive
<1>3. ChattingTypeOK /\ OneOrder /\ DroppedByEarlierOnly
  BY DEF ChattingIInv, ChattingTypes, MessagesInOrder
<1>4. QED
  BY <1>1, <1>2, <1>3 DEF ChattingInv

(* Players share one chat (server/net/handlers/Chat, src/chat/Manager.cpp,   *)
(* Window.cpp): all see the messages in the one order they were queued in,   *)
(* a message comes to everyone who had a chat then and stays, a player knows *)
(* all who are there once nothing is on its way, and Window.cpp:178 throws   *)
(* only for one who was there before the chat.                               *)
THEOREM ChattingSafe == ChattingSpec => []ChattingInv
<1>1. ChattingSpec => []ChattingIInv
  BY ChattingInitHolds, ChattingStep, PTL DEF ChattingSpec
<1>2. QED
  BY <1>1, ChattingIInvIsEnough, PTL
=============================================================================
