------------------------------ MODULE Selection ------------------------------
(***************************************************************************)
(* The block that the player looks at, and its highlight: the chunk loader *)
(* (src/render/scene/ChunkLoader.cpp) finds the block and keeps a marker   *)
(* for the highlight, the display object of the chunk (src/render/chunk/   *)
(* WorldChunk.cpp) holds and draws it. Display objects are used again for  *)
(* other chunks. Blocks change under the marker, and a tick of a timer     *)
(* recolours the highlight. Chunks lie on a line, with one block each.     *)
(***************************************************************************)
EXTENDS Integers, FiniteSets, Functions, FiniteSetsExt

CONSTANTS
  Rim,        \* chunks are at 0..Rim
  MaxHighlights, \* how many highlights an object is given
  MaxChanges   \* how often the player moves or a block changes

ASSUME SelectionAssumption == Rim \in Nat /\ MaxHighlights \in Nat /\ MaxChanges \in Nat

VARIABLES
  eye,      \* the chunk that the player is in
  blocks,      \* the chunks whose block is there
  phase,       \* of the frame: "start", "pruned", "shown" or "drawn"
  displayed,   \* `chunks`: position -> display object, 0 if there is none
  chunkQueue,  \* objects to be used again
  objects,     \* how many objects were made
  lookAtBlock, \* the block that a click applies to, or -1
  marker,      \* lookAtSelectionMarker, with what it keeps when it is reset
  highlights,  \* object -> id -> the block, or -1 for one with default values
  ids,         \* object -> the last id given
  stale,       \* object -> highlightsNeedUpdate
  lit,         \* object -> the ids that are drawn
  again,       \* forceLookAtUpdate, or the player moved or turned
  recolour,    \* a tick deferred setSelectionColor()
  lost,        \* history: highlights whose marker lost its chunk
  turns        \* for the bound

scenery == <<eye, blocks, turns>>
display == <<displayed, chunkQueue, objects>>
lights == <<highlights, ids, stale>>
selectionVars ==
  <<scenery, phase, display, lookAtBlock, marker, lights, lit, again, recolour, lost>>

Place == 0..Rim
Maker == 1..(2 * (Rim + 1))
Apart(p, q) == IF p < q THEN q - p ELSE p - q
Nobody == [set |-> FALSE, chunk |-> -1, id |-> 0]

SelectionInit ==
  /\ eye = 0 /\ blocks = Place /\ turns = 0
  /\ phase = "start" /\ displayed = [p \in Place |-> 0] /\ chunkQueue = {} /\ objects = 0
  /\ lookAtBlock = -1 /\ marker = Nobody
  /\ highlights = [o \in Maker |-> <<>>] /\ ids = [o \in Maker |-> 0]
  /\ stale = [o \in Maker |-> FALSE] /\ lit = [o \in Maker |-> {}]
  /\ again = TRUE /\ recolour = FALSE /\ lost = {}

-----------------------------------------------------------------------------
(* The player moves or turns; another player changes a block, which makes  *)
(* nobody look again; the player's own change does; a tick recolours.      *)
Turn ==
  /\ phase = "start" /\ turns < MaxChanges /\ turns' = turns + 1
  /\ eye' \in {p \in Place : Apart(p, eye) <= 1} /\ again' = TRUE
  /\ UNCHANGED <<blocks, phase, display, lookAtBlock, marker, lights, lit, recolour, lost>>

Flip(p) == blocks' = (blocks \ {p}) \cup ({p} \ blocks)

OtherChange(p) ==
  /\ turns < MaxChanges /\ turns' = turns + 1 /\ Flip(p)
  /\ UNCHANGED <<eye, phase, display, lookAtBlock, marker, lights, lit, again, recolour, lost>>

OwnChange ==
  /\ phase = "start" /\ lookAtBlock # -1 /\ turns < MaxChanges /\ turns' = turns + 1
  /\ blocks' = blocks \ {lookAtBlock} /\ again' = TRUE
  /\ UNCHANGED <<eye, phase, display, lookAtBlock, marker, lights, lit, recolour, lost>>

RecolourTick ==
  /\ ~recolour /\ recolour' = TRUE
  /\ UNCHANGED <<scenery, phase, display, lookAtBlock, marker, lights, lit, again, lost>>

-----------------------------------------------------------------------------
(* setSelectionColor() reads the marker whether it is set or not, and      *)
(* setHighlightColor() makes a highlight of the id if there is none.       *)
Displays(p) == IF p \in Place THEN displayed[p] ELSE 0
Given(o, id, b) ==
  [highlights EXCEPT ![o] = [i \in DOMAIN highlights[o] \cup {id} |->
                               IF i \in DOMAIN highlights[o] THEN highlights[o][i] ELSE b]]

SetSelectionColor ==
  LET o == Displays(marker.chunk) IN
  IF o = 0 THEN UNCHANGED <<highlights, stale>>
  ELSE highlights' = Given(o, marker.id, -1) /\ stale' = [stale EXCEPT ![o] = TRUE]

(* The range of chunks on display is 1 here, and the objects of chunks     *)
(* farther away are put in the queue as they are, highlights included.     *)
TooFar == {p \in Place : displayed[p] # 0 /\ Apart(p, eye) > 1}

BeginFrame ==
  /\ phase = "start" /\ phase' = "pruned" /\ recolour' = FALSE
  /\ IF recolour THEN SetSelectionColor ELSE UNCHANGED <<highlights, stale>>
  /\ UNCHANGED <<scenery, display, lookAtBlock, marker, ids, lit, again, lost>>

PruneDisplay ==
  /\ phase = "pruned" /\ phase' = "shown"
  /\ displayed' = [p \in Place |-> IF p \in TooFar THEN 0 ELSE displayed[p]]
  /\ chunkQueue' = chunkQueue \cup {displayed[p] : p \in TooFar}
  /\ lost' = IF marker.set /\ marker.chunk \in TooFar
             THEN lost \cup {<<displayed[marker.chunk], marker.id>>} ELSE lost
  /\ UNCHANGED <<scenery, objects, lookAtBlock, marker, lights, lit, again, recolour>>

SkipPrune ==
  /\ phase = "pruned" /\ phase' = "shown"
  /\ UNCHANGED <<scenery, display, lookAtBlock, marker, lights, lit, again, recolour, lost>>

(* A chunk that was loaded is displayed, which makes the loader look again. *)
Display(p) ==
  /\ phase = "shown" /\ displayed[p] = 0 /\ Apart(p, eye) <= 1
  /\ again' = TRUE
  /\ IF chunkQueue = {}
     THEN /\ objects' = objects + 1 /\ displayed' = [displayed EXCEPT ![p] = objects + 1]
          /\ UNCHANGED chunkQueue
     ELSE \E o \in chunkQueue :
            /\ displayed' = [displayed EXCEPT ![p] = o] /\ chunkQueue' = chunkQueue \ {o}
            /\ UNCHANGED objects
  /\ UNCHANGED <<scenery, phase, lookAtBlock, marker, lights, lit, recolour, lost>>

-----------------------------------------------------------------------------
(* removeLookAtSelection: the object on display at the marker's position   *)
(* forgets the highlight with the marker's id.                             *)
Removed ==
  LET o == Displays(marker.chunk) IN
  IF ~marker.set \/ o = 0 THEN highlights
  ELSE [highlights EXCEPT ![o] = Restrict(@, DOMAIN @ \ {marker.id})]

RemovedFrom ==
  LET o == Displays(marker.chunk) IN
  {i \in {o} : marker.set /\ i # 0 /\ marker.id \in DOMAIN highlights[i]}
StaleAt(os) == stale' = [o \in Maker |-> stale[o] \/ o \in os]

(* updateLookAt: no chunk on display is hit by the line of sight: the      *)
(* selection is forgotten, and its highlight stays.                        *)
LookPast ==
  /\ lookAtBlock' = -1
  /\ UNCHANGED <<marker, highlights, ids, stale>>

(* Mutant: the marker is reset before its highlight is removed. *)
LookAtNothingOnly ==
  /\ lookAtBlock' = -1 /\ marker' = [marker EXCEPT !.set = FALSE]
  /\ UNCHANGED <<highlights, ids, stale>>

(* updateLookAtBlock: no block of the chunks that are loaded is near.      *)
LookAtNothing ==
  /\ lookAtBlock' = -1 /\ marker' = [marker EXCEPT !.set = FALSE]
  /\ highlights' = Removed /\ StaleAt(RemovedFrom) /\ UNCHANGED ids

(* updateLookAtSelection: the block at p, whose chunk is loaded, and       *)
(* mostly displayed.                                                       *)
LookUpon(p) ==
    LET o == displayed[p] IN
    /\ lookAtBlock' = p
    /\ IF o = 0
       THEN /\ marker' = [marker EXCEPT !.set = FALSE]
            /\ highlights' = Removed /\ StaleAt(RemovedFrom) /\ UNCHANGED ids
       ELSE LET id == ids[o] + 1 IN
            /\ ids' = [ids EXCEPT ![o] = id] /\ id <= MaxHighlights
            /\ marker' = [set |-> TRUE, chunk |-> p, id |-> id]
            /\ highlights' = [Removed EXCEPT ![o] =
                                [i \in DOMAIN @ \cup {id} |-> IF i = id THEN p ELSE @[i]]]
            /\ StaleAt(RemovedFrom \cup {o})

(* The block that is hit first is one within reach: of the chunk of the    *)
(* player, or of one next to it.                                           *)
UpdateLookAt ==
  \/ LookPast
  \/ LookAtNothing
  \/ \E p \in blocks : Apart(p, eye) <= 1 /\ LookUpon(p)

OnDisplay == {displayed[p] : p \in Place} \ {0}

(* frameBegin() of each object on display refills what it draws.           *)
FrameBegin ==
  /\ lit' = [o \in Maker |-> IF o \in OnDisplay /\ stale'[o]
                             THEN DOMAIN highlights'[o] ELSE lit[o]]

LookAndDraw ==
  /\ phase = "shown" /\ phase' = "drawn" /\ again' = FALSE
  /\ IF again THEN UpdateLookAt ELSE UNCHANGED <<lookAtBlock, marker, highlights, ids, stale>>
  /\ FrameBegin
  /\ UNCHANGED <<scenery, display, recolour, lost>>

NextFrame ==
  /\ phase = "drawn" /\ phase' = "start"
  /\ stale' = [o \in Maker |-> stale[o] /\ o \notin OnDisplay]
  /\ UNCHANGED <<scenery, display, lookAtBlock, marker, highlights, ids, lit, again, recolour,
                 lost>>

SelectionNext ==
  \/ Turn \/ OwnChange \/ RecolourTick \/ (\E p \in Place : OtherChange(p) \/ Display(p))
  \/ BeginFrame \/ PruneDisplay \/ SkipPrune \/ LookAndDraw \/ NextFrame

SelectionSpec == SelectionInit /\ [][SelectionNext]_selectionVars

-----------------------------------------------------------------------------
(* The variables have values of their types, and no object is in two uses. *)
SelectionTypeOK ==
  /\ eye \in Place /\ blocks \subseteq Place /\ turns \in 0..MaxChanges
  /\ phase \in {"start", "pruned", "shown", "drawn"}
  /\ displayed \in [Place -> 0..objects] /\ chunkQueue \subseteq 1..objects
  /\ objects <= Rim + 1
  /\ lookAtBlock \in Place \cup {-1}
  /\ marker \in [set : BOOLEAN, chunk : Place \cup {-1}, id : 0..MaxHighlights]
  /\ \A o \in Maker : DOMAIN highlights[o] \cup lit[o] \subseteq 0..MaxHighlights
  /\ ids \in [Maker -> 0..MaxHighlights] /\ stale \in [Maker -> BOOLEAN]
  /\ again \in BOOLEAN /\ recolour \in BOOLEAN
  /\ chunkQueue \cap OnDisplay = {}
  /\ \A p, q \in Place : p # q /\ displayed[p] # 0 => displayed[p] # displayed[q]

(* The block that a click applies to is drawn with a highlight, as soon as *)
(* its chunk is on display.                                                *)
ClickedIsLit ==
  phase = "drawn" /\ lookAtBlock # -1 /\ Displays(lookAtBlock) # 0
  => LET o == displayed[lookAtBlock] IN
     \E i \in lit[o] : i \in DOMAIN highlights[o] /\ highlights[o][i] = lookAtBlock

(* A block that is drawn with a highlight is the marker's, unless the      *)
(* marker lost its chunk: no selection that was given up stays lit.        *)
LitIsMarked ==
  phase = "drawn" =>
    \A o \in OnDisplay : \A i \in lit[o] \cap DOMAIN highlights[o] :
      highlights[o][i] # -1 /\ <<o, i>> \notin lost
      => marker.set /\ displayed[marker.chunk] = o /\ marker.id = i

(* Refuted: what has no selection has no highlight.                        *)
NothingSelectedNothingLit ==
  phase = "drawn" /\ lookAtBlock = -1 => \A o \in OnDisplay : lit[o] = {}

(* Refuted: every highlight was asked for.                                 *)
NoPhantoms == \A o \in Maker : \A i \in DOMAIN highlights[o] : highlights[o][i] # -1

(* The highlight is on the block that a click is for, and nowhere else. *)
SelectionInv ==
    SelectionTypeOK /\ ClickedIsLit /\ LitIsMarked
=============================================================================
