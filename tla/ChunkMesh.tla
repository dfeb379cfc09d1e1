----------------------------- MODULE ChunkMesh -----------------------------
(***************************************************************************)
(* The vertex generator (src/render/chunk/VertexGenerator.cpp) and the     *)
(* displayed chunk it works for (WorldChunk.cpp, Globule.cpp).  A chunk is *)
(* drawn in globules; a change to a block makes those it concerns stale.   *)
(* A worker thread turns requests into one task per globule, for one of    *)
(* two pools; a task reads the chunk and leaves a buffer, and the render   *)
(* thread hands buffers to the displayed chunk.  The contents of a globule *)
(* are a version number, counted by the changes that concern it.           *)
(***************************************************************************)
EXTENDS Integers, Sequences, FiniteSets, Bags, SequencesExt

CONSTANTS Slot,           \* WorldChunk objects
          Object, Nothing,\* Chunk objects, and none
          At,             \* the position of each
          Globules,       \* of a chunk, 1..Globules
          Concerned,      \* sets of globules a change to one block may concern
          MaxEvents, MaxFails \* bounds: chunks shown and blocks changed, failures

Globule == 1..Globules
ChunkPos == {At[o] : o \in Object}

ASSUME MeshAssumption ==
    /\ Globules \in Nat \ {0} /\ Nothing \notin Object /\ DOMAIN At = Object
    /\ \A G \in Concerned : G # {} /\ G \subseteq Globule
    /\ MaxEvents \in Nat /\ MaxFails \in Nat

VARIABLES
    version,        \* of each globule of each chunk object
    quiet,          \* history: its version at the last change nothing was under way for
    chunk,          \* of each slot, `chunk`
    callback,       \* slots whose vtxGenCallbackToken is set
    watching,       \* slots whose chunkChangeToken is set
    screen,         \* what the slot's globules draw, <<object, version>>
    workQueue, highQueue,   \* requests, [o, todo]
    job,            \* the request workerGenerate is at; todo = {} if there is none
    inFlight,       \* <<position, globule>>
    low, high,      \* queued tasks of the two pools, <<object, globule>>
    bufferReqs,     \* bag of [o, g, v]
    stuck,          \* history: tags of high priority tasks that threw
    events          \* count for the bound

worldVars == <<version, quiet>>
slotVars == <<chunk, callback, watching, screen>>
poolVars == <<low, high, bufferReqs, stuck>>
meshVars == <<events, worldVars, slotVars, workQueue, highQueue, job, inFlight, poolVars>>

Blank == <<Nothing, 0>>
Versions == 0..MaxEvents
Request == [o : Object, todo : SUBSET Globule, urgent : BOOLEAN]
Task == Object \X Globule
NoJob == [o |-> Nothing, todo |-> {}, urgent |-> FALSE]
Buffer == [o : Object, g : Globule, v : Versions]

MeshTypeOK ==
    /\ version \in [Object -> [Globule -> Versions]]
    /\ chunk \in [Slot -> Object \cup {Nothing}]
    /\ callback \subseteq {s \in Slot : chunk[s] # Nothing} /\ watching \subseteq callback
    /\ screen \in [Slot -> [Globule -> (Object \X Versions) \cup {Blank}]]
    /\ \A o \in Object : \A g \in Globule : quiet[o][g] <= version[o][g]
    /\ workQueue \in Seq(Request) /\ highQueue \in Seq(Request) /\ job \in Request \cup {NoJob}
    /\ low \in Seq(Task) /\ high \in Seq(Task) /\ BagToSet(bufferReqs) \subseteq Buffer
    /\ inFlight \subseteq ChunkPos \X Globule /\ stuck \subseteq inFlight

MeshInit ==
    /\ version = [o \in Object |-> [g \in Globule |-> 0]] /\ quiet = version /\ events = 0
    /\ chunk = [s \in Slot |-> Nothing] /\ callback = {} /\ watching = {}
    /\ screen = [s \in Slot |-> [g \in Globule |-> Blank]]
    /\ workQueue = <<>> /\ highQueue = <<>> /\ job = NoJob /\ inFlight = {}
    /\ low = <<>> /\ high = <<>> /\ bufferReqs = EmptyBag /\ stuck = {}

-----------------------------------------------------------------------------
(* setChunk, up to the generation of all globules, at low priority.  It is
   called for a slot that is new, or that gave back its chunk, and for a chunk
   at a position that nothing is displayed at (addLoadedChunk).              *)
TakeChunk(s) ==
    /\ chunk[s] = Nothing /\ events < MaxEvents /\ events' = events + 1
    /\ \E o \in Object :
         /\ At[o] \notin {At[chunk[r]] : r \in callback}
         /\ chunk' = [chunk EXCEPT ![s] = o]
         /\ workQueue' = Append(workQueue, [o |-> o, todo |-> Globule, urgent |-> FALSE])
    /\ callback' = callback \cup {s}
    /\ UNCHANGED <<worldVars, watching, screen, highQueue, job, inFlight, poolVars>>

(* The rest of setChunk; another thread may have changed a block before it. *)
Watch(s) ==
    /\ s \in callback \ watching /\ watching' = watching \cup {s}
    /\ UNCHANGED <<events, worldVars, chunk, callback, screen, workQueue, highQueue, job, inFlight,
                   poolVars>>

(* setChunk(nullptr): work for the chunk goes on. *)
GiveBack(s) ==
    /\ s \in watching
    /\ chunk' = [chunk EXCEPT ![s] = Nothing]
    /\ callback' = callback \ {s} /\ watching' = watching \ {s}
    /\ screen' = [screen EXCEPT ![s] = [g \in Globule |-> Blank]]
    /\ UNCHANGED <<events, worldVars, workQueue, highQueue, job, inFlight, poolVars>>

Idle ==
    /\ workQueue = <<>> /\ highQueue = <<>> /\ job = NoJob
    /\ low = <<>> /\ high = <<>> /\ bufferReqs = EmptyBag

(* A block is changed, by any thread; slots that watch the chunk ask for the
   globules concerned (markBlockChanged, on the thread that changed it).  It
   is a quiet change if nothing is under way, and none has its tag.          *)
ChangeBlock(o, G) ==
    LET watchers == {s \in watching : chunk[s] = o}
    IN  /\ events < MaxEvents /\ events' = events + 1
        /\ version' = [version EXCEPT ![o] = [g \in Globule |->
                          IF g \in G THEN version[o][g] + 1 ELSE version[o][g]]]
        /\ quiet' = IF Idle /\ watchers # {} /\ \A g \in G : <<At[o], g>> \notin inFlight
                    THEN [quiet EXCEPT ![o] = [g \in Globule |->
                             IF g \in G THEN version'[o][g] ELSE quiet[o][g]]]
                    ELSE quiet
        /\ highQueue' = IF watchers = {} THEN highQueue
                        ELSE Append(highQueue, [o |-> o, todo |-> G, urgent |-> TRUE])
        /\ UNCHANGED <<slotVars, workQueue, job, inFlight, poolVars>>

-----------------------------------------------------------------------------
(* workerMain: what is urgent comes first. *)
NextRequest ==
    /\ job = NoJob
    /\ \/ /\ highQueue # <<>> /\ job' = Head(highQueue) /\ highQueue' = Tail(highQueue)
          /\ UNCHANGED workQueue
       \/ /\ highQueue = <<>> /\ workQueue # <<>>
          /\ job' = Head(workQueue) /\ workQueue' = Tail(workQueue)
          /\ UNCHANGED highQueue
    /\ UNCHANGED <<events, worldVars, slotVars, inFlight, poolVars>>

Lowest(G) == CHOOSE g \in G : \A h \in G : g <= h
JobWithout(g) == IF job.todo = {g} THEN NoJob ELSE [job EXCEPT !.todo = @ \ {g}]

(* workerGenerate of a request for a chunk that was just taken. *)
QueueGlobules ==
    /\ ~job.urgent /\ low' = low \o SetToSeq({<<job.o, g>> : g \in job.todo})
    /\ job' = NoJob /\ UNCHANGED <<inFlight, high>>

(* Mutant: what is queued is the first globule, of any urgent request. *)
QueueUrgentFirst ==
    LET g == Lowest(job.todo)  tag == <<At[job.o], g>>
    IN  /\ job.urgent /\ UNCHANGED low
        /\ \/ tag \in inFlight /\ job' = NoJob /\ UNCHANGED <<inFlight, high>>
           \/ /\ tag \notin inFlight /\ inFlight' = inFlight \cup {tag}
              /\ high' = Append(high, <<job.o, g>>) /\ job' = NoJob

(* An urgent request, globule by globule: it ends at the first that is in
   flight, and what is left of it is forgotten.                              *)
QueueUrgent ==
    LET g == Lowest(job.todo)  tag == <<At[job.o], g>>
    IN  /\ job.urgent /\ UNCHANGED low
        /\ \/ tag \in inFlight /\ job' = NoJob /\ UNCHANGED <<inFlight, high>>
           \/ /\ tag \notin inFlight /\ inFlight' = inFlight \cup {tag}
              /\ high' = Append(high, <<job.o, g>>) /\ job' = JobWithout(g)

QueueGlobule ==
    /\ job # NoJob /\ (QueueGlobules \/ QueueUrgent)
    /\ UNCHANGED <<events, worldVars, slotVars, workQueue, highQueue, bufferReqs, stuck>>

-----------------------------------------------------------------------------
(* Blocks are read without a lock; the buffer is of the time of the read. *)
Generated(t) == [o |-> t[1], g |-> t[2], v |-> version[t[1]][t[2]]]

(* A thread of either pool generates a globule.  Threads take turns, and what
   they leave is copied in any order: no more comes from several threads.    *)
GenerateLow ==
    /\ low # <<>> /\ low' = Tail(low)
    /\ bufferReqs' = bufferReqs (+) SetToBag({Generated(Head(low))})
    /\ UNCHANGED <<events, worldVars, slotVars, workQueue, highQueue, job, inFlight, high, stuck>>

GenerateHigh ==
    /\ high # <<>> /\ high' = Tail(high)
    /\ bufferReqs' = bufferReqs (+) SetToBag({Generated(Head(high))})
    /\ UNCHANGED <<events, worldVars, slotVars, workQueue, highQueue, job, inFlight, low, stuck>>

(* The exception ends in the task's future, and the tag stays. *)
Throws ==
    /\ high # <<>> /\ Cardinality(stuck) < MaxFails /\ high' = Tail(high)
    /\ stuck' = stuck \cup ({<<At[Head(high)[1]], Head(high)[2]>>} \cap inFlight)
    /\ UNCHANGED <<events, worldVars, slotVars, workQueue, highQueue, job, inFlight, low,
                   bufferReqs>>

(* Callbacks are found, and checked again (vtxGenCallback), by position. *)
Receivers(b) == {s \in callback : At[chunk[s]] = At[b.o]}

(* copyBuffers: the queue keeps the order of a thread's buffers only.  The tag
   goes, whoever put it there; a chunk draws the buffer from now on.         *)
CopyBuffer ==
    /\ \E b \in BagToSet(bufferReqs) :
         /\ bufferReqs' = bufferReqs (-) SetToBag({b})
         /\ inFlight' = inFlight \ {<<At[b.o], b.g>>}
         /\ stuck' = stuck \ {<<At[b.o], b.g>>}
         /\ screen' = [s \in Slot |-> IF s \in Receivers(b)
                                      THEN [screen[s] EXCEPT ![b.g] = <<b.o, b.v>>]
                                      ELSE screen[s]]
    /\ UNCHANGED <<events, worldVars, chunk, callback, watching, workQueue, highQueue, job, low,
                   high>>

Generate == NextRequest \/ QueueGlobule

MeshNext ==
    \/ \E s \in Slot : TakeChunk(s) \/ Watch(s) \/ GiveBack(s)
    \/ \E o \in Object, G \in Concerned : ChangeBlock(o, G)
    \/ Generate \/ GenerateLow \/ GenerateHigh \/ Throws \/ CopyBuffer

(* Threads run, and every frame copies buffers. *)
MeshFairness ==
    /\ WF_meshVars(Generate) /\ WF_meshVars(GenerateLow) /\ WF_meshVars(GenerateHigh)
    /\ WF_meshVars(CopyBuffer)
    /\ \A s \in Slot : WF_meshVars(Watch(s))

MeshSpec == MeshInit /\ [][MeshNext]_meshVars /\ MeshFairness

-----------------------------------------------------------------------------
(* A displayed chunk never draws a part of a chunk at another position, and
   nothing once it gave its chunk back (setChunk, vtxGenCallback).           *)
NoForeignMesh ==
    \A s \in Slot : \A g \in Globule : screen[s][g] # Blank =>
        chunk[s] # Nothing /\ At[screen[s][g][1]] = At[chunk[s]]

(* A globule that is in flight, for which urgent requests are dropped, has a
   task or a buffer under way, unless its task threw (workerGenerate).       *)
TaggedIsUnderWay ==
    \A tag \in inFlight \ stuck :
        \/ \E t \in ToSet(high) : <<At[t[1]], t[2]>> = tag
        \/ \E b \in BagToSet(bufferReqs) : <<At[b.o], b.g>> = tag

(* A change that was made while nothing was under way is drawn when nothing
   is under way again (markBlockChanged, workerGenerate, workerGenBuffers).  *)
QuietChangesAreDrawn ==
    Idle => \A s \in watching : \A g \in Globule :
        screen[s][g][1] = chunk[s] /\ <<At[chunk[s]], g>> \notin stuck
            => screen[s][g][2] >= quiet[chunk[s]][g]

(* A chunk that stays displayed gets a mesh for each of its globules. *)
EveryGlobuleAppears ==
    \A s \in Slot : \A g \in Globule :
        []<>(s \in watching => screen[s][g] # Blank)

(* Refuted: a change made while the globule was in flight is not drawn. *)
LastChangeIsDrawn ==
    Idle => \A s \in watching : \A g \in Globule :
        screen[s][g] = <<chunk[s], version[chunk[s]][g]>> \/ <<At[chunk[s]], g>> \in stuck

(* Refuted: "ensure we've still got the same chunk" (WorldChunk.cpp:278); a
   buffer of the chunk that was at this position before is taken.            *)
ShowsItsChunk ==
    \A s \in Slot : \A g \in Globule : screen[s][g] # Blank => screen[s][g][1] = chunk[s]

(* A displayed chunk shows its own blocks, and no globule is left out as under
   way when it is not. *)
MeshInv ==
    MeshTypeOK /\ NoForeignMesh /\ TaggedIsUnderWay /\ QuietChangesAreDrawn
=============================================================================
