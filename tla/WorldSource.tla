---------------------------- MODULE WorldSource -----------------------------
(***************************************************************************)
(* The write-back half of shared/world/WorldSource: chunks edited in       *)
(* memory, the list of dirty chunks, the queue of write requests, the      *)
(* writer thread, forced writes, and the flush and shutdown at the end.    *)
(*                                                                         *)
(* The content of a chunk is the set of block edits it has.  Threads: the  *)
(* editors (on the server one per client, in the client the main thread),  *)
(* the frame timer that runs updateDirtyList, callers of                   *)
(* forceChunkWriteIfDirtySync, the thread that owns the source ("main"),   *)
(* and the writer.  generateOnly is never set anywhere in the program and  *)
(* is left out, as is numDirtyCounterResets, which nothing reads.          *)
(***************************************************************************)
EXTENDS Naturals, Sequences, FiniteSets

CONSTANTS
    Pos,                      \* chunk positions
    Chunk,                    \* chunk objects
    worldPos,                 \* the position of each chunk object
    Edit,                     \* block edits
    Editor,                   \* threads that change blocks
    Forcer,                   \* threads that call forceChunkWriteIfDirtySync
    None,                     \* no chunk, no waiter, no entry
    kDirtyThreshold,          \* frames without a change before a write
    kMaxWriteRequestAge,      \* frames a changed chunk may wait in all
    kMaxWriteChunksPerFrame,  \* requests queued per frame
    MaxQueued                 \* bound: no new change while the writer is
                              \* this many requests of the frame timer behind

(* Threads that put requests in the write queue. *)
Caller == Forcer \cup {"main"}
Producer == Caller \cup {"frame"}

(* An entry of the dirty list. *)
Info == [chunk : Chunk, framesSinceDirty : Nat, totalFramesWaiting : Nat]

ASSUME WorldSourceAssumption ==
    /\ IsFiniteSet(Pos)
    /\ worldPos \in [Chunk -> Pos]
    /\ None \notin Chunk \cup Producer \cup Info
    /\ {"main", "frame"} \cap Forcer = {}
    /\ kDirtyThreshold \in Nat \ {0, 1}
    /\ kMaxWriteRequestAge \in Nat
    /\ kMaxWriteChunksPerFrame \in Nat \ {0}
    /\ MaxQueued \in Nat

VARIABLES
    content,     \* edits each chunk object has in memory
    disk,        \* edits of each position in the world file
    dirty,       \* dirtyChunks: by position, an entry or None
    writeQueue,  \* requests each producer has queued and not yet dequeued
    writer,      \* the writer thread: where it is, and its request
    editing,     \* the chunk an editor has changed and not yet marked dirty
    frame,       \* whether the frame timer is past its check of the flag
    call,        \* where each caller is in forceChunkWrite(IfDirty)Sync
    flush,       \* the loop of flushDirtyChunksSync, "off" outside it
    stage,       \* life of the source, workerRun included
    acked        \* history: edits a forced write has returned for

vars == <<content, disk, dirty, writeQueue, writer, editing, frame, call,
          flush, stage, acked>>

Request == [chunk : Chunk \cup {None}, waiter : Caller \cup {None}]
NoRequest == [chunk |-> None, waiter |-> None]
WriterFree == [pc : {"top", "dequeue", "exited"}, req : {NoRequest}, snap : {{}}]
WriterBusy == [pc : {"writing", "notify"},
               req : [chunk : Chunk, waiter : Caller \cup {None}],
               snap : SUBSET Edit]
Call == [pc : {"erase", "enqueue", "wait"}, chunk : Chunk, goal : SUBSET Edit]
Idle == [pc |-> "idle", chunk |-> None, goal |-> {}]

TypeOK ==
    /\ content \in [Chunk -> SUBSET Edit]
    /\ disk \in [Pos -> SUBSET Edit]
    /\ dirty \in [Pos -> Info \cup {None}]
    /\ writeQueue \in [Producer -> Seq(Request)]
    /\ writer \in WriterFree \cup WriterBusy
    /\ editing \in [Editor -> Chunk \cup {None}]
    /\ frame \in {"idle", "pick"}
    /\ call \in [Caller -> Call \cup {Idle}]
    /\ flush \in {"off", "begin", "dangling"}
    /\ stage \in {"open", "flushed", "closing", "joining", "closed", "crashed"}
    /\ acked \in [Pos -> SUBSET Edit]

(* The state of a source that has just been made (all of it but the world  *)
(* file and the chunks loaded from it).                                    *)
Fresh(d, q, w, ed, fr, ca, fl) ==
    /\ d = [p \in Pos |-> None]
    /\ q = [r \in Producer |-> <<>>]
    /\ w = [pc |-> "top", req |-> NoRequest, snap |-> {}]
    /\ ed = [t \in Editor |-> None]
    /\ fr = "idle"
    /\ ca = [f \in Caller |-> Idle]
    /\ fl = "off"

Init ==
    /\ content = [c \in Chunk |-> {}]
    /\ disk = [p \in Pos |-> {}]
    /\ acked = [p \in Pos |-> {}]
    /\ stage = "open"
    /\ Fresh(dirty, writeQueue, writer, editing, frame, call, flush)

(* Threads of the program run, and callers still use the source. *)
Running == stage \in {"open", "flushed", "closing", "joining"}
InUse == stage \in {"open", "flushed"}

-----------------------------------------------------------------------------
(* Editors *)

(* An editor changes a block of a chunk it holds. *)
SetBlock(t, c, e) ==
    /\ InUse
    /\ editing[t] = None
    /\ Len(writeQueue["frame"]) < MaxQueued
    /\ content' = [content EXCEPT ![c] = @ \cup {e}]
    /\ editing' = [editing EXCEPT ![t] = c]
    /\ UNCHANGED <<disk, dirty, writeQueue, writer, frame, call, flush, stage,
                   acked>>

(* Mutants: an entry made with no chunk pointer; a new change that makes   *)
(* the entry young again; marks that are dropped while a flush runs.       *)
MarkedNull(c) ==
    IF dirty[worldPos[c]] = None
    THEN [chunk |-> None, framesSinceDirty |-> 0, totalFramesWaiting |-> 0]
    ELSE [dirty[worldPos[c]] EXCEPT !.framesSinceDirty = 0]

MarkedAnew(c) ==
    [chunk |-> c, framesSinceDirty |-> 0, totalFramesWaiting |-> 0]

MarkChunkDirtyInhibited(t) ==
    /\ Running
    /\ editing[t] # None
    /\ dirty' = IF flush # "off" THEN dirty
                ELSE [dirty EXCEPT ![worldPos[editing[t]]] = MarkedAnew(editing[t])]
    /\ editing' = [editing EXCEPT ![t] = None]
    /\ UNCHANGED <<content, disk, writeQueue, writer, frame, call, flush,
                   stage, acked>>

(* An entry that exists keeps its chunk pointer and its total age. *)
Marked(c) ==
    IF dirty[worldPos[c]] = None
    THEN [chunk |-> c, framesSinceDirty |-> 0, totalFramesWaiting |-> 0]
    ELSE [dirty[worldPos[c]] EXCEPT !.framesSinceDirty = 0]

MarkChunkDirty(t) ==
    /\ Running
    /\ editing[t] # None
    /\ dirty' = [dirty EXCEPT ![worldPos[editing[t]]] = Marked(editing[t])]
    /\ editing' = [editing EXCEPT ![t] = None]
    /\ UNCHANGED <<content, disk, writeQueue, writer, frame, call, flush,
                   stage, acked>>

-----------------------------------------------------------------------------
(* The frame timer: updateDirtyList *)

(* The flag is read before the lock is taken. *)
CheckInhibit ==
    /\ InUse
    /\ frame = "idle"
    /\ flush = "off"
    /\ frame' = "pick"
    /\ UNCHANGED <<content, disk, dirty, writeQueue, writer, editing, call,
                   flush, stage, acked>>

(* An entry after the frame is counted, and whether it is to be written. *)
Counted(i) ==
    [chunk |-> i.chunk,
     framesSinceDirty |-> i.framesSinceDirty + 1,
     totalFramesWaiting |-> IF i.framesSinceDirty + 1 = kDirtyThreshold
                            THEN i.totalFramesWaiting
                            ELSE i.totalFramesWaiting + 1]

(* Mutant: only a chunk that is left alone for a while is written. *)
DueWhenQuiet(i) == i.framesSinceDirty = kDirtyThreshold

Due(i) == \/ i.framesSinceDirty = kDirtyThreshold
          \/ i.totalFramesWaiting > kMaxWriteRequestAge

Dirty == {p \in Pos : dirty[p] # None}

(* s lists the oldest entries of due, oldest first, up to the limit; std::sort *)
(* leaves entries of the same age in any order.                               *)
OldestFirst(s, due, age) ==
    LET picked == {s[i] : i \in DOMAIN s}
    IN /\ Cardinality(picked) = Len(s)
       /\ \/ Len(s) = kMaxWriteChunksPerFrame
          \/ Len(s) < kMaxWriteChunksPerFrame /\ picked = due
       /\ \A i, j \in DOMAIN s : i < j => age[s[i]] >= age[s[j]]
       /\ \A i \in DOMAIN s, p \in due \ picked : age[s[i]] >= age[p]

UpdateDirtyList ==
    /\ Running
    /\ frame = "pick"
    /\ LET counted == [p \in Dirty |-> Counted(dirty[p])]
           due == {p \in Dirty : Due(counted[p])}
           age == [p \in due |-> counted[p].totalFramesWaiting]
       IN \E n \in 0..kMaxWriteChunksPerFrame : \E s \in [1..n -> due] :
            /\ OldestFirst(s, due, age)
            /\ dirty' = [p \in Pos |->
                            IF p \in Dirty /\ p \notin {s[i] : i \in 1..n}
                            THEN counted[p] ELSE None]
            /\ writeQueue' = [writeQueue EXCEPT !["frame"] = @ \o
                 [i \in 1..n |-> [chunk |-> dirty[s[i]].chunk, waiter |-> None]]]
    /\ frame' = "idle"
    /\ UNCHANGED <<content, disk, writer, editing, call, flush, stage, acked>>

-----------------------------------------------------------------------------
(* Forced writes *)

(* forceChunkWriteIfDirtySync; a chunk that is not in the list returns at  *)
(* once, without a change of state.                                        *)
ForceChunkWriteIfDirty(f, c) ==
    /\ InUse
    /\ call[f] = Idle
    /\ dirty[worldPos[c]] # None
    /\ call' = [call EXCEPT ![f] = [pc |-> "erase", chunk |-> c, goal |-> {}]]
    /\ UNCHANGED <<content, disk, dirty, writeQueue, writer, editing, frame,
                   flush, stage, acked>>

(* forceChunkWriteSync: the entry of the position goes, whatever its chunk. *)
ForceErase(f) ==
    /\ Running
    /\ call[f].pc = "erase"
    /\ dirty' = [dirty EXCEPT ![worldPos[call[f].chunk]] = None]
    /\ call' = [call EXCEPT ![f].pc = "enqueue"]
    /\ UNCHANGED <<content, disk, writeQueue, writer, editing, frame, flush,
                   stage, acked>>

(* The request is queued; the goal is what the write has to cover. *)
ForceEnqueue(f) ==
    /\ Running
    /\ call[f].pc = "enqueue"
    /\ writeQueue' = [writeQueue EXCEPT ![f] =
                         Append(@, [chunk |-> call[f].chunk, waiter |-> f])]
    /\ call' = [call EXCEPT ![f].pc = "wait",
                            ![f].goal = content[call[f].chunk]]
    /\ UNCHANGED <<content, disk, dirty, writer, editing, frame, flush, stage,
                   acked>>

-----------------------------------------------------------------------------
(* The writer thread *)

(* The loop condition is read before the thread blocks on the queue. *)
WriterLoop ==
    /\ Running
    /\ writer.pc = "top"
    /\ writer' = [writer EXCEPT !.pc = IF stage = "joining" THEN "exited"
                                       ELSE "dequeue"]
    /\ UNCHANGED <<content, disk, dirty, writeQueue, editing, frame, call,
                   flush, stage, acked>>

(* The queue keeps the order of each producer, and no order between them.  *)
(* A request with no chunk is skipped.  The snapshot is what a put begun   *)
(* now is sure to see.                                                     *)
WriterDequeue(q) ==
    /\ Running
    /\ writer.pc = "dequeue"
    /\ writeQueue[q] # <<>>
    /\ LET req == Head(writeQueue[q])
       IN writer' = IF req.chunk = None
                    THEN [pc |-> "top", req |-> NoRequest, snap |-> {}]
                    ELSE [pc |-> "writing", req |-> req,
                          snap |-> content[req.chunk]]
    /\ writeQueue' = [writeQueue EXCEPT ![q] = Tail(@)]
    /\ UNCHANGED <<content, disk, dirty, editing, frame, call, flush, stage,
                   acked>>

(* Mutant: the slices are not written in one transaction. *)
PutChunkInPart ==
    /\ Running
    /\ writer.pc = "writing"
    /\ \E w \in SUBSET content[writer.req.chunk] :
          disk' = [disk EXCEPT ![worldPos[writer.req.chunk]] = w]
    /\ writer' = [writer EXCEPT !.pc = "notify"]
    /\ UNCHANGED <<content, dirty, writeQueue, editing, frame, call, flush,
                   stage, acked>>

(* putChunk commits.  Editors may have changed the chunk while its slices  *)
(* were serialised: any of the changes made since may be in or not.        *)
PutChunk ==
    /\ Running
    /\ writer.pc = "writing"
    /\ \E w \in SUBSET content[writer.req.chunk] :
          /\ writer.snap \subseteq w
          /\ disk' = [disk EXCEPT ![worldPos[writer.req.chunk]] = w]
    /\ writer' = [writer EXCEPT !.pc = "notify"]
    /\ UNCHANGED <<content, dirty, writeQueue, editing, frame, call, flush,
                   stage, acked>>

(* The completion, when the request has one, wakes its caller. *)
RunCompletion ==
    /\ Running
    /\ writer.pc = "notify"
    /\ LET f == writer.req.waiter
           p == worldPos[writer.req.chunk]
       IN IF f = None THEN UNCHANGED <<call, acked>>
          ELSE /\ call' = [call EXCEPT ![f] = Idle]
               /\ acked' = [acked EXCEPT ![p] = @ \cup call[f].goal]
    /\ writer' = [pc |-> "top", req |-> NoRequest, snap |-> {}]
    /\ UNCHANGED <<content, disk, dirty, writeQueue, editing, frame, flush,
                   stage>>

(* The process is gone, and with it all but the world file: what its       *)
(* chunks will hold is what they will be loaded with.                      *)
Die ==
    /\ stage' = "crashed"
    /\ content' = [c \in Chunk |-> disk[worldPos[c]]]
    /\ Fresh(dirty', writeQueue', writer', editing', frame', call', flush')
    /\ UNCHANGED <<disk, acked>>

(* Mutants: the exception is caught, and the writer goes on with the       *)
(* completion, or with the next request.                                   *)
PutFailsSwallowed ==
    /\ Running
    /\ writer.pc = "writing"
    /\ writer' = [writer EXCEPT !.pc = "notify"]
    /\ UNCHANGED <<content, disk, dirty, writeQueue, editing, frame, call,
                   flush, stage, acked>>

(* putChunk fails: the transaction is rolled back and the exception leaves *)
(* writerMain, which ends the process.                                     *)
PutFails ==
    /\ Running
    /\ writer.pc = "writing"
    /\ Die

-----------------------------------------------------------------------------
(* Flush, shutdown, crash *)

(* The program's own call of flushDirtyChunksSync, once, before it lets go *)
(* of the source; on the server clients still edit meanwhile.              *)
FlushDirtyChunks ==
    /\ stage = "open"
    /\ stage' = "flushed"
    /\ flush' = "begin"
    /\ UNCHANGED <<content, disk, dirty, writeQueue, writer, editing, frame,
                   call, acked>>

(* The loop erases the entry its iterator stands on, without the lock.     *)
(* From the second turn on the iterator is dangling: it may find an entry  *)
(* that is left, or none (FlushEnd), or kill the process (Crash).          *)
FlushNext ==
    /\ Running
    /\ flush # "off"
    /\ call["main"] = Idle
    /\ \E p \in Dirty :
          call' = [call EXCEPT !["main"] =
                     [pc |-> "erase", chunk |-> dirty[p].chunk, goal |-> {}]]
    /\ flush' = "dangling"
    /\ UNCHANGED <<content, disk, dirty, writeQueue, writer, editing, frame,
                   stage, acked>>

FlushEnd ==
    /\ Running
    /\ flush = "dangling" \/ (flush = "begin" /\ Dirty = {})
    /\ call["main"] = Idle
    /\ flush' = "off"
    /\ UNCHANGED <<content, disk, dirty, writeQueue, writer, editing, frame,
                   call, stage, acked>>

(* ~WorldSource, once no other thread uses the source: flush again ... *)
Destroy ==
    /\ stage = "flushed"
    /\ flush = "off"
    /\ frame = "idle"
    /\ \A t \in Editor : editing[t] = None
    /\ \A f \in Caller : call[f] = Idle
    /\ stage' = "closing"
    /\ flush' = "begin"
    /\ UNCHANGED <<content, disk, dirty, writeQueue, writer, editing, frame,
                   call, acked>>

(* ... then clear workerRun and wake the writer with an empty request ... *)
StopWriter ==
    /\ stage = "closing"
    /\ flush = "off"
    /\ stage' = "joining"
    /\ writeQueue' = [writeQueue EXCEPT !["main"] = Append(@, NoRequest)]
    /\ UNCHANGED <<content, disk, dirty, writer, editing, frame, call, flush,
                   acked>>

(* ... and join it. *)
JoinWriter ==
    /\ stage = "joining"
    /\ writer.pc = "exited"
    /\ stage' = "closed"
    /\ UNCHANGED <<content, disk, dirty, writeQueue, writer, editing, frame,
                   call, flush, acked>>

(* The process dies; a transaction that was open is not in the file. *)
Crash ==
    /\ Running
    /\ Die

(* The world is opened again, and its chunks are loaded from the file. *)
Reopen ==
    /\ ~Running
    /\ content' = [c \in Chunk |-> disk[worldPos[c]]]
    /\ stage' = "open"
    /\ Fresh(dirty', writeQueue', writer', editing', frame', call', flush')
    /\ UNCHANGED <<disk, acked>>

-----------------------------------------------------------------------------
FrameStep == CheckInhibit \/ UpdateDirtyList
ForceStep(f) == ForceErase(f) \/ ForceEnqueue(f)
WriterStep == \/ WriterLoop
              \/ \E q \in Producer : WriterDequeue(q)
              \/ PutChunk
              \/ RunCompletion
MainStep == FlushNext \/ FlushEnd \/ StopWriter \/ JoinWriter

Next ==
    \/ \E t \in Editor, c \in Chunk, e \in Edit : SetBlock(t, c, e)
    \/ \E t \in Editor : MarkChunkDirty(t)
    \/ FrameStep
    \/ \E f \in Forcer, c \in Chunk : ForceChunkWriteIfDirty(f, c)
    \/ \E f \in Caller : ForceStep(f)
    \/ WriterStep
    \/ PutFails
    \/ FlushDirtyChunks
    \/ Destroy
    \/ MainStep
    \/ Crash
    \/ Reopen

Spec == Init /\ [][Next]_vars

(* A thread that is not blocked runs on, and the timer keeps ticking.      *)
(* Nothing says that players edit, that chunks are unloaded, that the      *)
(* program ends, or that it does not crash.                                *)
Fairness ==
    /\ \A t \in Editor : WF_vars(MarkChunkDirty(t))
    /\ WF_vars(FrameStep)
    /\ \A f \in Caller : WF_vars(ForceStep(f))
    /\ WF_vars(WriterLoop \/ PutChunk \/ RunCompletion)
    /\ \A q \in Producer : SF_vars(WriterDequeue(q))
    /\ WF_vars(MainStep)

FairSpec == Spec /\ Fairness
-----------------------------------------------------------------------------
(* Properties.  They are about callers that keep one chunk object for each *)
(* position; ServerWorld and ClientWorld ask whether the program's do.     *)

OneChunkPerPos == \A c, d \in Chunk : worldPos[c] = worldPos[d] => c = d

(* A request for the chunk is in the queue. *)
Queued(c) ==
    \E q \in Producer : \E i \in DOMAIN writeQueue[q] :
        writeQueue[q][i].chunk = c

(* A write of the chunk is still to begin: an editor is about to mark it,  *)
(* it is in the dirty list, a caller is about to queue it, or it is queued.*)
WritePending(c) ==
    \/ \E t \in Editor : editing[t] = c
    \/ dirty[worldPos[c]] # None
    \/ \E f \in Caller : call[f].pc = "enqueue" /\ call[f].chunk = c
    \/ Queued(c)

(* No edit is forgotten: a chunk that differs from the world file has a    *)
(* write to come, or one in progress that has seen all of it.  The dirty   *)
(* list, the queue, the forced writes and the edits made while a put is    *)
(* being serialised all have to hand the chunk on to one another.          *)
NoLostEdit ==
    \A c \in Chunk :
        \/ content[c] \subseteq disk[worldPos[c]]
        \/ WritePending(c)
        \/ /\ writer.pc = "writing"
           /\ writer.req.chunk = c
           /\ content[c] \subseteq writer.snap

(* When a forced write returns, what the chunk held when it was requested  *)
(* is in the world file, and stays there: later writes of the chunk, torn  *)
(* ones, failed ones and crashes included.                                 *)
ForcedWritesDurable == \A p \in Pos : acked[p] \subseteq disk[p]

(* kMaxWriteRequestAge bounds the frames a chunk waits even if it changes  *)
(* in every frame: past that age it only queues behind chunks that are as  *)
(* old, kMaxWriteChunksPerFrame of which go per frame.                     *)
DirtyAgeBounded ==
    \A p \in Dirty :
        dirty[p].totalFramesWaiting <=
            kMaxWriteRequestAge
                + (Cardinality(Pos) - 1) \div kMaxWriteChunksPerFrame

(* What is in the file is never taken out again: a write that was queued   *)
(* or begun earlier does not overwrite the result of a later one.          *)
FileNeverLosesEdits == [][\A p \in Pos : disk[p] \subseteq disk'[p]]_vars

(* The inductive invariant behind these: an entry is under its chunk's     *)
(* position, ...                                                           *)
DirtyPlaced == \A p \in Dirty : worldPos[dirty[p].chunk] = p

(* ... nothing is in the file, or seen by a put, that memory does not have,*)
(* and a put replaces no more than it has seen, ...                        *)
FileFromMemory ==
    /\ \A c \in Chunk : disk[worldPos[c]] \subseteq content[c]
    /\ writer.pc = "writing" =>
          /\ disk[worldPos[writer.req.chunk]] \subseteq writer.snap
          /\ writer.snap \subseteq content[writer.req.chunk]

(* ... a caller waits for one request, in its queue or with the writer, ...*)
OneRequestPerCaller ==
    /\ \A q \in Producer : \A i \in DOMAIN writeQueue[q] :
          writeQueue[q][i].waiter # None =>
              /\ writeQueue[q][i].waiter = q
              /\ call[q].pc = "wait"
              /\ call[q].chunk = writeQueue[q][i].chunk
              /\ \A j \in DOMAIN writeQueue[q] :
                    writeQueue[q][j].waiter # None => i = j
    /\ LET f == writer.req.waiter
       IN f # None =>
            /\ call[f].pc = "wait"
            /\ call[f].chunk = writer.req.chunk
            /\ \A i \in DOMAIN writeQueue[f] : writeQueue[f][i].waiter = None

(* ... and what it waits for is in memory, seen by its put, written.       *)
GoalsKept ==
    /\ \A f \in Caller : call[f].pc = "wait" =>
          call[f].goal \subseteq content[call[f].chunk]
    /\ writer.req.waiter # None =>
          /\ writer.pc = "writing" =>
                call[writer.req.waiter].goal \subseteq writer.snap
          /\ writer.pc = "notify" =>
                call[writer.req.waiter].goal
                    \subseteq disk[worldPos[writer.req.chunk]]

IInv ==
    /\ TypeOK
    /\ DirtyPlaced
    /\ FileFromMemory
    /\ OneRequestPerCaller
    /\ GoalsKept
    /\ NoLostEdit
    /\ ForcedWritesDurable

(* ~WorldSource ends only when the file has every edit (WorldSource.h:61). *)
FlushWritesAll ==
    stage = "closed" =>
        \A c \in Chunk : content[c] \subseteq disk[worldPos[c]]

(* Every edit reaches the world file, even under changes that never stop,  *)
(* unless the program begins to close the source or dies.                  *)
EditsReachDisk ==
    \A c \in Chunk, e \in Edit :
        (stage = "open" /\ e \in content[c])
            ~> (stage # "open" \/ e \in disk[worldPos[c]])

(* A forced write returns to its caller, the flush included.               *)
ForcedWriteReturns ==
    \A f \in Caller :
        (call[f] # Idle) ~> (call[f] = Idle \/ ~InUse)

(* The destructor joins the writer: no flush hangs, and the thread is      *)
(* woken wherever it stands when the flag is cleared.                      *)
ShutdownEnds == (stage = "closing") ~> (stage \in {"closed", "crashed"})

(* What a thread begins at the store ends, and so does the way of an edit. *)
WritesEnd == EditsReachDisk /\ ForcedWriteReturns /\ ShutdownEnds

(* The write-back machinery implements a store that is saved in the        *)
(* background and reopened from what was saved.                            *)
Store == INSTANCE WorldStore
            WITH memory <- [p \in Pos |->
                    UNION {content[c] : c \in {d \in Chunk : worldPos[d] = p}}],
                 saved <- disk
ImplementsStore == Store!Spec
=============================================================================
