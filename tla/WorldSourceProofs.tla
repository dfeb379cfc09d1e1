------------------------- MODULE WorldSourceProofs --------------------------
(***************************************************************************)
(* Theorems about WorldSource, for every number of chunks, edits, threads  *)
(* and every value of the thresholds.                                      *)
(***************************************************************************)
EXTENDS WorldSource, SequenceTheorems, FiniteSetTheorems, TLAPS

-----------------------------------------------------------------------------
(* Type correctness *)

LEMMA FreshType ==
  ASSUME Fresh(dirty, writeQueue, writer, editing, frame, call, flush)
  PROVE  /\ dirty \in [Pos -> Info \cup {None}]
         /\ writeQueue \in [Producer -> Seq(Request)]
         /\ writer \in WriterFree
         /\ editing \in [Editor -> Chunk \cup {None}]
         /\ frame \in {"idle", "pick"}
         /\ call \in [Caller -> Call \cup {Idle}]
         /\ flush \in {"off", "begin", "dangling"}
  BY DEF Fresh, WriterFree

LEMMA CountedType ==
  ASSUME NEW i \in Info
  PROVE  /\ Counted(i) \in Info
         /\ Counted(i).chunk = i.chunk
  BY WorldSourceAssumption DEF Counted, Info

(* What updateDirtyList does to the list and the queue, apart from which   *)
(* entries it picks: an entry that leaves the list is in the queue.        *)
LEMMA UpdateDirtyListEffect ==
  ASSUME TypeOK, UpdateDirtyList
  PROVE  /\ dirty' \in [Pos -> Info \cup {None}]
         /\ \A p \in Pos : dirty'[p] # None =>
               dirty[p] # None /\ dirty'[p].chunk = dirty[p].chunk
         /\ writeQueue' \in [Producer -> Seq(Request)]
         /\ \E r \in Seq(Request) :
               /\ writeQueue' = [writeQueue EXCEPT !["frame"] = @ \o r]
               /\ \A i \in DOMAIN r : r[i].waiter = None
               /\ \A p \in Pos : dirty[p] # None /\ dirty'[p] = None =>
                     \E i \in DOMAIN r : r[i].chunk = dirty[p].chunk
<1> DEFINE counted == [p \in Dirty |-> Counted(dirty[p])]
           due == {p \in Dirty : Due(counted[p])}
<1>1. PICK n \in 0..kMaxWriteChunksPerFrame :
        \E s \in [1..n -> due] :
          /\ dirty' = [p \in Pos |->
                          IF p \in Dirty /\ p \notin {s[i] : i \in 1..n}
                          THEN counted[p] ELSE None]
          /\ writeQueue' = [writeQueue EXCEPT !["frame"] = @ \o
               [i \in 1..n |-> [chunk |-> dirty[s[i]].chunk, waiter |-> None]]]
  BY DEF UpdateDirtyList
<1>2. PICK s \in [1..n -> due] :
        /\ dirty' = [p \in Pos |->
                        IF p \in Dirty /\ p \notin {s[i] : i \in 1..n}
                        THEN counted[p] ELSE None]
        /\ writeQueue' = [writeQueue EXCEPT !["frame"] = @ \o
             [i \in 1..n |-> [chunk |-> dirty[s[i]].chunk, waiter |-> None]]]
  BY <1>1
<1> DEFINE r == [i \in 1..n |-> [chunk |-> dirty[s[i]].chunk, waiter |-> None]]
<1>3. n \in Nat
  BY WorldSourceAssumption
<1>4. \A p \in Dirty : dirty[p] \in Info
  BY DEF Dirty, TypeOK
<1>5. \A p \in Dirty : counted[p] \in Info /\ counted[p].chunk = dirty[p].chunk
  BY <1>4, CountedType
<1>6. dirty' \in [Pos -> Info \cup {None}]
  BY <1>2, <1>5
<1>7. \A p \in Pos : dirty'[p] # None =>
         dirty[p] # None /\ dirty'[p].chunk = dirty[p].chunk
  BY <1>2, <1>5 DEF Dirty
<1>8. r \in Seq(Request)
  <2>1. \A i \in 1..n : s[i] \in Dirty
    OBVIOUS
  <2>2. \A i \in 1..n : r[i] \in Request
    BY <2>1, <1>4 DEF Request, Info
  <2> QED BY <2>2, <1>3
<1>9. DOMAIN r = 1..n /\ \A i \in DOMAIN r : r[i].waiter = None
  OBVIOUS
<1>10. \A p \in Pos : dirty[p] # None /\ dirty'[p] = None =>
          \E i \in DOMAIN r : r[i].chunk = dirty[p].chunk
  <2> SUFFICES ASSUME NEW p \in Pos, dirty[p] # None, dirty'[p] = None
               PROVE  \E i \in 1..n : r[i].chunk = dirty[p].chunk
    BY <1>9
  <2>1. p \in Dirty
    BY DEF Dirty
  <2>2. counted[p] # None
    BY <2>1, <1>5, WorldSourceAssumption DEF Info
  <2>3. p \in {s[i] : i \in 1..n}
    BY <1>2, <2>1, <2>2
  <2> QED BY <2>3
<1>11. writeQueue' \in [Producer -> Seq(Request)]
  <2>1. writeQueue["frame"] \in Seq(Request)
    BY DEF TypeOK, Producer
  <2>2. writeQueue' = [writeQueue EXCEPT !["frame"] = @ \o r]
    BY <1>2
  <2> HIDE DEF r
  <2>3. writeQueue["frame"] \o r \in Seq(Request)
    BY <2>1, <1>8
  <2> QED BY <2>2, <2>3 DEF TypeOK
<1>12. writeQueue' = [writeQueue EXCEPT !["frame"] = @ \o r]
  BY <1>2
<1> HIDE DEF r
<1> QED
  BY <1>6, <1>7, <1>8, <1>9, <1>10, <1>11, <1>12
(* What the destructor, a crash and reopening leave keeps the types. *)
LEMMA TypeInit == Init => TypeOK
  BY FreshType, WorldSourceAssumption DEF Init, TypeOK

LEMMA DieType == TypeOK /\ Die => TypeOK'
<1> SUFFICES ASSUME TypeOK, Die PROVE TypeOK'
  OBVIOUS
<1>1. /\ dirty' \in [Pos -> Info \cup {None}]
      /\ writeQueue' \in [Producer -> Seq(Request)]
      /\ writer' \in WriterFree
      /\ editing' \in [Editor -> Chunk \cup {None}]
      /\ frame' \in {"idle", "pick"}
      /\ call' \in [Caller -> Call \cup {Idle}]
      /\ flush' \in {"off", "begin", "dangling"}
  BY DEF Die, Fresh, WriterFree
<1> QED
  BY <1>1, WorldSourceAssumption DEF Die, TypeOK

LEMMA ReopenType == TypeOK /\ Reopen => TypeOK'
<1> SUFFICES ASSUME TypeOK, Reopen PROVE TypeOK'
  OBVIOUS
<1>1. /\ dirty' \in [Pos -> Info \cup {None}]
      /\ writeQueue' \in [Producer -> Seq(Request)]
      /\ writer' \in WriterFree
      /\ editing' \in [Editor -> Chunk \cup {None}]
      /\ frame' \in {"idle", "pick"}
      /\ call' \in [Caller -> Call \cup {Idle}]
      /\ flush' \in {"off", "begin", "dangling"}
  BY DEF Reopen, Fresh, WriterFree
<1> QED
  BY <1>1, WorldSourceAssumption DEF Reopen, TypeOK

(* Each action of the callers, the writer and the main thread. *)
LEMMA TypeNext == TypeOK /\ [Next]_vars => TypeOK'
<1> SUFFICES ASSUME TypeOK, [Next]_vars PROVE TypeOK'
  OBVIOUS
<1> USE DEF TypeOK
<1>1. ASSUME NEW t \in Editor, NEW c \in Chunk, NEW e \in Edit, SetBlock(t, c, e)
      PROVE  TypeOK'
  BY <1>1 DEF SetBlock
<1>2. ASSUME NEW t \in Editor, MarkChunkDirty(t)
      PROVE  TypeOK'
  <2>1. editing[t] \in Chunk
    BY <1>2 DEF MarkChunkDirty
  <2>2. Marked(editing[t]) \in Info
    BY <2>1, WorldSourceAssumption DEF Marked, Info
  <2> QED BY <1>2, <2>2 DEF MarkChunkDirty
<1>3. CASE CheckInhibit
  BY <1>3 DEF CheckInhibit
<1>4. CASE UpdateDirtyList
  BY <1>4, UpdateDirtyListEffect DEF UpdateDirtyList
<1>5. ASSUME NEW f \in Forcer, NEW c \in Chunk, ForceChunkWriteIfDirty(f, c)
      PROVE  TypeOK'
  BY <1>5 DEF ForceChunkWriteIfDirty, Call, Caller
<1>6. ASSUME NEW f \in Caller, ForceErase(f)
      PROVE  TypeOK'
  <2>1. call[f] \in Call
    BY <1>6 DEF ForceErase, Idle
  <2>2. call' \in [Caller -> Call \cup {Idle}]
    BY <1>6, <2>1 DEF ForceErase, Call
  <2> QED BY <1>6, <2>2 DEF ForceErase
<1>7. ASSUME NEW f \in Caller, ForceEnqueue(f)
      PROVE  TypeOK'
  <2>1. call[f] \in Call
    BY <1>7 DEF ForceEnqueue, Idle
  <2>2. call' \in [Caller -> Call \cup {Idle}]
    BY <1>7, <2>1 DEF ForceEnqueue, Call
  <2>3. [chunk |-> call[f].chunk, waiter |-> f] \in Request
    BY <2>1 DEF Request, Call
  <2>4. writeQueue' \in [Producer -> Seq(Request)]
    BY <1>7, <2>3 DEF ForceEnqueue, Producer
  <2> QED BY <1>7, <2>2, <2>4 DEF ForceEnqueue
<1>8. CASE WriterLoop
  BY <1>8 DEF WriterLoop, WriterFree, WriterBusy
<1>9. ASSUME NEW q \in Producer, WriterDequeue(q)
      PROVE  TypeOK'
  <2>1. Head(writeQueue[q]) \in Request /\ Tail(writeQueue[q]) \in Seq(Request)
    BY <1>9 DEF WriterDequeue
  <2>2. writer' \in WriterFree \cup WriterBusy
    BY <1>9, <2>1 DEF WriterDequeue, WriterFree, WriterBusy, Request
  <2> QED BY <1>9, <2>1, <2>2 DEF WriterDequeue
<1>10. CASE PutChunk
  <2>1. writer \in WriterBusy /\ writer' \in WriterBusy
    BY <1>10 DEF PutChunk, WriterFree, WriterBusy
  <2>2. writer.req.chunk \in Chunk
    BY <2>1 DEF WriterBusy
  <2>3. PICK w \in SUBSET content[writer.req.chunk] :
          disk' = [disk EXCEPT ![worldPos[writer.req.chunk]] = w]
    BY <1>10 DEF PutChunk
  <2>4. w \in SUBSET Edit
    BY <2>2
  <2>5. disk' \in [Pos -> SUBSET Edit]
    BY <2>3, <2>4
  <2> QED BY <1>10, <2>1, <2>5 DEF PutChunk
<1>11. CASE RunCompletion
  <2>1. writer \in WriterBusy /\ writer' \in WriterFree
    BY <1>11 DEF RunCompletion, WriterFree, WriterBusy
  <2>2. \A f \in Caller : call[f].goal \in SUBSET Edit
    BY DEF Call, Idle
  <2>3. writer.req.waiter \in Caller \cup {None}
    BY <2>1 DEF WriterBusy
  <2>4. CASE writer.req.waiter = None
    BY <1>11, <2>1, <2>4 DEF RunCompletion
  <2>5. CASE writer.req.waiter \in Caller
    <3>1. call' \in [Caller -> Call \cup {Idle}]
      BY <1>11, <2>5, WorldSourceAssumption DEF RunCompletion, Producer
    <3> DEFINE p == worldPos[writer.req.chunk]
               g == call[writer.req.waiter].goal
    <3>2. acked' = [acked EXCEPT ![p] = @ \cup g]
      BY <1>11, <2>5, WorldSourceAssumption DEF RunCompletion, Producer
    <3>3. g \in SUBSET Edit
      BY <2>2, <2>5
    <3> HIDE DEF p, g
    <3>4. acked' \in [Pos -> SUBSET Edit]
      BY <3>2, <3>3
    <3> QED BY <1>11, <2>1, <3>1, <3>4 DEF RunCompletion
  <2> QED BY <2>3, <2>4, <2>5
<1>12. CASE PutFails
  BY <1>12, DieType DEF PutFails
<1>13. CASE FlushDirtyChunks
  BY <1>13 DEF FlushDirtyChunks
<1>14. CASE Destroy
  BY <1>14 DEF Destroy
<1>15. CASE FlushNext
  BY <1>15 DEF FlushNext, Dirty, Info, Call, Caller
<1>16. CASE FlushEnd
  BY <1>16 DEF FlushEnd
<1>17. CASE StopWriter
  <2>1. NoRequest \in Request
    BY DEF NoRequest, Request
  <2>2. writeQueue' \in [Producer -> Seq(Request)]
    BY <1>17, <2>1 DEF StopWriter, Producer, Caller
  <2> QED BY <1>17, <2>2 DEF StopWriter
<1>18. CASE JoinWriter
  BY <1>18 DEF JoinWriter
<1>19. CASE Crash
  BY <1>19, DieType DEF Crash
<1>20. CASE Reopen
  BY <1>20, ReopenType
<1>21. CASE UNCHANGED vars
  BY <1>21 DEF vars
<1> QED
  BY <1>1, <1>2, <1>3, <1>4, <1>5, <1>6, <1>7, <1>8, <1>9, <1>10, <1>11,
     <1>12, <1>13, <1>14, <1>15, <1>16, <1>17, <1>18, <1>19, <1>20, <1>21
     DEF Next, FrameStep, ForceStep, WriterStep, MainStep

(* In every reachable state the lists, the queues and the threads hold     *)
(* chunks where the code dereferences one.                                 *)
THEOREM TypeCorrect == Spec => []TypeOK
<1>1. Init => TypeOK
  BY TypeInit
<1>2. TypeOK /\ [Next]_vars => TypeOK'
  BY TypeNext
<1> QED
  BY <1>1, <1>2, PTL DEF Spec
-----------------------------------------------------------------------------
(* The inductive invariant.  The parts that are not types: *)
Core == /\ DirtyPlaced
        /\ FileFromMemory
        /\ OneRequestPerCaller
        /\ GoalsKept
        /\ NoLostEdit
        /\ ForcedWritesDurable

(* A source that has just been made, over chunks loaded from the file.     *)
LEMMA CoreFresh ==
  ASSUME Fresh(dirty, writeQueue, writer, editing, frame, call, flush),
         \A c \in Chunk : content[c] = disk[worldPos[c]],
         ForcedWritesDurable
  PROVE  Core
  BY WorldSourceAssumption
     DEF Core, Fresh, DirtyPlaced, Dirty, FileFromMemory, OneRequestPerCaller,
         GoalsKept, NoLostEdit, NoRequest, Idle

(* Steps that move a thread without touching what the invariant is about.  *)
LEMMA CoreUnchanged ==
  ASSUME Core,
         UNCHANGED <<content, disk, dirty, writeQueue, writer, editing, call,
                     acked>>
  PROVE  Core'
  BY DEF Core, DirtyPlaced, Dirty, FileFromMemory, OneRequestPerCaller,
         GoalsKept, NoLostEdit, WritePending, Queued, ForcedWritesDurable

LEMMA CoreSetBlock ==
  ASSUME TypeOK, Core, NEW t \in Editor, NEW c \in Chunk, NEW e \in Edit,
         SetBlock(t, c, e)
  PROVE  Core'
<1>1. /\ content' = [content EXCEPT ![c] = @ \cup {e}]
      /\ editing' = [editing EXCEPT ![t] = c]
      /\ editing[t] = None
      /\ UNCHANGED <<disk, dirty, writeQueue, writer, call, acked>>
  BY DEF SetBlock
<1>2. \A d \in Chunk : content[d] \subseteq content'[d]
  BY <1>1 DEF TypeOK
<1>3. DirtyPlaced' /\ OneRequestPerCaller' /\ ForcedWritesDurable'
  BY <1>1 DEF Core, DirtyPlaced, Dirty, OneRequestPerCaller, ForcedWritesDurable
<1>4. FileFromMemory'
  <2>1. writer.pc = "writing" => writer.req.chunk \in Chunk
    BY DEF TypeOK, WriterFree, WriterBusy
  <2> QED BY <1>1, <1>2, <2>1 DEF Core, FileFromMemory
<1>5. GoalsKept'
  <2>1. \A f \in Caller : call[f].pc = "wait" => call[f].chunk \in Chunk
    BY DEF TypeOK, Call, Idle
  <2> QED BY <1>1, <1>2, <2>1 DEF Core, GoalsKept
<1>6. NoLostEdit'
  <2> SUFFICES ASSUME NEW d \in Chunk
               PROVE  \/ content'[d] \subseteq disk'[worldPos[d]]
                      \/ WritePending(d)'
                      \/ /\ writer'.pc = "writing"
                         /\ writer'.req.chunk = d
                         /\ content'[d] \subseteq writer'.snap
    BY DEF NoLostEdit
  <2>1. CASE d = c
    <3>1. editing'[t] = d
      BY <1>1, <2>1 DEF TypeOK
    <3> QED BY <3>1 DEF WritePending
  <2>2. CASE d # c
    <3>1. content'[d] = content[d]
      BY <1>1, <2>2 DEF TypeOK
    <3>2. WritePending(d) => WritePending(d)'
      BY <1>1, WorldSourceAssumption DEF WritePending, Queued, TypeOK
    <3> QED BY <1>1, <3>1, <3>2 DEF Core, NoLostEdit
  <2> QED BY <2>1, <2>2
<1> QED
  BY <1>3, <1>4, <1>5, <1>6 DEF Core

LEMMA CoreMarkChunkDirty ==
  ASSUME TypeOK, Core, OneChunkPerPos, NEW t \in Editor, MarkChunkDirty(t)
  PROVE  Core'
<1> DEFINE c == editing[t]
<1>1. /\ dirty' = [dirty EXCEPT ![worldPos[c]] = Marked(c)]
      /\ editing' = [editing EXCEPT ![t] = None]
      /\ UNCHANGED <<content, disk, writeQueue, writer, call, acked>>
  BY DEF MarkChunkDirty
<1>2. c \in Chunk
  BY DEF MarkChunkDirty, TypeOK
<1>3. Marked(c) \in Info /\ worldPos[Marked(c).chunk] = worldPos[c]
  BY <1>2, WorldSourceAssumption
     DEF Marked, Info, Core, DirtyPlaced, Dirty, TypeOK
<1>4. worldPos[c] \in Pos
  BY <1>2, WorldSourceAssumption
<1> HIDE DEF c
<1>5. dirty'[worldPos[c]] = Marked(c) /\ Marked(c) # None
  BY <1>1, <1>3, <1>4, WorldSourceAssumption DEF TypeOK
<1>6. DirtyPlaced'
  BY <1>1, <1>3, <1>4 DEF Core, DirtyPlaced, Dirty, TypeOK
<1>7. FileFromMemory' /\ OneRequestPerCaller' /\ GoalsKept' /\ ForcedWritesDurable'
  BY <1>1 DEF Core, FileFromMemory, OneRequestPerCaller, GoalsKept,
              ForcedWritesDurable
<1>8. NoLostEdit'
  <2>1. ASSUME NEW d \in Chunk, WritePending(d)
        PROVE  WritePending(d)'
    <3>1. CASE d = c
      BY <1>5, <3>1 DEF WritePending
    <3>2. CASE d # c
      <4>1. CASE \E u \in Editor : editing[u] = d
        <5>1. PICK u \in Editor : editing[u] = d
          BY <4>1
        <5>2. u # t
          BY <5>1, <3>2 DEF c
        <5>3. editing'[u] = d
          BY <1>1, <5>1, <5>2 DEF TypeOK
        <5> QED BY <5>3 DEF WritePending
      <4>2. CASE dirty[worldPos[d]] # None
        <5>1. dirty'[worldPos[d]] # None
          BY <1>1, <1>4, <1>5, <4>2, WorldSourceAssumption DEF TypeOK
        <5> QED BY <5>1 DEF WritePending
      <4>3. CASE \E f \in Caller : call[f].pc = "enqueue" /\ call[f].chunk = d
        BY <1>1, <4>3 DEF WritePending
      <4>4. CASE Queued(d)
        BY <1>1, <4>4 DEF WritePending, Queued
      <4> QED BY <2>1, <4>1, <4>2, <4>3, <4>4 DEF WritePending
    <3> QED BY <3>1, <3>2
  <2> QED BY <1>1, <2>1 DEF Core, NoLostEdit
<1> QED
  BY <1>6, <1>7, <1>8 DEF Core
(* Requests put at the end of one producer's queue leave the others.       *)
LEMMA QueueExtended ==
  ASSUME TypeOK, NEW q \in Producer, NEW r \in Seq(Request),
         writeQueue' = [writeQueue EXCEPT ![q] = @ \o r]
  PROVE  /\ \A o \in Producer : \A i \in DOMAIN writeQueue[o] :
               i \in DOMAIN writeQueue'[o] /\ writeQueue'[o][i] = writeQueue[o][i]
         /\ \A i \in DOMAIN r :
               /\ i + Len(writeQueue[q]) \in DOMAIN writeQueue'[q]
               /\ writeQueue'[q][i + Len(writeQueue[q])] = r[i]
         /\ \A o \in Producer : \A i \in DOMAIN writeQueue'[o] :
               \/ i \in DOMAIN writeQueue[o] /\ writeQueue'[o][i] = writeQueue[o][i]
               \/ /\ o = q
                  /\ i - Len(writeQueue[q]) \in DOMAIN r
                  /\ writeQueue'[o][i] = r[i - Len(writeQueue[q])]
         /\ \A c \in Chunk : Queued(c) => Queued(c)'
<1>1. writeQueue[q] \in Seq(Request) /\ Len(writeQueue[q]) \in Nat
  BY DEF TypeOK
<1>2. \A o \in Producer : o # q => writeQueue'[o] = writeQueue[o]
  BY DEF TypeOK
<1>3. writeQueue'[q] = writeQueue[q] \o r
  BY DEF TypeOK
<1>4. /\ DOMAIN (writeQueue[q] \o r) = 1..(Len(writeQueue[q]) + Len(r))
      /\ \A i \in 1..Len(writeQueue[q]) :
            (writeQueue[q] \o r)[i] = writeQueue[q][i]
      /\ \A i \in (Len(writeQueue[q]) + 1)..(Len(writeQueue[q]) + Len(r)) :
            (writeQueue[q] \o r)[i] = r[i - Len(writeQueue[q])]
      /\ DOMAIN r = 1..Len(r) /\ Len(r) \in Nat
      /\ DOMAIN writeQueue[q] = 1..Len(writeQueue[q])
  BY <1>1
<1>5. \A o \in Producer : \A i \in DOMAIN writeQueue[o] :
         i \in DOMAIN writeQueue'[o] /\ writeQueue'[o][i] = writeQueue[o][i]
  BY <1>1, <1>2, <1>3, <1>4
<1>6. \A i \in DOMAIN r :
         /\ i + Len(writeQueue[q]) \in DOMAIN writeQueue'[q]
         /\ writeQueue'[q][i + Len(writeQueue[q])] = r[i]
  BY <1>1, <1>3, <1>4
<1>7. \A o \in Producer : \A i \in DOMAIN writeQueue'[o] :
         \/ i \in DOMAIN writeQueue[o] /\ writeQueue'[o][i] = writeQueue[o][i]
         \/ /\ o = q
            /\ i - Len(writeQueue[q]) \in DOMAIN r
            /\ writeQueue'[o][i] = r[i - Len(writeQueue[q])]
  BY <1>1, <1>2, <1>3, <1>4
<1>8. \A c \in Chunk : Queued(c) => Queued(c)'
  BY <1>5 DEF Queued
<1> QED
  BY <1>5, <1>6, <1>7, <1>8

LEMMA CoreUpdateDirtyList ==
  ASSUME TypeOK, Core, OneChunkPerPos, UpdateDirtyList
  PROVE  Core'
<1>1. UNCHANGED <<content, disk, writer, editing, call, acked>>
  BY DEF UpdateDirtyList
<1>2. \A p \in Pos : dirty'[p] # None =>
         dirty[p] # None /\ dirty'[p].chunk = dirty[p].chunk
  BY UpdateDirtyListEffect
<1>3. PICK r \in Seq(Request) :
         /\ writeQueue' = [writeQueue EXCEPT !["frame"] = @ \o r]
         /\ \A i \in DOMAIN r : r[i].waiter = None
         /\ \A p \in Pos : dirty[p] # None /\ dirty'[p] = None =>
               \E i \in DOMAIN r : r[i].chunk = dirty[p].chunk
  BY UpdateDirtyListEffect
<1>4. "frame" \in Producer /\ "frame" \notin Caller
  BY WorldSourceAssumption DEF Producer, Caller
<1> DEFINE n == Len(writeQueue["frame"])
<1>5. /\ \A o \in Producer : \A i \in DOMAIN writeQueue[o] :
            i \in DOMAIN writeQueue'[o] /\ writeQueue'[o][i] = writeQueue[o][i]
      /\ \A i \in DOMAIN r :
            i + n \in DOMAIN writeQueue'["frame"] /\ writeQueue'["frame"][i + n] = r[i]
      /\ \A o \in Producer : \A i \in DOMAIN writeQueue'[o] :
            \/ i \in DOMAIN writeQueue[o] /\ writeQueue'[o][i] = writeQueue[o][i]
            \/ /\ o = "frame"
               /\ i - n \in DOMAIN r
               /\ writeQueue'[o][i] = r[i - n]
      /\ \A c \in Chunk : Queued(c) => Queued(c)'
  BY <1>3, <1>4, QueueExtended
<1> HIDE DEF n
<1>6. DirtyPlaced'
  BY <1>2 DEF Core, DirtyPlaced, Dirty
<1>7. FileFromMemory' /\ GoalsKept' /\ ForcedWritesDurable'
  BY <1>1 DEF Core, FileFromMemory, GoalsKept, ForcedWritesDurable
<1>8. OneRequestPerCaller'
  <2>1. \A q \in Producer : \A i \in DOMAIN writeQueue'[q] :
           writeQueue'[q][i].waiter # None =>
              i \in DOMAIN writeQueue[q] /\ writeQueue'[q][i] = writeQueue[q][i]
    BY <1>3, <1>5
  <2>2. writer.req.waiter # None => writer.req.waiter \in Producer
    BY DEF TypeOK, WriterFree, WriterBusy, NoRequest, Producer
  <2> QED BY <1>1, <2>1, <2>2 DEF Core, OneRequestPerCaller
<1>9. NoLostEdit'
  <2>1. ASSUME NEW d \in Chunk, WritePending(d)
        PROVE  WritePending(d)'
    <3>1. worldPos[d] \in Pos
      BY WorldSourceAssumption
    <3>2. CASE dirty[worldPos[d]] # None /\ dirty'[worldPos[d]] = None
      <4>1. dirty[worldPos[d]].chunk = d
        BY <3>1, <3>2 DEF Core, DirtyPlaced, Dirty, TypeOK, Info, OneChunkPerPos
      <4>2. PICK i \in DOMAIN r : r[i].chunk = d
        BY <1>3, <3>1, <3>2, <4>1
      <4>3. Queued(d)'
        BY <1>4, <1>5, <4>2 DEF Queued
      <4> QED BY <4>3 DEF WritePending
    <3>3. CASE dirty'[worldPos[d]] # None
      BY <3>3 DEF WritePending
    <3>4. CASE dirty[worldPos[d]] = None
      BY <1>1, <1>5, <2>1, <3>4 DEF WritePending
    <3> QED BY <3>2, <3>3, <3>4
  <2> QED BY <1>1, <2>1 DEF Core, NoLostEdit
<1> QED
  BY <1>6, <1>7, <1>8, <1>9 DEF Core

(* A request someone waits for is in that caller's own queue.              *)
LEMMA WaitersAreCallers ==
  ASSUME TypeOK, Core
  PROVE  /\ writer.req.waiter # None => writer.req.waiter \in Caller
         /\ \A q \in Producer : \A i \in DOMAIN writeQueue[q] :
               writeQueue[q][i].waiter # None => q \in Caller
<1>1. writer.req.waiter # None => writer.req.waiter \in Caller
  BY DEF TypeOK, WriterFree, WriterBusy, NoRequest
<1>2. ASSUME NEW q \in Producer, NEW i \in DOMAIN writeQueue[q],
             writeQueue[q][i].waiter # None
      PROVE  q \in Caller
  <2>1. writeQueue[q] \in Seq(Request)
    BY DEF TypeOK
  <2>2. writeQueue[q][i] \in Request
    BY <2>1
  <2>3. writeQueue[q][i].waiter \in Caller
    BY <1>2, <2>2 DEF Request
  <2> QED BY <1>2, <2>3 DEF Core, OneRequestPerCaller
<1> QED BY <1>1, <1>2

LEMMA CoreForceErase ==
  ASSUME TypeOK, Core, OneChunkPerPos, NEW f \in Caller, ForceErase(f)
  PROVE  Core'
<1> DEFINE c == call[f].chunk
<1>1. /\ dirty' = [dirty EXCEPT ![worldPos[c]] = None]
      /\ call' = [call EXCEPT ![f].pc = "enqueue"]
      /\ call[f].pc = "erase"
      /\ UNCHANGED <<content, disk, writeQueue, writer, editing, acked>>
  BY DEF ForceErase
<1>2. c \in Chunk /\ worldPos[c] \in Pos
  BY <1>1, WorldSourceAssumption DEF TypeOK, Call, Idle
<1>3. call'[f].pc = "enqueue" /\ call'[f].chunk = c
  BY <1>1 DEF TypeOK, Call, Idle
<1>4. \A g \in Caller : g # f => call'[g] = call[g]
  BY <1>1 DEF TypeOK
<1> HIDE DEF c
<1>5. DirtyPlaced'
  BY <1>1, <1>2 DEF Core, DirtyPlaced, Dirty, TypeOK
<1>6. FileFromMemory' /\ ForcedWritesDurable'
  BY <1>1 DEF Core, FileFromMemory, ForcedWritesDurable
<1>7. writer.req.waiter # None => writer.req.waiter \in Caller
  BY WaitersAreCallers
<1>8. \A q \in Producer : \A i \in DOMAIN writeQueue[q] :
         writeQueue[q][i].waiter # None => q \in Caller
  BY WaitersAreCallers
<1>9. OneRequestPerCaller'
  BY <1>1, <1>4, <1>7, <1>8 DEF Core, OneRequestPerCaller
<1>10. GoalsKept'
  BY <1>1, <1>3, <1>4, <1>7 DEF Core, GoalsKept, OneRequestPerCaller
<1>11. NoLostEdit'
  <2>1. ASSUME NEW d \in Chunk, WritePending(d)
        PROVE  WritePending(d)'
    <3>1. CASE d = c
      BY <1>3, <3>1 DEF WritePending
    <3>2. CASE d # c
      <4>1. worldPos[d] # worldPos[c]
        BY <1>2, <3>2 DEF OneChunkPerPos
      <4>2. dirty'[worldPos[d]] = dirty[worldPos[d]]
        BY <1>1, <4>1, WorldSourceAssumption DEF TypeOK
      <4>3. \A g \in Caller : call[g].pc = "enqueue" => call'[g] = call[g]
        BY <1>1, <1>4
      <4> QED BY <1>1, <2>1, <4>2, <4>3 DEF WritePending, Queued
    <3> QED BY <3>1, <3>2
  <2> QED BY <1>1, <2>1 DEF Core, NoLostEdit
<1> QED
  BY <1>5, <1>6, <1>9, <1>10, <1>11 DEF Core
LEMMA CoreForceEnqueue ==
  ASSUME TypeOK, Core, NEW f \in Caller, ForceEnqueue(f)
  PROVE  Core'
<1> DEFINE c == call[f].chunk
           req == [chunk |-> c, waiter |-> f]
           n == Len(writeQueue[f])
<1>1. /\ writeQueue' = [writeQueue EXCEPT ![f] = Append(@, req)]
      /\ call' = [call EXCEPT ![f].pc = "wait", ![f].goal = content[c]]
      /\ call[f].pc = "enqueue"
      /\ UNCHANGED <<content, disk, dirty, writer, editing, acked>>
  BY DEF ForceEnqueue
<1>2. c \in Chunk /\ f \in Producer /\ f # None
  BY <1>1, WorldSourceAssumption DEF TypeOK, Call, Idle, Producer
<1>3. call'[f].pc = "wait" /\ call'[f].chunk = c /\ call'[f].goal = content[c]
  BY <1>1 DEF TypeOK, Call, Idle
<1>4. \A g \in Caller : g # f => call'[g] = call[g]
  BY <1>1 DEF TypeOK
<1>5. req \in Request /\ <<req>> \in Seq(Request)
  BY <1>2 DEF Request
<1>6. writeQueue[f] \in Seq(Request) /\ n \in Nat
  BY <1>2 DEF TypeOK
<1>7. req.chunk = c /\ req.waiter = f
  OBVIOUS
<1> HIDE DEF c, req
<1>8. writeQueue' = [writeQueue EXCEPT ![f] = @ \o <<req>>]
  <2>1. Append(writeQueue[f], req) = writeQueue[f] \o <<req>>
    BY <1>5, <1>6, AppendIsConcat
  <2> QED BY <1>1, <2>1
<1>9. /\ \A o \in Producer : \A i \in DOMAIN writeQueue[o] :
            i \in DOMAIN writeQueue'[o] /\ writeQueue'[o][i] = writeQueue[o][i]
      /\ \A i \in DOMAIN <<req>> :
            i + n \in DOMAIN writeQueue'[f] /\ writeQueue'[f][i + n] = <<req>>[i]
      /\ \A o \in Producer : \A i \in DOMAIN writeQueue'[o] :
            \/ i \in DOMAIN writeQueue[o] /\ writeQueue'[o][i] = writeQueue[o][i]
            \/ /\ o = f
               /\ i - n \in DOMAIN <<req>>
               /\ writeQueue'[o][i] = <<req>>[i - n]
      /\ \A d \in Chunk : Queued(d) => Queued(d)'
  BY <1>2, <1>5, <1>8, QueueExtended
<1>10. /\ 1 + n \in DOMAIN writeQueue'[f]
       /\ writeQueue'[f][1 + n] = req
  BY <1>9
<1>11. \A o \in Producer : \A i \in DOMAIN writeQueue'[o] :
          \/ i \in DOMAIN writeQueue[o] /\ writeQueue'[o][i] = writeQueue[o][i]
          \/ o = f /\ i = 1 + n /\ writeQueue'[o][i] = req
  <2> SUFFICES ASSUME NEW o \in Producer, NEW i \in DOMAIN writeQueue'[o],
                      o = f, i - n \in DOMAIN <<req>>,
                      writeQueue'[o][i] = <<req>>[i - n]
               PROVE  i = 1 + n /\ writeQueue'[o][i] = req
    BY <1>9
  <2>1. i \in Nat
    <3>1. writeQueue'[o] \in Seq(Request)
      BY <1>1, <1>5, <1>6 DEF TypeOK
    <3> QED BY <3>1
  <2>2. i - n = 1
    OBVIOUS
  <2> QED BY <1>6, <2>1, <2>2
<1>12. DirtyPlaced' /\ FileFromMemory' /\ ForcedWritesDurable'
  BY <1>1 DEF Core, DirtyPlaced, Dirty, FileFromMemory, ForcedWritesDurable
<1>13. /\ writer.req.waiter # None => writer.req.waiter \in Caller
       /\ \A q \in Producer : \A i \in DOMAIN writeQueue[q] :
             writeQueue[q][i].waiter # None => q \in Caller
  BY WaitersAreCallers
<1>14. \A i \in DOMAIN writeQueue[f] : writeQueue[f][i].waiter = None
  BY <1>1, <1>2 DEF Core, OneRequestPerCaller
<1>15. writer.req.waiter # f
  BY <1>1, <1>2 DEF Core, OneRequestPerCaller
<1>16. OneRequestPerCaller'
  <2>1. ASSUME NEW q \in Producer, NEW i \in DOMAIN writeQueue'[q],
               writeQueue'[q][i].waiter # None
        PROVE  /\ writeQueue'[q][i].waiter = q
               /\ call'[q].pc = "wait"
               /\ call'[q].chunk = writeQueue'[q][i].chunk
               /\ \A j \in DOMAIN writeQueue'[q] :
                     writeQueue'[q][j].waiter # None => i = j
    <3>1. CASE q = f
      BY <1>3, <1>7, <1>11, <1>14, <2>1, <3>1
    <3>2. CASE q # f
      <4>1. \A j \in DOMAIN writeQueue'[q] :
               j \in DOMAIN writeQueue[q] /\ writeQueue'[q][j] = writeQueue[q][j]
        BY <1>11, <3>2
      <4>2. q \in Caller
        BY <1>13, <2>1, <4>1
      <4>3. call'[q] = call[q]
        BY <1>4, <3>2, <4>2
      <4> QED BY <2>1, <4>1, <4>3 DEF Core, OneRequestPerCaller
    <3> QED BY <3>1, <3>2
  <2>2. ASSUME writer'.req.waiter # None
        PROVE  LET g == writer'.req.waiter
               IN /\ call'[g].pc = "wait"
                  /\ call'[g].chunk = writer'.req.chunk
                  /\ \A i \in DOMAIN writeQueue'[g] : writeQueue'[g][i].waiter = None
    <3> DEFINE g == writer.req.waiter
    <3>1. g \in Caller /\ g # f /\ g \in Producer /\ writer' = writer
      BY <1>1, <1>13, <1>15, <2>2 DEF Producer
    <3>2. call'[g] = call[g]
      BY <1>4, <3>1
    <3>3. \A j \in DOMAIN writeQueue'[g] :
             j \in DOMAIN writeQueue[g] /\ writeQueue'[g][j] = writeQueue[g][j]
      BY <1>11, <3>1
    <3> QED BY <2>2, <3>1, <3>2, <3>3 DEF Core, OneRequestPerCaller
  <2> QED BY <2>1, <2>2 DEF OneRequestPerCaller
<1>17. GoalsKept'
  BY <1>1, <1>2, <1>3, <1>4, <1>13, <1>15 DEF Core, GoalsKept
<1>18. NoLostEdit'
  <2>1. ASSUME NEW d \in Chunk, WritePending(d)
        PROVE  WritePending(d)'
    <3>1. CASE d = c
      BY <1>2, <1>7, <1>10, <3>1 DEF WritePending, Queued
    <3>2. CASE d # c
      <4>1. \A g \in Caller : call[g].pc = "enqueue" /\ call[g].chunk = d =>
               call'[g] = call[g]
        BY <1>4, <3>2 DEF c
      <4> QED BY <1>1, <1>9, <2>1, <4>1 DEF WritePending
    <3> QED BY <3>1, <3>2
  <2> QED BY <1>1, <2>1 DEF Core, NoLostEdit
<1> QED
  BY <1>12, <1>16, <1>17, <1>18 DEF Core
(* A caller that was idle takes a chunk; nobody waited for it.             *)
LEMMA CoreBegin ==
  ASSUME TypeOK, Core, NEW f \in Caller, NEW c \in Chunk,
         call[f] = Idle,
         call' = [call EXCEPT ![f] = [pc |-> "erase", chunk |-> c, goal |-> {}]],
         UNCHANGED <<content, disk, dirty, writeQueue, writer, editing, acked>>
  PROVE  Core'
<1>1. call[f].pc = "idle" /\ call'[f].pc = "erase"
  BY DEF Idle, TypeOK
<1>2. \A g \in Caller : g # f => call'[g] = call[g]
  BY DEF TypeOK
<1>3. DirtyPlaced' /\ FileFromMemory' /\ ForcedWritesDurable'
  BY DEF Core, DirtyPlaced, Dirty, FileFromMemory, ForcedWritesDurable
<1>4. /\ writer.req.waiter # None => writer.req.waiter \in Caller
      /\ \A q \in Producer : \A i \in DOMAIN writeQueue[q] :
            writeQueue[q][i].waiter # None => q \in Caller
  BY WaitersAreCallers
<1>5. OneRequestPerCaller'
  BY <1>1, <1>2, <1>4 DEF Core, OneRequestPerCaller
<1>6. GoalsKept'
  BY <1>1, <1>2, <1>4 DEF Core, GoalsKept, OneRequestPerCaller
<1>7. NoLostEdit'
  <2>1. ASSUME NEW d \in Chunk, WritePending(d)
        PROVE  WritePending(d)'
    <3>1. \A g \in Caller : call[g].pc = "enqueue" => call'[g] = call[g]
      BY <1>1, <1>2
    <3> QED BY <2>1, <3>1 DEF WritePending, Queued
  <2> QED BY <2>1 DEF Core, NoLostEdit
<1> QED
  BY <1>3, <1>5, <1>6, <1>7 DEF Core

LEMMA CoreStopWriter ==
  ASSUME TypeOK, Core, StopWriter
  PROVE  Core'
<1> DEFINE n == Len(writeQueue["main"])
<1>1. /\ writeQueue' = [writeQueue EXCEPT !["main"] = Append(@, NoRequest)]
      /\ UNCHANGED <<content, disk, dirty, writer, editing, call, acked>>
  BY DEF StopWriter
<1>2. "main" \in Producer /\ writeQueue["main"] \in Seq(Request)
  BY DEF Producer, Caller, TypeOK
<1>3. PICK r \in Seq(Request) :
         /\ writeQueue' = [writeQueue EXCEPT !["main"] = @ \o r]
         /\ \A i \in DOMAIN r : r[i].waiter = None
  <2>1. NoRequest \in Request /\ <<NoRequest>> \in Seq(Request)
    BY DEF NoRequest, Request
  <2>2. Append(writeQueue["main"], NoRequest)
           = writeQueue["main"] \o <<NoRequest>>
    BY <1>2, <2>1, AppendIsConcat
  <2>3. \A i \in DOMAIN <<NoRequest>> : <<NoRequest>>[i].waiter = None
    BY DEF NoRequest
  <2> QED BY <1>1, <2>1, <2>2, <2>3
<1>5. /\ \A o \in Producer : \A i \in DOMAIN writeQueue[o] :
            i \in DOMAIN writeQueue'[o] /\ writeQueue'[o][i] = writeQueue[o][i]
      /\ \A i \in DOMAIN r :
            i + n \in DOMAIN writeQueue'["main"] /\ writeQueue'["main"][i + n] = r[i]
      /\ \A o \in Producer : \A i \in DOMAIN writeQueue'[o] :
            \/ i \in DOMAIN writeQueue[o] /\ writeQueue'[o][i] = writeQueue[o][i]
            \/ /\ o = "main"
               /\ i - n \in DOMAIN r
               /\ writeQueue'[o][i] = r[i - n]
      /\ \A d \in Chunk : Queued(d) => Queued(d)'
  BY <1>2, <1>3, QueueExtended
<1>7. \A o \in Producer : \A i \in DOMAIN writeQueue'[o] :
         writeQueue'[o][i].waiter # None =>
            i \in DOMAIN writeQueue[o] /\ writeQueue'[o][i] = writeQueue[o][i]
  BY <1>3, <1>5
<1>8. writer.req.waiter # None => writer.req.waiter \in Producer
  BY WaitersAreCallers DEF Producer
<1>9. OneRequestPerCaller'
  BY <1>1, <1>7, <1>8 DEF Core, OneRequestPerCaller
<1>10. DirtyPlaced' /\ FileFromMemory' /\ GoalsKept' /\ ForcedWritesDurable'
  BY <1>1 DEF Core, DirtyPlaced, Dirty, FileFromMemory, GoalsKept,
              ForcedWritesDurable
<1>11. NoLostEdit'
  BY <1>1, <1>5 DEF Core, NoLostEdit, WritePending
<1> QED
  BY <1>9, <1>10, <1>11 DEF Core

LEMMA CoreWriterLoop ==
  ASSUME TypeOK, Core, WriterLoop
  PROVE  Core'
<1>1. /\ writer.pc = "top"
      /\ writer'.pc \in {"dequeue", "exited"}
      /\ writer'.req = writer.req
      /\ UNCHANGED <<content, disk, dirty, writeQueue, editing, call, acked>>
  BY DEF WriterLoop, TypeOK, WriterFree, WriterBusy
<1> QED
  BY <1>1 DEF Core, DirtyPlaced, Dirty, FileFromMemory, OneRequestPerCaller,
              GoalsKept, NoLostEdit, WritePending, Queued, ForcedWritesDurable

LEMMA CoreWriterDequeue ==
  ASSUME TypeOK, Core, NEW q \in Producer, WriterDequeue(q)
  PROVE  Core'
<1> DEFINE req == Head(writeQueue[q])
<1>1. /\ writer.pc = "dequeue"
      /\ writeQueue[q] # <<>>
      /\ writer' = IF req.chunk = None
                   THEN [pc |-> "top", req |-> NoRequest, snap |-> {}]
                   ELSE [pc |-> "writing", req |-> req,
                         snap |-> content[req.chunk]]
      /\ writeQueue' = [writeQueue EXCEPT ![q] = Tail(@)]
      /\ UNCHANGED <<content, disk, dirty, editing, call, acked>>
  BY DEF WriterDequeue
<1>2. writeQueue[q] \in Seq(Request)
  BY DEF TypeOK
<1>3. /\ req \in Request
      /\ 1 \in DOMAIN writeQueue[q]
      /\ writeQueue[q][1] = req
      /\ \A i \in DOMAIN Tail(writeQueue[q]) :
            /\ i # 0
            /\ i + 1 \in DOMAIN writeQueue[q]
            /\ i + 1 # 1
            /\ Tail(writeQueue[q])[i] = writeQueue[q][i + 1]
      /\ \A i \in DOMAIN writeQueue[q] :
            i # 1 => /\ i - 1 \in DOMAIN Tail(writeQueue[q])
                     /\ Tail(writeQueue[q])[i - 1] = writeQueue[q][i]
      /\ \A i, j \in DOMAIN Tail(writeQueue[q]) : i + 1 = j + 1 => i = j
  BY <1>1, <1>2
<1>4. writeQueue'[q] = Tail(writeQueue[q])
  BY <1>1 DEF TypeOK
<1>5. \A o \in Producer : o # q => writeQueue'[o] = writeQueue[o]
  BY <1>1 DEF TypeOK
<1> HIDE DEF req
<1>6. DirtyPlaced' /\ ForcedWritesDurable'
  BY <1>1 DEF Core, DirtyPlaced, Dirty, ForcedWritesDurable
<1>7. FileFromMemory'
  <2>1. req.chunk # None => req.chunk \in Chunk
    BY <1>3 DEF Request
  <2> QED BY <1>1, <2>1 DEF Core, FileFromMemory
<1>8. /\ \A o \in Producer : \A i \in DOMAIN writeQueue[o] :
            writeQueue[o][i].waiter # None =>
              /\ writeQueue[o][i].waiter = o
              /\ call[o].pc = "wait"
              /\ call[o].chunk = writeQueue[o][i].chunk
              /\ \A j \in DOMAIN writeQueue[o] :
                    writeQueue[o][j].waiter # None => i = j
      /\ \A o \in Producer : \A i \in DOMAIN writeQueue[o] :
            writeQueue[o][i].waiter # None => o \in Caller
  BY WaitersAreCallers DEF Core, OneRequestPerCaller
<1>9. writer.req.waiter = None
  BY <1>1 DEF TypeOK, WriterFree, WriterBusy, NoRequest
<1>10. req.waiter # None =>
          /\ req.waiter = q
          /\ q \in Caller
          /\ call[q].pc = "wait"
          /\ call[q].chunk = req.chunk
          /\ \A i \in DOMAIN writeQueue'[q] : writeQueue'[q][i].waiter = None
  BY <1>3, <1>4, <1>8
<1>11. writer'.req.waiter # None => writer'.req = req /\ req.chunk # None
  BY <1>1 DEF NoRequest
<1>12. OneRequestPerCaller'
  <2>1. ASSUME NEW o \in Producer, NEW i \in DOMAIN writeQueue'[o],
               writeQueue'[o][i].waiter # None
        PROVE  /\ writeQueue'[o][i].waiter = o
               /\ call'[o].pc = "wait"
               /\ call'[o].chunk = writeQueue'[o][i].chunk
               /\ \A j \in DOMAIN writeQueue'[o] :
                     writeQueue'[o][j].waiter # None => i = j
    <3>1. CASE o = q
      BY <1>1, <1>3, <1>4, <1>8, <2>1, <3>1
    <3>2. CASE o # q
      BY <1>1, <1>5, <1>8, <2>1, <3>2
    <3> QED BY <3>1, <3>2
  <2>2. ASSUME writer'.req.waiter # None
        PROVE  LET f == writer'.req.waiter
               IN /\ call'[f].pc = "wait"
                  /\ call'[f].chunk = writer'.req.chunk
                  /\ \A i \in DOMAIN writeQueue'[f] : writeQueue'[f][i].waiter = None
    BY <1>1, <1>10, <1>11, <2>2
  <2> QED BY <2>1, <2>2 DEF OneRequestPerCaller
<1>13. GoalsKept'
  <2>1. \A f \in Caller : call'[f].pc = "wait" =>
           call'[f].goal \subseteq content'[call'[f].chunk]
    BY <1>1 DEF Core, GoalsKept
  <2>2. writer'.pc \in {"top", "writing"}
    BY <1>1
  <2>3. ASSUME writer'.req.waiter # None, writer'.pc = "writing"
        PROVE  call'[writer'.req.waiter].goal \subseteq writer'.snap
    <3>1. writer'.snap = content[req.chunk]
      BY <1>1, <1>11, <2>3
    <3> QED BY <1>1, <1>10, <1>11, <2>1, <2>3, <3>1
  <2> QED BY <2>1, <2>2, <2>3 DEF GoalsKept
<1>14. NoLostEdit'
  <2> SUFFICES ASSUME NEW d \in Chunk
               PROVE  \/ content'[d] \subseteq disk'[worldPos[d]]
                      \/ WritePending(d)'
                      \/ /\ writer'.pc = "writing"
                         /\ writer'.req.chunk = d
                         /\ content'[d] \subseteq writer'.snap
    BY DEF NoLostEdit
  <2>0. d # None
    BY WorldSourceAssumption
  <2>1. CASE req.chunk = d
    BY <1>1, <2>0, <2>1
  <2>2. CASE req.chunk # d
    <3>1. ASSUME Queued(d) PROVE Queued(d)'
      <4>1. PICK o \in Producer : \E i \in DOMAIN writeQueue[o] :
               writeQueue[o][i].chunk = d
        BY <3>1 DEF Queued
      <4>2. PICK i \in DOMAIN writeQueue[o] : writeQueue[o][i].chunk = d
        BY <4>1
      <4>3. CASE o = q
        <5>1. i # 1
          BY <1>3, <2>2, <4>2, <4>3
        <5>2. i - 1 \in DOMAIN writeQueue'[q] /\ writeQueue'[q][i - 1].chunk = d
          BY <1>3, <1>4, <4>2, <4>3, <5>1
        <5> QED BY <5>2 DEF Queued
      <4>4. CASE o # q
        BY <1>5, <4>2, <4>4 DEF Queued
      <4> QED BY <4>3, <4>4
    <3>2. WritePending(d) => WritePending(d)'
      BY <1>1, <3>1 DEF WritePending
    <3> QED BY <1>1, <3>2 DEF Core, NoLostEdit
  <2> QED BY <2>1, <2>2
<1> QED
  BY <1>6, <1>7, <1>12, <1>13, <1>14 DEF Core
(* What a put does to the file: it replaces one position, by a version     *)
(* that has all of the old one and nothing that is not in memory.          *)
LEMMA PutChunkEffect ==
  ASSUME TypeOK, Core, PutChunk
  PROVE  /\ writer \in WriterBusy
         /\ writer.req.chunk \in Chunk
         /\ \E w \in SUBSET content[writer.req.chunk] :
               /\ writer.snap \subseteq w
               /\ disk[worldPos[writer.req.chunk]] \subseteq w
               /\ disk' = [disk EXCEPT ![worldPos[writer.req.chunk]] = w]
<1>1. writer.pc = "writing"
  BY DEF PutChunk
<1>2. writer \in WriterBusy
  BY <1>1 DEF TypeOK, WriterFree, WriterBusy
<1>3. PICK w \in SUBSET content[writer.req.chunk] :
        /\ writer.snap \subseteq w
        /\ disk' = [disk EXCEPT ![worldPos[writer.req.chunk]] = w]
  BY DEF PutChunk
<1>4. disk[worldPos[writer.req.chunk]] \subseteq w
  BY <1>1, <1>3 DEF Core, FileFromMemory
<1> QED
  BY <1>2, <1>3, <1>4 DEF WriterBusy

LEMMA CorePutChunk ==
  ASSUME TypeOK, Core, OneChunkPerPos, PutChunk
  PROVE  Core'
<1> DEFINE c == writer.req.chunk
           p == worldPos[c]
<1>1. /\ writer.pc = "writing"
      /\ writer' = [writer EXCEPT !.pc = "notify"]
      /\ UNCHANGED <<content, dirty, writeQueue, editing, call, acked>>
  BY DEF PutChunk
<1>2. c \in Chunk /\ p \in Pos
  BY PutChunkEffect, WorldSourceAssumption
<1>3. PICK w \in SUBSET content[c] :
        /\ writer.snap \subseteq w
        /\ disk[p] \subseteq w
        /\ disk' = [disk EXCEPT ![p] = w]
  BY PutChunkEffect
<1>4. /\ writer'.pc = "notify"
      /\ writer'.req = writer.req
      /\ writer'.snap = writer.snap
  BY <1>1, PutChunkEffect DEF WriterBusy
<1>5. \A d \in Chunk : worldPos[d] = p => d = c
  BY <1>2 DEF OneChunkPerPos
<1>6. writer.pc = "writing" =>
         /\ disk[p] \subseteq writer.snap
         /\ writer.snap \subseteq content[c]
  BY DEF Core, FileFromMemory
<1>7. \A d \in Chunk : worldPos[d] \in Pos
  BY WorldSourceAssumption
<1>8. \A o \in Pos : disk[o] \subseteq disk'[o]
  BY <1>2, <1>3 DEF TypeOK
<1>9. disk'[p] = w
  BY <1>2, <1>3 DEF TypeOK
<1>10. \A o \in Pos : o # p => disk'[o] = disk[o]
  BY <1>3 DEF TypeOK
<1>11. DirtyPlaced'
  BY <1>1 DEF Core, DirtyPlaced, Dirty
<1>12. OneRequestPerCaller'
  BY <1>1, <1>4 DEF Core, OneRequestPerCaller
<1>13. GoalsKept'
  <2>1. \A f \in Caller : call'[f].pc = "wait" =>
           call'[f].goal \subseteq content'[call'[f].chunk]
    BY <1>1 DEF Core, GoalsKept
  <2>2. writer'.req.waiter # None =>
           call'[writer'.req.waiter].goal \subseteq disk'[worldPos[writer'.req.chunk]]
    BY <1>1, <1>3, <1>4, <1>9 DEF Core, GoalsKept
  <2> QED BY <1>4, <2>1, <2>2 DEF GoalsKept
<1> HIDE DEF c, p
<1>14. FileFromMemory'
  <2>1. ASSUME NEW d \in Chunk PROVE disk'[worldPos[d]] \subseteq content'[d]
    <3>1. CASE worldPos[d] = p
      BY <1>1, <1>3, <1>5, <1>9, <3>1
    <3>2. CASE worldPos[d] # p
      BY <1>1, <1>7, <1>10, <3>2 DEF Core, FileFromMemory
    <3> QED BY <3>1, <3>2
  <2> QED BY <1>4, <2>1 DEF FileFromMemory
<1>15. NoLostEdit'
  <2> SUFFICES ASSUME NEW d \in Chunk
               PROVE  content'[d] \subseteq disk'[worldPos[d]] \/ WritePending(d)'
    BY DEF NoLostEdit
  <2>1. WritePending(d) => WritePending(d)'
    BY <1>1 DEF WritePending, Queued
  <2>2. content[d] \subseteq disk[worldPos[d]] =>
           content'[d] \subseteq disk'[worldPos[d]]
    BY <1>1, <1>7, <1>8
  <2>3. writer.req.chunk = d /\ content[d] \subseteq writer.snap =>
           content'[d] \subseteq disk'[worldPos[d]]
    BY <1>1, <1>3, <1>9 DEF c, p
  <2> QED BY <2>1, <2>2, <2>3 DEF Core, NoLostEdit
<1>16. ForcedWritesDurable'
  BY <1>1, <1>8 DEF Core, ForcedWritesDurable
<1> QED
  BY <1>11, <1>12, <1>13, <1>14, <1>15, <1>16 DEF Core

LEMMA CoreRunCompletion ==
  ASSUME TypeOK, Core, RunCompletion
  PROVE  Core'
<1> DEFINE f == writer.req.waiter
           p == worldPos[writer.req.chunk]
<1>1. /\ writer.pc = "notify"
      /\ writer'.pc = "top" /\ writer'.req.waiter = None
      /\ UNCHANGED <<content, disk, dirty, writeQueue, editing>>
  BY DEF RunCompletion, NoRequest
<1>2. DirtyPlaced' /\ FileFromMemory'
  BY <1>1 DEF Core, DirtyPlaced, Dirty, FileFromMemory
<1>3. /\ writer.req.waiter # None => writer.req.waiter \in Caller
      /\ \A q \in Producer : \A i \in DOMAIN writeQueue[q] :
            writeQueue[q][i].waiter # None => q \in Caller
  BY WaitersAreCallers
<1>4. CASE f = None
  <2>1. UNCHANGED <<call, acked>>
    BY <1>4 DEF RunCompletion
  <2> QED
    BY <1>1, <1>2, <2>1
       DEF Core, OneRequestPerCaller, GoalsKept, NoLostEdit, WritePending,
           Queued, ForcedWritesDurable
<1>5. CASE f # None
  <2>1. /\ call' = [call EXCEPT ![f] = Idle]
        /\ acked' = [acked EXCEPT ![p] = @ \cup call[f].goal]
    BY <1>5 DEF RunCompletion
  <2>2. f \in Caller
    BY <1>3, <1>5
  <2>3. /\ call[f].pc = "wait"
        /\ \A i \in DOMAIN writeQueue[f] : writeQueue[f][i].waiter = None
        /\ call[f].goal \subseteq disk[p]
    BY <1>1, <1>5 DEF Core, OneRequestPerCaller, GoalsKept
  <2>4. call'[f].pc = "idle" /\ \A g \in Caller : g # f => call'[g] = call[g]
    BY <2>1, <2>2 DEF TypeOK, Idle
  <2> HIDE DEF f, p
  <2>5. OneRequestPerCaller'
    BY <1>1, <1>3, <2>3, <2>4 DEF Core, OneRequestPerCaller
  <2>6. GoalsKept'
    BY <1>1, <2>4 DEF Core, GoalsKept
  <2>7. ForcedWritesDurable'
    BY <1>1, <2>1, <2>3 DEF Core, ForcedWritesDurable, TypeOK
  <2>8. NoLostEdit'
    <3>1. ASSUME NEW d \in Chunk, WritePending(d) PROVE WritePending(d)'
      <4>1. \A g \in Caller : call[g].pc = "enqueue" => call'[g] = call[g]
        BY <2>3, <2>4
      <4> QED BY <1>1, <3>1, <4>1 DEF WritePending, Queued
    <3> QED BY <1>1, <3>1 DEF Core, NoLostEdit
  <2> QED BY <1>2, <2>5, <2>6, <2>7, <2>8 DEF Core
<1> QED
  BY <1>4, <1>5

LEMMA CoreRestarted ==
  ASSUME TypeOK, Core, Die \/ Reopen
  PROVE  Core'
<1>1. /\ Fresh(dirty', writeQueue', writer', editing', frame', call', flush')
      /\ content' = [c \in Chunk |-> disk[worldPos[c]]]
      /\ UNCHANGED <<disk, acked>>
  BY DEF Die, Reopen
<1>2. ForcedWritesDurable'
  BY <1>1 DEF Core, ForcedWritesDurable
<1> QED
  BY <1>1, <1>2, WorldSourceAssumption
     DEF Core, Fresh, DirtyPlaced, Dirty, FileFromMemory, OneRequestPerCaller,
         GoalsKept, NoLostEdit, NoRequest, Idle

LEMMA CoreNext ==
  ASSUME TypeOK, Core, OneChunkPerPos, [Next]_vars
  PROVE  Core'
<1>1. ASSUME NEW t \in Editor, NEW c \in Chunk, NEW e \in Edit, SetBlock(t, c, e)
      PROVE  Core'
  BY <1>1, CoreSetBlock
<1>2. ASSUME NEW t \in Editor, MarkChunkDirty(t)
      PROVE  Core'
  BY <1>2, CoreMarkChunkDirty
<1>3. CASE UpdateDirtyList
  BY <1>3, CoreUpdateDirtyList
<1>4. ASSUME NEW f \in Forcer, NEW c \in Chunk, ForceChunkWriteIfDirty(f, c)
      PROVE  Core'
  BY <1>4, CoreBegin DEF ForceChunkWriteIfDirty, Caller
<1>5. ASSUME NEW f \in Caller, ForceErase(f)
      PROVE  Core'
  BY <1>5, CoreForceErase
<1>6. ASSUME NEW f \in Caller, ForceEnqueue(f)
      PROVE  Core'
  BY <1>6, CoreForceEnqueue
<1>7. CASE WriterLoop
  BY <1>7, CoreWriterLoop
<1>8. ASSUME NEW q \in Producer, WriterDequeue(q)
      PROVE  Core'
  BY <1>8, CoreWriterDequeue
<1>9. CASE PutChunk
  BY <1>9, CorePutChunk
<1>10. CASE RunCompletion
  BY <1>10, CoreRunCompletion
<1>11. CASE PutFails \/ Crash \/ Reopen
  BY <1>11, CoreRestarted DEF PutFails, Crash
<1>12. CASE FlushNext
  <2>1. PICK p \in Dirty : call' = [call EXCEPT !["main"] =
              [pc |-> "erase", chunk |-> dirty[p].chunk, goal |-> {}]]
    BY <1>12 DEF FlushNext
  <2>2. dirty[p].chunk \in Chunk /\ "main" \in Caller
    BY DEF Dirty, TypeOK, Info, Caller
  <2> QED BY <1>12, <2>1, <2>2, CoreBegin DEF FlushNext
<1>13. CASE StopWriter
  BY <1>13, CoreStopWriter
<1>14. CASE CheckInhibit \/ FlushDirtyChunks \/ FlushEnd \/ Destroy
               \/ JoinWriter \/ UNCHANGED vars
  BY <1>14, CoreUnchanged
     DEF CheckInhibit, FlushDirtyChunks, FlushEnd, Destroy, JoinWriter, vars
<1> QED
  BY <1>1, <1>2, <1>3, <1>4, <1>5, <1>6, <1>7, <1>8, <1>9, <1>10, <1>11,
     <1>12, <1>13, <1>14
     DEF Next, FrameStep, ForceStep, WriterStep, MainStep

LEMMA InvInit == Init => IInv
  BY TypeInit, CoreFresh, WorldSourceAssumption
     DEF Init, IInv, Core, ForcedWritesDurable

LEMMA InvNext == OneChunkPerPos /\ IInv /\ [Next]_vars => IInv'
  BY TypeNext, CoreNext DEF IInv, Core

(* With one chunk object for each position, no edit is ever forgotten:     *)
(* each is in the file or some list, queue or thread will write it.        *)
THEOREM EditsKept ==
  ASSUME OneChunkPerPos
  PROVE  Spec => []NoLostEdit
<1>1. Init => IInv
  BY InvInit
<1>2. IInv /\ [Next]_vars => IInv'
  BY InvNext
<1>3. IInv => NoLostEdit
  BY DEF IInv
<1> QED
  BY <1>1, <1>2, <1>3, PTL DEF Spec

(* What a forced write has returned for stays in the file.                 *)
THEOREM ForcedWritesKept ==
  ASSUME OneChunkPerPos
  PROVE  Spec => []ForcedWritesDurable
<1>1. Init => IInv
  BY InvInit
<1>2. IInv /\ [Next]_vars => IInv'
  BY InvNext
<1>3. IInv => ForcedWritesDurable
  BY DEF IInv
<1> QED
  BY <1>1, <1>2, <1>3, PTL DEF Spec
-----------------------------------------------------------------------------
(* The age of an entry of the dirty list: whoever waits longer than          *)
(* kMaxWriteRequestAge by m frames has seen kMaxWriteChunksPerFrame others   *)
(* leave in each of them.                                                    *)

Late(m) == {p \in Dirty : dirty[p].totalFramesWaiting >= kMaxWriteRequestAge + m}

FewAreLate ==
    \A m \in Nat : Late(m) # {} =>
        Cardinality(Late(m)) + m * kMaxWriteChunksPerFrame <= Cardinality(Pos)

LEMMA LateIsFinite ==
  ASSUME NEW m
  PROVE  /\ IsFiniteSet(Late(m)) /\ Cardinality(Late(m)) \in Nat
         /\ Cardinality(Late(m)) <= Cardinality(Pos) /\ Cardinality(Pos) \in Nat
<1>1. Late(m) \subseteq Pos /\ IsFiniteSet(Pos)
  BY WorldSourceAssumption DEF Late, Dirty
<1>2. QED
  BY <1>1, FS_Subset, FS_CardinalityType

(* Entries that leave, and marks, make nobody older. *)
LEMMA NobodyOlder ==
  ASSUME FewAreLate,
         \A p \in Dirty' : /\ p \in Dirty
                           /\ dirty'[p].totalFramesWaiting = dirty[p].totalFramesWaiting
                         \/ dirty'[p].totalFramesWaiting = 0
  PROVE  FewAreLate'
<1> SUFFICES ASSUME NEW m \in Nat, Late(m)' # {}
             PROVE  Cardinality(Late(m)') + m * kMaxWriteChunksPerFrame <= Cardinality(Pos)
  BY DEF FewAreLate
<1> DEFINE K == kMaxWriteChunksPerFrame
<1>1. K \in Nat /\ kMaxWriteRequestAge \in Nat
  BY WorldSourceAssumption
<1>2. IsFiniteSet(Late(m)) /\ Cardinality(Late(m)) \in Nat
  BY LateIsFinite
<1>3. /\ IsFiniteSet(Late(m)') /\ Cardinality(Late(m)') \in Nat
      /\ Cardinality(Late(m)') <= Cardinality(Pos) /\ Cardinality(Pos) \in Nat
  <2>1. Late(m)' \subseteq Pos /\ IsFiniteSet(Pos)
    BY WorldSourceAssumption DEF Late, Dirty
  <2>2. QED
    BY <2>1, FS_Subset, FS_CardinalityType
<1>4. CASE m = 0
  BY <1>1, <1>3, <1>4
<1>5. CASE m # 0
  <2>1. Late(m)' \subseteq Late(m)
    BY <1>1, <1>5 DEF Late
  <2>2. Cardinality(Late(m)') <= Cardinality(Late(m)) /\ Late(m) # {}
    BY <1>2, <2>1, FS_Subset
  <2>3. Cardinality(Late(m)) + m * K <= Cardinality(Pos)
    BY <2>2 DEF FewAreLate
  <2>4. m * K \in Nat
    BY <1>1
  <2>5. QED
    BY <1>2, <1>3, <2>2, <2>3, <2>4
<1>6. QED
  BY <1>4, <1>5

LEMMA FrameKeepsFew ==
  ASSUME TypeOK, FewAreLate, UpdateDirtyList
  PROVE  FewAreLate'
<1> DEFINE counted == [p \in Dirty |-> Counted(dirty[p])]
           due == {p \in Dirty : Due(counted[p])}
           age == [p \in due |-> counted[p].totalFramesWaiting]
           K == kMaxWriteChunksPerFrame
           A == kMaxWriteRequestAge
<1>1. PICK n \in 0..K : \E s \in [1..n -> due] :
        /\ OldestFirst(s, due, age)
        /\ dirty' = [p \in Pos |-> IF p \in Dirty /\ p \notin {s[i] : i \in 1..n}
                                   THEN counted[p] ELSE None]
  BY DEF UpdateDirtyList
<1>2. PICK s \in [1..n -> due] :
        /\ OldestFirst(s, due, age)
        /\ dirty' = [p \in Pos |-> IF p \in Dirty /\ p \notin {s[i] : i \in 1..n}
                                   THEN counted[p] ELSE None]
  BY <1>1
<1> DEFINE picked == {s[i] : i \in DOMAIN s}
<1>3. n \in Nat /\ K \in Nat \ {0} /\ A \in Nat
  BY WorldSourceAssumption
<1>4. Len(s) = n /\ DOMAIN s = 1..n
  BY <1>3
<1>5. picked \subseteq due /\ due \subseteq Dirty /\ Dirty \subseteq Pos
  BY DEF Dirty
<1>6. \A p \in Dirty : /\ dirty[p] \in Info /\ dirty[p].totalFramesWaiting \in Nat
                       /\ counted[p] \in Info
                       /\ counted[p].totalFramesWaiting \in
                            {dirty[p].totalFramesWaiting, dirty[p].totalFramesWaiting + 1}
  BY CountedType DEF Dirty, TypeOK, Counted, Info
<1>7. /\ Cardinality(picked) = n
      /\ n = K \/ picked = due
      /\ \A p \in picked, q \in due \ picked :
           counted[p].totalFramesWaiting >= counted[q].totalFramesWaiting
  BY <1>2, <1>4, <1>5 DEF OldestFirst
<1>8. \A p \in Dirty : p \notin picked => counted[p] # None
  BY <1>6, WorldSourceAssumption
<1>9. /\ Dirty' = Dirty \ picked
      /\ \A p \in Dirty' : dirty'[p] = counted[p]
  BY <1>2, <1>4, <1>5, <1>8 DEF Dirty
<1>10. \A p \in Dirty : counted[p].totalFramesWaiting > A => p \in due
  BY DEF Due
<1> HIDE DEF counted, due, age, picked
<1> SUFFICES ASSUME NEW m \in Nat, Late(m)' # {}
             PROVE  Cardinality(Late(m)') + m * K <= Cardinality(Pos)
  BY DEF FewAreLate
<1>11. IsFiniteSet(Late(m)') /\ Cardinality(Late(m)') \in Nat
       /\ Cardinality(Late(m)') <= Cardinality(Pos) /\ Cardinality(Pos) \in Nat
  <2>1. Late(m)' \subseteq Pos /\ IsFiniteSet(Pos)
    BY WorldSourceAssumption DEF Late, Dirty
  <2>2. QED
    BY <2>1, FS_Subset, FS_CardinalityType
<1>12. CASE m = 0
  BY <1>3, <1>11, <1>12
<1>13. CASE m # 0
  <2>1. m - 1 \in Nat
    BY <1>13
  <2>2. \A p \in Late(m)' : /\ p \in Dirty \ picked /\ counted[p].totalFramesWaiting >= A + m
                            /\ p \in due
    BY <1>3, <1>6, <1>9, <1>10, <1>13 DEF Late
  <2>3. PICK q \in due \ picked : counted[q].totalFramesWaiting >= A + m
    BY <2>2
  <2>4. n = K
    BY <1>7, <2>3
  <2>5. ASSUME NEW p \in picked PROVE counted[p].totalFramesWaiting >= A + m
    <3>1. p \in Dirty /\ q \in Dirty
      BY <1>5, <2>3
    <3>2. /\ counted[p].totalFramesWaiting \in Nat /\ counted[q].totalFramesWaiting \in Nat
          /\ A + m \in Nat
      BY <1>3, <1>6, <3>1
    <3>3. counted[p].totalFramesWaiting >= counted[q].totalFramesWaiting
      BY <1>7, <2>3
    <3>4. QED
      BY <2>3, <3>2, <3>3
  <2>6. picked \subseteq Late(m - 1) /\ Late(m)' \subseteq Late(m - 1) \ picked
    <3>1. ASSUME NEW p \in Dirty, counted[p].totalFramesWaiting >= A + m PROVE p \in Late(m - 1)
      <4>1. dirty[p].totalFramesWaiting + 1 >= A + m /\ dirty[p].totalFramesWaiting \in Nat
        BY <1>3, <1>6, <3>1
      <4>2. dirty[p].totalFramesWaiting >= A + (m - 1)
        BY <1>3, <2>1, <4>1
      <4>3. QED
        BY <4>2 DEF Late
    <3>2. QED
      BY <1>5, <2>2, <2>5, <3>1
  <2>7. IsFiniteSet(Late(m - 1)) /\ Cardinality(Late(m - 1)) \in Nat
    BY LateIsFinite
  <2>8. Cardinality(Late(m - 1) \ picked) = Cardinality(Late(m - 1)) - K
    <3>1. Late(m - 1) \cap picked = picked
      BY <2>6
    <3>2. /\ Cardinality(picked) = K
          /\ Cardinality(Late(m - 1) \ picked)
               = Cardinality(Late(m - 1)) - Cardinality(Late(m - 1) \cap picked)
      BY <1>7, <2>4, <2>7, FS_Difference
    <3>3. QED
      BY <3>1, <3>2
  <2>9. Cardinality(Late(m)') <= Cardinality(Late(m - 1)) - K
    <3>1. IsFiniteSet(Late(m - 1) \ picked)
      BY <2>7, FS_Difference
    <3>2. Cardinality(Late(m)') <= Cardinality(Late(m - 1) \ picked)
      BY <2>6, <3>1, FS_Subset
    <3>3. QED
      BY <2>8, <3>2
  <2>10. Cardinality(Late(m - 1)) + (m - 1) * K <= Cardinality(Pos)
    BY <2>1, <2>6 DEF FewAreLate
  <2>11. m * K = (m - 1) * K + K /\ (m - 1) * K \in Nat
    BY <1>3, <2>1
  <2>12. QED
    BY <1>3, <1>11, <2>7, <2>9, <2>10, <2>11
<1>14. QED
  BY <1>12, <1>13

LEMMA FewInit == Init => FewAreLate
<1> SUFFICES ASSUME Init PROVE Dirty = {}
  BY DEF FewAreLate, Late
<1>1. QED
  BY DEF Init, Fresh, Dirty

LEMMA FewNext == TypeOK /\ FewAreLate /\ [Next]_vars => FewAreLate'
<1> SUFFICES ASSUME TypeOK, FewAreLate, [Next]_vars PROVE FewAreLate'
  OBVIOUS
<1>1. CASE dirty' = dirty
  BY <1>1, NobodyOlder DEF Dirty
<1>2. ASSUME NEW t \in Editor, MarkChunkDirty(t) PROVE FewAreLate'
  <2>1. PICK c \in Chunk : dirty' = [dirty EXCEPT ![worldPos[c]] = Marked(c)]
    BY <1>2 DEF MarkChunkDirty, TypeOK
  <2>2. PICK q \in Pos : q = worldPos[c]
    BY WorldSourceAssumption
  <2>3. \A p \in Pos \ {q} : dirty'[p] = dirty[p]
    BY <2>1, <2>2 DEF TypeOK
  <2>4. dirty'[q] = Marked(c)
    BY <2>1, <2>2 DEF TypeOK
  <2>5. \/ dirty[q] = None /\ dirty'[q].totalFramesWaiting = 0
        \/ dirty[q] # None /\ dirty'[q].totalFramesWaiting = dirty[q].totalFramesWaiting
    BY <2>2, <2>4 DEF Marked, TypeOK, Info
  <2>6. QED
    BY <2>3, <2>5, NobodyOlder DEF Dirty
<1>3. CASE UpdateDirtyList
  BY <1>3, FrameKeepsFew
<1>4. ASSUME NEW f \in Caller, ForceErase(f) PROVE FewAreLate'
  <2>1. \A p \in Pos : dirty'[p] \in {dirty[p], None}
    BY <1>4 DEF ForceErase, TypeOK
  <2>2. QED
    BY <2>1, NobodyOlder DEF Dirty
<1>5. CASE \A p \in Pos : dirty'[p] = None
  BY <1>5, NobodyOlder DEF Dirty
<1>6. CASE PutFails \/ Crash \/ Reopen
  BY <1>5, <1>6 DEF PutFails, Crash, Reopen, Die, Fresh
<1>7. CASE UNCHANGED vars
  BY <1>1, <1>7 DEF vars
<1>8. QED
  BY <1>1, <1>2, <1>3, <1>4, <1>6, <1>7
     DEF Next, FrameStep, ForceStep, WriterStep, MainStep, SetBlock, CheckInhibit,
         ForceChunkWriteIfDirty, ForceEnqueue, WriterLoop, WriterDequeue, PutChunk,
         RunCompletion, FlushDirtyChunks, FlushNext, FlushEnd, Destroy, StopWriter, JoinWriter

LEMMA DivisionIs ==
  ASSUME NEW a \in Nat, NEW k \in Nat \ {0}, NEW m \in Nat, m * k <= a
  PROVE  m <= a \div k
  OBVIOUS

LEMMA FewIsEnough == TypeOK /\ FewAreLate => DirtyAgeBounded
<1> SUFFICES ASSUME TypeOK, FewAreLate, NEW p \in Dirty
             PROVE  dirty[p].totalFramesWaiting
                      <= kMaxWriteRequestAge + (Cardinality(Pos) - 1) \div kMaxWriteChunksPerFrame
  BY DEF DirtyAgeBounded
<1> DEFINE K == kMaxWriteChunksPerFrame
           A == kMaxWriteRequestAge
           N == Cardinality(Pos)
           t == dirty[p].totalFramesWaiting
           m == IF t <= A THEN 0 ELSE t - A
<1>1. K \in Nat \ {0} /\ A \in Nat /\ t \in Nat
  BY WorldSourceAssumption DEF Dirty, TypeOK, Info
<1>2. m \in Nat /\ t <= A + m
  BY <1>1
<1>3. CASE t >= A + m
  <2>1. p \in Late(m)
    BY <1>3 DEF Late
  <2>2. Cardinality(Late(m)) \in Nat /\ IsFiniteSet(Late(m)) /\ N \in Nat
    BY LateIsFinite
  <2>3. Cardinality(Late(m)) >= 1
    BY <2>1, <2>2, FS_EmptySet
  <2>4. Cardinality(Late(m)) + m * K <= N
    BY <1>2, <2>1 DEF FewAreLate
  <2>5. m * K \in Nat
    BY <1>1, <1>2
  <2>6. N - 1 \in Nat /\ m * K <= N - 1
    BY <2>2, <2>3, <2>4, <2>5
  <2>7. m <= (N - 1) \div K /\ (N - 1) \div K \in Int
    BY <1>1, <1>2, <2>6, DivisionIs
  <2>8. QED
    BY <1>1, <1>2, <2>7
<1>4. CASE t < A
  <2>1. N \in Nat /\ N # 0
    <3>1. p \in Pos /\ IsFiniteSet(Pos)
      BY WorldSourceAssumption DEF Dirty
    <3>2. QED
      BY <3>1, FS_EmptySet, FS_CardinalityType
  <2>2. N - 1 \in Nat /\ 0 * K <= N - 1
    BY <1>1, <2>1
  <2>3. 0 <= (N - 1) \div K /\ (N - 1) \div K \in Int
    BY <1>1, <2>2, DivisionIs
  <2>4. QED
    BY <1>1, <1>4, <2>3
<1>5. QED
  BY <1>1, <1>3, <1>4

(* kMaxWriteRequestAge bounds the frames that a chunk waits in the dirty      *)
(* list (WorldSource::updateDirtyList), even if it changes in every frame:    *)
(* past that age it waits for chunks as old only, kMaxWriteChunksPerFrame of  *)
(* which leave with each frame.  This is so for any number of chunk objects.  *)
THEOREM AgesBounded == Spec => []DirtyAgeBounded
<1>1. Init => TypeOK /\ FewAreLate
  BY TypeInit, FewInit
<1>2. TypeOK /\ FewAreLate /\ [Next]_vars => (TypeOK /\ FewAreLate)'
  BY TypeNext, FewNext
<1>3. TypeOK /\ FewAreLate => DirtyAgeBounded
  BY FewIsEnough
<1>4. QED
  BY <1>1, <1>2, <1>3, PTL DEF Spec

-----------------------------------------------------------------------------
(* The file only grows, and the abstract store is implemented.             *)

LEMMA FileGrows ==
  ASSUME IInv, [Next]_vars
  PROVE  \A p \in Pos : disk[p] \subseteq disk'[p]
<1>1. CASE PutChunk
  <2>1. TypeOK /\ Core
    BY DEF IInv, Core
  <2>2. PICK w \in SUBSET content[writer.req.chunk] :
          /\ disk[worldPos[writer.req.chunk]] \subseteq w
          /\ disk' = [disk EXCEPT ![worldPos[writer.req.chunk]] = w]
    BY <1>1, <2>1, PutChunkEffect
  <2> QED BY <2>1, <2>2 DEF TypeOK
<1>2. ASSUME ~PutChunk PROVE disk' = disk
  BY <1>2 DEF Next, FrameStep, ForceStep, WriterStep, MainStep, SetBlock,
     MarkChunkDirty, CheckInhibit, UpdateDirtyList, ForceChunkWriteIfDirty,
     ForceErase, ForceEnqueue, WriterLoop, WriterDequeue, RunCompletion,
     PutFails, Die, FlushDirtyChunks, FlushNext, FlushEnd, Destroy, StopWriter,
     JoinWriter, Crash, Reopen, vars
<1> QED BY <1>1, <1>2

(* No write takes an edit out of the world file, whatever was queued when. *)
THEOREM FileGrowsOnly ==
  ASSUME OneChunkPerPos
  PROVE  Spec => FileNeverLosesEdits
<1>1. Init => IInv
  BY InvInit
<1>2. IInv /\ [Next]_vars => IInv'
  BY InvNext
<1>3. IInv /\ [Next]_vars => [\A p \in Pos : disk[p] \subseteq disk'[p]]_vars
  BY FileGrows
<1> QED
  BY <1>1, <1>2, <1>3, PTL DEF Spec, FileNeverLosesEdits

Memory == [p \in Pos |->
             UNION {content[c] : c \in {d \in Chunk : worldPos[d] = p}}]

(* The chunk of a position is what the abstract store has in memory for it. *)
LEMMA MemoryOfChunk ==
  ASSUME OneChunkPerPos, NEW c \in Chunk
  PROVE  Memory[worldPos[c]] = content[c]
<1>1. worldPos[c] \in Pos
  BY WorldSourceAssumption
<1>2. {d \in Chunk : worldPos[d] = worldPos[c]} = {c}
  BY DEF OneChunkPerPos
<1> QED BY <1>1, <1>2 DEF Memory

LEMMA StoreInit == Init => Store!Init
<1> SUFFICES ASSUME Init PROVE Store!Init
  OBVIOUS
<1>1. \A p \in Pos :
         UNION {content[c] : c \in {d \in Chunk : worldPos[d] = p}} = {}
  BY DEF Init
<1> QED BY <1>1 DEF Init, Store!Init

(* A change to one chunk is a change to the memory of its position. *)
LEMMA MemoryChanged ==
  ASSUME TypeOK, OneChunkPerPos, NEW c \in Chunk, NEW e \in Edit,
         content' = [content EXCEPT ![c] = @ \cup {e}]
  PROVE  Memory' = [Memory EXCEPT ![worldPos[c]] = @ \cup {e}]
<1> DEFINE At(p) == {d \in Chunk : worldPos[d] = p}
<1>1. content' \in [Chunk -> SUBSET Edit]
  BY DEF TypeOK
<1>2. \A p \in Pos : p # worldPos[c] =>
        UNION {content'[d] : d \in At(p)} = UNION {content[d] : d \in At(p)}
  <2> TAKE p \in Pos
  <2> HAVE p # worldPos[c]
  <2>1. \A d \in At(p) : content'[d] = content[d]
    BY DEF TypeOK
  <2> QED BY <2>1
<1>3. UNION {content'[d] : d \in At(worldPos[c])} = content[c] \cup {e}
  <2>1. At(worldPos[c]) = {c}
    BY DEF OneChunkPerPos
  <2>2. content'[c] = content[c] \cup {e}
    BY DEF TypeOK
  <2> QED BY <2>1, <2>2
<1>4. Memory[worldPos[c]] = content[c]
  BY MemoryOfChunk
<1>5. worldPos[c] \in Pos
  BY WorldSourceAssumption
<1>6. Memory' = [p \in Pos |-> UNION {content'[d] : d \in At(p)}]
  BY DEF Memory
<1>7. Memory = [p \in Pos |-> UNION {content[d] : d \in At(p)}]
  BY DEF Memory
<1> HIDE DEF At
<1> QED BY <1>2, <1>3, <1>4, <1>5, <1>6, <1>7

(* Every position has a chunk object. *)
EveryPosHasChunk == \A p \in Pos : \E c \in Chunk : worldPos[c] = p

LEMMA MemoryReloaded ==
  ASSUME TypeOK, EveryPosHasChunk,
         content' = [c \in Chunk |-> disk[worldPos[c]]]
  PROVE  Memory' = disk
<1>1. \A p \in Pos :
        UNION {content'[c] : c \in {d \in Chunk : worldPos[d] = p}} = disk[p]
  <2> TAKE p \in Pos
  <2>1. PICK c \in Chunk : worldPos[c] = p
    BY DEF EveryPosHasChunk
  <2>2. \A d \in {x \in Chunk : worldPos[x] = p} : content'[d] = disk[p]
    OBVIOUS
  <2> QED BY <2>1, <2>2
<1>2. Memory' = [p \in Pos |->
           UNION {content'[c] : c \in {d \in Chunk : worldPos[d] = p}}]
  BY DEF Memory
<1>3. Memory' = [p \in Pos |-> disk[p]]
  BY <1>1, <1>2
<1> QED BY <1>3 DEF TypeOK

LEMMA StoreNext ==
  ASSUME IInv, OneChunkPerPos, EveryPosHasChunk, [Next]_vars
  PROVE  [Store!Next]_(Store!vars)
<1> USE DEF Memory
<1>0. TypeOK /\ Core
  BY DEF IInv, Core
<1>1. ASSUME NEW t \in Editor, NEW c \in Chunk, NEW e \in Edit, SetBlock(t, c, e)
      PROVE  Store!Change(worldPos[c], e)
  <2>1. Memory' = [Memory EXCEPT ![worldPos[c]] = @ \cup {e}]
    BY <1>0, <1>1, MemoryChanged DEF SetBlock
  <2> QED BY <1>1, <2>1 DEF SetBlock, Store!Change
<1>2. CASE PutChunk
  <2> DEFINE c == writer.req.chunk
  <2>1. PICK w \in SUBSET content[c] :
          /\ disk[worldPos[c]] \subseteq w
          /\ disk' = [disk EXCEPT ![worldPos[c]] = w]
    BY <1>0, <1>2, PutChunkEffect
  <2>2. c \in Chunk
    BY <1>0, <1>2 DEF TypeOK, PutChunk, WriterFree, WriterBusy
  <2>3. Memory[worldPos[c]] = content[c] /\ worldPos[c] \in Pos
    BY <2>2, MemoryOfChunk, WorldSourceAssumption
  <2>4. UNCHANGED <<content, acked>>
    BY <1>2 DEF PutChunk
  <2> HIDE DEF c
  <2>5. Store!Save(worldPos[c])
    BY <2>1, <2>3, <2>4 DEF Store!Save
  <2> QED BY <2>3, <2>5 DEF Store!Next
<1>3. CASE RunCompletion
  <2> DEFINE f == writer.req.waiter
             p == worldPos[writer.req.chunk]
  <2>1. CASE f = None
    BY <1>3, <2>1 DEF RunCompletion, Store!vars
  <2>2. CASE f # None
    <3>1. p \in Pos
      BY <1>0, <1>3, WorldSourceAssumption
         DEF TypeOK, RunCompletion, WriterFree, WriterBusy
    <3>2. call[f].goal \subseteq disk[p]
      BY <1>0, <1>3, <2>2 DEF Core, GoalsKept, RunCompletion
    <3>3. /\ acked' = [acked EXCEPT ![p] = @ \cup call[f].goal]
          /\ UNCHANGED <<content, disk>>
      BY <1>3, <2>2 DEF RunCompletion
    <3> HIDE DEF f, p
    <3>4. Store!Acknowledge(p)
      BY <3>2, <3>3 DEF Store!Acknowledge
    <3> QED BY <3>1, <3>4 DEF Store!Next
  <2> QED BY <2>1, <2>2
<1>4. CASE PutFails \/ Crash \/ Reopen
  <2>1. /\ content' = [c \in Chunk |-> disk[worldPos[c]]]
        /\ UNCHANGED <<disk, acked>>
    BY <1>4 DEF PutFails, Crash, Die, Reopen
  <2>2. Memory' = disk
    BY <1>0, <2>1, MemoryReloaded
  <2>3. Store!Reopen
    BY <2>1, <2>2 DEF Store!Reopen
  <2> QED BY <2>3 DEF Store!Next
<1>5. ASSUME UNCHANGED <<content, disk, acked>>
      PROVE  UNCHANGED Store!vars
  BY <1>5 DEF Store!vars
<1>6. CASE \/ \E t \in Editor, c \in Chunk, e \in Edit : SetBlock(t, c, e)
           \/ PutChunk \/ RunCompletion \/ PutFails \/ Crash \/ Reopen
  <2>1. ASSUME NEW t \in Editor, NEW c \in Chunk, NEW e \in Edit,
               SetBlock(t, c, e)
        PROVE  Store!Next
    BY <1>1, <2>1, WorldSourceAssumption DEF Store!Next
  <2> QED BY <1>2, <1>3, <1>4, <1>6, <2>1
<1>7. CASE ~(\/ \E t \in Editor, c \in Chunk, e \in Edit : SetBlock(t, c, e)
             \/ PutChunk \/ RunCompletion \/ PutFails \/ Crash \/ Reopen)
  <2>1. UNCHANGED <<content, disk, acked>>
    BY <1>7 DEF Next, FrameStep, ForceStep, WriterStep, MainStep,
       MarkChunkDirty, CheckInhibit, UpdateDirtyList, ForceChunkWriteIfDirty,
       ForceErase, ForceEnqueue, WriterLoop, WriterDequeue, FlushDirtyChunks,
       FlushNext, FlushEnd, Destroy, StopWriter, JoinWriter, vars
  <2> QED BY <1>5, <2>1
<1> QED BY <1>6, <1>7

(* What the game is promised: the writer, its queue, the dirty list and    *)
(* the forced writes behave like a map that is saved in the background and *)
(* reopened from what was saved.                                           *)
THEOREM StoreImplemented ==
  ASSUME OneChunkPerPos, EveryPosHasChunk
  PROVE  Spec => ImplementsStore
<1>1. Init => IInv
  BY InvInit
<1>2. IInv /\ [Next]_vars => IInv'
  BY InvNext
<1>3. Init => Store!Init
  BY StoreInit
<1>4. IInv /\ [Next]_vars => [Store!Next]_(Store!vars)
  BY StoreNext
<1> QED
  BY <1>1, <1>2, <1>3, <1>4, PTL DEF Spec, ImplementsStore, Store!Spec
=============================================================================
