------------------------------ MODULE Transfer ------------------------------
(***************************************************************************)
(* How a chunk gets to a client: the request and the slices that come back *)
(* (src/net/handlers/Chunk), the server's handler of one client            *)
(* (server/net/handlers/Chunk) with the chunk cache that all handlers      *)
(* share, and the pools of threads (shared/util/ThreadPool) on both sides. *)
(* The server's pool is one for all clients, and a task that sends a chunk *)
(* waits in it for the tasks that send the slices.  A queue of the pool    *)
(* keeps the order of one producer only: what waits is taken in any order. *)
(***************************************************************************)
EXTENDS Naturals, Sequences, FiniteSets, SequencesExt

CONSTANTS
    Getter, Pos,
    Slices,         \* by position, the slices of a chunk that have data
    Serializers,    \* threads of the server's pool
    Workers,        \* threads of a client's pool
    MaxGets         \* bound, by client: its requests for one position

ASSUME TransferAssumption ==
    /\ Slices \in [Pos -> Nat]
    /\ Serializers \in Nat \ {0} /\ Workers \in Nat \ {0} /\ MaxGets \in [Getter -> Nat]

VARIABLES
    (* client *)
    promised,       \* by client, positions with a promise
    counts, filled, \* by client and position: slices counted, slices of the chunk made
    numSlices,      \* by client and position, what the completion said
    have,           \* by client and position, the slices of the chunk handed over
    gets,           \* by client and position, requests so far
    tasks,          \* by client, its pool's queue
    slicesBusy, completionsBusy,   \* by client, what its pool's threads are at
    (* connection *)
    connected, asked, toGetter,
    (* server *)
    dupes,          \* by client, positions that are worked on
    completions,    \* by client and position, the load that a future is kept of
    loads,          \* the tasks that send a chunk
    handler,        \* by client: "up", "locked" (its destructor waits), "freed"
    cache,          \* by position, the chunk that a weak pointer is kept to
    observed,       \* by client and position, the chunk that is observed
    objects,        \* chunks made so far
    down,           \* the server was terminated by an exception in a destructor
    refused, lost, twice  \* history: see HandleGet

clientSide == <<promised, counts, filled, numSlices, have, gets, tasks, slicesBusy,
                completionsBusy>>
serverSide == <<dupes, completions, loads, handler, cache, observed, objects, down, refused,
                lost, twice>>
transferVars == <<clientSide, connected, asked, toGetter, serverSide>>

Null == 0
Steps == {"queued", "read", "wait", "observe", "erase", "done", "failed"}

Message == [type : {"get", "unload", "slice", "completion"}, pos : Pos]
Load == [client : Getter, pos : Pos, number : Nat, at : Steps, chunk : Nat, left : Nat]

TransferTypeOK ==
    /\ \A c \in Getter :
         /\ promised[c] \subseteq Pos /\ dupes[c] \subseteq Pos /\ completionsBusy[c] \subseteq Pos
         /\ ToSet(tasks[c]) \subseteq Message /\ \A p \in promised[c] : have[c][p] = 0
         /\ handler[c] \in {"up", "locked", "freed"}
         /\ \A p \in Pos : completions[c][p] \in 0..MaxGets[c] /\ slicesBusy[c][p] <= Slices[p]
    /\ loads \subseteq Load
    /\ \A p \in Pos : cache[p] \in 0..objects

TransferInit ==
    /\ promised = [c \in Getter |-> {}] /\ dupes = [c \in Getter |-> {}]
    /\ counts = [c \in Getter |-> [p \in Pos |-> 0]] /\ filled = counts
    /\ numSlices = counts /\ gets = counts /\ completions = counts
    /\ have = counts /\ slicesBusy = counts /\ observed = counts
    /\ tasks = [c \in Getter |-> <<>>] /\ completionsBusy = [c \in Getter |-> {}]
    /\ connected = [c \in Getter |-> TRUE]
    /\ asked = [c \in Getter |-> <<>>] /\ toGetter = [c \in Getter |-> <<>>]
    /\ loads = {} /\ handler = [c \in Getter |-> "up"]
    /\ cache = [p \in Pos |-> Null] /\ objects = 0 /\ down = FALSE
    /\ refused = [c \in Getter |-> {}] /\ lost = [c \in Getter |-> FALSE] /\ twice = {}

Part(type, p) == [type |-> type, pos |-> p]
Cell(f, c, p, v) == [f EXCEPT ![c][p] = v]
Sent(queue, c, m) == [queue EXCEPT ![c] = Append(@, m)]

-----------------------------------------------------------------------------
(* The client. *)

(* get: a promise, an empty chunk in progress, no slices counted; then the
   request.  It is asserted that none is under way for the position.         *)
Get(c, p) ==
    /\ connected[c] /\ p \notin promised[c] /\ have[c][p] = 0 /\ gets[c][p] < MaxGets[c]
    /\ promised' = [promised EXCEPT ![c] = @ \cup {p}]
    /\ counts' = Cell(counts, c, p, 0) /\ filled' = Cell(filled, c, p, 0)
    /\ gets' = Cell(gets, c, p, gets[c][p] + 1)
    /\ asked' = Sent(asked, c, Part("get", p))
    /\ UNCHANGED <<numSlices, have, tasks, slicesBusy, completionsBusy, connected, toGetter,
                   serverSide>>

(* The chunk is unloaded: the server is told to report no more changes. *)
Unload(c, p) ==
    /\ connected[c] /\ have[c][p] > 0
    /\ have' = Cell(have, c, p, 0)
    /\ asked' = Sent(asked, c, Part("unload", p))
    /\ UNCHANGED <<promised, counts, filled, numSlices, gets, tasks, slicesBusy,
                   completionsBusy, connected, toGetter, serverSide>>

(* The connection's worker: handleSlice and handleCompletion leave the work to
   the pool.                                                                 *)
Accept(c) ==
   /\ connected[c] /\ toGetter[c] # <<>>
   /\ tasks' = Sent(tasks, c, Head(toGetter[c]))
   /\ toGetter' = [toGetter EXCEPT ![c] = Tail(@)]
   /\ UNCHANGED <<promised, counts, filled, numSlices, have, gets, slicesBusy,
                  completionsBusy, connected, asked, serverSide>>

BusyWorkers(c) ==
    Cardinality(completionsBusy[c])
        + FoldLeft(LAMBDA n, p : n + slicesBusy[c][p], 0, SetToSeq(Pos))

(* A thread of the client's pool takes the next task. *)
TakeTask(c) ==
    /\ tasks[c] # <<>> /\ BusyWorkers(c) < Workers
    /\ tasks' = [tasks EXCEPT ![c] = Tail(@)]
    /\ LET m == Head(tasks[c]) IN
         IF m.type = "slice"
         THEN /\ slicesBusy' = Cell(slicesBusy, c, m.pos, slicesBusy[c][m.pos] + 1)
              /\ UNCHANGED <<completionsBusy, numSlices>>
         ELSE /\ completionsBusy' = [completionsBusy EXCEPT ![c] = @ \cup {m.pos}]
              /\ numSlices' = Cell(numSlices, c, m.pos, Slices[m.pos])
              /\ UNCHANGED slicesBusy
    /\ UNCHANGED <<promised, counts, filled, have, gets, connected, asked, toGetter,
                   serverSide>>

(* process of a slice: it is put into the chunk in progress, then counted. *)
ProcessSlice(c, p) ==
    /\ slicesBusy[c][p] > 0
    /\ slicesBusy' = Cell(slicesBusy, c, p, slicesBusy[c][p] - 1)
    /\ filled' = Cell(filled, c, p, filled[c][p] + 1)
    /\ counts' = Cell(counts, c, p, counts[c][p] + 1)
    /\ UNCHANGED <<promised, numSlices, have, gets, tasks, completionsBusy, connected,
                   asked, toGetter, serverSide>>

(* The chunk is handed over; 1 + its slices stands for it. *)
HandOver(c, p) ==
    /\ completionsBusy' = [completionsBusy EXCEPT ![c] = @ \ {p}]
    /\ have' = IF p \in promised[c] THEN Cell(have, c, p, 1 + filled[c][p]) ELSE have
    /\ counts' = Cell(counts, c, p, 0)
    /\ promised' = [promised EXCEPT ![c] = @ \ {p}]
    /\ UNCHANGED <<filled, numSlices, gets, tasks, slicesBusy, connected, asked, toGetter,
                   serverSide>>

(* process of a completion: the thread waits for the slices to be counted, then
   satisfies the promise.                                                    *)
ProcessCompletion(c, p) ==
    /\ p \in completionsBusy[c] /\ counts[c][p] >= numSlices[c][p]
    /\ HandOver(c, p)

(* abortAll, and the connection is closed: promises get an exception. *)
GoAway(c) ==
     /\ connected[c]
     /\ connected' = [connected EXCEPT ![c] = FALSE]
     /\ promised' = [promised EXCEPT ![c] = {}]
     /\ tasks' = [tasks EXCEPT ![c] = <<>>]
     /\ slicesBusy' = [slicesBusy EXCEPT ![c] = [p \in Pos |-> 0]]
     /\ completionsBusy' = [completionsBusy EXCEPT ![c] = {}]
     /\ have' = [have EXCEPT ![c] = [p \in Pos |-> 0]]
     /\ toGetter' = [toGetter EXCEPT ![c] = <<>>] /\ asked' = [asked EXCEPT ![c] = <<>>]
     /\ UNCHANGED <<counts, filled, numSlices, gets, serverSide>>

-----------------------------------------------------------------------------
(* The server: the thread of a connection. *)

(* A chunk lives while a task or an observer has it. *)
Alive(o) ==
    \/ \E l \in loads : l.chunk = o /\ l.at \notin {"done", "failed"}
    \/ \E c \in Getter, p \in Pos : observed[c][p] = o

Cached(p) == IF cache[p] # Null /\ Alive(cache[p]) THEN cache[p] ELSE Null
BeingRead(p) == \E l \in loads : l.pos = p /\ l.at \in {"queued", "read"} /\ l.chunk = Null

Failed(c, p) == \E l \in loads : l.client = c /\ l.pos = p /\ l.at = "failed"

UnderWay(c, p) ==
    \E l \in loads : l.client = c /\ l.pos = p /\ l.at \notin {"done", "failed"}

NewLoad(c, p, n, o) ==
    [client |-> c, pos |-> p, number |-> n, at |-> "queued", chunk |-> o, left |-> 0]

(* handleGet: a position that is worked on is a duplicate; the cache knows the
   chunk or the task will read it.  Two tasks may be about to read the same.
   A future that is kept for the position is replaced, though its task may not
   have ended.                                                               *)
HandleGet(c, p) ==
    IF p \in dupes[c]
    THEN /\ refused' = [refused EXCEPT ![c] = @ \cup {p}]
         /\ UNCHANGED <<dupes, cache, loads, completions, lost, twice>>
    ELSE /\ dupes' = [dupes EXCEPT ![c] = @ \cup {p}]
         /\ cache' = [cache EXCEPT ![p] = Cached(p)]
         /\ loads' = loads \cup {NewLoad(c, p, gets[c][p], Cached(p))}
         /\ completions' = Cell(completions, c, p, gets[c][p])
         /\ twice' = (IF Cached(p) = Null /\ BeingRead(p) THEN twice \cup {p} ELSE twice)
         /\ lost' = [lost EXCEPT ![c] = @ \/ UnderWay(c, p)]
         /\ UNCHANGED refused

Handle(c) ==
    /\ ~down /\ connected[c] /\ asked[c] # <<>>
    /\ asked' = [asked EXCEPT ![c] = Tail(@)]
    /\ LET m == Head(asked[c]) IN
         IF m.type = "get"
         THEN HandleGet(c, m.pos) /\ UNCHANGED observed
         ELSE /\ observed' = Cell(observed, c, m.pos, Null)
              /\ UNCHANGED <<dupes, cache, loads, completions, lost, twice, refused>>
    /\ UNCHANGED <<clientSide, connected, toGetter, handler, objects, down>>

(* ~ChunkLoader: the lock is taken and every future waited for with it; a task
   that threw throws again here, which ends the server.                      *)
DestroyHandler(c) ==
    /\ ~down /\ ~connected[c] /\ handler[c] = "up"
    /\ handler' = [handler EXCEPT ![c] = "locked"]
    /\ UNCHANGED <<clientSide, connected, asked, toGetter, dupes, completions, loads, cache,
                   observed, objects, down, refused, lost, twice>>

Kept(c) == {l \in loads : l.client = c /\ completions[c][l.pos] = l.number}

(* Mutant: the futures are not waited for. *)
HandlerGoneAtOnce(c) ==
    /\ ~down /\ handler[c] = "locked"
    /\ handler' = [handler EXCEPT ![c] = "freed"]
    /\ observed' = [observed EXCEPT ![c] = [p \in Pos |-> Null]]
    /\ UNCHANGED <<clientSide, connected, asked, toGetter, dupes, completions, loads, cache,
                   objects, down, refused, lost, twice>>

HandlerGone(c) ==
    /\ ~down /\ handler[c] = "locked" /\ \A l \in Kept(c) : l.at \in {"done", "failed"}
    /\ IF \E l \in Kept(c) : l.at = "failed"
       THEN down' = TRUE /\ UNCHANGED <<handler, observed>>
       ELSE /\ handler' = [handler EXCEPT ![c] = "freed"]
            /\ observed' = [observed EXCEPT ![c] = [p \in Pos |-> Null]]
            /\ UNCHANGED down
    /\ UNCHANGED <<clientSide, connected, asked, toGetter, dupes, completions, loads, cache,
                   objects, refused, lost, twice>>

-----------------------------------------------------------------------------
(* The server: a thread of the pool. *)

Running == {l \in loads : l.at \notin {"queued", "done", "failed"}}
FreeThread == Cardinality(Running) < Serializers

Becomes(l, new) == loads' = (loads \ {l}) \cup {new}
At(l, step) == [l EXCEPT !.at = step]

(* sendSlices: a task for each slice, none if the client has gone. *)
Sending(l) ==
    IF connected[l.client] THEN [At(l, "wait") EXCEPT !.left = Slices[l.pos]] ELSE At(l, "done")

Begin(l) ==
    /\ ~down /\ l.at = "queued" /\ FreeThread
    /\ Becomes(l, IF connected[l.client] /\ l.chunk = Null THEN At(l, "read") ELSE Sending(l))
    /\ UNCHANGED <<clientSide, connected, asked, toGetter, dupes, completions, handler,
                   cache, observed, objects, down, refused, lost, twice>>

(* The world makes a chunk, which replaces what the cache has, or throws; the
   position stays among those that are worked on.                            *)
Read(l) ==
    /\ ~down /\ l.at = "read"
    /\ \/ Becomes(l, At(l, "failed")) /\ UNCHANGED <<objects, cache>>
       \/ /\ objects' = objects + 1 /\ cache' = [cache EXCEPT ![l.pos] = objects']
          /\ Becomes(l, [Sending(l) EXCEPT !.chunk = objects'])
    /\ UNCHANGED <<clientSide, connected, asked, toGetter, dupes, completions, handler,
                   observed, down, refused, lost, twice>>

(* sendSlice, which needs a thread of its own. *)
SendSlice(l) ==
    /\ ~down /\ l.at = "wait" /\ l.left > 0 /\ FreeThread
    /\ Becomes(l, [l EXCEPT !.left = @ - 1])
    /\ toGetter' = IF connected[l.client] THEN Sent(toGetter, l.client, Part("slice", l.pos))
                   ELSE toGetter
    /\ UNCHANGED <<clientSide, connected, asked, dupes, completions, handler, cache,
                   observed, objects, down, refused, lost, twice>>

(* sendCompletion: first the message. *)
SendCompletion(l) ==
    /\ ~down /\ l.at = "wait" /\ l.left = 0
    /\ IF connected[l.client]
       THEN /\ toGetter' = Sent(toGetter, l.client, Part("completion", l.pos))
            /\ Becomes(l, At(l, "observe"))
       ELSE Becomes(l, At(l, "done")) /\ UNCHANGED toGetter
    /\ UNCHANGED <<clientSide, connected, asked, dupes, completions, handler, cache,
                   observed, objects, down, refused, lost, twice>>

(* Then the observer, and the position is no longer worked on. *)
AddChunkObserver(l) ==
    /\ ~down /\ l.at = "observe"
    /\ observed' = (IF handler[l.client] = "freed" THEN observed
                    ELSE Cell(observed, l.client, l.pos, l.chunk))
    /\ dupes' = [dupes EXCEPT ![l.client] = @ \ {l.pos}]
    /\ Becomes(l, At(l, "erase"))
    /\ UNCHANGED <<clientSide, connected, asked, toGetter, completions, handler,
                   cache, objects, down, refused, lost, twice>>

(* The future is forgotten, whichever task it is of, with the lock that the
   destructor holds.                                                         *)
Erase(l) ==
    /\ ~down /\ l.at = "erase" /\ handler[l.client] # "locked"
    /\ completions' = Cell(completions, l.client, l.pos, Null)
    /\ loads' = loads \ {l}
    /\ UNCHANGED <<clientSide, connected, asked, toGetter, dupes, handler, cache, observed,
                   objects, down, refused, lost, twice>>

LoadStep(l) ==
    \/ Begin(l) \/ Read(l) \/ SendSlice(l) \/ SendCompletion(l) \/ AddChunkObserver(l) \/ Erase(l)

ClientPool(c) ==
    \/ Accept(c) \/ TakeTask(c)
    \/ \E p \in Pos : ProcessSlice(c, p) \/ ProcessCompletion(c, p)

ConnectionThread(c) == Handle(c) \/ DestroyHandler(c) \/ HandlerGone(c)

TransferNext ==
    \/ \E c \in Getter :
         \/ ClientPool(c) \/ GoAway(c) \/ ConnectionThread(c)
         \/ \E p \in Pos : Get(c, p) \/ Unload(c, p)
    \/ \E l \in loads : LoadStep(l)

(* Threads run: those of both pools and that of each connection.  The work is
   finite, so that none of it is left out for ever.                          *)
TransferFairness ==
    /\ \A c \in Getter : WF_transferVars(ConnectionThread(c)) /\ WF_transferVars(ClientPool(c))
    /\ WF_transferVars(\E l \in loads : LoadStep(l))

TransferSpec == TransferInit /\ [][TransferNext]_transferVars /\ TransferFairness

-----------------------------------------------------------------------------
(* A chunk is handed over with every slice that the server has of it, though
   the threads of the pool work at its slices and its completion at once and
   its position may have been asked for before.                              *)
WholeChunksOnly ==
    \A c \in Getter, p \in Pos : have[c][p] > 0 => have[c][p] = 1 + Slices[p]

(* No task uses a handler that was destroyed, unless the future of a task was
   replaced before it ended.                                                 *)
NoTaskOutlivesHandler ==
    \A c \in Getter : handler[c] = "freed" /\ ~lost[c] =>
        \A l \in loads : l.client = c => l.at \in {"done", "failed"}

(* Clients that observe a position observe the same chunk object, so that each
   gets the changes of the others, unless two tasks read it at once.         *)
OneObject ==
    \A p \in Pos \ twice :
        Cardinality({observed[c][p] : c \in Getter} \ {Null}) <= 1

(* A client that asked for a chunk gets it.  Not so, in this code, if the chunk
   cannot be read, if the server still held the position for a duplicate, or
   if all threads of its pool are at chunks whose slices wait for a thread.  *)
ChunksArrive ==
    \A c \in Getter, p \in Pos :
        []<>(p \in promised[c] => p \in refused[c] \/ Failed(c, p) \/ down)

(* Refuted: the destructor "Waits for all pending completions."  It returns. *)
CompletionsAreWaitedFor == \A c \in Getter : handler[c] = "locked" ~> handler[c] # "locked" \/ down

(* Refuted: a client that does not leave gets its chunks with any number of threads. *)
NoPoolDeadlock ==
    ~ /\ Cardinality(Running) = Serializers
      /\ \A l \in Running : l.at = "wait" /\ l.left > 0

(* Tasks of both pools and the objects they use fit together while clients
   come and go. *)
TransferInv ==
    TransferTypeOK /\ WholeChunksOnly /\ NoTaskOutlivesHandler /\ OneObject
=============================================================================
