------------------------------ MODULE ChunkSync ------------------------------
(***************************************************************************)
(* One chunk of a multiplayer world, at the server and at its clients: a   *)
(* client gets a snapshot of the chunk in slices, from then on the changes *)
(* of the other clients, and reports its own.                              *)
(*                                                                         *)
(* Server: a thread for each client, which handles its packets in order,   *)
(* and a pool that sends the slices (server/net/handlers/Chunk.cpp,        *)
(* BlockChange.cpp).  Client: the thread of the connection, a pool that    *)
(* unpacks slices, and the game's threads (src/net/handlers, RemoteSource, *)
(* render/scene/ChunkLoader).  A slice has one block here.  A connection   *)
(* is a queue in each direction.                                           *)
(***************************************************************************)
EXTENDS Naturals, Sequences, SequencesExt

CONSTANTS
    Client,
    Slice,
    Editors,        \* the clients that change the block of a slice
    MaxEdits,       \* bound: changes in all; each has its number as the value
    MaxGets,        \* bound: loads of the chunk by each client
    None

Value == 0..MaxEdits

ASSUME ChunkSyncAssumption ==
    /\ MaxEdits \in Nat /\ MaxGets \in Nat
    /\ Editors \in [Slice -> SUBSET Client]
    /\ None \notin Value

VARIABLES
    (* the server *)
    block,          \* the chunk
    observers,      \* clients whose BlockChange::chunks has it
    dupes,          \* clients with a request under way
    send,           \* by client, the step of the job that sends the chunk
    toRead,         \* and the slices whose blocks it has yet to read
    toWrite,        \* and those it has read, with their values
    change,         \* by client, the change its thread has made and not told
    (* the connections *)
    up, down,       \* by client, packets to and from the server
    ended,          \* by client, why the connection was closed, or None
    (* the clients *)
    loader,         \* out, loading or loaded
    parts,          \* slices of the chunk that is loaded
    pool,           \* packets for the pool to unpack: slices, completion
    mem,            \* the loaded chunk
    registered,     \* the client's BlockChange::chunks has it
    stale,          \* an unloaded chunk object waits to be deregistered
    net,            \* what the connection's thread is at: idle, begin, end
    delta,          \* and with which packet
    inhibit,        \* inhibitChangeReports
    (* history *)
    edits, gets,    \* changes made, loads begun
    suppressed      \* slices with a change of the client that it did not report

server == <<block, observers, dupes, send, toRead, toWrite, change>>
game == <<loader, parts, pool, mem, registered, stale>>
applying == <<net, delta, inhibit>>
history == <<edits, gets, suppressed>>
vars == <<server, up, down, ended, game, applying, history>>

Packet == [type : {"slice", "delta", "report"}, s : Slice, v : Value]
            \cup [type : {"done", "get", "stop"}, s : {None}, v : {None}]
Delta == {p \in Packet : p.type = "delta"}
Msg(t, s, v) == [type |-> t, s |-> s, v |-> v]

Reason == {"delta for a chunk that is not loaded",
           "report for a chunk that is not observed"}

ASSUME NoneAssumption == None \notin Reason \cup (Slice \X Value)

TypeOK ==
    /\ block \in [Slice -> Value]
    /\ observers \subseteq Client /\ dupes \subseteq Client
    /\ send \in [Client -> {"idle", "slices", "observe", "erase"}]
    /\ toRead \in [Client -> SUBSET Slice]
    /\ toWrite \in [Client -> SUBSET (Slice \X Value)]
    /\ change \in [Client -> {None} \cup (Slice \X Value)]
    /\ up \in [Client -> Seq(Packet)] /\ down \in [Client -> Seq(Packet)]
    /\ ended \in [Client -> Reason \cup {None}]
    /\ loader \in [Client -> {"out", "loading", "loaded"}]
    /\ parts \in [Client -> [Slice -> Value \cup {None}]]
    /\ pool \in [Client -> SUBSET Packet]
    /\ mem \in [Client -> [Slice -> Value \cup {None}]]
    /\ registered \subseteq Client /\ stale \subseteq Client
    /\ net \in [Client -> {"idle", "begin", "end"}]
    /\ delta \in [Client -> Delta \cup {None}]
    /\ inhibit \subseteq Client
    /\ \A c \in Client : /\ net[c] = "idle" <=> c \notin inhibit
                         /\ net[c] # "idle" => delta[c] \in Delta
    /\ edits \in 0..MaxEdits
    /\ gets \in [Client -> 0..MaxGets]
    /\ suppressed \in [Client -> SUBSET Slice]

NoParts == [s \in Slice |-> None]

Init ==
    /\ block = [s \in Slice |-> 0]
    /\ observers = {} /\ dupes = {}
    /\ send = [c \in Client |-> "idle"]
    /\ toRead = [c \in Client |-> {}]
    /\ toWrite = [c \in Client |-> {}]
    /\ change = [c \in Client |-> None]
    /\ up = [c \in Client |-> <<>>]
    /\ down = [c \in Client |-> <<>>]
    /\ ended = [c \in Client |-> None]
    /\ loader = [c \in Client |-> "out"]
    /\ parts = [c \in Client |-> NoParts]
    /\ pool = [c \in Client |-> {}]
    /\ mem = [c \in Client |-> NoParts]
    /\ registered = {} /\ stale = {}
    /\ net = [c \in Client |-> "idle"]
    /\ delta = [c \in Client |-> None]
    /\ inhibit = {}
    /\ edits = 0
    /\ gets = [c \in Client |-> 0]
    /\ suppressed = [c \in Client |-> {}]

Connected(c) == ended[c] = None

(* The thread of the connection, at either end, stops with an exception;   *)
(* packets on their way are lost.                                          *)
Close(c, why) ==
    /\ ended' = [ended EXCEPT ![c] = why]
    /\ up' = [up EXCEPT ![c] = <<>>]
    /\ down' = [down EXCEPT ![c] = <<>>]

-----------------------------------------------------------------------------
(* The client's game: ChunkLoader and RemoteSource *)

Get(c) ==
    /\ Connected(c)
    /\ loader[c] = "out"
    /\ gets[c] < MaxGets
    /\ loader' = [loader EXCEPT ![c] = "loading"]
    /\ parts' = [parts EXCEPT ![c] = NoParts]
    /\ up' = [up EXCEPT ![c] = Append(@, Msg("get", None, None))]
    /\ gets' = [gets EXCEPT ![c] = @ + 1]
    /\ suppressed' = [suppressed EXCEPT ![c] = {}]
    /\ UNCHANGED <<server, down, ended, pool, mem, registered, stale, applying,
                   edits>>

(* The player changes a block; the change callback of the chunk reports it *)
(* unless reports are inhibited.                                           *)
Edit(c, s) ==
    /\ Connected(c)
    /\ loader[c] = "loaded"
    /\ c \in Editors[s]
    /\ edits < MaxEdits
    /\ edits' = edits + 1
    /\ mem' = [mem EXCEPT ![c][s] = edits + 1]
    /\ IF c \in inhibit
       THEN /\ suppressed' = [suppressed EXCEPT ![c] = @ \cup {s}]
            /\ UNCHANGED up
       ELSE /\ up' = [up EXCEPT ![c] = Append(@, Msg("report", s, edits + 1))]
            /\ UNCHANGED suppressed
    /\ UNCHANGED <<server, down, ended, loader, parts, pool, registered, stale,
                   applying, gets>>

(* The chunk is out of range: it leaves the list of loaded chunks, and a   *)
(* work item will deregister it.  One such item at a time.                 *)
Prune(c) ==
    /\ Connected(c)
    /\ loader[c] = "loaded"
    /\ c \notin stale
    /\ loader' = [loader EXCEPT ![c] = "out"]
    /\ mem' = [mem EXCEPT ![c] = NoParts]
    /\ stale' = stale \cup {c}
    /\ UNCHANGED <<server, up, down, ended, parts, pool, registered, applying,
                   history>>

(* stopChunkNotifications, which goes by the position of the chunk *)
Deregister(c) ==
    /\ Connected(c)
    /\ c \in stale
    /\ stale' = stale \ {c}
    /\ registered' = registered \ {c}
    /\ up' = [up EXCEPT ![c] = Append(@, Msg("stop", None, None))]
    /\ UNCHANGED <<server, down, ended, loader, parts, pool, mem, applying,
                   history>>

-----------------------------------------------------------------------------
(* The client's connection *)

(* Slices and the completion are for the pool; a delta is applied here. *)
Receive(c) ==
    /\ Connected(c)
    /\ net[c] = "idle"
    /\ down[c] # <<>>
    /\ down' = [down EXCEPT ![c] = Tail(@)]
    /\ \/ /\ Head(down[c]).type \in {"slice", "done"}
          /\ pool' = [pool EXCEPT ![c] = @ \cup {Head(down[c])}]
          /\ UNCHANGED applying
       \/ /\ Head(down[c]).type = "delta"
          /\ net' = [net EXCEPT ![c] = "begin"]
          /\ delta' = [delta EXCEPT ![c] = Head(down[c])]
          /\ inhibit' = inhibit \cup {c}
          /\ UNCHANGED pool
    /\ UNCHANGED <<server, up, ended, loader, parts, mem, registered, stale,
                   history>>

(* updateChunks: the chunk is looked up by its position, which throws if   *)
(* it is not there.  A chunk that was pruned is changed to no effect.      *)
ApplyDelta(c) ==
    /\ Connected(c)
    /\ net[c] = "begin"
    /\ IF c \notin registered
       THEN /\ Close(c, "delta for a chunk that is not loaded")
            /\ UNCHANGED <<mem, net>>
       ELSE /\ mem' = [mem EXCEPT ![c][delta[c].s] =
                          IF loader[c] = "loaded" THEN delta[c].v ELSE @]
            /\ net' = [net EXCEPT ![c] = "end"]
            /\ UNCHANGED <<up, down, ended>>
    /\ UNCHANGED <<server, loader, parts, pool, registered, stale, delta,
                   inhibit, history>>

(* Mutant: the flag stays set. *)
EndDeltaInhibited(c) ==
    /\ Connected(c)
    /\ net[c] = "end"
    /\ net' = [net EXCEPT ![c] = "idle"]
    /\ delta' = [delta EXCEPT ![c] = None]
    /\ UNCHANGED <<server, up, down, ended, game, inhibit, history>>

EndDelta(c) ==
    /\ Connected(c)
    /\ net[c] = "end"
    /\ net' = [net EXCEPT ![c] = "idle"]
    /\ delta' = [delta EXCEPT ![c] = None]
    /\ inhibit' = inhibit \ {c}
    /\ UNCHANGED <<server, up, down, ended, game, history>>

-----------------------------------------------------------------------------
(* The client's pool *)

UnpackSlice(c) ==
    /\ Connected(c)
    /\ loader[c] = "loading"
    /\ \E m \in pool[c] :
          /\ m.type = "slice"
          /\ parts' = [parts EXCEPT ![c][m.s] = m.v]
          /\ pool' = [pool EXCEPT ![c] = @ \ {m}]
    /\ UNCHANGED <<server, up, down, ended, loader, mem, registered, stale,
                   applying, history>>

(* Mutant: the completion does not wait for the slices. *)
FinishAtOnce(c) ==
    /\ Connected(c)
    /\ loader[c] = "loading"
    /\ \E m \in pool[c] :
          /\ m.type = "done"
          /\ pool' = [pool EXCEPT ![c] = @ \ {m}]
    /\ loader' = [loader EXCEPT ![c] = "loaded"]
    /\ mem' = [mem EXCEPT ![c] = parts[c]]
    /\ parts' = [parts EXCEPT ![c] = NoParts]
    /\ registered' = registered \cup {c}
    /\ UNCHANGED <<server, up, down, ended, stale, applying, history>>

(* The completion waits until all slices are counted, registers the chunk  *)
(* and gives it to the game.                                               *)
Finish(c) ==
    /\ Connected(c)
    /\ loader[c] = "loading"
    /\ \A s \in Slice : parts[c][s] # None
    /\ \E m \in pool[c] :
          /\ m.type = "done"
          /\ pool' = [pool EXCEPT ![c] = @ \ {m}]
    /\ loader' = [loader EXCEPT ![c] = "loaded"]
    /\ mem' = [mem EXCEPT ![c] = parts[c]]
    /\ parts' = [parts EXCEPT ![c] = NoParts]
    /\ registered' = registered \cup {c}
    /\ UNCHANGED <<server, up, down, ended, stale, applying, history>>

-----------------------------------------------------------------------------
(* The server's thread for a client *)

Arrives(c, type) ==
    /\ Connected(c)
    /\ change[c] = None
    /\ up[c] # <<>>
    /\ Head(up[c]).type = type

(* handleGet: a request while one is under way is ignored. *)
HandleGet(c) ==
    /\ Arrives(c, "get")
    /\ up' = [up EXCEPT ![c] = Tail(@)]
    /\ IF c \in dupes
       THEN UNCHANGED <<dupes, send, toRead>>
       ELSE /\ dupes' = dupes \cup {c}
            /\ send' = [send EXCEPT ![c] = "slices"]
            /\ toRead' = [toRead EXCEPT ![c] = Slice]
    /\ UNCHANGED <<block, observers, toWrite, change, down, ended, game,
                   applying, history>>

(* removeObserver *)
HandleStop(c) ==
    /\ Arrives(c, "stop")
    /\ up' = [up EXCEPT ![c] = Tail(@)]
    /\ observers' = observers \ {c}
    /\ UNCHANGED <<block, dupes, send, toRead, toWrite, change, down, ended,
                   game, applying, history>>

(* handleChange: the block is set ... *)
HandleReport(c) ==
    /\ Arrives(c, "report")
    /\ IF c \notin observers
       THEN /\ Close(c, "report for a chunk that is not observed")
            /\ UNCHANGED <<block, change>>
       ELSE /\ block' = [block EXCEPT ![Head(up[c]).s] = Head(up[c]).v]
            /\ change' = [change EXCEPT ![c] = <<Head(up[c]).s, Head(up[c]).v>>]
            /\ up' = [up EXCEPT ![c] = Tail(@)]
            /\ UNCHANGED <<down, ended>>
    /\ UNCHANGED <<observers, dupes, send, toRead, toWrite, game, applying,
                   history>>

(* Mutant: only clients that observe the chunk are told. *)
BroadcastToObservers(c) ==
    /\ change[c] # None
    /\ down' = [d \in Client |->
                  IF d = c \/ ~Connected(d) \/ d \notin observers THEN down[d]
                  ELSE Append(down[d], Msg("delta", change[c][1], change[c][2]))]
    /\ change' = [change EXCEPT ![c] = None]
    /\ UNCHANGED <<block, observers, dupes, send, toRead, toWrite, up, ended,
                   game, applying, history>>

(* ... and all other clients are told, whether or not they have the chunk; *)
(* one broadcast at a time.                                                *)
Broadcast(c) ==
    /\ change[c] # None
    /\ down' = [d \in Client |->
                  IF d = c \/ ~Connected(d) THEN down[d]
                  ELSE Append(down[d], Msg("delta", change[c][1], change[c][2]))]
    /\ change' = [change EXCEPT ![c] = None]
    /\ UNCHANGED <<block, observers, dupes, send, toRead, toWrite, up, ended,
                   game, applying, history>>

-----------------------------------------------------------------------------
(* The server's pool: sendSlices *)

(* The slices are read by several tasks, while the blocks may change ... *)
ReadSlice(c, s) ==
    /\ Connected(c)
    /\ s \in toRead[c]
    /\ toRead' = [toRead EXCEPT ![c] = @ \ {s}]
    /\ toWrite' = [toWrite EXCEPT ![c] = @ \cup {<<s, block[s]>>}]
    /\ UNCHANGED <<block, observers, dupes, send, change, up, down, ended, game,
                   applying, history>>

(* ... and each is sent when it is packed. *)
WriteSlice(c) ==
    /\ Connected(c)
    /\ \E w \in toWrite[c] :
          /\ toWrite' = [toWrite EXCEPT ![c] = @ \ {w}]
          /\ down' = [down EXCEPT ![c] = Append(@, Msg("slice", w[1], w[2]))]
    /\ UNCHANGED <<block, observers, dupes, send, toRead, change, up, ended,
                   game, applying, history>>

(* sendCompletion: the packet, the registration for changes, and the end   *)
(* of the request.                                                         *)
SendCompletion(c) ==
    /\ Connected(c)
    /\ \/ /\ send[c] = "slices"
          /\ toRead[c] = {} /\ toWrite[c] = {}
          /\ send' = [send EXCEPT ![c] = "observe"]
          /\ down' = [down EXCEPT ![c] = Append(@, Msg("done", None, None))]
          /\ UNCHANGED <<observers, dupes>>
       \/ /\ send[c] = "observe"
          /\ send' = [send EXCEPT ![c] = "erase"]
          /\ observers' = observers \cup {c}
          /\ UNCHANGED <<dupes, down>>
       \/ /\ send[c] = "erase"
          /\ send' = [send EXCEPT ![c] = "idle"]
          /\ dupes' = dupes \ {c}
          /\ UNCHANGED <<observers, down>>
    /\ UNCHANGED <<block, toRead, toWrite, change, up, ended, game, applying,
                   history>>

-----------------------------------------------------------------------------
Next ==
    \E c \in Client :
        \/ Get(c)
        \/ \E s \in Slice : Edit(c, s)
        \/ Prune(c)
        \/ Deregister(c)
        \/ Receive(c)
        \/ ApplyDelta(c)
        \/ EndDelta(c)
        \/ UnpackSlice(c)
        \/ Finish(c)
        \/ HandleGet(c)
        \/ HandleStop(c)
        \/ HandleReport(c)
        \/ Broadcast(c)
        \/ \E s \in Slice : ReadSlice(c, s)
        \/ WriteSlice(c)
        \/ SendCompletion(c)

Spec == Init /\ [][Next]_vars

-----------------------------------------------------------------------------
(* Properties *)

Playing(c) == Connected(c) /\ loader[c] = "loaded"

(* The values of slice s in the packets of a queue, and the last of them,  *)
(* or v if there is none.                                                  *)
LastOf(queue, type, s, v) ==
    LET at == {i \in DOMAIN queue : queue[i].type = type /\ queue[i].s = s}
    IN IF at = {} THEN v
       ELSE queue[CHOOSE i \in at : \A j \in at : j <= i].v

(* What a client's block will be when all it has been sent is applied. *)
Heard(c, s) ==
    LastOf(down[c], "delta", s,
           IF net[c] = "begin" /\ delta[c].s = s THEN delta[c].v ELSE mem[c][s])

(* What the server's block will be when all the client sent is handled. *)
Told(c, s) == LastOf(up[c], "report", s, block[s])

(* A player who only looks on sees the server's blocks: whatever the order *)
(* in which the snapshot was read, packed, sent and unpacked among the     *)
(* changes, the client has what the server has or is about to hear of it.  *)
(* The block has at most one editor, and the client has the chunk for the  *)
(* first time (for the second, see PlayersAgree).                          *)
OnlookersAgree ==
    \A c \in Client, s \in Slice :
        /\ Playing(c) /\ gets[c] = 1
        /\ c \notin Editors[s]
        /\ \A d, e \in Editors[s] : d = e
        /\ \A d \in Client : change[d] = None \/ change[d][1] # s
        => Heard(c, s) = block[s]

(* A player has its own last change in the chunk as long as nobody else    *)
(* changes that block, over unloading and loading the chunk too, as the    *)
(* server has handled all reports before it reads the chunk again.         *)
(* Changes that were never reported are left out (EditsReported).          *)
OwnEditsStay ==
    \A c \in Client, s \in Slice :
        Playing(c) /\ Editors[s] = {c} /\ s \notin suppressed[c]
        => mem[c][s] = Told(c, s)

(* Who changes a block and who looks on see the change, once each.         *)
EditsAreSeen == OnlookersAgree /\ OwnEditsStay

(* The game never gets a chunk that lacks a slice, although the pool may   *)
(* unpack the slices after it has seen the completion.                     *)
LoadedIsWhole ==
    \A c \in Client : loader[c] = "loaded" =>
        \A s \in Slice : mem[c][s] # None

(* When no packet is on its way, and nothing is being handled, ...         *)
Quiet ==
    \A c \in Client :
        /\ up[c] = <<>> /\ down[c] = <<>> /\ pool[c] = {}
        /\ net[c] = "idle" /\ change[c] = None /\ send[c] = "idle"

(* ... players see the server's chunk: the snapshot and the changes after  *)
(* it make the chunk as it is ("delta updates for any changed blocks").    *)
PlayersAgree ==
    Quiet => \A c \in Client : Playing(c) /\ suppressed[c] = {} =>
                mem[c] = block

(* A change that is broadcast does not end the connection of a client.     *)
DeltasApply ==
    \A c \in Client : ended[c] # "delta for a chunk that is not loaded"

-----------------------------------------------------------------------------
(* More that the protocol should promise and does not: TLC refutes each,   *)
(* with the bounds that the README gives.                                  *)

(* A client that has been given the chunk may change it.                   *)
ReportsAccepted ==
    \A c \in Client : ended[c] # "report for a chunk that is not observed"

(* Only changes that come from the server are not reported to it.          *)
EditsReported == \A c \in Client : suppressed[c] = {}

(* A request is ignored only if another one will be answered.              *)
GetsAnswered ==
    Quiet => \A c \in Client : Connected(c) => loader[c] # "loading"

(* A chunk that is loaded gets the changes: deregistering a chunk object   *)
(* is for that object.                                                     *)
LoadedHearsChanges ==
    \A c \in Client : Playing(c) /\ c \notin stale => c \in registered
=============================================================================
