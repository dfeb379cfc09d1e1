------------------------------ MODULE Movement ------------------------------
(***************************************************************************)
(* Where a player is, at the client and at the server: positions are sent  *)
(* when they have changed enough (src/world/RemoteSource.cpp), accepted by *)
(* their epoch, saved by the listener's saver, and told to other players   *)
(* (server/net/handlers/PlayerMovement.cpp); a player who connects again   *)
(* gets what was saved.  Positions are points of a line.  Each connection  *)
(* has handler objects of its own, and the server may have those of the    *)
(* one before for some time.                                               *)
(***************************************************************************)
EXTENDS Naturals, Sequences

CONSTANTS
    Place,          \* positions, an interval of numbers
    Spawn,          \* getSpawnPosition
    Threshold,      \* kPositionThreshold
    Session,        \* the player's connections, 1..n one after the other
    EpochMod,       \* 2^32, the width of an epoch
    EpochDiff,      \* kEpochDiff
    MaxUpdates,     \* bound: updates that are sent
    MaxQueue,       \* bound: updates on their way
    Unset           \* no position

ASSUME MovementAssumption ==
    /\ Place \subseteq Nat /\ Spawn \in Place /\ Threshold \in Nat
    /\ EpochDiff \in Nat \ {0} /\ EpochMod \in Nat /\ EpochMod > EpochDiff
    /\ MaxUpdates \in Nat
    /\ Session \subseteq Nat \ {0} /\ Unset \notin Nat

VARIABLES
    (* the client *)
    session, at,            \* the connection, and where the camera is
    lastPos,                \* the position that was sent last; not initialised
    hasSent, nextEpoch,
    joining,                \* "auth": waits to be told where it is; "in"
    (* the connection *)
    updates,                \* packets to the server: place, epoch and number
    initial,                \* the initial position, on its way or Unset
    (* the server, by connection *)
    served,                 \* "none", "open", "gone", "deleted"
    position, lastEpoch, dirty, needsBroadcast,
    posVersion,             \* history: the number of the update that is stored
    lastRead,               \* history: the place in the packet handled last
    saverAt, toSave,        \* the handler the saver is at, with what it writes
    casting,                \* by connection, what its timer tells the others
    saved, savedVersion,    \* in the world file
    shown,                  \* by connection, what the others were told
    missed,                 \* history: updates between a read and its clear
    sent                    \* updates that were sent

clientSide == <<session, at, lastPos, hasSent, nextEpoch, joining, sent>>
handlerVars == <<served, position, lastEpoch, dirty, needsBroadcast, posVersion,
                 lastRead, missed>>
savingVars == <<saverAt, toSave, saved, savedVersion>>
castVars == <<casting, shown>>
wire == <<updates, initial>>
movementVars == <<clientSide, handlerVars, savingVars, castVars, wire>>

Update == [place : Place, epoch : 0..EpochMod - 1, n : 1..MaxUpdates]

MovementTypeOK ==
    /\ session \in Session \cup {0} /\ at \in Place /\ lastPos \in Place
    /\ hasSent \in BOOLEAN /\ nextEpoch \in 0..EpochMod - 1
    /\ joining \in {"auth", "in"}
    /\ updates \in Seq(Update) /\ initial \in Place \cup {Unset}
    /\ served \in [Session -> {"none", "open", "gone", "deleted"}]
    /\ position \in [Session -> Place \cup {Unset}]
    /\ lastEpoch \in [Session -> 0..EpochMod - 1]
    /\ dirty \in [Session -> BOOLEAN] /\ needsBroadcast \in [Session -> BOOLEAN]
    /\ posVersion \in [Session -> 0..MaxUpdates]
    /\ saverAt \in Session \cup {0} /\ saved \in Place \cup {Unset}
    /\ savedVersion \in 0..MaxUpdates

MovementInit ==
    /\ session = 0 /\ at = Spawn /\ lastPos \in Place
    /\ hasSent = FALSE /\ nextEpoch = 1 /\ joining = "in"
    /\ updates = <<>> /\ initial = Unset
    /\ served = [s \in Session |-> "none"]
    /\ position = [s \in Session |-> Unset]
    /\ lastEpoch = [s \in Session |-> 0]
    /\ dirty = [s \in Session |-> FALSE]
    /\ needsBroadcast = [s \in Session |-> FALSE]
    /\ posVersion = [s \in Session |-> 0]
    /\ lastRead = [s \in Session |-> Unset]
    /\ saverAt = 0 /\ toSave = <<Unset, 0>>
    /\ casting = [s \in Session |-> Unset]
    /\ saved = Unset /\ savedVersion = 0
    /\ shown = [s \in Session |-> Unset]
    /\ missed = {} /\ sent = 0

Apart(p, q) == IF p < q THEN q - p ELSE p - q
Connected == session # 0 /\ served[session] = "open"

-----------------------------------------------------------------------------
(* The client connects and is authenticated: PlayerMovement::authStateChanged
   loads what was saved, and sends it if there is anything.                  *)
Connect ==
    /\ ~Connected /\ session + 1 \in Session
    /\ session' = session + 1
    /\ served' = [served EXCEPT ![session + 1] = "open"]
    /\ position' = [position EXCEPT ![session + 1] = saved]
    /\ posVersion' = [posVersion EXCEPT ![session + 1] = savedVersion]
    /\ initial' = saved /\ updates' = <<>>
    /\ lastPos' \in Place /\ hasSent' = FALSE /\ nextEpoch' = 1
    /\ joining' = "auth" /\ missed' = {}
    /\ UNCHANGED <<at, sent, lastEpoch, dirty, needsBroadcast, lastRead,
                   savingVars, castVars>>

(* getInitialPosition, when the renderer is made: the spawn point is taken if
   the packet is not there yet.                                              *)
Enter ==
    /\ Connected /\ joining = "auth"
    /\ at' \in {Spawn} \cup ({initial} \ {Unset})
    /\ joining' = "in"
    /\ UNCHANGED <<session, lastPos, hasSent, nextEpoch, sent, handlerVars,
                   savingVars, castVars, wire>>

(* Mutant: each frame's position is taken for the one that was sent. *)
PlayerMovedBit ==
    /\ Connected /\ joining = "in"
    /\ sent < MaxUpdates /\ Len(updates) < MaxQueue
    /\ at' \in {p \in Place : Apart(p, at) <= 1}
    /\ lastPos' = at'
    /\ IF Apart(at', lastPos) <= Threshold
       THEN at' # at /\ UNCHANGED <<hasSent, nextEpoch, sent, updates>>
       ELSE /\ hasSent' = TRUE
            /\ sent' = sent + 1
            /\ updates' = Append(updates, [place |-> at', epoch |-> nextEpoch, n |-> sent'])
            /\ nextEpoch' = (nextEpoch + 1) % EpochMod
    /\ UNCHANGED <<session, joining, initial, handlerVars, savingVars, castVars>>

(* A frame: playerMoved tells the server of a change that is large enough.   *)
PlayerMoved ==
    /\ Connected /\ joining = "in"
    /\ sent < MaxUpdates /\ Len(updates) < MaxQueue
    /\ at' \in {p \in Place : Apart(p, at) <= 1}
    /\ IF Apart(at', lastPos) <= Threshold
       THEN at' # at /\ UNCHANGED <<lastPos, hasSent, nextEpoch, sent, updates>>
       ELSE /\ lastPos' = at' /\ hasSent' = TRUE
            /\ sent' = sent + 1
            /\ updates' = Append(updates, [place |-> at', epoch |-> nextEpoch, n |-> sent'])
            /\ nextEpoch' = (nextEpoch + 1) % EpochMod
    /\ UNCHANGED <<session, joining, initial, handlerVars, savingVars, castVars>>

(* The connection ends; what is on its way is lost.  Nothing is saved.       *)
Disconnect ==
    /\ Connected
    /\ served' = [served EXCEPT ![session] = "gone"]
    /\ updates' = <<>> /\ initial' = Unset
    /\ UNCHANGED <<position, lastEpoch, dirty, needsBroadcast, posVersion, lastRead,
                   missed, clientSide, savingVars, castVars>>

-----------------------------------------------------------------------------
(* The server. *)

TooOld(e, last) == e < last /\ last - e < EpochDiff

ClientPosChanged ==
    /\ Connected /\ updates # <<>>
    /\ LET u == Head(updates) IN
        /\ updates' = Tail(updates)
        /\ lastRead' = [lastRead EXCEPT ![session] = u.place]
        /\ IF TooOld(u.epoch, lastEpoch[session])
           THEN UNCHANGED <<position, lastEpoch, dirty, needsBroadcast, posVersion, missed>>
           ELSE /\ lastEpoch' = [lastEpoch EXCEPT ![session] = u.epoch]
                /\ position' = [position EXCEPT ![session] = u.place]
                /\ posVersion' = [posVersion EXCEPT ![session] = u.n]
                /\ dirty' = [dirty EXCEPT ![session] = TRUE]
                /\ needsBroadcast' = [needsBroadcast EXCEPT ![session] = TRUE]
                /\ missed' = (missed \ {"save", "cast"})
                        \cup (IF saverAt = session THEN {"save"} ELSE {})
                        \cup (IF casting[session] # Unset THEN {"cast"} ELSE {})
    /\ UNCHANGED <<served, initial, clientSide, savingVars, castVars>>

(* Mutant: in any order. *)
SavePositionOfAny(s) ==
    /\ saverAt = 0 /\ served[s] \in {"open", "gone"} /\ dirty[s]
    /\ saverAt' = s /\ toSave' = <<position[s], posVersion[s]>>
    /\ UNCHANGED <<saved, savedVersion, clientSide, handlerVars, castVars, wire>>

(* The saver goes through the handlers in the order of the list, which is the
   one of the connections, with clientLock held.                             *)
SavePosition(s) ==
    /\ saverAt = 0 /\ served[s] \in {"open", "gone"} /\ dirty[s]
    /\ \A t \in Session : t < s /\ served[t] \in {"open", "gone"} => ~dirty[t]
    /\ saverAt' = s /\ toSave' = <<position[s], posVersion[s]>>
    /\ UNCHANGED <<saved, savedVersion, clientSide, handlerVars, castVars, wire>>

PositionSaved ==
    /\ saverAt # 0
    /\ saved' = toSave[1] /\ savedVersion' = toSave[2]
    /\ dirty' = [dirty EXCEPT ![saverAt] = FALSE]
    /\ saverAt' = 0 /\ toSave' = <<Unset, 0>>
    /\ UNCHANGED <<served, position, lastEpoch, needsBroadcast, posVersion, lastRead,
                   missed, clientSide, castVars, wire>>

BroadcastPosition(s) ==
    /\ served[s] \in {"open", "gone"} /\ needsBroadcast[s] /\ casting[s] = Unset
    /\ casting' = [casting EXCEPT ![s] = position[s]]
    /\ UNCHANGED <<shown, clientSide, handlerVars, savingVars, wire>>

(* forEach needs the lock. *)
PositionBroadcast(s) ==
    /\ casting[s] # Unset /\ saverAt = 0
    /\ shown' = [shown EXCEPT ![s] = casting[s]]
    /\ casting' = [casting EXCEPT ![s] = Unset]
    /\ needsBroadcast' = [needsBroadcast EXCEPT ![s] = FALSE]
    /\ UNCHANGED <<served, position, lastEpoch, dirty, posVersion, lastRead, missed,
                   clientSide, savingVars, wire>>

(* The deleting thread: ~PlayerMovement removes the timer, and saves nothing. *)
DeleteHandler(s) ==
    /\ served[s] = "gone" /\ saverAt = 0 /\ casting[s] = Unset
    /\ served' = [served EXCEPT ![s] = "deleted"]
    /\ UNCHANGED <<position, lastEpoch, dirty, needsBroadcast, posVersion, lastRead,
                   missed, clientSide, savingVars, castVars, wire>>

MovementNext ==
    \/ Connect \/ Enter \/ PlayerMoved \/ Disconnect \/ ClientPosChanged \/ PositionSaved
    \/ \E s \in Session : \/ SavePosition(s) \/ BroadcastPosition(s)
                          \/ PositionBroadcast(s) \/ DeleteHandler(s)

MovementSpec == MovementInit /\ [][MovementNext]_movementVars

-----------------------------------------------------------------------------
(* Epochs only refuse what is out of order, which a connection never is: the
   handler has what the last packet said, past the overflow of the epoch too
   (PlayerMovement.cpp:90). *)
NoUpdateRefused ==
    \A s \in Session : lastRead[s] # Unset => position[s] = lastRead[s]

(* While two connections of a player are saved, one of them left behind, the
   file never goes back to an older position. *)
SavedNeverOlder == [][savedVersion' >= savedVersion]_movementVars

(* When all packets are handled, the server has the player within the threshold
   of where the camera is, however the way there was cut into small steps. *)
ServerIsClose ==
    Connected /\ hasSent /\ updates = <<>> => Apart(position[session], at) <= Threshold

(* When saver and timer are at rest, the file has the position and the others
   were told, but for an update that came while either was at it: the flag is
   cleared after the write (PlayerMovement.cpp:135 and 213). *)
RestMeansTold ==
    Connected /\ lastRead[session] # Unset =>
        /\ saverAt = 0 /\ ~dirty[session] =>
                saved = position[session] \/ "save" \in missed
        /\ casting[session] = Unset /\ ~needsBroadcast[session] =>
                shown[session] = position[session] \/ "cast" \in missed

(* The server, the file and the other players have the position of a player. *)
MovementInv ==
    MovementTypeOK /\ ServerIsClose /\ NoUpdateRefused /\ RestMeansTold
=============================================================================
