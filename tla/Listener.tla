------------------------------- MODULE Listener -------------------------------
(***************************************************************************)
(* The server's connections (server/net/Listener.cpp, ListenerClient.cpp), *)
(* and the clock that runs while there are any (world/time/Clock.cpp,      *)
(* handlers/Time.cpp).  Threads: one accepts, one saves the clients' data, *)
(* one deletes the clients that are gone, each client has one, and "main"  *)
(* closes all.  clientLock guards the list of clients.                     *)
(***************************************************************************)
EXTENDS Naturals, FiniteSets

CONSTANTS
    Conn,           \* the connections that are made, one client object each
    PipeRoom,       \* packets that fit in a client's notification pipe
    MaxCasts,       \* bound: changes that clients report, and others are told
    MaxTime,        \* bound: steps of the clock
    None

ASSUME ListenerAssumption ==
    /\ PipeRoom \in Nat \ {0} /\ MaxCasts \in Nat /\ MaxTime \in Nat
    /\ None \notin Conn \cup {"saver", "murderer", "main", "resumed a running clock",
                         "stopped a stopped clock", "used a deleted clock"}
    /\ IsFiniteSet(Conn) /\ Conn \cap {"saver", "murderer", "main"} = {}

VARIABLES
    clients,                \* the list
    clientLock,             \* the thread that holds it, or None
    clientsToMurder,        \* clients to delete, and None, which wakes the thread
    workerRun, listening,   \* the flag of the listener's threads, the socket
    accepting, newClient,   \* the accept thread's step, the client it makes
    saver, saving,          \* the saver's step, the clients it has yet to save
    murderer, victim,       \* the deleting thread's step, and its client
    closing,                \* main's
    dying, dyingStep,       \* the client that is destroyed, under the lock
    life,                   \* "none", "made" or "freed"
    thread, casts,          \* a client's thread, the clients it has yet to tell
    clientRun, pipe,        \* by client: its workerRun, packets in its pipe
    numConnectedClients, isPaused, time, savedTime,     \* Time and Clock
    told,                   \* changes that were reported
    forgotten,              \* clients that were to be deleted and not listed
    fault                   \* why the process was aborted, or None

listenerVars == <<clients, clientLock, clientsToMurder, workerRun, listening,
    accepting, newClient, saver, saving, murderer, victim, closing, dying, dyingStep,
    life, thread, casts, clientRun, pipe, numConnectedClients, isPaused, time,
    savedTime, told, forgotten, fault>>
clockVars == <<numConnectedClients, isPaused, time, savedTime, fault>>
clientVars == <<life, thread, casts, clientRun, pipe, told>>
listVars == <<clients, clientsToMurder, forgotten>>
loops == <<accepting, newClient, saver, saving, murderer, victim, closing,
    dying, dyingStep, workerRun, listening>>

ListenerTypeOK ==
    /\ clients \subseteq Conn
    /\ clientLock \in Conn \cup {"saver", "murderer", "main", None}
    /\ clientsToMurder \subseteq Conn \cup {None}
    /\ workerRun \in BOOLEAN /\ listening \in BOOLEAN
    /\ accepting \in {"check", "accept", "count", "resume", "push", "done"}
    /\ newClient \in Conn \cup {None}
    /\ saver \in {"check", "lock", "save", "sleep", "done"}
    /\ saving \subseteq Conn
    /\ murderer \in {"check", "wait", "lock", "erase", "done"}
    /\ victim \in Conn \cup {None}
    /\ closing \in {"serving", "saver", "wake", "clear", "clearing", "socket",
                    "accept", "murderer", "clock", "members", "done"}
    /\ dying \in Conn \cup {None}
    /\ dyingStep \in {"wake", "join", "count", "stop", "save", "none"}
    /\ life \in [Conn -> {"none", "made", "freed"}]
    /\ thread \in [Conn -> {"none", "handshake", "poll", "lock", "cast",
                            "write", "leave", "ended"}]
    /\ casts \in [Conn -> SUBSET Conn]
    /\ clientRun \in [Conn -> BOOLEAN] /\ pipe \in [Conn -> 0..PipeRoom]
    /\ numConnectedClients \in 0..Cardinality(Conn) /\ isPaused \in BOOLEAN
    /\ time \in 0..MaxTime /\ savedTime \in 0..MaxTime
    /\ told \in 0..MaxCasts /\ forgotten \subseteq Conn
    /\ fault \in {None, "resumed a running clock", "stopped a stopped clock",
                  "used a deleted clock"}

(* main has made the listener, the clock has loaded its time. *)
ListenerInit ==
    /\ clients = {} /\ clientLock = None /\ clientsToMurder = {}
    /\ workerRun = TRUE /\ listening = TRUE
    /\ accepting = "check" /\ newClient = None
    /\ saver = "check" /\ saving = {}
    /\ murderer = "check" /\ victim = None /\ closing = "serving"
    /\ dying = None /\ dyingStep = "none"
    /\ life = [c \in Conn |-> "none"]
    /\ thread = [c \in Conn |-> "none"]
    /\ casts = [c \in Conn |-> {}]
    /\ clientRun = [c \in Conn |-> FALSE]
    /\ pipe = [c \in Conn |-> 0]
    /\ numConnectedClients = 0 /\ isPaused = TRUE
    /\ time = 0 /\ savedTime = 0
    /\ told = 0 /\ forgotten = {} /\ fault = None

Lock(t) == clientLock = None /\ clientLock' = t
Unlock(t) == clientLock = t /\ clientLock' = None

-----------------------------------------------------------------------------
(* The clock.  A second resume and a second stop are assertions. *)

Resume ==
    /\ IF isPaused THEN isPaused' = FALSE /\ UNCHANGED fault
                   ELSE fault' = "resumed a running clock" /\ UNCHANGED isPaused
    /\ UNCHANGED <<numConnectedClients, time, savedTime>>

Stop ==
    /\ IF isPaused THEN fault' = "stopped a stopped clock" /\ UNCHANGED isPaused
                   ELSE isPaused' = TRUE /\ UNCHANGED fault
    /\ UNCHANGED <<numConnectedClients, time, savedTime>>

SaveTime ==
    /\ savedTime' = time
    /\ UNCHANGED <<numConnectedClients, isPaused, time, fault>>

ClockStep ==
    /\ ~isPaused /\ time < MaxTime
    /\ time' = time + 1
    /\ UNCHANGED <<numConnectedClients, isPaused, savedTime, fault,
                   clientVars, listVars, loops, clientLock>>

-----------------------------------------------------------------------------
(* The accept thread: the constructor of a client makes the handlers, the   *)
(* last of which counts the client, and starts the thread; then the client  *)
(* is put in the list.                                                      *)

AcceptCheck ==
    /\ accepting = "check"
    /\ accepting' = IF workerRun THEN "accept" ELSE "done"
    /\ UNCHANGED <<newClient, clientVars, listVars, clockVars, clientLock>>

AcceptReturns ==
    /\ accepting = "accept"
    /\ \/ /\ ~listening
          /\ accepting' = "check" /\ UNCHANGED newClient
       \/ \E c \in Conn :
            /\ listening /\ life[c] = "none"
            /\ newClient' = c /\ accepting' = "count"
    /\ UNCHANGED <<clientVars, listVars, clockVars, clientLock>>

MakeTimeHandler ==
    /\ accepting = "count"
    /\ numConnectedClients' = numConnectedClients + 1
    /\ accepting' = IF numConnectedClients' = 1 THEN "resume" ELSE "push"
    /\ life' = [life EXCEPT ![newClient] = "made"]
    /\ UNCHANGED <<newClient, isPaused, time, savedTime, fault, thread, casts,
                   clientRun, pipe, told, listVars, clientLock>>

ResumeClock ==
    /\ accepting = "resume"
    /\ Resume
    /\ accepting' = "push"
    /\ UNCHANGED <<newClient, clientVars, listVars, clientLock>>

StartThread ==
    /\ accepting = "push" /\ thread[newClient] = "none"
    /\ thread' = [thread EXCEPT ![newClient] = "handshake"]
    /\ clientRun' = [clientRun EXCEPT ![newClient] = TRUE]
    /\ UNCHANGED <<accepting, newClient, life, casts, pipe, told, listVars,
                   clockVars, clientLock>>

PushClient ==
    /\ accepting = "push" /\ thread[newClient] # "none"
    /\ clientLock = None
    /\ clients' = clients \cup {newClient}
    /\ newClient' = None /\ accepting' = "check"
    /\ UNCHANGED <<clientLock, clientsToMurder, forgotten, clientVars, clockVars>>

Accepting ==
    /\ \/ AcceptCheck \/ AcceptReturns \/ MakeTimeHandler \/ ResumeClock
       \/ StartThread \/ PushClient
    /\ UNCHANGED <<saver, saving, murderer, victim, closing, dying, dyingStep,
                   workerRun, listening>>

-----------------------------------------------------------------------------
(* A client's thread.  A handshake is the one of TLS and what follows until *)
(* the client is authenticated; an edit stands for a packet whose handler   *)
(* goes through all clients (Listener::forEach): reports of changes, and    *)
(* the list of players.                                                     *)

Goes(c, s) == thread' = [thread EXCEPT ![c] = s]

Handshake(c) ==
    /\ thread[c] = "handshake"
    /\ \E s \in {"poll", "leave"} : Goes(c, s)
    /\ UNCHANGED <<life, casts, clientRun, pipe, told, listVars, clientLock>>

(* poll() returns: a packet, the end of the connection, or the pipe. *)
Receive(c) ==
    /\ thread[c] = "poll" /\ clientRun[c]
    /\ \/ told < MaxCasts /\ told' = told + 1 /\ Goes(c, "lock")
       \/ Goes(c, "leave") /\ UNCHANGED told
    /\ UNCHANGED <<life, casts, clientRun, pipe, listVars, clientLock>>

ReadPipe(c) ==
    /\ thread[c] = "poll" /\ pipe[c] > 0
    /\ pipe' = [pipe EXCEPT ![c] = @ - 1]
    /\ Goes(c, IF clientRun[c] THEN "write" ELSE "leave")
    /\ UNCHANGED <<life, casts, clientRun, told, listVars, clientLock>>

(* handlePipeEvent, which waits for the peer. *)
WriteSocket(c) ==
    /\ thread[c] = "write"
    /\ \E s \in {"poll", "leave"} : Goes(c, s)
    /\ UNCHANGED <<life, casts, clientRun, pipe, told, listVars, clientLock>>

LockForEach(c) ==
    /\ thread[c] = "lock"
    /\ Lock(c)
    /\ Goes(c, "cast")
    /\ casts' = [casts EXCEPT ![c] = {d \in clients \ {c} : thread[d] # "handshake"}]
    /\ UNCHANGED <<life, clientRun, pipe, told, listVars>>

ReadEndOpen(d) == thread[d] # "ended"

(* writePacket blocks while the pipe is full, and fails once it is closed. *)
Cast(c, d) ==
    /\ thread[c] = "cast" /\ d \in casts[c]
    /\ IF ReadEndOpen(d) THEN pipe[d] < PipeRoom /\ pipe' = [pipe EXCEPT ![d] = @ + 1]
                         ELSE UNCHANGED pipe
    /\ casts' = [casts EXCEPT ![c] = @ \ {d}]
    /\ UNCHANGED <<life, thread, clientRun, told, listVars, clientLock>>

EndForEach(c) ==
    /\ thread[c] = "cast" /\ casts[c] = {}
    /\ Unlock(c)
    /\ Goes(c, "poll")
    /\ UNCHANGED <<life, casts, clientRun, pipe, told, listVars>>

(* The end of workerMain: the pipe is closed, the client to be deleted. *)
Leave(c) ==
    /\ thread[c] = "leave"
    /\ Goes(c, "ended")
    /\ pipe' = [pipe EXCEPT ![c] = 0]
    /\ clientsToMurder' = clientsToMurder \cup {c}
    /\ UNCHANGED <<clients, forgotten, life, casts, clientRun, told, clientLock>>

Peer(c) == (Handshake(c) \/ Receive(c) \/ WriteSocket(c)) /\ UNCHANGED <<loops, clockVars>>
ClientWork(c) ==
    /\ \/ ReadPipe(c) \/ LockForEach(c) \/ EndForEach(c) \/ Leave(c)
       \/ \E d \in Conn : Cast(c, d)
    /\ UNCHANGED <<loops, clockVars>>

-----------------------------------------------------------------------------
(* ~ListenerClient, by the deleting thread or by main, under the lock. *)

DyingAt(s) == dying # None /\ dyingStep = s /\ UNCHANGED dying

WakeThread ==
    /\ DyingAt("wake")
    /\ clientRun' = [clientRun EXCEPT ![dying] = FALSE]
    /\ IF ReadEndOpen(dying)
       THEN pipe[dying] < PipeRoom /\ pipe' = [pipe EXCEPT ![dying] = @ + 1]
       ELSE UNCHANGED pipe
    /\ dyingStep' = "join"
    /\ UNCHANGED <<life, thread, casts, told, clockVars>>

JoinThread ==
    /\ DyingAt("join")
    /\ thread[dying] = "ended"
    /\ dyingStep' = "count"
    /\ UNCHANGED <<clientVars, clockVars>>

(* ~Time; no counter, no clock. *)
DropTimeHandler ==
    /\ DyingAt("count")
    /\ numConnectedClients' = numConnectedClients - 1
    /\ dyingStep' = IF numConnectedClients' = 0 THEN "stop" ELSE "none"
    /\ life' = [life EXCEPT ![dying] = "freed"]
    /\ UNCHANGED <<isPaused, time, savedTime, fault, thread, casts, clientRun, pipe, told>>

StopClock == DyingAt("stop") /\ Stop /\ dyingStep' = "save" /\ UNCHANGED clientVars
SaveStopped == DyingAt("save") /\ SaveTime /\ dyingStep' = "none" /\ UNCHANGED clientVars

Destroying ==
    /\ WakeThread \/ JoinThread \/ DropTimeHandler \/ StopClock \/ SaveStopped
    /\ UNCHANGED <<accepting, newClient, saver, saving, murderer, victim, closing,
                   workerRun, listening, listVars, clientLock>>

-----------------------------------------------------------------------------
(* murdererMain.  A null pointer only makes it look at the flag. *)

MurderCheck ==
    /\ murderer = "check"
    /\ murderer' = IF workerRun THEN "wait" ELSE "done"
    /\ UNCHANGED <<victim, dying, dyingStep, listVars, clientLock>>

DequeueClient ==
    /\ murderer = "wait"
    /\ \E c \in clientsToMurder :
        /\ clientsToMurder' = clientsToMurder \ {c}
        /\ victim' = c
        /\ murderer' = IF c = None THEN "check" ELSE "lock"
    /\ UNCHANGED <<clients, forgotten, dying, dyingStep, clientLock>>

(* A client that is not in the list, or not yet, is forgotten. *)
LockToErase ==
    /\ murderer = "lock"
    /\ Lock("murderer")
    /\ murderer' = "erase"
    /\ IF victim \in clients
       THEN dying' = victim /\ dyingStep' = "wake" /\ UNCHANGED forgotten
       ELSE forgotten' = forgotten \cup {victim} /\ UNCHANGED <<dying, dyingStep>>
    /\ UNCHANGED <<victim, clients, clientsToMurder>>

Erased ==
    /\ murderer = "erase" /\ dyingStep = "none"
    /\ clients' = clients \ {victim}
    /\ dying' = None
    /\ Unlock("murderer") /\ murderer' = "check"
    /\ UNCHANGED <<victim, clientsToMurder, forgotten, dyingStep>>

Murdering ==
    /\ MurderCheck \/ DequeueClient \/ LockToErase \/ Erased
    /\ UNCHANGED <<accepting, newClient, saver, saving, closing, workerRun,
                   listening, clientVars, clockVars>>

-----------------------------------------------------------------------------
(* saverMain. *)

SaverCheck ==
    /\ saver = "check" /\ saver' = IF workerRun THEN "lock" ELSE "done"
    /\ UNCHANGED <<saving, clientLock>>
(* Mutant: the list is read without its lock. *)
SaverReads == saver = "lock" /\ saver' = "save" /\ saving' = clients /\ UNCHANGED clientLock

SaverLock == saver = "lock" /\ Lock("saver") /\ saver' = "save" /\ saving' = clients
SaveClient ==
    /\ saver = "save"
    /\ \E c \in saving : saving' = saving \ {c}
    /\ UNCHANGED <<saver, clientLock>>
SaverSleeps ==
    /\ saver = "save" /\ saving = {} /\ Unlock("saver") /\ saver' = "sleep"
    /\ UNCHANGED saving
SaverWakes == saver = "sleep" /\ saver' = "check" /\ UNCHANGED <<saving, clientLock>>

Saving ==
    /\ SaverCheck \/ SaverLock \/ SaveClient \/ SaverSleeps \/ SaverWakes
    /\ UNCHANGED <<accepting, newClient, murderer, victim, closing, dying, dyingStep,
                   workerRun, listening, listVars, clientVars, clockVars>>

-----------------------------------------------------------------------------
(* ~Listener.  ~vector<clients> follows it, and finds the clock deleted.    *)

Interrupt ==
    /\ closing = "serving"
    /\ workerRun' = FALSE /\ closing' = "saver"
    /\ UNCHANGED <<listening, dying, dyingStep, listVars, clockVars, clientLock>>

(* Mutant: nothing wakes the deleting thread. *)
JoinSaverOnly ==
    /\ closing = "saver" /\ saver = "done"
    /\ closing' = "clear"
    /\ UNCHANGED <<listVars, workerRun, listening, dying, dyingStep, clockVars, clientLock>>

JoinSaver ==
    /\ closing = "saver" /\ saver = "done"
    /\ clientsToMurder' = clientsToMurder \cup {None}
    /\ closing' = "clear"
    /\ UNCHANGED <<clients, forgotten, workerRun, listening, dying, dyingStep>>
    /\ UNCHANGED <<clockVars, clientLock>>

LockToClear ==
    /\ closing = "clear"
    /\ Lock("main") /\ closing' = "clearing"
    /\ UNCHANGED <<workerRun, listening, dying, dyingStep, listVars, clockVars>>

ClearNext ==
    /\ closing = "clearing" /\ dyingStep = "none"
    /\ \E c \in clients :
        /\ clients' = clients \ {c}
        /\ dying' = c /\ dyingStep' = "wake"
    /\ UNCHANGED <<closing, workerRun, listening, clientsToMurder, forgotten>>
    /\ UNCHANGED <<clockVars, clientLock>>

Cleared ==
    /\ closing = "clearing" /\ dyingStep = "none" /\ clients = {}
    /\ Unlock("main") /\ closing' = "socket"
    /\ dying' = None
    /\ UNCHANGED <<workerRun, listening, dyingStep, listVars, clockVars>>

CloseSocket ==
    /\ closing = "socket"
    /\ listening' = FALSE /\ closing' = "accept"
    /\ UNCHANGED <<workerRun, dying, dyingStep, listVars, clockVars, clientLock>>

JoinThreads ==
    /\ \/ closing = "accept" /\ accepting = "done" /\ closing' = "murderer"
       \/ closing = "murderer" /\ murderer = "done" /\ closing' = "clock"
    /\ UNCHANGED <<workerRun, listening, dying, dyingStep, listVars, clockVars, clientLock>>

DeleteClock ==
    /\ closing = "clock"
    /\ isPaused' = TRUE /\ savedTime' = time
    /\ closing' = "members"
    /\ UNCHANGED <<workerRun, listening, dying, dyingStep, listVars, clientLock,
                   numConnectedClients, time, fault>>

DestroyMembers ==
    /\ closing = "members"
    /\ fault' = IF clients = {} THEN None ELSE "used a deleted clock"
    /\ closing' = "done"
    /\ UNCHANGED <<workerRun, listening, dying, dyingStep, listVars, clientLock,
                   numConnectedClients, isPaused, time, savedTime>>

Closing ==
    /\ \/ Interrupt \/ JoinSaver \/ LockToClear \/ ClearNext \/ Cleared
       \/ CloseSocket \/ JoinThreads \/ DeleteClock \/ DestroyMembers
    /\ UNCHANGED <<accepting, newClient, saver, saving, murderer, victim, clientVars>>

-----------------------------------------------------------------------------
(* Nothing follows an abort, and nothing main's end. *)
ListenerNext ==
    /\ fault = None /\ closing # "done"
    /\ \/ Accepting \/ Murdering \/ Saving \/ Destroying \/ Closing \/ ClockStep
       \/ \E c \in Conn : Peer(c) \/ ClientWork(c)

System ==
    /\ fault = None /\ closing # "done"
    /\ \/ Accepting \/ Murdering \/ Saving \/ Destroying
       \/ closing # "serving" /\ Closing
       \/ \E c \in Conn : ClientWork(c)

(* Some thread that can go on does.  After SIGINT each ends, so that it need not
   be said of each.  Peers and operators do what they do. *)
ListenerFairness == WF_listenerVars(System)

ListenerSpec == ListenerInit /\ [][ListenerNext]_listenerVars /\ ListenerFairness

-----------------------------------------------------------------------------
(* No thread that goes through the clients reaches one that was destroyed:
   the saver and Listener::forEach hold the lock, and ~ListenerClient runs
   under it (Listener.cpp:239). *)
NoFreedClientReached ==
    \A d \in Conn :
        d \in saving \/ (\E c \in Conn : d \in casts[c]) => life[d] = "made"

(* Time passes while somebody is connected, and only then, and the time at
   which it stopped is saved (Time.cpp:50): once constructors and destructors
   are through, the clock is paused iff there are no clients. *)
ClockFollowsPlayers ==
    /\ accepting # "resume" /\ dyingStep \notin {"stop", "save"}
    /\ fault = None /\ closing \notin {"members", "done"}
    => /\ isPaused <=> numConnectedClients = 0
       /\ isPaused => savedTime = time

(* What keeps clientLock from being released, or a destructor from ending:
   a peer that is not done with its handshake or does not read, a thread that
   cannot read its full pipe as it waits for the lock, and main, which joins
   such a thread with the lock held. *)
HeldUp ==
    \E c \in Conn :
        \/ thread[c] \in {"handshake", "write"}
        \/ thread[c] = "lock" /\ (pipe[c] = PipeRoom \/ closing = "clearing")
        \/ thread[c] = "cast" /\ \E d \in casts[c] : pipe[d] = PipeRoom

(* SIGINT ends the server, unless something holds it up for good: ~Listener
   joins each of its threads, and those of all clients (Listener.cpp:141). *)
ShutdownEnds ==
    []<>~HeldUp => []<>(closing \in {"serving", "done"} \/ fault # None)

(* A client that is gone does not stay in the list: its removal
   (ListenerClient.cpp:288) is on its way, unless the deleting thread had it
   before the accept thread put the client in the list. *)
GoneClientsAreDeleted ==
    \A c \in clients :
        thread[c] = "ended" =>
            \/ c \in clientsToMurder \cup forgotten
            \/ c = victim /\ murderer \in {"lock", "erase"}
            \/ c = dying

(* Refuted: "Cannot resume an already running clock" (assertion, Clock.cpp:43). *)
NoSecondResume == fault # "resumed a running clock"

(* Connections, the threads that share them, and the clock they run are
   consistent. *)
ListenerInv ==
    ListenerTypeOK /\ NoFreedClientReached /\ ClockFollowsPlayers /\ GoneClientsAreDeleted
=============================================================================
