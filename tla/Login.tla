------------------------------- MODULE Login -------------------------------
(***************************************************************************)
(* How a player is let in: the client connects and signs a challenge       *)
(* (src/net/ServerConnection, src/net/handlers/Auth), the server verifies  *)
(* the signature (server/net/handlers/Auth) with a key from its cache, its *)
(* database or the web service (server/auth/KeyCache), and tells the       *)
(* client the time (handlers/Time).  At the client, the thread that asks   *)
(* to authenticate and the connection's worker run side by side; at the    *)
(* server, the threads of all connections share the key cache and the one  *)
(* cURL handle of its REST object.                                         *)
(***************************************************************************)
EXTENDS Naturals, Sequences

CONSTANTS
    Client,         \* connections
    Player,
    Owners,         \* by connection, the player it says it is: what this may be
    Genuine,        \* connections that hold the key registered for the owner
    Registered,     \* players the web service knows
    MaxPushes,      \* bound: time updates the server's timer sends
    NoOne

ASSUME LoginAssumption ==
    /\ Owners \subseteq [Client -> Player] /\ Registered \subseteq Player
    /\ \A o \in Owners : Genuine \subseteq {c \in Client : o[c] \in Registered}
    /\ MaxPushes \in Nat /\ NoOne \notin Player

VARIABLES
    owner,          \* by connection, the player it says it is
    (* client: the caller of authenticate *)
    caller,         \* "out", "new", "written", "waiting", "in", "made", "error", "left"
    source,         \* setSource was called
    sourceTime,     \* the source has the server's time and tick factor
    (* client: the connection's worker and the handlers *)
    clientWorker,   \* "none", "up", "config", "down", "crashed"
    authState, expectedTag,
    lastSyncTime,   \* the handler has the time
    sawSource,      \* what configTime read
    raced,          \* history: configTime and setSource were under way together
    (* the wire *)
    toServer, toClient, open,
    (* server *)
    serverThread,   \* "none", "serve", "lookup", "url", "perform", "store", "gone"
    serverState,
    answer,         \* the player whose key the web service gave, or NoOne
    decoded, keyDb, \* by player, the player whose key is kept for it, or NoOne
    url,            \* the player in the URL that was set on the handle
    overlapped,     \* history: a request was made while another was under way
    announced,      \* connections whose player was said to have joined
    pushes

atClient == <<caller, source, sourceTime, clientWorker, authState, expectedTag,
              lastSyncTime, sawSource, raced>>
cacheVars == <<answer, decoded, keyDb, url, overlapped>>
serverVars == <<serverThread, serverState, cacheVars, announced, pushes>>
wireVars == <<toServer, toClient, open>>
loginVars == <<owner, atClient, wireVars, serverVars>>

Frame == [type : {"request", "challenge", "reply", "status", "init", "time"},
          tag : 0..2, good : BOOLEAN]

LoginTypeOK ==
    /\ owner \in Owners
    /\ caller \in [Client -> {"out", "new", "written", "waiting", "in", "made",
                              "error", "left"}]
    /\ clientWorker \in [Client -> {"none", "up", "config", "down", "crashed"}]
    /\ authState \in [Client -> {"Idle", "SolveChallenge", "WaitAuth", "Successful", "Failed"}]
    /\ expectedTag \in [Client -> 0..2]
    /\ toServer \in [Client -> Seq(Frame)] /\ toClient \in [Client -> Seq(Frame)]
    /\ serverThread \in [Client -> {"none", "serve", "lookup", "url", "perform",
                                    "store", "gone"}]
    /\ serverState \in [Client -> {"Idle", "VerifyChallenge", "Successful", "Failed"}]
    /\ decoded \in [Player -> Player \cup {NoOne}]
    /\ keyDb \in [Player -> Player \cup {NoOne}]
    /\ answer \in [Client -> Player \cup {NoOne}]
    /\ pushes \in 0..MaxPushes

LoginInit ==
    /\ owner \in Owners
    /\ caller = [c \in Client |-> "out"] /\ source = [c \in Client |-> FALSE]
    /\ sourceTime = [c \in Client |-> FALSE]
    /\ clientWorker = [c \in Client |-> "none"]
    /\ authState = [c \in Client |-> "Idle"]
    /\ expectedTag = [c \in Client |-> 0]        \* not initialised
    /\ lastSyncTime = [c \in Client |-> FALSE] /\ sawSource = [c \in Client |-> FALSE]
    /\ raced = [c \in Client |-> FALSE]
    /\ toServer = [c \in Client |-> <<>>] /\ toClient = [c \in Client |-> <<>>]
    /\ open = [c \in Client |-> FALSE]
    /\ serverThread = [c \in Client |-> "none"]
    /\ serverState = [c \in Client |-> "Idle"]
    /\ answer = [c \in Client |-> NoOne]
    /\ decoded = [p \in Player |-> NoOne]
    /\ keyDb \in {f \in [Player -> Registered \cup {NoOne}] : \A p \in Player : f[p] \in {p, NoOne}}
    /\ url = NoOne /\ overlapped = FALSE
    /\ announced = {} /\ pushes = 0

Msg(t, tag, good) == [type |-> t, tag |-> tag, good |-> good]
Put(queue, c, m) == [queue EXCEPT ![c] = Append(@, m)]
Drop(queue, c) == [queue EXCEPT ![c] = Tail(@)]

-----------------------------------------------------------------------------
(* The client's caller. *)

(* The constructor: resolve, connect and shake hands, or throw; then the
   worker is started, and the server has a thread for the connection.        *)
Dial(c) ==
    /\ caller[c] = "out"
    /\ \/ /\ caller' = [caller EXCEPT ![c] = "error"]
          /\ UNCHANGED <<clientWorker, open, serverThread>>
       \/ /\ caller' = [caller EXCEPT ![c] = "new"]
          /\ clientWorker' = [clientWorker EXCEPT ![c] = "up"]
          /\ open' = [open EXCEPT ![c] = TRUE]
          /\ serverThread' = [serverThread EXCEPT ![c] = "serve"]
    /\ UNCHANGED <<source, sourceTime, authState, expectedTag, lastSyncTime, sawSource,
                   raced, toServer, toClient, serverState, cacheVars, announced, pushes>>

(* beginAuth: the packet is on its way before its tag is stored. *)
BeginAuth(c) ==
    /\ caller[c] = "new"
    /\ authState' = [authState EXCEPT ![c] = "SolveChallenge"]
    /\ toServer' = IF open[c] THEN Put(toServer, c, Msg("request", 1, FALSE)) ELSE toServer
    /\ caller' = [caller EXCEPT ![c] = "written"]
    /\ UNCHANGED <<source, sourceTime, clientWorker, expectedTag, lastSyncTime, sawSource,
                   raced, toClient, open, serverVars>>

StoreTag(c) ==
    /\ caller[c] = "written"
    /\ expectedTag' = [expectedTag EXCEPT ![c] = 1]
    /\ caller' = [caller EXCEPT ![c] = "waiting"]
    /\ UNCHANGED <<source, sourceTime, clientWorker, authState, lastSyncTime, sawSource,
                   raced, wireVars, serverVars>>

(* waitForAuth returns; authenticate throws unless the state is Successful,
   and the connection is destroyed.                                          *)
Authenticated(c) ==
    /\ caller[c] = "waiting" /\ authState[c] \in {"Successful", "Failed"}
    /\ caller' = [caller EXCEPT ![c] =
                    IF authState[c] = "Successful" THEN "in" ELSE "error"]
    /\ UNCHANGED <<source, sourceTime, clientWorker, authState, expectedTag, lastSyncTime,
                   sawSource, raced, wireVars, serverVars>>

(* setSource: the time is copied, then the source is set. *)
CopyTime(c) ==
    /\ caller[c] = "in"
    /\ sourceTime' = [sourceTime EXCEPT ![c] = lastSyncTime[c]]
    /\ caller' = [caller EXCEPT ![c] = "made"]
    /\ UNCHANGED <<source, clientWorker, authState, expectedTag, lastSyncTime, sawSource,
                   raced, wireVars, serverVars>>

SetSource(c) ==
    /\ caller[c] = "made" /\ ~source[c]
    /\ source' = [source EXCEPT ![c] = TRUE]
    /\ raced' = [raced EXCEPT ![c] = @ \/ clientWorker[c] = "config"]
    /\ UNCHANGED <<caller, sourceTime, clientWorker, authState, expectedTag, lastSyncTime,
                   sawSource, wireVars, serverVars>>

(* The connection is destroyed or closed, and its worker ends. *)
Hangup(c) ==
    /\ \/ caller[c] = "error" /\ UNCHANGED caller
       \/ /\ caller[c] = "made" /\ source[c]
          /\ caller' = [caller EXCEPT ![c] = "left"]
    /\ clientWorker[c] = "up"
    /\ clientWorker' = [clientWorker EXCEPT ![c] = "down"]
    /\ open' = [open EXCEPT ![c] = FALSE]
    /\ UNCHANGED <<source, sourceTime, authState, expectedTag, lastSyncTime, sawSource,
                   raced, toServer, toClient, serverVars>>

-----------------------------------------------------------------------------
(* The client's worker.  A packet that does not fit the state, or has not the
   tag that is expected, is thrown at the loop, which ends without a word to
   whoever waits; so does a challenge that cannot be signed.                 *)

Throws(c, m) ==
    \/ m.type = "challenge" /\ authState[c] # "SolveChallenge"
    \/ m.type = "status" /\ authState[c] # "WaitAuth"
    \/ m.type \in {"challenge", "status"} /\ m.tag # expectedTag[c]

WorkerThrows(c) ==
    /\ clientWorker[c] = "up" /\ toClient[c] # <<>>
    /\ Throws(c, Head(toClient[c]))
    /\ clientWorker' = [clientWorker EXCEPT ![c] = "down"]
    /\ open' = [open EXCEPT ![c] = FALSE]
    /\ toClient' = Drop(toClient, c)
    /\ UNCHANGED <<caller, source, sourceTime, authState, expectedTag, lastSyncTime,
                   sawSource, raced, toServer, serverVars>>

HandleAuthChallenge(c) ==
    /\ clientWorker[c] = "up" /\ toClient[c] # <<>>
    /\ LET m == Head(toClient[c]) IN m.type = "challenge" /\ ~Throws(c, m)
    /\ toClient' = Drop(toClient, c)
    /\ toServer' = IF open[c] THEN Put(toServer, c, Msg("reply", 2, c \in Genuine))
                              ELSE toServer
    /\ authState' = [authState EXCEPT ![c] = "WaitAuth"]
    /\ expectedTag' = [expectedTag EXCEPT ![c] = 2]
    /\ UNCHANGED <<caller, source, sourceTime, clientWorker, lastSyncTime, sawSource,
                   raced, open, serverVars>>

HandleAuthStatus(c) ==
    /\ clientWorker[c] = "up" /\ toClient[c] # <<>>
    /\ LET m == Head(toClient[c]) IN
        /\ m.type = "status" /\ ~Throws(c, m)
        /\ authState' = [authState EXCEPT ![c] = IF m.good THEN "Successful" ELSE "Failed"]
    /\ toClient' = Drop(toClient, c)
    /\ UNCHANGED <<caller, source, sourceTime, clientWorker, expectedTag, lastSyncTime,
                   sawSource, raced, toServer, open, serverVars>>

(* configTime reads the source and stores the time; resyncTime uses a source
   that need not be there.                                                   *)
ConfigTime(c) ==
    /\ clientWorker[c] = "up" /\ toClient[c] # <<>> /\ Head(toClient[c]).type = "init"
    /\ toClient' = Drop(toClient, c)
    /\ sawSource' = [sawSource EXCEPT ![c] = source[c]]
    /\ clientWorker' = [clientWorker EXCEPT ![c] = "config"]
    /\ UNCHANGED <<caller, source, sourceTime, authState, expectedTag, lastSyncTime,
                   raced, toServer, open, serverVars>>

TimeConfigured(c) ==
    /\ clientWorker[c] = "config"
    /\ lastSyncTime' = [lastSyncTime EXCEPT ![c] = TRUE]
    /\ sourceTime' = [sourceTime EXCEPT ![c] = @ \/ sawSource[c]]
    /\ raced' = [raced EXCEPT ![c] = @ \/ (caller[c] = "made" /\ ~source[c])]
    /\ clientWorker' = [clientWorker EXCEPT ![c] = "up"]
    /\ UNCHANGED <<caller, source, authState, expectedTag, sawSource, wireVars, serverVars>>

ResyncTime(c) ==
    /\ clientWorker[c] = "up" /\ toClient[c] # <<>> /\ Head(toClient[c]).type = "time"
    /\ toClient' = Drop(toClient, c)
    /\ clientWorker' = IF source[c] THEN clientWorker
                                    ELSE [clientWorker EXCEPT ![c] = "crashed"]
    /\ open' = [open EXCEPT ![c] = @ /\ source[c]]
    /\ UNCHANGED <<caller, source, sourceTime, authState, expectedTag, lastSyncTime,
                   sawSource, raced, toServer, serverVars>>

-----------------------------------------------------------------------------
(* The server.  A packet the state does not expect, or an exception of a
   handler, ends the connection.                                             *)

Answer(c, ms) ==
    IF open[c] THEN toClient' = [toClient EXCEPT ![c] = @ \o ms] ELSE UNCHANGED toClient

HandleAuthReq(c) ==
    /\ serverThread[c] = "serve" /\ toServer[c] # <<>>
    /\ serverState[c] = "Idle" /\ Head(toServer[c]).type = "request"
    /\ toServer' = Drop(toServer, c)
    /\ serverState' = [serverState EXCEPT ![c] = "VerifyChallenge"]
    /\ Answer(c, <<Msg("challenge", 1, FALSE)>>)
    /\ UNCHANGED <<atClient, open, serverThread, cacheVars, announced, pushes>>

(* KeyCache::getKey: the decoded keys, then the database, then the service.
   The REST object sets its one handle up and then performs.                 *)
GetKey(c) ==
    /\ serverThread[c] = "serve" /\ toServer[c] # <<>>
    /\ serverState[c] = "VerifyChallenge" /\ Head(toServer[c]).type = "reply"
    /\ serverThread' = [serverThread EXCEPT ![c] =
                            IF decoded[owner[c]] # NoOne THEN "lookup" ELSE "url"]
    /\ UNCHANGED <<atClient, wireVars, serverState, cacheVars, announced, pushes>>

ReadDbKey(c) ==
    /\ serverThread[c] = "url"
    /\ IF keyDb[owner[c]] # NoOne
       THEN /\ decoded' = [decoded EXCEPT ![owner[c]] = keyDb[owner[c]]]
            /\ serverThread' = [serverThread EXCEPT ![c] = "lookup"]
            /\ UNCHANGED <<url, overlapped>>
       ELSE /\ url' = owner[c]
            /\ overlapped' = (overlapped \/ \E d \in Client : serverThread[d] = "perform")
            /\ serverThread' = [serverThread EXCEPT ![c] = "perform"]
            /\ UNCHANGED decoded
    /\ UNCHANGED <<atClient, wireVars, serverState, answer, keyDb, announced, pushes>>

(* The service answers for the URL that is set now, or the request fails and
   the connection ends.                                                      *)
Request(c) ==
    /\ serverThread[c] = "perform"
    /\ \/ /\ url \in Registered
          /\ answer' = [answer EXCEPT ![c] = url]
          /\ serverThread' = [serverThread EXCEPT ![c] = "store"]
          /\ UNCHANGED open
       \/ /\ url \notin Registered \/ \E d \in Client \ {c} : serverThread[d] = "perform"
          /\ serverThread' = [serverThread EXCEPT ![c] = "gone"]
          /\ open' = [open EXCEPT ![c] = FALSE]
          /\ UNCHANGED answer
    /\ UNCHANGED <<atClient, toServer, toClient, serverState, decoded, keyDb, url,
                   overlapped, announced, pushes>>

(* The UUID is unique in the table: who comes second throws. *)
WriteDbKey(c) ==
    /\ serverThread[c] = "store"
    /\ IF keyDb[owner[c]] = NoOne
       THEN /\ keyDb' = [keyDb EXCEPT ![owner[c]] = answer[c]]
            /\ decoded' = [decoded EXCEPT ![owner[c]] = answer[c]]
            /\ serverThread' = [serverThread EXCEPT ![c] = "lookup"]
            /\ UNCHANGED open
       ELSE /\ serverThread' = [serverThread EXCEPT ![c] = "gone"]
            /\ open' = [open EXCEPT ![c] = FALSE]
            /\ UNCHANGED <<keyDb, decoded>>
    /\ UNCHANGED <<atClient, toServer, toClient, serverState, answer, url, overlapped,
                   announced, pushes>>

(* Mutant: it is enough that there is a key. *)
SignatureHasKey(c) == decoded[owner[c]] = owner[c]

SignatureIsValid(c) == Head(toServer[c]).good /\ decoded[owner[c]] = owner[c]

(* handleAuthChallengeReply once it has the key.  authStateChanged has the time
   sent to a client that is in; the player is announced in any case.         *)
HandleAuthChallengeReply(c) ==
    /\ serverThread[c] = "lookup"
    /\ toServer' = Drop(toServer, c)
    /\ serverState' = [serverState EXCEPT ![c] =
                        IF SignatureIsValid(c) THEN "Successful" ELSE "Failed"]
    /\ Answer(c, <<Msg("status", 2, SignatureIsValid(c))>> \o
                 IF SignatureIsValid(c) THEN <<Msg("init", 0, FALSE)>> ELSE <<>>)
    /\ announced' = announced \cup {c}
    /\ serverThread' = [serverThread EXCEPT ![c] = "serve"]
    /\ UNCHANGED <<atClient, open, cacheVars, pushes>>

(* sendTime, on the timer's thread, to all that are connected. *)
SendTime(c) ==
    /\ serverThread[c] \notin {"none", "gone"} /\ open[c] /\ pushes < MaxPushes
    /\ pushes' = pushes + 1
    /\ Answer(c, <<Msg("time", 0, FALSE)>>)
    /\ UNCHANGED <<atClient, toServer, open, serverThread, serverState, cacheVars, announced>>

(* The worker sees that the client has closed. *)
ClientLeaves(c) ==
    /\ serverThread[c] = "serve" /\ ~open[c]
    /\ serverThread' = [serverThread EXCEPT ![c] = "gone"]
    /\ UNCHANGED <<atClient, wireVars, serverState, cacheVars, announced, pushes>>

LoginSteps(c) ==
    /\ UNCHANGED owner
    /\ \/ BeginAuth(c) \/ StoreTag(c) \/ Authenticated(c) \/ CopyTime(c) \/ SetSource(c)
       \/ WorkerThrows(c) \/ HandleAuthChallenge(c) \/ HandleAuthStatus(c)
       \/ ConfigTime(c) \/ TimeConfigured(c) \/ ResyncTime(c)
       \/ HandleAuthReq(c) \/ GetKey(c) \/ ReadDbKey(c) \/ Request(c) \/ WriteDbKey(c)
       \/ HandleAuthChallengeReply(c) \/ ClientLeaves(c)

LoginNext ==
    \E c \in Client : LoginSteps(c) \/ (UNCHANGED owner /\ (Dial(c) \/ Hangup(c) \/ SendTime(c)))

(* Threads that can run do; whether someone dials or hangs up is up to them. *)
LoginFairness == \A c \in Client : WF_loginVars(LoginSteps(c))

LoginSpec == LoginInit /\ [][LoginNext]_loginVars /\ LoginFairness

-----------------------------------------------------------------------------
(* Only who holds the key of the player it says it is gets in, whatever keys
   two threads put into the cache and the database. *)
AuthenticatedAreGenuine == \A c \in Client : serverState[c] = "Successful" => c \in Genuine

(* A player is kept with the key of another only after two requests were made
   on the one handle at a time; it is in the database then, for good
   (KeyCache.cpp:97, "We need to investigate better locking"). *)
KeysFollowPlayers ==
    \A p \in Player : keyDb[p] \in {p, NoOne} \/ overlapped

(* Who holds the right key is refused only for a wrong key in the cache; the
   connection is dropped without an answer only for a player the service does
   not know, a failed request, or a second thread that stored the same player's
   key first. *)
RefusedForCause ==
    \A c \in Genuine :
        /\ serverState[c] = "Failed" => overlapped
        /\ serverThread[c] = "gone" /\ serverState[c] = "VerifyChallenge" /\ clientWorker[c] = "up"
                /\ caller[c] # "error" =>
            overlapped \/ \E d \in Client \ {c} : owner[d] = owner[c]

(* The source gets the time and the tick factor of the server, whichever of
   configTime and setSource is first, unless they run at the same time. *)
SourceHasTime ==
    \A c \in Client :
        source[c] /\ lastSyncTime[c] /\ clientWorker[c] = "up" => sourceTime[c] \/ raced[c]

(* Who asks to authenticate is told, if neither end drops the connection. *)
LoginSettles ==
    \A c \in Client : []<>(caller[c] = "waiting" => clientWorker[c] # "up" \/ ~open[c])

(* Refuted: "An error is thrown if authentication fails for any reason. [...] we'll ALWAYS
   return true, OR throw an exception", ServerConnection.cpp:487: whoever
   calls authenticate gets an answer. *)
AuthenticateReturns == \A c \in Client : (caller[c] = "waiting") ~> (caller[c] # "waiting")

(* Refuted: "only if the player was successfully authenticated, send a message
   indicating they've joined", server/net/handlers/Auth.cpp:223. *)
JoinedAreAuthenticated == \A c \in announced : serverState[c] = "Successful"

(* Who plays has proved who it is, and who is refused, or gets no time, is for
   a cause. *)
LoginInv ==
    LoginTypeOK /\ AuthenticatedAreGenuine /\ KeysFollowPlayers /\ RefusedForCause /\ SourceHasTime
=============================================================================
