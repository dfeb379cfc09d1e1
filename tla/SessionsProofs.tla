--------------------------- MODULE SessionsProofs ---------------------------
(***************************************************************************)
(* Theorems about what lies between clients and server: how a player logs  *)
(* in (Login), the listener with its clients, its saver and the clock of   *)
(* the world (Listener), player and world info of a remote world           *)
(* (Requests), and how chunks get to clients (Transfer).  They hold for    *)
(* any number of clients, keys, threads and calls, positions and slices.   *)
(***************************************************************************)
EXTENDS Login, Listener, Requests, Transfer, SequenceTheorems, FiniteSetTheorems,
        FunctionTheorems, TLAPS

-----------------------------------------------------------------------------
(* Login.  The inductive invariant: what is at the client, on the wire, and *)
(* in the key cache as a thread looks a key up.                             *)

(* The variables that LoginTypeOK leaves out. *)
LoginTypes ==
    /\ LoginTypeOK
    /\ source \in [Client -> BOOLEAN] /\ sourceTime \in [Client -> BOOLEAN]
    /\ lastSyncTime \in [Client -> BOOLEAN] /\ sawSource \in [Client -> BOOLEAN]
    /\ raced \in [Client -> BOOLEAN] /\ open \in [Client -> BOOLEAN]
    /\ url \in Player \cup {NoOne} /\ overlapped \in BOOLEAN /\ announced \subseteq Client

(* A reply is good if the client has the key, and nothing else is good. *)
SignedBy(c, m) == (m.good => c \in Genuine) /\ (m.type = "reply" /\ c \in Genuine => m.good)

RepliesAreSigned == \A c \in Client : \A i \in 1..Len(toServer[c]) : SignedBy(c, toServer[c][i])

(* While a key is looked up, the reply is at the head of the queue. *)
LookupHasReply ==
    \A c \in Client : serverThread[c] \in {"lookup", "url", "perform", "store"} =>
        /\ toServer[c] # <<>> /\ Head(toServer[c]).type = "reply"
        /\ serverState[c] = "VerifyChallenge"
        /\ serverThread[c] = "lookup" => decoded[owner[c]] # NoOne
        /\ serverThread[c] = "store" => answer[c] # NoOne

(* As long as no two requests were under way, each key is its player's. *)
KeysAreRight ==
    ~overlapped =>
        /\ \A p \in Player : keyDb[p] \in {p, NoOne} /\ decoded[p] \in {p, NoOne}
        /\ \A c \in Client : serverThread[c] = "perform" =>
            url = owner[c] /\ \A d \in Client \ {c} : serverThread[d] # "perform"
        /\ \A c \in Client : serverThread[c] = "store" => answer[c] = owner[c]

(* Another connection is for the same player. *)
Rival(c) == \E d \in Client \ {c} : owner[d] = owner[c]

(* The only connection of a player finds no key when it has asked for it. *)
KeyIsNew ==
    \A c \in Client : serverThread[c] \in {"perform", "store"} =>
        overlapped \/ Rival(c) \/ keyDb[owner[c]] = NoOne

(* A connection that is closed was closed by the client, or by its thread. *)
ClosedByClient ==
    \A c \in Client :
        serverThread[c] # "gone" /\ ~open[c] => clientWorker[c] \notin {"up", "config"}

DroppedForCause ==
    \A c \in Genuine \cap Client :
        /\ serverState[c] = "Failed" => overlapped
        /\ serverThread[c] = "gone" /\ serverState[c] = "VerifyChallenge"
                /\ clientWorker[c] \in {"up", "config"} => overlapped \/ Rival(c)

SourceIsTimed ==
    \A c \in Client :
        /\ source[c] => caller[c] \in {"made", "left"}
        /\ caller[c] = "left" => clientWorker[c] = "down"
        /\ caller[c] = "made" /\ lastSyncTime[c] => sourceTime[c] \/ raced[c]
        /\ clientWorker[c] = "config" /\ source[c] /\ ~sawSource[c] => raced[c]

LoginIInv ==
    /\ LoginTypes /\ RepliesAreSigned /\ LookupHasReply /\ AuthenticatedAreGenuine
    /\ KeysAreRight /\ KeyIsNew /\ ClosedByClient /\ DroppedForCause /\ SourceIsTimed

LEMMA LoginInitHolds == LoginInit => LoginIInv
<1> SUFFICES ASSUME LoginInit PROVE LoginIInv
  OBVIOUS
<1> USE LoginAssumption DEF LoginInit
<1>1. LoginTypeOK
  <2>1. toServer \in [Client -> Seq(Frame)] /\ toClient \in [Client -> Seq(Frame)]
    OBVIOUS
  <2>2. keyDb \in [Player -> Player \cup {NoOne}] /\ pushes \in 0..MaxPushes
    OBVIOUS
  <2>3. QED
    BY <2>1, <2>2 DEF LoginTypeOK
<1>2. LoginTypes
  BY <1>1 DEF LoginTypes
<1>3. RepliesAreSigned /\ LookupHasReply /\ AuthenticatedAreGenuine
  BY DEF RepliesAreSigned, LookupHasReply, AuthenticatedAreGenuine
<1>4. KeysAreRight /\ KeyIsNew /\ ClosedByClient /\ DroppedForCause /\ SourceIsTimed
  BY <1>1 DEF LoginTypeOK, KeysAreRight, KeyIsNew, ClosedByClient, DroppedForCause,
     SourceIsTimed
<1>5. QED
  BY <1>2, <1>3, <1>4 DEF LoginIInv

(* A queue of the wire with one frame more. *)
LEMMA PutEffect ==
    ASSUME NEW q \in [Client -> Seq(Frame)], NEW c \in Client, NEW m \in Frame
    PROVE  /\ Put(q, c, m) \in [Client -> Seq(Frame)]
           /\ \A d \in Client \ {c} : Put(q, c, m)[d] = q[d]
           /\ Len(Put(q, c, m)[c]) = Len(q[c]) + 1
           /\ \A i \in 1..Len(q[c]) : Put(q, c, m)[c][i] = q[c][i]
           /\ Put(q, c, m)[c][Len(q[c]) + 1] = m
           /\ q[c] # <<>> => Put(q, c, m)[c] # <<>> /\ Head(Put(q, c, m)[c]) = Head(q[c])
<1>1. Put(q, c, m)[c] = Append(q[c], m) /\ q[c] \in Seq(Frame)
  BY DEF Put
<1>2. \A d \in Client \ {c} : Put(q, c, m)[d] = q[d]
  BY DEF Put
<1>3. Put(q, c, m) \in [Client -> Seq(Frame)]
  BY AppendProperties DEF Put
<1>4. QED
  BY <1>1, <1>2, <1>3, AppendProperties

(* And without its head. *)
LEMMA DropEffect ==
    ASSUME NEW q \in [Client -> Seq(Frame)], NEW c \in Client, q[c] # <<>>
    PROVE  /\ Drop(q, c) \in [Client -> Seq(Frame)]
           /\ \A d \in Client \ {c} : Drop(q, c)[d] = q[d]
           /\ Len(Drop(q, c)[c]) = Len(q[c]) - 1
           /\ \A i \in 1..Len(q[c]) - 1 : Drop(q, c)[c][i] = q[c][i + 1]
           /\ Head(q[c]) = q[c][1] /\ Head(q[c]) \in Frame /\ Len(q[c]) \in Nat \ {0}
<1>1. q[c] \in Seq(Frame) /\ Drop(q, c)[c] = Tail(q[c])
  BY DEF Drop
<1>2. \A d \in Client \ {c} : Drop(q, c)[d] = q[d]
  BY DEF Drop
<1>3. Drop(q, c) \in [Client -> Seq(Frame)]
  BY HeadTailProperties DEF Drop
<1>4. QED
  BY <1>1, <1>2, <1>3, HeadTailProperties

LEMMA MsgIsFrame ==
    /\ Msg("request", 1, FALSE) \in Frame /\ Msg("challenge", 1, FALSE) \in Frame
    /\ \A g \in BOOLEAN : Msg("reply", 2, g) \in Frame /\ Msg("status", 2, g) \in Frame
    /\ Msg("init", 0, FALSE) \in Frame /\ Msg("time", 0, FALSE) \in Frame
  BY DEF Msg, Frame

LEMMA OneFrame == \A m \in Frame : <<m>> \in Seq(Frame)
  OBVIOUS

LEMMA AnswerType ==
    ASSUME toClient \in [Client -> Seq(Frame)], NEW c \in Client, NEW ms \in Seq(Frame),
           Answer(c, ms)
    PROVE  toClient' \in [Client -> Seq(Frame)]
<1>1. toClient[c] \in Seq(Frame)
  OBVIOUS
<1>2. toClient[c] \o ms \in Seq(Frame)
  BY <1>1, ConcatProperties
<1>3. QED
  BY <1>2 DEF Answer

(* What a step does to the packets that are on their way to the server. *)
LEMMA ToServerStep ==
    ASSUME LoginTypes, LookupHasReply, NEW c \in Client,
           LoginSteps(c) \/ Dial(c) \/ Hangup(c) \/ SendTime(c)
    PROVE  \/ UNCHANGED toServer
           \/ \E m \in Frame : toServer' = Put(toServer, c, m) /\ SignedBy(c, m)
           \/ /\ toServer[c] # <<>> /\ toServer' = Drop(toServer, c)
              /\ HandleAuthReq(c) \/ HandleAuthChallengeReply(c)
<1>1. CASE BeginAuth(c)
  BY <1>1, MsgIsFrame DEF BeginAuth, SignedBy, Msg
<1>2. CASE HandleAuthChallenge(c)
  <2>1. \A g \in BOOLEAN : (g <=> c \in Genuine) =>
            SignedBy(c, Msg("reply", 2, g)) /\ Msg("reply", 2, g) \in Frame
    BY DEF SignedBy, Msg, Frame
  <2>2. (c \in Genuine) \in BOOLEAN
    OBVIOUS
  <2>3. SignedBy(c, Msg("reply", 2, c \in Genuine)) /\ Msg("reply", 2, c \in Genuine) \in Frame
    BY <2>1, <2>2, Zenon
  <2>4. QED
    BY <1>2, <2>3 DEF HandleAuthChallenge
<1>3. CASE HandleAuthReq(c)
  BY <1>3 DEF HandleAuthReq
<1>4. CASE HandleAuthChallengeReply(c)
  BY <1>4 DEF HandleAuthChallengeReply, LookupHasReply
<1>5. CASE ~(BeginAuth(c) \/ HandleAuthChallenge(c) \/ HandleAuthReq(c)
             \/ HandleAuthChallengeReply(c))
  BY <1>5 DEF LoginSteps, StoreTag, Authenticated, CopyTime, SetSource, WorkerThrows,
     HandleAuthStatus, ConfigTime, TimeConfigured, ResyncTime, GetKey, ReadDbKey, Request,
     WriteDbKey, ClientLeaves, Dial, Hangup, SendTime, atClient, wireVars
<1>6. QED
  BY <1>1, <1>2, <1>3, <1>4, <1>5

(* The types, in three groups: the wire, the client, the server. *)
LEMMA WireTypesKept ==
    ASSUME LoginTypes, LookupHasReply, NEW c \in Client,
           LoginSteps(c) \/ Dial(c) \/ Hangup(c) \/ SendTime(c)
    PROVE  toServer' \in [Client -> Seq(Frame)] /\ toClient' \in [Client -> Seq(Frame)]
<1>1. toServer \in [Client -> Seq(Frame)] /\ toClient \in [Client -> Seq(Frame)]
  BY DEF LoginTypes, LoginTypeOK
<1>2. toServer' \in [Client -> Seq(Frame)]
  <2>1. ASSUME NEW m \in Frame, toServer' = Put(toServer, c, m)
        PROVE  toServer' \in [Client -> Seq(Frame)]
    BY <1>1, <2>1, PutEffect
  <2>2. CASE toServer[c] # <<>> /\ toServer' = Drop(toServer, c)
    BY <1>1, <2>2, DropEffect
  <2>3. QED
    BY <1>1, <2>1, <2>2, ToServerStep
<1>3. toClient' \in [Client -> Seq(Frame)]
  <2>1. CASE HandleAuthReq(c) \/ SendTime(c)
    <3>1. <<Msg("challenge", 1, FALSE)>> \in Seq(Frame)
      BY MsgIsFrame, OneFrame
    <3>2. <<Msg("time", 0, FALSE)>> \in Seq(Frame)
      BY MsgIsFrame, OneFrame
    <3>3. QED
      BY <1>1, <2>1, <3>1, <3>2, AnswerType DEF HandleAuthReq, SendTime
  <2>2. CASE HandleAuthChallengeReply(c)
    <3> DEFINE ms == <<Msg("status", 2, SignatureIsValid(c))>> \o
                        IF SignatureIsValid(c) THEN <<Msg("init", 0, FALSE)>> ELSE <<>>
    <3>1. Msg("status", 2, SignatureIsValid(c)) \in Frame
      <4>1. SignatureIsValid(c) \in BOOLEAN
        BY DEF SignatureIsValid
      <4>2. QED
        BY <4>1, MsgIsFrame
    <3>2. <<Msg("status", 2, SignatureIsValid(c))>> \in Seq(Frame)
      BY <3>1
    <3>3. <<Msg("init", 0, FALSE)>> \in Seq(Frame)
      BY MsgIsFrame, OneFrame
    <3>4. ms \in Seq(Frame)
      BY <3>2, <3>3, EmptySeq, ConcatProperties
    <3>5. Answer(c, ms)
      BY <2>2 DEF HandleAuthChallengeReply
    <3>6. QED
      BY <1>1, <3>4, <3>5, AnswerType
  <2>3. CASE toClient[c] # <<>> /\ toClient' = Drop(toClient, c)
    BY <1>1, <2>3, DropEffect
  <2>4. CASE WorkerThrows(c) \/ HandleAuthChallenge(c) \/ HandleAuthStatus(c)
             \/ ConfigTime(c) \/ ResyncTime(c)
    BY <2>3, <2>4 DEF WorkerThrows, HandleAuthChallenge, HandleAuthStatus, ConfigTime,
       ResyncTime
  <2>5. CASE BeginAuth(c) \/ StoreTag(c) \/ Authenticated(c) \/ CopyTime(c) \/ SetSource(c)
             \/ TimeConfigured(c) \/ GetKey(c) \/ ReadDbKey(c) \/ Request(c) \/ WriteDbKey(c)
             \/ ClientLeaves(c) \/ Dial(c) \/ Hangup(c)
    BY <1>1, <2>5 DEF BeginAuth, StoreTag, Authenticated, CopyTime, SetSource, TimeConfigured,
       GetKey, ReadDbKey, Request, WriteDbKey, ClientLeaves, Dial, Hangup, wireVars
  <2>6. QED
    BY <2>1, <2>2, <2>4, <2>5 DEF LoginSteps
<1>4. QED
  BY <1>2, <1>3

ClientTypes ==
    /\ caller \in [Client -> {"out", "new", "written", "waiting", "in", "made",
                              "error", "left"}]
    /\ clientWorker \in [Client -> {"none", "up", "config", "down", "crashed"}]
    /\ authState \in [Client -> {"Idle", "SolveChallenge", "WaitAuth", "Successful", "Failed"}]
    /\ expectedTag \in [Client -> 0..2]
    /\ source \in [Client -> BOOLEAN] /\ sourceTime \in [Client -> BOOLEAN]
    /\ lastSyncTime \in [Client -> BOOLEAN] /\ sawSource \in [Client -> BOOLEAN]
    /\ raced \in [Client -> BOOLEAN] /\ open \in [Client -> BOOLEAN]

LEMMA ClientTypesKept ==
    ASSUME ClientTypes, NEW c \in Client,
           LoginSteps(c) \/ Dial(c) \/ Hangup(c) \/ SendTime(c)
    PROVE  ClientTypes'
<1>1. CASE BeginAuth(c)
  BY <1>1, Zenon DEF BeginAuth, ClientTypes
<1>10. CASE StoreTag(c)
  BY <1>10 DEF StoreTag, ClientTypes, wireVars
<1>8. CASE Authenticated(c)
  BY <1>8 DEF Authenticated, ClientTypes, wireVars
<1>2. CASE CopyTime(c) \/ SetSource(c)
  BY <1>2 DEF CopyTime, SetSource, ClientTypes, wireVars
<1>3. CASE Dial(c) \/ Hangup(c)
  BY <1>3 DEF Dial, Hangup, ClientTypes
<1>4. CASE WorkerThrows(c)
  BY <1>4 DEF WorkerThrows, ClientTypes
<1>11. CASE HandleAuthChallenge(c)
  <2>1. /\ authState' = [authState EXCEPT ![c] = "WaitAuth"]
        /\ expectedTag' = [expectedTag EXCEPT ![c] = 2]
        /\ UNCHANGED <<caller, source, sourceTime, clientWorker, lastSyncTime, sawSource,
                       raced, open>>
    BY <1>11, Zenon DEF HandleAuthChallenge
  <2>2. QED
    BY <2>1 DEF ClientTypes
<1>9. CASE HandleAuthStatus(c)
  BY <1>9 DEF HandleAuthStatus, ClientTypes
<1>5. CASE ConfigTime(c) \/ TimeConfigured(c) \/ ResyncTime(c)
  BY <1>5 DEF ConfigTime, TimeConfigured, ResyncTime, ClientTypes, wireVars
<1>6. CASE HandleAuthReq(c) \/ GetKey(c) \/ ReadDbKey(c) \/ Request(c) \/ WriteDbKey(c)
           \/ ClientLeaves(c) \/ HandleAuthChallengeReply(c) \/ SendTime(c)
  <2>1. UNCHANGED atClient /\ open' \in [Client -> BOOLEAN]
    BY <1>6 DEF HandleAuthReq, GetKey, ReadDbKey, Request, WriteDbKey, ClientLeaves,
       HandleAuthChallengeReply, SendTime, ClientTypes, wireVars
  <2>2. QED
    BY <2>1 DEF ClientTypes, atClient
<1>7. QED
  BY <1>1, <1>2, <1>3, <1>4, <1>5, <1>6, <1>8, <1>9, <1>10, <1>11 DEF LoginSteps

ServerTypes ==
    /\ owner \in Owners
    /\ serverThread \in [Client -> {"none", "serve", "lookup", "url", "perform",
                                    "store", "gone"}]
    /\ serverState \in [Client -> {"Idle", "VerifyChallenge", "Successful", "Failed"}]
    /\ decoded \in [Player -> Player \cup {NoOne}]
    /\ keyDb \in [Player -> Player \cup {NoOne}]
    /\ answer \in [Client -> Player \cup {NoOne}]
    /\ url \in Player \cup {NoOne} /\ overlapped \in BOOLEAN /\ announced \subseteq Client
    /\ pushes \in 0..MaxPushes

LEMMA ServerTypesKept ==
    ASSUME ServerTypes, NEW c \in Client, UNCHANGED owner,
           LoginSteps(c) \/ Dial(c) \/ Hangup(c) \/ SendTime(c)
    PROVE  ServerTypes'
<1>1. owner[c] \in Player
  BY LoginAssumption DEF ServerTypes
<1>2. CASE HandleAuthReq(c) \/ GetKey(c) \/ ClientLeaves(c) \/ HandleAuthChallengeReply(c)
  BY <1>2 DEF HandleAuthReq, GetKey, ClientLeaves, HandleAuthChallengeReply, ServerTypes,
     cacheVars
<1>3. CASE ReadDbKey(c)
  BY <1>1, <1>3 DEF ReadDbKey, ServerTypes
<1>4. CASE Request(c) \/ WriteDbKey(c)
  BY <1>1, <1>4, LoginAssumption DEF Request, WriteDbKey, ServerTypes
<1>5. CASE SendTime(c) \/ Dial(c)
  BY <1>5, LoginAssumption DEF SendTime, Dial, ServerTypes, cacheVars
<1>6. CASE BeginAuth(c) \/ StoreTag(c) \/ Authenticated(c) \/ CopyTime(c) \/ SetSource(c)
           \/ WorkerThrows(c) \/ HandleAuthChallenge(c) \/ HandleAuthStatus(c)
           \/ ConfigTime(c) \/ TimeConfigured(c) \/ ResyncTime(c) \/ Hangup(c)
  <2>1. UNCHANGED serverVars
    BY <1>6 DEF BeginAuth, StoreTag, Authenticated, CopyTime, SetSource, WorkerThrows,
       HandleAuthChallenge, HandleAuthStatus, ConfigTime, TimeConfigured, ResyncTime, Hangup
  <2>2. QED
    BY <2>1 DEF ServerTypes, serverVars, cacheVars
<1>7. QED
  BY <1>2, <1>3, <1>4, <1>5, <1>6 DEF LoginSteps

LEMMA LoginTypesKept ==
    ASSUME LoginTypes, LookupHasReply, NEW c \in Client, UNCHANGED owner,
           LoginSteps(c) \/ Dial(c) \/ Hangup(c) \/ SendTime(c)
    PROVE  LoginTypes'
<1>1. ClientTypes /\ ServerTypes
  BY DEF LoginTypes, LoginTypeOK, ClientTypes, ServerTypes
<1>2. ClientTypes' /\ ServerTypes'
  BY <1>1, ClientTypesKept, ServerTypesKept
<1>3. QED
  BY <1>2, WireTypesKept DEF LoginTypes, LoginTypeOK, ClientTypes, ServerTypes

LEMMA RepliesAreSignedKept ==
    ASSUME LoginTypes, LookupHasReply, RepliesAreSigned, NEW c \in Client,
           LoginSteps(c) \/ Dial(c) \/ Hangup(c) \/ SendTime(c)
    PROVE  RepliesAreSigned'
<1>1. toServer \in [Client -> Seq(Frame)] /\ \A d \in Client : Len(toServer[d]) \in Nat
  BY DEF LoginTypes, LoginTypeOK
<1>2. ASSUME NEW m \in Frame, toServer' = Put(toServer, c, m), SignedBy(c, m)
      PROVE  RepliesAreSigned'
  <2>1. \A i \in 1..Len(toServer'[c]) : i \in 1..Len(toServer[c]) \/ i = Len(toServer[c]) + 1
    BY <1>1, <1>2, PutEffect
  <2>2. \A i \in 1..Len(toServer'[c]) : SignedBy(c, toServer'[c][i])
    <3>1. \A i \in 1..Len(toServer[c]) : toServer'[c][i] = toServer[c][i]
      BY <1>1, <1>2, PutEffect
    <3>2. toServer'[c][Len(toServer[c]) + 1] = m
      BY <1>1, <1>2, PutEffect
    <3>3. QED
      BY <1>2, <2>1, <3>1, <3>2 DEF RepliesAreSigned
  <2>3. \A d \in Client \ {c} : toServer'[d] = toServer[d]
    BY <1>1, <1>2, PutEffect
  <2>4. QED
    BY <2>2, <2>3 DEF RepliesAreSigned, SignedBy
<1>3. ASSUME toServer[c] # <<>>, toServer' = Drop(toServer, c) PROVE RepliesAreSigned'
  <2>1. \A i \in 1..Len(toServer'[c]) :
            i + 1 \in 1..Len(toServer[c]) /\ toServer'[c][i] = toServer[c][i + 1]
    BY <1>1, <1>3, DropEffect
  <2>2. \A i \in 1..Len(toServer'[c]) : SignedBy(c, toServer'[c][i])
    BY <2>1 DEF RepliesAreSigned
  <2>3. \A d \in Client \ {c} : toServer'[d] = toServer[d]
    BY <1>1, <1>3, DropEffect
  <2>4. QED
    BY <2>2, <2>3 DEF RepliesAreSigned, SignedBy
<1>4. QED
  BY <1>2, <1>3, ToServerStep DEF RepliesAreSigned, SignedBy

(* What is at the head of a queue stays there but for the two handlers. *)
LEMMA HeadStays ==
    ASSUME LoginTypes, LookupHasReply, NEW c \in Client,
           LoginSteps(c) \/ Dial(c) \/ Hangup(c) \/ SendTime(c),
           ~HandleAuthReq(c), ~HandleAuthChallengeReply(c),
           NEW d \in Client, toServer[d] # <<>>
    PROVE  toServer'[d] # <<>> /\ Head(toServer'[d]) = Head(toServer[d])
<1>1. toServer \in [Client -> Seq(Frame)]
  BY DEF LoginTypes, LoginTypeOK
<1>2. ASSUME NEW m \in Frame, toServer' = Put(toServer, c, m)
      PROVE  toServer'[d] # <<>> /\ Head(toServer'[d]) = Head(toServer[d])
  <2>1. CASE d = c
    BY <1>1, <1>2, <2>1, PutEffect
  <2>2. CASE d # c
    <3>1. toServer'[d] = toServer[d]
      BY <1>1, <1>2, <2>2, PutEffect
    <3>2. QED
      BY <3>1
  <2>3. QED
    BY <2>1, <2>2
<1>3. QED
  BY <1>2, ToServerStep

(* Steps of the client, and those the server's state does not depend on. *)
ClientSide(c) ==
    \/ BeginAuth(c) \/ StoreTag(c) \/ Authenticated(c) \/ CopyTime(c) \/ SetSource(c)
    \/ WorkerThrows(c) \/ HandleAuthChallenge(c) \/ HandleAuthStatus(c)
    \/ ConfigTime(c) \/ TimeConfigured(c) \/ ResyncTime(c) \/ Hangup(c) \/ SendTime(c)

LEMMA ClientSideStep ==
    ASSUME NEW c \in Client, ClientSide(c)
    PROVE  UNCHANGED <<serverThread, serverState, cacheVars, announced>>
<1>1. CASE BeginAuth(c)
  BY <1>1 DEF BeginAuth, serverVars
<1>2. CASE HandleAuthChallenge(c)
  BY <1>2 DEF HandleAuthChallenge, serverVars
<1>3. QED
  BY <1>1, <1>2 DEF ClientSide, StoreTag, Authenticated, CopyTime, SetSource, WorkerThrows,
     HandleAuthStatus, ConfigTime, TimeConfigured, ResyncTime, Hangup, SendTime, serverVars

LEMMA StepKinds ==
    ASSUME NEW c \in Client, LoginSteps(c) \/ Dial(c) \/ Hangup(c) \/ SendTime(c)
    PROVE  \/ ClientSide(c) \/ Dial(c) \/ HandleAuthReq(c) \/ GetKey(c) \/ ReadDbKey(c)
           \/ Request(c) \/ WriteDbKey(c) \/ HandleAuthChallengeReply(c) \/ ClientLeaves(c)
  BY DEF LoginSteps, ClientSide

LEMMA LookupHasReplyKept ==
    ASSUME LoginTypes, LookupHasReply, NEW c \in Client, UNCHANGED owner,
           LoginSteps(c) \/ Dial(c) \/ Hangup(c) \/ SendTime(c)
    PROVE  LookupHasReply'
<1>0. ServerTypes /\ toServer \in [Client -> Seq(Frame)] /\ owner \in [Client -> Player]
  BY LoginAssumption DEF LoginTypes, LoginTypeOK, ServerTypes
<1>1. CASE HandleAuthReq(c) \/ HandleAuthChallengeReply(c)
  <2>1. /\ serverThread'[c] = "serve" /\ UNCHANGED <<decoded, answer>>
        /\ \A d \in Client \ {c} : /\ serverThread'[d] = serverThread[d]
                                   /\ serverState'[d] = serverState[d]
    BY <1>0, <1>1 DEF HandleAuthReq, HandleAuthChallengeReply, ServerTypes, cacheVars
  <2>2. \A d \in Client \ {c} : toServer'[d] = toServer[d]
    BY <1>0, <1>1, DropEffect DEF HandleAuthReq, HandleAuthChallengeReply, LookupHasReply
  <2>3. QED
    BY <2>1, <2>2 DEF LookupHasReply
<1>2. CASE ~HandleAuthReq(c) /\ ~HandleAuthChallengeReply(c)
  <2>1. \A d \in Client : toServer[d] # <<>> =>
            toServer'[d] # <<>> /\ Head(toServer'[d]) = Head(toServer[d])
    BY <1>2, HeadStays
  <2>2. CASE ClientSide(c)
    BY <2>1, <2>2, ClientSideStep DEF LookupHasReply, cacheVars
  <2>3. CASE Dial(c)
    BY <1>0, <2>1, <2>3 DEF Dial, LookupHasReply, cacheVars, ServerTypes
  <2>4. CASE GetKey(c) \/ ClientLeaves(c)
    BY <1>0, <2>1, <2>4 DEF GetKey, ClientLeaves, LookupHasReply, cacheVars, ServerTypes
  <2>5. CASE ReadDbKey(c)
    BY <1>0, <2>1, <2>5 DEF ReadDbKey, LookupHasReply, ServerTypes
  <2>6. CASE Request(c)
    BY <1>0, <2>1, <2>6, LoginAssumption DEF Request, LookupHasReply, ServerTypes
  <2>7. CASE WriteDbKey(c)
    BY <1>0, <2>1, <2>7 DEF WriteDbKey, LookupHasReply, ServerTypes
  <2>8. QED
    BY <1>2, <2>2, <2>3, <2>4, <2>5, <2>6, <2>7, StepKinds
<1>3. QED
  BY <1>1, <1>2

(* A signature is valid only with the key of the player, and of the client. *)
LEMMA AuthenticatedKept ==
    ASSUME LoginTypes, LookupHasReply, RepliesAreSigned, AuthenticatedAreGenuine,
           NEW c \in Client, LoginSteps(c) \/ Dial(c) \/ Hangup(c) \/ SendTime(c)
    PROVE  AuthenticatedAreGenuine'
<1>0. ServerTypes /\ toServer \in [Client -> Seq(Frame)]
  BY DEF LoginTypes, LoginTypeOK, ServerTypes
<1>1. CASE HandleAuthChallengeReply(c)
  <2>1. toServer[c] # <<>>
    BY <1>1 DEF HandleAuthChallengeReply, LookupHasReply
  <2>2. Head(toServer[c]) = toServer[c][1] /\ 1 \in 1..Len(toServer[c])
    BY <1>0, <2>1, DropEffect
  <2>3. Head(toServer[c]).good => c \in Genuine
    BY <2>2 DEF RepliesAreSigned, SignedBy
  <2>4. serverState'[c] = "Successful" => Head(toServer[c]).good
    BY <1>0, <1>1 DEF HandleAuthChallengeReply, SignatureIsValid, ServerTypes
  <2>5. \A d \in Client \ {c} : serverState'[d] = serverState[d]
    BY <1>0, <1>1 DEF HandleAuthChallengeReply, ServerTypes
  <2>6. QED
    BY <2>3, <2>4, <2>5 DEF AuthenticatedAreGenuine
<1>2. CASE HandleAuthReq(c)
  BY <1>0, <1>2 DEF HandleAuthReq, AuthenticatedAreGenuine, ServerTypes
<1>3. CASE ~HandleAuthReq(c) /\ ~HandleAuthChallengeReply(c)
  <2>1. UNCHANGED serverState
    BY <1>3, ClientSideStep, StepKinds DEF Dial, GetKey, ReadDbKey, Request, WriteDbKey,
       ClientLeaves
  <2>2. QED
    BY <2>1 DEF AuthenticatedAreGenuine
<1>4. QED
  BY <1>1, <1>2, <1>3

LEMMA KeysAreRightKept ==
    ASSUME LoginTypes, KeysAreRight, NEW c \in Client, UNCHANGED owner,
           LoginSteps(c) \/ Dial(c) \/ Hangup(c) \/ SendTime(c)
    PROVE  KeysAreRight'
<1>0. ServerTypes /\ owner \in [Client -> Player]
  BY LoginAssumption DEF LoginTypes, LoginTypeOK, ServerTypes
<1>1. CASE ClientSide(c)
  BY <1>1, ClientSideStep DEF KeysAreRight, cacheVars
<1>2. CASE Dial(c) \/ HandleAuthReq(c) \/ GetKey(c) \/ HandleAuthChallengeReply(c)
           \/ ClientLeaves(c)
  BY <1>0, <1>2 DEF Dial, HandleAuthReq, GetKey, HandleAuthChallengeReply, ClientLeaves,
     KeysAreRight, ServerTypes, cacheVars
<1>3. CASE ReadDbKey(c)
  <2>1. CASE keyDb[owner[c]] # NoOne
    BY <1>0, <1>3, <2>1 DEF ReadDbKey, KeysAreRight, ServerTypes
  <2>2. CASE keyDb[owner[c]] = NoOne
    <3>1. /\ url' = owner[c] /\ UNCHANGED <<keyDb, decoded, answer>>
          /\ serverThread' = [serverThread EXCEPT ![c] = "perform"]
          /\ overlapped' = (overlapped \/ \E d \in Client : serverThread[d] = "perform")
      BY <1>3, <2>2 DEF ReadDbKey
    <3>2. QED
      BY <1>0, <3>1 DEF KeysAreRight, ServerTypes
  <2>3. QED
    BY <2>1, <2>2
<1>4. CASE Request(c)
  BY <1>0, <1>4 DEF Request, KeysAreRight, ServerTypes
<1>5. CASE WriteDbKey(c)
  BY <1>0, <1>5 DEF WriteDbKey, KeysAreRight, ServerTypes
<1>6. QED
  BY <1>1, <1>2, <1>3, <1>4, <1>5, StepKinds

LEMMA KeyIsNewKept ==
    ASSUME LoginTypes, KeyIsNew, NEW c \in Client, UNCHANGED owner,
           LoginSteps(c) \/ Dial(c) \/ Hangup(c) \/ SendTime(c)
    PROVE  KeyIsNew'
<1>0. ServerTypes /\ owner \in [Client -> Player]
  BY LoginAssumption DEF LoginTypes, LoginTypeOK, ServerTypes
<1>1. CASE ClientSide(c)
  BY <1>1, ClientSideStep DEF KeyIsNew, Rival, cacheVars
<1>2. CASE Dial(c) \/ HandleAuthReq(c) \/ GetKey(c) \/ HandleAuthChallengeReply(c)
           \/ ClientLeaves(c)
  BY <1>0, <1>2 DEF Dial, HandleAuthReq, GetKey, HandleAuthChallengeReply, ClientLeaves,
     KeyIsNew, Rival, ServerTypes, cacheVars
<1>3. CASE ReadDbKey(c) \/ Request(c)
  BY <1>0, <1>3 DEF ReadDbKey, Request, KeyIsNew, Rival, ServerTypes
<1>4. CASE WriteDbKey(c)
  BY <1>0, <1>4 DEF WriteDbKey, KeyIsNew, Rival, ServerTypes
<1>5. QED
  BY <1>1, <1>2, <1>3, <1>4, StepKinds

LEMMA ClosedByClientKept ==
    ASSUME LoginTypes, ClosedByClient, NEW c \in Client,
           LoginSteps(c) \/ Dial(c) \/ Hangup(c) \/ SendTime(c)
    PROVE  ClosedByClient'
<1>0. ServerTypes /\ ClientTypes
  BY DEF LoginTypes, LoginTypeOK, ServerTypes, ClientTypes
<1>1. CASE Dial(c) \/ Hangup(c)
  BY <1>0, <1>1 DEF Dial, Hangup, ClosedByClient, ServerTypes, ClientTypes, serverVars
<1>2. CASE WorkerThrows(c) \/ ResyncTime(c) \/ ConfigTime(c) \/ TimeConfigured(c)
  BY <1>0, <1>2 DEF WorkerThrows, ResyncTime, ConfigTime, TimeConfigured, ClosedByClient,
     ServerTypes, ClientTypes, wireVars, serverVars
<1>3. CASE Request(c) \/ WriteDbKey(c)
  BY <1>0, <1>3 DEF Request, WriteDbKey, ClosedByClient, ServerTypes, ClientTypes, atClient
<1>4. CASE ReadDbKey(c) \/ GetKey(c) \/ HandleAuthReq(c) \/ HandleAuthChallengeReply(c)
           \/ ClientLeaves(c)
  BY <1>0, <1>4 DEF ReadDbKey, GetKey, HandleAuthReq, HandleAuthChallengeReply,
     ClientLeaves, ClosedByClient, ServerTypes, ClientTypes, atClient, wireVars
<1>5. CASE BeginAuth(c) \/ StoreTag(c) \/ Authenticated(c) \/ CopyTime(c) \/ SetSource(c)
           \/ HandleAuthChallenge(c) \/ HandleAuthStatus(c) \/ SendTime(c)
  <2>1. UNCHANGED <<clientWorker, open>>
    <3>1. CASE BeginAuth(c)
      BY <3>1 DEF BeginAuth
    <3>2. CASE HandleAuthChallenge(c)
      BY <3>2 DEF HandleAuthChallenge
    <3>3. QED
      BY <1>5, <3>1, <3>2 DEF StoreTag, Authenticated, CopyTime, SetSource,
         HandleAuthStatus, SendTime, atClient, wireVars
  <2>2. UNCHANGED serverThread
    BY <1>5, ClientSideStep DEF ClientSide
  <2>3. QED
    BY <2>1, <2>2 DEF ClosedByClient
<1>6. QED
  BY <1>1, <1>2, <1>3, <1>4, <1>5 DEF LoginSteps

LEMMA DroppedForCauseKept ==
    ASSUME LoginIInv, NEW c \in Client, UNCHANGED owner,
           LoginSteps(c) \/ Dial(c) \/ Hangup(c) \/ SendTime(c)
    PROVE  DroppedForCause'
<1>0. /\ ServerTypes /\ ClientTypes /\ owner \in [Client -> Player]
      /\ \A d \in Genuine : d \in Client /\ owner[d] \in Registered
  BY LoginAssumption DEF LoginIInv, LoginTypes, LoginTypeOK, ServerTypes, ClientTypes
<1>1. DroppedForCause /\ KeysAreRight /\ KeyIsNew /\ ClosedByClient
  BY DEF LoginIInv
<1>2. CASE HandleAuthChallengeReply(c)
  <2>1. ~overlapped => decoded[owner[c]] = owner[c]
    BY <1>0, <1>1, <1>2 DEF HandleAuthChallengeReply, LoginIInv, LookupHasReply, KeysAreRight
  <2>2. c \in Genuine => Head(toServer[c]).good
    <3>1. toServer[c] # <<>> /\ Head(toServer[c]).type = "reply"
      BY <1>2 DEF HandleAuthChallengeReply, LoginIInv, LookupHasReply
    <3>2. toServer \in [Client -> Seq(Frame)]
      BY DEF LoginIInv, LoginTypes, LoginTypeOK
    <3>3. Head(toServer[c]) = toServer[c][1] /\ 1 \in 1..Len(toServer[c])
      BY <3>1, <3>2, DropEffect
    <3>4. QED
      BY <3>1, <3>3 DEF LoginIInv, RepliesAreSigned, SignedBy
  <2>3. c \in Genuine /\ ~overlapped => serverState'[c] # "Failed"
    BY <1>0, <1>2, <2>1, <2>2 DEF HandleAuthChallengeReply, SignatureIsValid, ServerTypes
  <2>4. /\ serverThread'[c] = "serve" /\ UNCHANGED <<overlapped, clientWorker>>
        /\ \A d \in Client \ {c} : /\ serverThread'[d] = serverThread[d]
                                   /\ serverState'[d] = serverState[d]
    BY <1>0, <1>2 DEF HandleAuthChallengeReply, ServerTypes, cacheVars, atClient
  <2>5. QED
    BY <1>1, <2>3, <2>4 DEF DroppedForCause, Rival
<1>3. CASE Request(c)
  BY <1>0, <1>1, <1>3 DEF Request, DroppedForCause, KeysAreRight, Rival, ServerTypes, atClient
<1>4. CASE WriteDbKey(c)
  BY <1>0, <1>1, <1>4 DEF WriteDbKey, DroppedForCause, KeyIsNew, Rival, ServerTypes, atClient
<1>5. CASE ClientLeaves(c)
  BY <1>0, <1>1, <1>5 DEF ClientLeaves, DroppedForCause, ClosedByClient, Rival, ServerTypes,
     atClient, cacheVars
<1>6. CASE ReadDbKey(c) \/ GetKey(c) \/ HandleAuthReq(c) \/ Dial(c)
  BY <1>0, <1>1, <1>6 DEF ReadDbKey, GetKey, HandleAuthReq, Dial, DroppedForCause, Rival,
     ServerTypes, ClientTypes, atClient, cacheVars
<1>7. CASE ClientSide(c)
  <2>1. \A d \in Client :
            clientWorker'[d] \in {"up", "config"} => clientWorker[d] \in {"up", "config"}
    <3>1. CASE BeginAuth(c)
      BY <3>1 DEF BeginAuth
    <3>2. CASE HandleAuthChallenge(c)
      BY <3>2 DEF HandleAuthChallenge
    <3>3. QED
      BY <1>0, <1>7, <3>1, <3>2 DEF ClientSide, StoreTag, Authenticated, CopyTime, SetSource,
         WorkerThrows, HandleAuthStatus, ConfigTime, TimeConfigured, ResyncTime, Hangup,
         SendTime, ClientTypes, atClient
  <2>2. UNCHANGED <<serverThread, serverState, overlapped>>
    BY <1>7, ClientSideStep DEF cacheVars
  <2>3. QED
    BY <1>0, <1>1, <2>1, <2>2 DEF DroppedForCause, Rival
<1>8. QED
  BY <1>2, <1>3, <1>4, <1>5, <1>6, <1>7, StepKinds

LEMMA SourceIsTimedKept ==
    ASSUME LoginTypes, SourceIsTimed, NEW c \in Client,
           LoginSteps(c) \/ Dial(c) \/ Hangup(c) \/ SendTime(c)
    PROVE  SourceIsTimed'
<1>0. ClientTypes
  BY DEF LoginTypes, LoginTypeOK, ClientTypes
<1>1. CASE BeginAuth(c)
  BY <1>0, <1>1, Zenon DEF BeginAuth, SourceIsTimed, ClientTypes
<1>2. CASE StoreTag(c) \/ Authenticated(c)
  BY <1>0, <1>2 DEF StoreTag, Authenticated, SourceIsTimed, ClientTypes
<1>3. CASE CopyTime(c)
  BY <1>0, <1>3 DEF CopyTime, SourceIsTimed, ClientTypes
<1>4. CASE SetSource(c)
  BY <1>0, <1>4 DEF SetSource, SourceIsTimed, ClientTypes
<1>5. CASE Dial(c) \/ Hangup(c)
  BY <1>0, <1>5 DEF Dial, Hangup, SourceIsTimed, ClientTypes
<1>6. CASE WorkerThrows(c) \/ HandleAuthStatus(c)
  BY <1>0, <1>6 DEF WorkerThrows, HandleAuthStatus, SourceIsTimed, ClientTypes
<1>7. CASE ConfigTime(c)
  BY <1>0, <1>7 DEF ConfigTime, SourceIsTimed, ClientTypes
<1>8. CASE TimeConfigured(c)
  BY <1>0, <1>8 DEF TimeConfigured, SourceIsTimed, ClientTypes
<1>9. CASE ResyncTime(c)
  BY <1>0, <1>9 DEF ResyncTime, SourceIsTimed, ClientTypes
<1>10. CASE HandleAuthChallenge(c)
  <2>1. UNCHANGED <<source, caller, clientWorker, lastSyncTime, sourceTime, raced, sawSource>>
    BY <1>10 DEF HandleAuthChallenge
  <2>2. QED
    BY <2>1 DEF SourceIsTimed
<1>11. CASE HandleAuthReq(c) \/ GetKey(c) \/ ReadDbKey(c) \/ Request(c) \/ WriteDbKey(c)
            \/ HandleAuthChallengeReply(c) \/ ClientLeaves(c) \/ SendTime(c)
  <2>1. UNCHANGED atClient
    BY <1>11 DEF HandleAuthReq, GetKey, ReadDbKey, Request, WriteDbKey,
       HandleAuthChallengeReply, ClientLeaves, SendTime
  <2>2. QED
    BY <2>1 DEF SourceIsTimed, atClient
<1>12. QED
  BY <1>1, <1>2, <1>3, <1>4, <1>5, <1>6, <1>7, <1>8, <1>9, <1>10, <1>11 DEF LoginSteps

LEMMA LoginStep == LoginIInv /\ [LoginNext]_loginVars => LoginIInv'
<1> SUFFICES ASSUME LoginIInv, [LoginNext]_loginVars PROVE LoginIInv'
  OBVIOUS
<1>1. ASSUME NEW c \in Client, UNCHANGED owner,
             LoginSteps(c) \/ Dial(c) \/ Hangup(c) \/ SendTime(c)
      PROVE  LoginIInv'
  BY <1>1, LoginTypesKept, RepliesAreSignedKept, LookupHasReplyKept, AuthenticatedKept,
     KeysAreRightKept, KeyIsNewKept, ClosedByClientKept, DroppedForCauseKept,
     SourceIsTimedKept DEF LoginIInv
<1>2. CASE UNCHANGED loginVars
  BY <1>2 DEF loginVars, atClient, wireVars, serverVars, cacheVars, LoginIInv, LoginTypes,
     LoginTypeOK, RepliesAreSigned, SignedBy, LookupHasReply, AuthenticatedAreGenuine,
     KeysAreRight, KeyIsNew, ClosedByClient, DroppedForCause, SourceIsTimed, Rival
<1>3. QED
  BY <1>1, <1>2 DEF LoginNext, LoginSteps

(* Who plays has proved who it is; who is refused or dropped, and a source     *)
(* without the server's time, are for a cause (server/net/handlers/Auth.cpp,    *)
(* KeyCache.cpp:97, src/net/ServerConnection.cpp).                              *)
THEOREM LoginSafe == LoginSpec => []LoginInv
<1>1. LoginIInv => LoginInv
  <2> SUFFICES ASSUME LoginIInv PROVE LoginInv
    OBVIOUS
  <2>1. LoginTypeOK /\ AuthenticatedAreGenuine
    BY DEF LoginIInv, LoginTypes
  <2>2. KeysFollowPlayers
    BY DEF LoginIInv, KeysAreRight, KeysFollowPlayers
  <2>3. \A c \in Genuine : c \in Client
    BY <2>1, LoginAssumption DEF LoginTypeOK
  <2>4. RefusedForCause
    BY <2>3 DEF LoginIInv, DroppedForCause, RefusedForCause, Rival
  <2>5. SourceHasTime
    BY DEF LoginIInv, SourceIsTimed, SourceHasTime
  <2>6. QED
    BY <2>1, <2>2, <2>4, <2>5 DEF LoginInv
<1>2. QED
  BY <1>1, LoginInitHolds, LoginStep, PTL DEF LoginSpec

-----------------------------------------------------------------------------
(* Queues, by their indices: an item is appended, or the head is taken. *)

LEMMA Appended ==
    ASSUME NEW S, NEW s \in Seq(S), NEW e \in S, NEW t, t = Append(s, e)
    PROVE  /\ t \in Seq(S)
           /\ \A i \in DOMAIN s : i \in DOMAIN t /\ t[i] = s[i] /\ i \in Nat /\ i < Len(s) + 1
           /\ Len(s) + 1 \in DOMAIN t /\ t[Len(s) + 1] = e /\ Len(s) + 1 \in Nat
           /\ \A i \in DOMAIN t : i \in DOMAIN s \/ i = Len(s) + 1
<1>1. t \in Seq(S) /\ Len(t) = Len(s) + 1 /\ Len(s) \in Nat
  BY AppendProperties
<1>2. DOMAIN s = 1..Len(s) /\ DOMAIN t = 1..Len(s) + 1
  BY <1>1
<1>3. \A i \in 1..Len(s) : t[i] = s[i]
  BY AppendProperties
<1>4. t[Len(s) + 1] = e
  BY AppendProperties
<1>5. QED
  BY <1>1, <1>2, <1>3, <1>4

LEMMA Shortened ==
    ASSUME NEW S, NEW s \in Seq(S), s # <<>>
    PROVE  /\ Tail(s) \in Seq(S)
           /\ 1 \in DOMAIN s /\ Head(s) = s[1] /\ s[1] \in S
           /\ \A i \in DOMAIN Tail(s) : /\ i + 1 \in DOMAIN s /\ Tail(s)[i] = s[i + 1]
                                        /\ i \in Nat /\ i # 0
           /\ \A i \in DOMAIN s : /\ i \in Nat
                                  /\ i = 1 \/ (i > 1 /\ i - 1 \in DOMAIN Tail(s)
                                                     /\ Tail(s)[i - 1] = s[i])
<1>1. Tail(s) \in Seq(S) /\ Len(Tail(s)) = Len(s) - 1 /\ Len(s) \in Nat \ {0}
  BY HeadTailProperties, EmptySeq
<1>2. DOMAIN s = 1..Len(s) /\ DOMAIN Tail(s) = 1..Len(s) - 1
  BY <1>1
<1>3. \A i \in 1..Len(s) - 1 : Tail(s)[i] = s[i + 1]
  BY <1>1, HeadTailProperties
<1>4. Head(s) = s[1] /\ 1 \in DOMAIN s
  BY <1>1, <1>2, HeadTailProperties
<1>5. s[1] \in S
  BY <1>2, <1>4, ElementOfSeq
<1>6. QED
  BY <1>1, <1>2, <1>3, <1>4, <1>5

-----------------------------------------------------------------------------
(* Listener.  The inductive invariant: who holds the lock, which clients are *)
(* made, listed, counted and being destroyed, and what the clock does then. *)

(* Each thread that is between its lock and its unlock holds clientLock. *)
LockIsHeld ==
    /\ saver = "save" <=> clientLock = "saver"
    /\ murderer = "erase" <=> clientLock = "murderer"
    /\ closing = "clearing" <=> clientLock = "main"
    /\ \A c \in Conn : thread[c] = "cast" <=> clientLock = c

(* A client is destroyed under the lock, by the thread that deletes or by main. *)
DyingIsLocked ==
    /\ dying # None => (murderer = "erase" /\ dying = victim) \/ closing = "clearing"
    /\ dying = None => dyingStep = "none"
    /\ dyingStep \in {"wake", "join", "count"} => life[dying] = "made"
    /\ murderer = "erase" => dying = victim \/ victim \in forgotten
    /\ murderer \in {"lock", "erase"} => victim # None
    /\ closing = "clearing" => dying \notin clients

(* A client that is listed is there, but for the one that is destroyed. *)
ListedAreMade ==
    /\ \A c \in clients : c # dying => life[c] = "made"
    /\ \A c \in clients : life[c] # "none"
    /\ dying # None => life[dying] # "none"

(* The client the accept thread makes is nobody else's yet. *)
NewIsUnlisted ==
    /\ accepting \in {"count", "resume", "push"} <=> newClient # None
    /\ newClient \notin clients /\ (newClient # None => newClient # dying)
    /\ accepting = "count" => life[newClient] = "none"
    /\ accepting \in {"resume", "push"} => life[newClient] = "made"
    /\ \A c \in Conn : life[c] = "none" => thread[c] = "none"

(* Who goes through the clients has the lock, and they are there. *)
ReachedAreMade ==
    /\ saving # {} => saver = "save"
    /\ \A c \in Conn : casts[c] # {} => thread[c] = "cast"
    /\ \A d \in saving : life[d] = "made"
    /\ \A c \in Conn : \A d \in casts[c] : life[d] = "made"

Made == {c \in Conn : life[c] = "made"}

(* The clock, with what the accept thread and a destructor still have to do. *)
ClockIsDriven ==
    fault = None /\ closing \notin {"members", "done"} =>
        /\ isPaused <=> /\ dyingStep # "stop"
                        /\ accepting = "resume" \/ numConnectedClients = 0
        /\ accepting = "resume" => numConnectedClients = 1
        /\ dyingStep = "stop" /\ accepting # "resume" => numConnectedClients = 0
        /\ isPaused /\ dyingStep \notin {"stop", "save"} => savedTime = time

GoneAreNoted ==
    \A c \in Conn : (c \in clients \/ c = newClient) /\ thread[c] = "ended" =>
        \/ c \in clientsToMurder \cup forgotten
        \/ c = victim /\ murderer \in {"lock", "erase"}
        \/ c = dying

ListenerIInv ==
    /\ ListenerTypeOK /\ LockIsHeld /\ DyingIsLocked /\ ListedAreMade /\ NewIsUnlisted
    /\ ReachedAreMade /\ numConnectedClients = Cardinality(Made)
    /\ ClockIsDriven /\ GoneAreNoted

(* What the assumption says of names, and of bounds. *)
LEMMA ListenerNames ==
    /\ None \notin Conn /\ None # "saver" /\ None # "murderer" /\ None # "main"
    /\ "saver" \notin Conn /\ "murderer" \notin Conn /\ "main" \notin Conn
  BY ListenerAssumption

LEMMA ListenerBounds ==
    /\ PipeRoom \in Nat \ {0} /\ MaxCasts \in Nat /\ MaxTime \in Nat
    /\ IsFiniteSet(Conn) /\ Cardinality(Conn) \in Nat
  BY ListenerAssumption, FS_CardinalityType

LEMMA LockIsHeldKept ==
    ASSUME ListenerTypeOK, LockIsHeld, ListenerNext
    PROVE  LockIsHeld'
<1>1. CASE Accepting
  <2>1. CASE AcceptCheck
    BY <1>1, <2>1, ListenerNames DEF Accepting, AcceptCheck, clockVars, clientVars,
       listVars, loops, ListenerTypeOK, LockIsHeld
  <2>2. CASE AcceptReturns
    BY <1>1, <2>2, ListenerNames DEF Accepting, AcceptReturns, clockVars, clientVars,
       listVars, loops, ListenerTypeOK, LockIsHeld
  <2>3. CASE MakeTimeHandler
    BY <1>1, <2>3, ListenerNames DEF Accepting, MakeTimeHandler, clockVars, clientVars,
       listVars, loops, ListenerTypeOK, LockIsHeld
  <2>4. CASE ResumeClock
    BY <1>1, <2>4, ListenerNames DEF Accepting, ResumeClock, Resume, clockVars, clientVars,
       listVars, loops, ListenerTypeOK, LockIsHeld
  <2>5. CASE StartThread
    BY <1>1, <2>5, ListenerNames DEF Accepting, StartThread, clockVars, clientVars,
       listVars, loops, ListenerTypeOK, LockIsHeld
  <2>6. CASE PushClient
    BY <1>1, <2>6, ListenerNames DEF Accepting, PushClient, Lock, Unlock, clockVars,
       clientVars, listVars, loops, ListenerTypeOK, LockIsHeld
  <2>7. QED
    BY <1>1, <2>1, <2>2, <2>3, <2>4, <2>5, <2>6 DEF Accepting
<1>2. CASE Murdering
  BY <1>2, ListenerNames DEF Murdering, MurderCheck, DequeueClient, LockToErase, Erased,
     Lock, Unlock, clockVars, clientVars, listVars, loops, ListenerTypeOK, LockIsHeld
<1>3. CASE Saving
  BY <1>3, ListenerNames DEF Saving, SaverCheck, SaverLock, SaveClient, SaverSleeps,
     SaverWakes, Lock, Unlock, clockVars, clientVars, listVars, loops, ListenerTypeOK, LockIsHeld
<1>4. CASE Destroying
  BY <1>4, ListenerNames DEF Destroying, WakeThread, JoinThread, DropTimeHandler, StopClock,
     SaveStopped, DyingAt, Stop, SaveTime, ReadEndOpen, Lock, Unlock, clockVars, clientVars,
     listVars, loops, ListenerTypeOK, LockIsHeld
<1>5. CASE Closing
  BY <1>5, ListenerNames DEF Closing, Interrupt, JoinSaver, LockToClear, ClearNext, Cleared,
     CloseSocket, JoinThreads, DeleteClock, DestroyMembers, Lock, Unlock, clockVars, clientVars,
     listVars, loops, ListenerTypeOK, LockIsHeld
<1>6. CASE \E c \in Conn : Peer(c) \/ ClientWork(c)
  <2>0. UNCHANGED <<loops, clockVars>>
    BY <1>6 DEF Peer, ClientWork
  <2>1. ASSUME NEW c \in Conn, Handshake(c) PROVE LockIsHeld'
    <3>1. PICK s \in {"poll", "leave"} : thread' = [thread EXCEPT ![c] = s]
      BY <2>1 DEF Handshake, Goes
    <3>2. thread[c] = "handshake" /\ UNCHANGED <<saver, murderer, closing, clientLock>>
      BY <2>0, <2>1 DEF Handshake, loops
    <3>3. QED
      BY <3>1, <3>2 DEF ListenerTypeOK, LockIsHeld
  <2>2. ASSUME NEW c \in Conn, Receive(c) PROVE LockIsHeld'
    <3>1. PICK s \in {"lock", "leave"} : thread' = [thread EXCEPT ![c] = s]
      BY <2>2 DEF Receive, Goes
    <3>2. thread[c] = "poll" /\ UNCHANGED <<saver, murderer, closing, clientLock>>
      BY <2>0, <2>2 DEF Receive, loops
    <3>3. QED
      BY <3>1, <3>2 DEF ListenerTypeOK, LockIsHeld
  <2>3. ASSUME NEW c \in Conn, WriteSocket(c) PROVE LockIsHeld'
    <3>1. PICK s \in {"poll", "leave"} : thread' = [thread EXCEPT ![c] = s]
      BY <2>3 DEF WriteSocket, Goes
    <3>2. thread[c] = "write" /\ UNCHANGED <<saver, murderer, closing, clientLock>>
      BY <2>0, <2>3 DEF WriteSocket, loops
    <3>3. QED
      BY <3>1, <3>2 DEF ListenerTypeOK, LockIsHeld
  <2>4. ASSUME NEW c \in Conn, ReadPipe(c) PROVE LockIsHeld'
    BY <2>0, <2>4, ListenerNames DEF ReadPipe, Goes, clockVars, clientVars, listVars, loops,
       ListenerTypeOK, LockIsHeld
  <2>5. ASSUME NEW c \in Conn, LockForEach(c) PROVE LockIsHeld'
    BY <2>0, <2>5, ListenerNames DEF LockForEach, Lock, Goes, clockVars, clientVars,
       listVars, loops, ListenerTypeOK, LockIsHeld
  <2>6. ASSUME NEW c \in Conn, EndForEach(c) PROVE LockIsHeld'
    BY <2>0, <2>6, ListenerNames DEF EndForEach, Unlock, Goes, clockVars, clientVars,
       listVars, loops, ListenerTypeOK, LockIsHeld
  <2>7. ASSUME NEW c \in Conn, Leave(c) PROVE LockIsHeld'
    BY <2>0, <2>7, ListenerNames DEF Leave, Goes, clockVars, clientVars, listVars, loops,
       ListenerTypeOK, LockIsHeld
  <2>8. ASSUME NEW c \in Conn, NEW d \in Conn, Cast(c, d) PROVE LockIsHeld'
    BY <2>0, <2>8, ListenerNames DEF Cast, ReadEndOpen, clockVars, clientVars, listVars,
       loops, ListenerTypeOK, LockIsHeld
  <2>9. QED
    BY <1>6, <2>1, <2>2, <2>3, <2>4, <2>5, <2>6, <2>7, <2>8 DEF Peer, ClientWork
<1>7. CASE ClockStep
  BY <1>7, ListenerNames DEF ClockStep, Lock, Unlock, clockVars, clientVars, listVars, loops,
     ListenerTypeOK, LockIsHeld
<1>8. QED
  BY <1>1, <1>2, <1>3, <1>4, <1>5, <1>6, <1>7 DEF ListenerNext

LEMMA DyingIsLockedKept ==
    ASSUME ListenerTypeOK, LockIsHeld, DyingIsLocked, ListedAreMade, NewIsUnlisted, ListenerNext
    PROVE  DyingIsLocked'
<1>1. CASE Accepting
  BY <1>1, ListenerNames DEF Accepting, AcceptCheck, AcceptReturns, MakeTimeHandler,
     ResumeClock, StartThread, PushClient, Resume, Lock, Unlock, clockVars, clientVars, listVars,
     loops, ListenerTypeOK, LockIsHeld, DyingIsLocked, ListedAreMade, NewIsUnlisted
<1>2. CASE Murdering
  <2>1. CASE MurderCheck
    BY ZenonT(40), <1>2, <2>1, ListenerNames DEF Murdering, MurderCheck, clockVars, clientVars,
       listVars, loops, ListenerTypeOK, LockIsHeld, DyingIsLocked, ListedAreMade,
       NewIsUnlisted
  <2>2. CASE DequeueClient
    BY ZenonT(40), <1>2, <2>2, ListenerNames DEF Murdering, DequeueClient, clockVars, clientVars,
       listVars, loops, ListenerTypeOK, LockIsHeld, DyingIsLocked, ListedAreMade,
       NewIsUnlisted
  <2>3. CASE LockToErase
    BY ZenonT(40), <1>2, <2>3, ListenerNames DEF Murdering, LockToErase, Lock, clockVars,
       clientVars, listVars, loops, ListenerTypeOK, LockIsHeld, DyingIsLocked, ListedAreMade,
       NewIsUnlisted
  <2>4. CASE Erased
    BY ZenonT(40), <1>2, <2>4, ListenerNames DEF Murdering, Erased, Unlock, clockVars, clientVars,
       listVars, loops, ListenerTypeOK, LockIsHeld, DyingIsLocked, ListedAreMade,
       NewIsUnlisted
  <2>5. QED
    BY <1>2, <2>1, <2>2, <2>3, <2>4 DEF Murdering
<1>3. CASE Saving
  BY <1>3, ListenerNames DEF Saving, SaverCheck, SaverLock, SaveClient, SaverSleeps,
     SaverWakes, Lock, Unlock, clockVars, clientVars, listVars, loops, ListenerTypeOK, LockIsHeld,
     DyingIsLocked, ListedAreMade, NewIsUnlisted
<1>4. CASE Destroying
  BY <1>4, ListenerNames DEF Destroying, WakeThread, JoinThread, DropTimeHandler, StopClock,
     SaveStopped, DyingAt, Stop, SaveTime, ReadEndOpen, Lock, Unlock, clockVars, clientVars,
     listVars, loops, ListenerTypeOK, LockIsHeld, DyingIsLocked, ListedAreMade, NewIsUnlisted
<1>5. CASE Closing
  <2>0. UNCHANGED <<accepting, newClient, saver, saving, murderer, victim, clientVars>>
    BY <1>5 DEF Closing
  <2>1. CASE Interrupt
    BY <2>0, <2>1, ListenerNames DEF Interrupt, clockVars, clientVars, listVars, loops,
       ListenerTypeOK, LockIsHeld, DyingIsLocked, ListedAreMade, NewIsUnlisted
  <2>2. CASE JoinSaver
    BY <2>0, <2>2, ListenerNames DEF JoinSaver, clockVars, clientVars, listVars, loops,
       ListenerTypeOK, LockIsHeld, DyingIsLocked, ListedAreMade, NewIsUnlisted
  <2>3. CASE LockToClear
    BY <2>0, <2>3, ListenerNames DEF LockToClear, Lock, clockVars, clientVars, listVars,
       loops, ListenerTypeOK, LockIsHeld, DyingIsLocked, ListedAreMade, NewIsUnlisted
  <2>4. CASE ClearNext
    <3>1. PICK c \in clients : clients' = clients \ {c} /\ dying' = c /\ dyingStep' = "wake"
      BY <2>4 DEF ClearNext
    <3>2. /\ closing = "clearing" /\ UNCHANGED <<closing, life, murderer, victim, forgotten>>
          /\ c \in Conn
      BY <2>0, <3>1, <2>4 DEF ClearNext, clientVars, ListenerTypeOK
    <3>3. life[c] = "made"
      BY <3>1, <3>2 DEF DyingIsLocked, ListedAreMade
    <3>4. murderer # "erase"
      BY <3>2, ListenerNames DEF LockIsHeld
    <3>5. QED
      BY <3>1, <3>2, <3>3, <3>4, ListenerNames DEF DyingIsLocked
  <2>5. CASE Cleared
    BY <2>0, <2>5, ListenerNames DEF Cleared, Unlock, clockVars, clientVars, listVars, loops,
       ListenerTypeOK, LockIsHeld, DyingIsLocked, ListedAreMade, NewIsUnlisted
  <2>6. CASE CloseSocket
    BY <2>0, <2>6, ListenerNames DEF CloseSocket, clockVars, clientVars, listVars, loops,
       ListenerTypeOK, LockIsHeld, DyingIsLocked, ListedAreMade, NewIsUnlisted
  <2>7. CASE JoinThreads
    BY <2>0, <2>7, ListenerNames DEF JoinThreads, clockVars, clientVars, listVars, loops,
       ListenerTypeOK, LockIsHeld, DyingIsLocked, ListedAreMade, NewIsUnlisted
  <2>8. CASE DeleteClock
    BY <2>0, <2>8, ListenerNames DEF DeleteClock, clockVars, clientVars, listVars, loops,
       ListenerTypeOK, LockIsHeld, DyingIsLocked, ListedAreMade, NewIsUnlisted
  <2>9. CASE DestroyMembers
    BY <2>0, <2>9, ListenerNames DEF DestroyMembers, clockVars, clientVars, listVars, loops,
       ListenerTypeOK, LockIsHeld, DyingIsLocked, ListedAreMade, NewIsUnlisted
  <2>10. QED
    BY <1>5, <2>1, <2>2, <2>3, <2>4, <2>5, <2>6, <2>7, <2>8, <2>9 DEF Closing
<1>6. CASE \E c \in Conn : Peer(c) \/ ClientWork(c)
  <2>0. UNCHANGED <<loops, clockVars>>
    BY <1>6 DEF Peer, ClientWork
  <2>1. ASSUME NEW c \in Conn, Handshake(c) PROVE DyingIsLocked'
    BY <2>0, <2>1, ListenerNames DEF Handshake, Goes, clockVars, clientVars, listVars, loops,
       ListenerTypeOK, LockIsHeld, DyingIsLocked, ListedAreMade, NewIsUnlisted
  <2>2. ASSUME NEW c \in Conn, Receive(c) PROVE DyingIsLocked'
    BY <2>0, <2>2, ListenerNames DEF Receive, Goes, clockVars, clientVars, listVars, loops,
       ListenerTypeOK, LockIsHeld, DyingIsLocked, ListedAreMade, NewIsUnlisted
  <2>3. ASSUME NEW c \in Conn, WriteSocket(c) PROVE DyingIsLocked'
    BY <2>0, <2>3, ListenerNames DEF WriteSocket, Goes, clockVars, clientVars, listVars,
       loops, ListenerTypeOK, LockIsHeld, DyingIsLocked, ListedAreMade, NewIsUnlisted
  <2>4. ASSUME NEW c \in Conn, ReadPipe(c) PROVE DyingIsLocked'
    BY <2>0, <2>4, ListenerNames DEF ReadPipe, Goes, clockVars, clientVars, listVars, loops,
       ListenerTypeOK, LockIsHeld, DyingIsLocked, ListedAreMade, NewIsUnlisted
  <2>5. ASSUME NEW c \in Conn, LockForEach(c) PROVE DyingIsLocked'
    BY <2>0, <2>5, ListenerNames DEF LockForEach, Lock, Goes, clockVars, clientVars,
       listVars, loops, ListenerTypeOK, LockIsHeld, DyingIsLocked, ListedAreMade, NewIsUnlisted
  <2>6. ASSUME NEW c \in Conn, EndForEach(c) PROVE DyingIsLocked'
    BY <2>0, <2>6, ListenerNames DEF EndForEach, Unlock, Goes, clockVars, clientVars,
       listVars, loops, ListenerTypeOK, LockIsHeld, DyingIsLocked, ListedAreMade, NewIsUnlisted
  <2>7. ASSUME NEW c \in Conn, Leave(c) PROVE DyingIsLocked'
    BY <2>0, <2>7, ListenerNames DEF Leave, Goes, clockVars, clientVars, listVars, loops,
       ListenerTypeOK, LockIsHeld, DyingIsLocked, ListedAreMade, NewIsUnlisted
  <2>8. ASSUME NEW c \in Conn, NEW d \in Conn, Cast(c, d) PROVE DyingIsLocked'
    BY <2>0, <2>8, ListenerNames DEF Cast, ReadEndOpen, clockVars, clientVars, listVars,
       loops, ListenerTypeOK, LockIsHeld, DyingIsLocked, ListedAreMade, NewIsUnlisted
  <2>9. QED
    BY <1>6, <2>1, <2>2, <2>3, <2>4, <2>5, <2>6, <2>7, <2>8 DEF Peer, ClientWork
<1>7. CASE ClockStep
  BY <1>7, ListenerNames DEF ClockStep, Lock, Unlock, clockVars, clientVars, listVars, loops,
     ListenerTypeOK, LockIsHeld, DyingIsLocked, ListedAreMade, NewIsUnlisted
<1>8. QED
  BY <1>1, <1>2, <1>3, <1>4, <1>5, <1>6, <1>7 DEF ListenerNext

LEMMA ListedAreMadeKept ==
    ASSUME ListenerTypeOK, LockIsHeld, DyingIsLocked, ListedAreMade, NewIsUnlisted, ListenerNext
    PROVE  ListedAreMade'
<1>1. CASE Accepting
  <2>0. UNCHANGED <<saver, saving, murderer, victim, closing, dying, dyingStep, workerRun,
     listening>>
    BY <1>1 DEF Accepting
  <2>1. CASE AcceptCheck
    BY <2>0, <2>1, ListenerNames DEF AcceptCheck, clockVars, clientVars, listVars, loops,
       ListenerTypeOK, LockIsHeld, DyingIsLocked, ListedAreMade, NewIsUnlisted
  <2>2. CASE AcceptReturns
    BY <2>0, <2>2, ListenerNames DEF AcceptReturns, clockVars, clientVars, listVars, loops,
       ListenerTypeOK, LockIsHeld, DyingIsLocked, ListedAreMade, NewIsUnlisted
  <2>3. CASE MakeTimeHandler
    BY <2>0, <2>3, ListenerNames DEF MakeTimeHandler, clockVars, clientVars, listVars, loops,
       ListenerTypeOK, LockIsHeld, DyingIsLocked, ListedAreMade, NewIsUnlisted
  <2>4. CASE ResumeClock
    BY <2>0, <2>4, ListenerNames DEF ResumeClock, Resume, clockVars, clientVars, listVars,
       loops, ListenerTypeOK, LockIsHeld, DyingIsLocked, ListedAreMade, NewIsUnlisted
  <2>5. CASE StartThread
    BY <2>0, <2>5, ListenerNames DEF StartThread, clockVars, clientVars, listVars, loops,
       ListenerTypeOK, LockIsHeld, DyingIsLocked, ListedAreMade, NewIsUnlisted
  <2>6. CASE PushClient
    BY <2>0, <2>6, ListenerNames DEF PushClient, clockVars, clientVars, listVars, loops,
       ListenerTypeOK, LockIsHeld, DyingIsLocked, ListedAreMade, NewIsUnlisted
  <2>7. QED
    BY <1>1, <2>1, <2>2, <2>3, <2>4, <2>5, <2>6 DEF Accepting
<1>2. CASE Murdering
  BY ZenonT(40), <1>2, ListenerNames DEF Murdering, MurderCheck, DequeueClient, LockToErase, Erased,
     Lock, Unlock, clockVars, clientVars, listVars, loops, ListenerTypeOK, LockIsHeld,
     DyingIsLocked, ListedAreMade, NewIsUnlisted
<1>3. CASE Saving
  BY <1>3, ListenerNames DEF Saving, SaverCheck, SaverLock, SaveClient, SaverSleeps,
     SaverWakes, Lock, Unlock, clockVars, clientVars, listVars, loops, ListenerTypeOK, LockIsHeld,
     DyingIsLocked, ListedAreMade, NewIsUnlisted
<1>4. CASE Destroying
  <2>0. UNCHANGED <<accepting, newClient, saver, saving, murderer, victim, closing, workerRun,
     listening, listVars, clientLock>>
    BY <1>4 DEF Destroying
  <2>1. CASE WakeThread
    BY <2>0, <2>1, ListenerNames DEF WakeThread, DyingAt, ReadEndOpen, clockVars, clientVars,
       listVars, loops, ListenerTypeOK, LockIsHeld, DyingIsLocked, ListedAreMade, NewIsUnlisted
  <2>2. CASE JoinThread
    BY <2>0, <2>2, ListenerNames DEF JoinThread, DyingAt, clockVars, clientVars, listVars,
       loops, ListenerTypeOK, LockIsHeld, DyingIsLocked, ListedAreMade, NewIsUnlisted
  <2>3. CASE DropTimeHandler
    BY <2>0, <2>3, ListenerNames DEF DropTimeHandler, DyingAt, clockVars, clientVars,
       listVars, loops, ListenerTypeOK, LockIsHeld, DyingIsLocked, ListedAreMade, NewIsUnlisted
  <2>4. CASE StopClock
    BY <2>0, <2>4, ListenerNames DEF StopClock, Stop, DyingAt, clockVars, clientVars,
       listVars, loops, ListenerTypeOK, LockIsHeld, DyingIsLocked, ListedAreMade, NewIsUnlisted
  <2>5. CASE SaveStopped
    BY <2>0, <2>5, ListenerNames DEF SaveStopped, SaveTime, DyingAt, clockVars, clientVars,
       listVars, loops, ListenerTypeOK, LockIsHeld, DyingIsLocked, ListedAreMade, NewIsUnlisted
  <2>6. QED
    BY <1>4, <2>1, <2>2, <2>3, <2>4, <2>5 DEF Destroying
<1>5. CASE Closing
  BY <1>5, ListenerNames DEF Closing, Interrupt, JoinSaver, LockToClear, ClearNext, Cleared,
     CloseSocket, JoinThreads, DeleteClock, DestroyMembers, Lock, Unlock, clockVars, clientVars,
     listVars, loops, ListenerTypeOK, LockIsHeld, DyingIsLocked, ListedAreMade, NewIsUnlisted
<1>6. CASE \E c \in Conn : Peer(c) \/ ClientWork(c)
  <2>0. UNCHANGED <<loops, clockVars>>
    BY <1>6 DEF Peer, ClientWork
  <2>1. ASSUME NEW c \in Conn, Handshake(c) PROVE ListedAreMade'
    BY <2>0, <2>1, ListenerNames DEF Handshake, Goes, clockVars, clientVars, listVars, loops,
       ListenerTypeOK, LockIsHeld, DyingIsLocked, ListedAreMade, NewIsUnlisted
  <2>2. ASSUME NEW c \in Conn, Receive(c) PROVE ListedAreMade'
    BY <2>0, <2>2, ListenerNames DEF Receive, Goes, clockVars, clientVars, listVars, loops,
       ListenerTypeOK, LockIsHeld, DyingIsLocked, ListedAreMade, NewIsUnlisted
  <2>3. ASSUME NEW c \in Conn, WriteSocket(c) PROVE ListedAreMade'
    BY <2>0, <2>3, ListenerNames DEF WriteSocket, Goes, clockVars, clientVars, listVars,
       loops, ListenerTypeOK, LockIsHeld, DyingIsLocked, ListedAreMade, NewIsUnlisted
  <2>4. ASSUME NEW c \in Conn, ReadPipe(c) PROVE ListedAreMade'
    BY <2>0, <2>4, ListenerNames DEF ReadPipe, Goes, clockVars, clientVars, listVars, loops,
       ListenerTypeOK, LockIsHeld, DyingIsLocked, ListedAreMade, NewIsUnlisted
  <2>5. ASSUME NEW c \in Conn, LockForEach(c) PROVE ListedAreMade'
    BY <2>0, <2>5, ListenerNames DEF LockForEach, Lock, Goes, clockVars, clientVars,
       listVars, loops, ListenerTypeOK, LockIsHeld, DyingIsLocked, ListedAreMade, NewIsUnlisted
  <2>6. ASSUME NEW c \in Conn, EndForEach(c) PROVE ListedAreMade'
    BY <2>0, <2>6, ListenerNames DEF EndForEach, Unlock, Goes, clockVars, clientVars,
       listVars, loops, ListenerTypeOK, LockIsHeld, DyingIsLocked, ListedAreMade, NewIsUnlisted
  <2>7. ASSUME NEW c \in Conn, Leave(c) PROVE ListedAreMade'
    BY <2>0, <2>7, ListenerNames DEF Leave, Goes, clockVars, clientVars, listVars, loops,
       ListenerTypeOK, LockIsHeld, DyingIsLocked, ListedAreMade, NewIsUnlisted
  <2>8. ASSUME NEW c \in Conn, NEW d \in Conn, Cast(c, d) PROVE ListedAreMade'
    BY <2>0, <2>8, ListenerNames DEF Cast, ReadEndOpen, clockVars, clientVars, listVars,
       loops, ListenerTypeOK, LockIsHeld, DyingIsLocked, ListedAreMade, NewIsUnlisted
  <2>9. QED
    BY <1>6, <2>1, <2>2, <2>3, <2>4, <2>5, <2>6, <2>7, <2>8 DEF Peer, ClientWork
<1>7. CASE ClockStep
  BY <1>7, ListenerNames DEF ClockStep, Lock, Unlock, clockVars, clientVars, listVars, loops,
     ListenerTypeOK, LockIsHeld, DyingIsLocked, ListedAreMade, NewIsUnlisted
<1>8. QED
  BY <1>1, <1>2, <1>3, <1>4, <1>5, <1>6, <1>7 DEF ListenerNext

LEMMA NewIsUnlistedKept ==
    ASSUME ListenerTypeOK, LockIsHeld, DyingIsLocked, ListedAreMade, NewIsUnlisted, ListenerNext
    PROVE  NewIsUnlisted'
<1>1. CASE Accepting
  <2>0. UNCHANGED <<saver, saving, murderer, victim, closing, dying, dyingStep, workerRun,
     listening>>
    BY <1>1 DEF Accepting
  <2>1. CASE AcceptCheck
    BY <2>0, <2>1, ListenerNames DEF AcceptCheck, clockVars, clientVars, listVars, loops,
       ListenerTypeOK, LockIsHeld, DyingIsLocked, ListedAreMade, NewIsUnlisted
  <2>2. CASE AcceptReturns
    BY ZenonT(40), <2>0, <2>2, ListenerNames DEF AcceptReturns, clockVars, clientVars, listVars,
       loops, ListenerTypeOK, LockIsHeld, DyingIsLocked, ListedAreMade, NewIsUnlisted
  <2>3. CASE MakeTimeHandler
    BY <2>0, <2>3, ListenerNames DEF MakeTimeHandler, clockVars, clientVars, listVars, loops,
       ListenerTypeOK, LockIsHeld, DyingIsLocked, ListedAreMade, NewIsUnlisted
  <2>4. CASE ResumeClock
    BY <2>0, <2>4, ListenerNames DEF ResumeClock, Resume, clockVars, clientVars, listVars,
       loops, ListenerTypeOK, LockIsHeld, DyingIsLocked, ListedAreMade, NewIsUnlisted
  <2>5. CASE StartThread
    BY <2>0, <2>5, ListenerNames DEF StartThread, clockVars, clientVars, listVars, loops,
       ListenerTypeOK, LockIsHeld, DyingIsLocked, ListedAreMade, NewIsUnlisted
  <2>6. CASE PushClient
    BY <2>0, <2>6, ListenerNames DEF PushClient, clockVars, clientVars, listVars, loops,
       ListenerTypeOK, LockIsHeld, DyingIsLocked, ListedAreMade, NewIsUnlisted
  <2>7. QED
    BY <1>1, <2>1, <2>2, <2>3, <2>4, <2>5, <2>6 DEF Accepting
<1>2. CASE Murdering
  BY <1>2, ListenerNames DEF Murdering, MurderCheck, DequeueClient, LockToErase, Erased,
     Lock, Unlock, clockVars, clientVars, listVars, loops, ListenerTypeOK, LockIsHeld,
     DyingIsLocked, ListedAreMade, NewIsUnlisted
<1>3. CASE Saving
  BY <1>3, ListenerNames DEF Saving, SaverCheck, SaverLock, SaveClient, SaverSleeps,
     SaverWakes, Lock, Unlock, clockVars, clientVars, listVars, loops, ListenerTypeOK, LockIsHeld,
     DyingIsLocked, ListedAreMade, NewIsUnlisted
<1>4. CASE Destroying
  BY <1>4, ListenerNames DEF Destroying, WakeThread, JoinThread, DropTimeHandler, StopClock,
     SaveStopped, DyingAt, Stop, SaveTime, ReadEndOpen, Lock, Unlock, clockVars, clientVars,
     listVars, loops, ListenerTypeOK, LockIsHeld, DyingIsLocked, ListedAreMade, NewIsUnlisted
<1>5. CASE Closing
  <2>1. CASE Interrupt
    BY <1>5, <2>1, ListenerNames DEF Closing, Interrupt, clockVars, clientVars, listVars,
       loops, ListenerTypeOK, LockIsHeld, DyingIsLocked, ListedAreMade, NewIsUnlisted
  <2>2. CASE JoinSaver
    BY <1>5, <2>2, ListenerNames DEF Closing, JoinSaver, clockVars, clientVars, listVars,
       loops, ListenerTypeOK, LockIsHeld, DyingIsLocked, ListedAreMade, NewIsUnlisted
  <2>3. CASE LockToClear
    BY <1>5, <2>3, ListenerNames DEF Closing, LockToClear, Lock, clockVars, clientVars,
       listVars, loops, ListenerTypeOK, LockIsHeld, DyingIsLocked, ListedAreMade,
       NewIsUnlisted
  <2>4. CASE ClearNext
    BY <1>5, <2>4, ListenerNames DEF Closing, ClearNext, clockVars, clientVars, listVars,
       loops, ListenerTypeOK, LockIsHeld, DyingIsLocked, ListedAreMade, NewIsUnlisted
  <2>5. CASE Cleared
    BY <1>5, <2>5, ListenerNames DEF Closing, Cleared, Unlock, clockVars, clientVars,
       listVars, loops, ListenerTypeOK, LockIsHeld, DyingIsLocked, ListedAreMade,
       NewIsUnlisted
  <2>6. CASE CloseSocket
    BY <1>5, <2>6, ListenerNames DEF Closing, CloseSocket, clockVars, clientVars, listVars,
       loops, ListenerTypeOK, LockIsHeld, DyingIsLocked, ListedAreMade, NewIsUnlisted
  <2>7. CASE JoinThreads
    BY <1>5, <2>7, ListenerNames DEF Closing, JoinThreads, clockVars, clientVars, listVars,
       loops, ListenerTypeOK, LockIsHeld, DyingIsLocked, ListedAreMade, NewIsUnlisted
  <2>8. CASE DeleteClock
    BY <1>5, <2>8, ListenerNames DEF Closing, DeleteClock, clockVars, clientVars, listVars,
       loops, ListenerTypeOK, LockIsHeld, DyingIsLocked, ListedAreMade, NewIsUnlisted
  <2>9. CASE DestroyMembers
    BY <1>5, <2>9, ListenerNames DEF Closing, DestroyMembers, clockVars, clientVars,
       listVars, loops, ListenerTypeOK, LockIsHeld, DyingIsLocked, ListedAreMade,
       NewIsUnlisted
  <2>10. QED
    BY <1>5, <2>1, <2>2, <2>3, <2>4, <2>5, <2>6, <2>7, <2>8, <2>9 DEF Closing
<1>6. CASE \E c \in Conn : Peer(c) \/ ClientWork(c)
  <2>0. UNCHANGED <<loops, clockVars>>
    BY <1>6 DEF Peer, ClientWork
  <2>1. ASSUME NEW c \in Conn, Handshake(c) PROVE NewIsUnlisted'
    BY ZenonT(40), <2>0, <2>1, ListenerNames DEF Handshake, Goes, clockVars, clientVars,
       listVars, loops, ListenerTypeOK, LockIsHeld, DyingIsLocked, ListedAreMade, NewIsUnlisted
  <2>2. ASSUME NEW c \in Conn, Receive(c) PROVE NewIsUnlisted'
    BY ZenonT(40), <2>0, <2>2, ListenerNames DEF Receive, Goes, clockVars, clientVars, listVars,
       loops, ListenerTypeOK, LockIsHeld, DyingIsLocked, ListedAreMade, NewIsUnlisted
  <2>3. ASSUME NEW c \in Conn, WriteSocket(c) PROVE NewIsUnlisted'
    BY ZenonT(40), <2>0, <2>3, ListenerNames DEF WriteSocket, Goes, clockVars, clientVars, listVars,
       loops, ListenerTypeOK, LockIsHeld, DyingIsLocked, ListedAreMade, NewIsUnlisted
  <2>4. ASSUME NEW c \in Conn, ReadPipe(c) PROVE NewIsUnlisted'
    BY <2>0, <2>4, ListenerNames DEF ReadPipe, Goes, clockVars, clientVars, listVars, loops,
       ListenerTypeOK, LockIsHeld, DyingIsLocked, ListedAreMade, NewIsUnlisted
  <2>5. ASSUME NEW c \in Conn, LockForEach(c) PROVE NewIsUnlisted'
    BY <2>0, <2>5, ListenerNames DEF LockForEach, Lock, Goes, clockVars, clientVars,
       listVars, loops, ListenerTypeOK, LockIsHeld, DyingIsLocked, ListedAreMade, NewIsUnlisted
  <2>6. ASSUME NEW c \in Conn, EndForEach(c) PROVE NewIsUnlisted'
    BY <2>0, <2>6, ListenerNames DEF EndForEach, Unlock, Goes, clockVars, clientVars,
       listVars, loops, ListenerTypeOK, LockIsHeld, DyingIsLocked, ListedAreMade, NewIsUnlisted
  <2>7. ASSUME NEW c \in Conn, Leave(c) PROVE NewIsUnlisted'
    BY <2>0, <2>7, ListenerNames DEF Leave, Goes, clockVars, clientVars, listVars, loops,
       ListenerTypeOK, LockIsHeld, DyingIsLocked, ListedAreMade, NewIsUnlisted
  <2>8. ASSUME NEW c \in Conn, NEW d \in Conn, Cast(c, d) PROVE NewIsUnlisted'
    BY <2>0, <2>8, ListenerNames DEF Cast, ReadEndOpen, clockVars, clientVars, listVars,
       loops, ListenerTypeOK, LockIsHeld, DyingIsLocked, ListedAreMade, NewIsUnlisted
  <2>9. QED
    BY <1>6, <2>1, <2>2, <2>3, <2>4, <2>5, <2>6, <2>7, <2>8 DEF Peer, ClientWork
<1>7. CASE ClockStep
  BY <1>7, ListenerNames DEF ClockStep, Lock, Unlock, clockVars, clientVars, listVars, loops,
     ListenerTypeOK, LockIsHeld, DyingIsLocked, ListedAreMade, NewIsUnlisted
<1>8. QED
  BY <1>1, <1>2, <1>3, <1>4, <1>5, <1>6, <1>7 DEF ListenerNext

LEMMA ReachedAreMadeKept ==
    ASSUME ListenerTypeOK, LockIsHeld, DyingIsLocked, ListedAreMade, NewIsUnlisted,
           ReachedAreMade, ListenerNext
    PROVE  ReachedAreMade'
<1>1. CASE Accepting
  <2>0. UNCHANGED <<saver, saving, murderer, victim, closing, dying, dyingStep, workerRun,
     listening>>
    BY <1>1 DEF Accepting
  <2>1. CASE AcceptCheck
    BY <2>0, <2>1, ListenerNames DEF AcceptCheck, clockVars, clientVars, listVars, loops,
       ListenerTypeOK, LockIsHeld, DyingIsLocked, ListedAreMade, NewIsUnlisted, ReachedAreMade
  <2>2. CASE AcceptReturns
    BY <2>0, <2>2, ListenerNames DEF AcceptReturns, clockVars, clientVars, listVars, loops,
       ListenerTypeOK, LockIsHeld, DyingIsLocked, ListedAreMade, NewIsUnlisted, ReachedAreMade
  <2>3. CASE MakeTimeHandler
    BY <2>0, <2>3, ListenerNames DEF MakeTimeHandler, clockVars, clientVars, listVars, loops,
       ListenerTypeOK, LockIsHeld, DyingIsLocked, ListedAreMade, NewIsUnlisted, ReachedAreMade
  <2>4. CASE ResumeClock
    BY <2>0, <2>4, ListenerNames DEF ResumeClock, Resume, clockVars, clientVars, listVars,
       loops, ListenerTypeOK, LockIsHeld, DyingIsLocked, ListedAreMade, NewIsUnlisted,
       ReachedAreMade
  <2>5. CASE StartThread
    BY <2>0, <2>5, ListenerNames DEF StartThread, clockVars, clientVars, listVars, loops,
       ListenerTypeOK, LockIsHeld, DyingIsLocked, ListedAreMade, NewIsUnlisted, ReachedAreMade
  <2>6. CASE PushClient
    BY <2>0, <2>6, ListenerNames DEF PushClient, clockVars, clientVars, listVars, loops,
       ListenerTypeOK, LockIsHeld, DyingIsLocked, ListedAreMade, NewIsUnlisted, ReachedAreMade
  <2>7. QED
    BY <1>1, <2>1, <2>2, <2>3, <2>4, <2>5, <2>6 DEF Accepting
<1>2. CASE Murdering
  BY <1>2, ListenerNames DEF Murdering, MurderCheck, DequeueClient, LockToErase, Erased,
     Lock, Unlock, clockVars, clientVars, listVars, loops, ListenerTypeOK, LockIsHeld,
     DyingIsLocked, ListedAreMade, NewIsUnlisted, ReachedAreMade
<1>3. CASE Saving
  <2>0. UNCHANGED <<accepting, newClient, murderer, victim, closing, dying, dyingStep, workerRun,
     listening, listVars, clientVars, clockVars>>
    BY <1>3 DEF Saving
  <2>1. CASE SaverCheck
    BY <2>0, <2>1, ListenerNames DEF SaverCheck, clockVars, clientVars, listVars, loops,
       ListenerTypeOK, LockIsHeld, DyingIsLocked, ListedAreMade, NewIsUnlisted, ReachedAreMade
  <2>2. CASE SaverLock
    <3>1. clientLock = None /\ saver' = "save" /\ saving' = clients
      BY <2>2 DEF SaverLock, Lock
    <3>2. dying = None
      BY <3>1, ListenerNames DEF LockIsHeld, DyingIsLocked
    <3>3. \A d \in clients : life[d] = "made"
      BY <3>2, ListenerNames DEF ListedAreMade, ListenerTypeOK
    <3>4. UNCHANGED <<casts, life, thread>>
      BY <2>0 DEF clientVars
    <3>5. QED
      BY <3>1, <3>3, <3>4 DEF ReachedAreMade
  <2>3. CASE SaveClient
    BY <2>0, <2>3, ListenerNames DEF SaveClient, clockVars, clientVars, listVars, loops,
       ListenerTypeOK, LockIsHeld, DyingIsLocked, ListedAreMade, NewIsUnlisted, ReachedAreMade
  <2>4. CASE SaverSleeps
    BY <2>0, <2>4, ListenerNames DEF SaverSleeps, Unlock, clockVars, clientVars, listVars,
       loops, ListenerTypeOK, LockIsHeld, DyingIsLocked, ListedAreMade, NewIsUnlisted,
       ReachedAreMade
  <2>5. CASE SaverWakes
    BY <2>0, <2>5, ListenerNames DEF SaverWakes, clockVars, clientVars, listVars, loops,
       ListenerTypeOK, LockIsHeld, DyingIsLocked, ListedAreMade, NewIsUnlisted, ReachedAreMade
  <2>6. QED
    BY <1>3, <2>1, <2>2, <2>3, <2>4, <2>5 DEF Saving
<1>4. CASE Destroying
  <2>0. UNCHANGED <<accepting, newClient, saver, saving, murderer, victim, closing, workerRun,
     listening, listVars, clientLock>>
    BY <1>4 DEF Destroying
  <2>1. CASE WakeThread
    BY <2>0, <2>1, ListenerNames DEF WakeThread, DyingAt, ReadEndOpen, clockVars, clientVars,
       listVars, loops, ListenerTypeOK, LockIsHeld, DyingIsLocked, ListedAreMade, NewIsUnlisted,
       ReachedAreMade
  <2>2. CASE JoinThread
    BY <2>0, <2>2, ListenerNames DEF JoinThread, DyingAt, clockVars, clientVars, listVars,
       loops, ListenerTypeOK, LockIsHeld, DyingIsLocked, ListedAreMade, NewIsUnlisted,
       ReachedAreMade
  <2>3. CASE DropTimeHandler
    <3>1. /\ dying # None /\ life' = [life EXCEPT ![dying] = "freed"]
          /\ UNCHANGED <<saver, saving, casts, thread>>
      BY <2>0, <2>3 DEF DropTimeHandler, DyingAt
    <3>2. clientLock \in {"murderer", "main"}
      BY <3>1 DEF LockIsHeld, DyingIsLocked
    <3>3. saving = {} /\ \A c \in Conn : casts[c] = {}
      BY <3>2, ListenerNames DEF ReachedAreMade, LockIsHeld
    <3>4. QED
      BY <3>1, <3>3 DEF ReachedAreMade
  <2>4. CASE StopClock
    BY <2>0, <2>4, ListenerNames DEF StopClock, Stop, DyingAt, clockVars, clientVars,
       listVars, loops, ListenerTypeOK, LockIsHeld, DyingIsLocked, ListedAreMade, NewIsUnlisted,
       ReachedAreMade
  <2>5. CASE SaveStopped
    BY <2>0, <2>5, ListenerNames DEF SaveStopped, SaveTime, DyingAt, clockVars, clientVars,
       listVars, loops, ListenerTypeOK, LockIsHeld, DyingIsLocked, ListedAreMade, NewIsUnlisted,
       ReachedAreMade
  <2>6. QED
    BY <1>4, <2>1, <2>2, <2>3, <2>4, <2>5 DEF Destroying
<1>5. CASE Closing
  BY <1>5, ListenerNames DEF Closing, Interrupt, JoinSaver, LockToClear, ClearNext, Cleared,
     CloseSocket, JoinThreads, DeleteClock, DestroyMembers, Lock, Unlock, clockVars, clientVars,
     listVars, loops, ListenerTypeOK, LockIsHeld, DyingIsLocked, ListedAreMade, NewIsUnlisted,
     ReachedAreMade
<1>6. CASE \E c \in Conn : Peer(c) \/ ClientWork(c)
  <2>0. UNCHANGED <<loops, clockVars>>
    BY <1>6 DEF Peer, ClientWork
  <2>1. ASSUME NEW c \in Conn, Handshake(c) PROVE ReachedAreMade'
    <3>1. PICK s \in {"poll", "leave"} : thread' = [thread EXCEPT ![c] = s]
      BY <2>1 DEF Handshake, Goes
    <3>2. thread[c] = "handshake" /\ UNCHANGED <<saver, saving, casts, life>>
      BY <2>0, <2>1 DEF Handshake, loops
    <3>3. QED
      BY <3>1, <3>2 DEF ListenerTypeOK, ReachedAreMade
  <2>2. ASSUME NEW c \in Conn, Receive(c) PROVE ReachedAreMade'
    <3>1. PICK s \in {"lock", "leave"} : thread' = [thread EXCEPT ![c] = s]
      BY <2>2 DEF Receive, Goes
    <3>2. thread[c] = "poll" /\ UNCHANGED <<saver, saving, casts, life>>
      BY <2>0, <2>2 DEF Receive, loops
    <3>3. QED
      BY <3>1, <3>2 DEF ListenerTypeOK, ReachedAreMade
  <2>3. ASSUME NEW c \in Conn, WriteSocket(c) PROVE ReachedAreMade'
    <3>1. PICK s \in {"poll", "leave"} : thread' = [thread EXCEPT ![c] = s]
      BY <2>3 DEF WriteSocket, Goes
    <3>2. thread[c] = "write" /\ UNCHANGED <<saver, saving, casts, life>>
      BY <2>0, <2>3 DEF WriteSocket, loops
    <3>3. QED
      BY <3>1, <3>2 DEF ListenerTypeOK, ReachedAreMade
  <2>4. ASSUME NEW c \in Conn, ReadPipe(c) PROVE ReachedAreMade'
    BY <2>0, <2>4, ListenerNames DEF ReadPipe, Goes, clockVars, clientVars, listVars, loops,
       ListenerTypeOK, LockIsHeld, DyingIsLocked, ListedAreMade, NewIsUnlisted, ReachedAreMade
  <2>5. ASSUME NEW c \in Conn, LockForEach(c) PROVE ReachedAreMade'
    <3>1. /\ clientLock = None /\ thread' = [thread EXCEPT ![c] = "cast"]
          /\ casts' = [casts EXCEPT ![c] = {d \in clients \ {c} : thread[d] # "handshake"}]
          /\ UNCHANGED <<saver, saving, life>>
      BY <2>0, <2>5 DEF LockForEach, Lock, Goes, loops
    <3>2. dying = None
      BY <3>1, ListenerNames DEF LockIsHeld, DyingIsLocked
    <3>3. \A d \in clients : life[d] = "made"
      BY <3>2, ListenerNames DEF ListedAreMade, ListenerTypeOK
    <3>4. casts'[c] \subseteq clients /\ \A e \in Conn \ {c} : casts'[e] = casts[e]
      BY <3>1 DEF ListenerTypeOK
    <3>5. QED
      BY <3>1, <3>3, <3>4 DEF ListenerTypeOK, ReachedAreMade
  <2>6. ASSUME NEW c \in Conn, EndForEach(c) PROVE ReachedAreMade'
    BY <2>0, <2>6, ListenerNames DEF EndForEach, Unlock, Goes, clockVars, clientVars,
       listVars, loops, ListenerTypeOK, LockIsHeld, DyingIsLocked, ListedAreMade, NewIsUnlisted,
       ReachedAreMade
  <2>7. ASSUME NEW c \in Conn, Leave(c) PROVE ReachedAreMade'
    BY <2>0, <2>7, ListenerNames DEF Leave, Goes, clockVars, clientVars, listVars, loops,
       ListenerTypeOK, LockIsHeld, DyingIsLocked, ListedAreMade, NewIsUnlisted, ReachedAreMade
  <2>8. ASSUME NEW c \in Conn, NEW d \in Conn, Cast(c, d) PROVE ReachedAreMade'
    BY ZenonT(40), <2>0, <2>8, ListenerNames DEF Cast, ReadEndOpen, clockVars, clientVars, listVars,
       loops, ListenerTypeOK, LockIsHeld, DyingIsLocked, ListedAreMade, NewIsUnlisted,
       ReachedAreMade
  <2>9. QED
    BY <1>6, <2>1, <2>2, <2>3, <2>4, <2>5, <2>6, <2>7, <2>8 DEF Peer, ClientWork
<1>7. CASE ClockStep
  BY <1>7, ListenerNames DEF ClockStep, Lock, Unlock, clockVars, clientVars, listVars, loops,
     ListenerTypeOK, LockIsHeld, DyingIsLocked, ListedAreMade, NewIsUnlisted, ReachedAreMade
<1>8. QED
  BY <1>1, <1>2, <1>3, <1>4, <1>5, <1>6, <1>7 DEF ListenerNext

LEMMA GoneAreNotedKept ==
    ASSUME ListenerTypeOK, LockIsHeld, DyingIsLocked, ListedAreMade, NewIsUnlisted,
           GoneAreNoted, ListenerNext
    PROVE  GoneAreNoted'
<1>1. CASE Accepting
  <2>0. UNCHANGED <<saver, saving, murderer, victim, closing, dying, dyingStep, workerRun,
     listening>>
    BY <1>1 DEF Accepting
  <2>1. CASE AcceptCheck
    BY <2>0, <2>1, ListenerNames DEF AcceptCheck, clockVars, clientVars, listVars, loops,
       ListenerTypeOK, LockIsHeld, DyingIsLocked, ListedAreMade, NewIsUnlisted, GoneAreNoted
  <2>2. CASE AcceptReturns
    BY <2>0, <2>2, ListenerNames DEF AcceptReturns, clockVars, clientVars, listVars, loops,
       ListenerTypeOK, LockIsHeld, DyingIsLocked, ListedAreMade, NewIsUnlisted, GoneAreNoted
  <2>3. CASE MakeTimeHandler
    BY <2>0, <2>3, ListenerNames DEF MakeTimeHandler, clockVars, clientVars, listVars, loops,
       ListenerTypeOK, LockIsHeld, DyingIsLocked, ListedAreMade, NewIsUnlisted, GoneAreNoted
  <2>4. CASE ResumeClock
    BY <2>0, <2>4, ListenerNames DEF ResumeClock, Resume, clockVars, clientVars, listVars,
       loops, ListenerTypeOK, LockIsHeld, DyingIsLocked, ListedAreMade, NewIsUnlisted,
       GoneAreNoted
  <2>5. CASE StartThread
    BY <2>0, <2>5, ListenerNames DEF StartThread, clockVars, clientVars, listVars, loops,
       ListenerTypeOK, LockIsHeld, DyingIsLocked, ListedAreMade, NewIsUnlisted, GoneAreNoted
  <2>6. CASE PushClient
    BY <2>0, <2>6, ListenerNames DEF PushClient, clockVars, clientVars, listVars, loops,
       ListenerTypeOK, LockIsHeld, DyingIsLocked, ListedAreMade, NewIsUnlisted, GoneAreNoted
  <2>7. QED
    BY <1>1, <2>1, <2>2, <2>3, <2>4, <2>5, <2>6 DEF Accepting
<1>2. CASE Murdering
  <2>0. UNCHANGED <<accepting, newClient, saver, saving, closing, workerRun, listening,
     clientVars, clockVars>>
    BY <1>2 DEF Murdering
  <2>1. CASE MurderCheck
    BY <2>0, <2>1, ListenerNames DEF MurderCheck, clockVars, clientVars, listVars, loops,
       ListenerTypeOK, LockIsHeld, DyingIsLocked, ListedAreMade, NewIsUnlisted, GoneAreNoted
  <2>2. CASE DequeueClient
    BY ZenonT(40), <2>0, <2>2, ListenerNames DEF DequeueClient, clockVars, clientVars, listVars,
       loops, ListenerTypeOK, LockIsHeld, DyingIsLocked, ListedAreMade, NewIsUnlisted, GoneAreNoted
  <2>3. CASE LockToErase
    BY <2>0, <2>3, ListenerNames DEF LockToErase, Lock, clockVars, clientVars, listVars,
       loops, ListenerTypeOK, LockIsHeld, DyingIsLocked, ListedAreMade, NewIsUnlisted,
       GoneAreNoted
  <2>4. CASE Erased
    <3>1. /\ murderer = "erase" /\ clients' = clients \ {victim} /\ dying' = None
          /\ UNCHANGED <<victim, clientsToMurder, forgotten, thread, newClient>>
      BY <2>0, <2>4 DEF Erased, clientVars
    <3>2. dying = victim \/ victim \in forgotten
      BY <3>1 DEF DyingIsLocked
    <3>3. newClient # None => newClient # dying
      BY DEF NewIsUnlisted
    <3>4. ASSUME NEW c \in Conn, c \in clients' \/ c = newClient', thread'[c] = "ended"
          PROVE  c \in clientsToMurder' \cup forgotten'
      <4>1. c # victim \/ c \in forgotten
        BY <3>1, <3>2, <3>3, <3>4, ListenerNames
      <4>2. (c \in clients \/ c = newClient) /\ thread[c] = "ended"
        BY <3>1, <3>4
      <4>3. c = dying => c = victim \/ closing = "clearing"
        BY <4>2, ListenerNames DEF DyingIsLocked
      <4>4. closing # "clearing"
        BY <3>1, ListenerNames DEF LockIsHeld
      <4>5. QED
        BY <3>1, <4>1, <4>2, <4>3, <4>4 DEF GoneAreNoted
    <3>5. QED
      BY <3>4 DEF GoneAreNoted
  <2>5. QED
    BY <1>2, <2>1, <2>2, <2>3, <2>4 DEF Murdering
<1>3. CASE Saving
  BY <1>3, ListenerNames DEF Saving, SaverCheck, SaverLock, SaveClient, SaverSleeps,
     SaverWakes, Lock, Unlock, clockVars, clientVars, listVars, loops, ListenerTypeOK, LockIsHeld,
     DyingIsLocked, ListedAreMade, NewIsUnlisted, GoneAreNoted
<1>4. CASE Destroying
  BY <1>4, ListenerNames DEF Destroying, WakeThread, JoinThread, DropTimeHandler, StopClock,
     SaveStopped, DyingAt, Stop, SaveTime, ReadEndOpen, Lock, Unlock, clockVars, clientVars,
     listVars, loops, ListenerTypeOK, LockIsHeld, DyingIsLocked, ListedAreMade, NewIsUnlisted,
     GoneAreNoted
<1>5. CASE Closing
  <2>0. UNCHANGED <<accepting, newClient, saver, saving, murderer, victim, clientVars>>
    BY <1>5 DEF Closing
  <2>1. CASE Interrupt
    BY <2>0, <2>1, ListenerNames DEF Interrupt, clockVars, clientVars, listVars, loops,
       ListenerTypeOK, LockIsHeld, DyingIsLocked, ListedAreMade, NewIsUnlisted, GoneAreNoted
  <2>2. CASE JoinSaver
    BY <2>0, <2>2, ListenerNames DEF JoinSaver, clockVars, clientVars, listVars, loops,
       ListenerTypeOK, LockIsHeld, DyingIsLocked, ListedAreMade, NewIsUnlisted, GoneAreNoted
  <2>3. CASE LockToClear
    BY <2>0, <2>3, ListenerNames DEF LockToClear, Lock, clockVars, clientVars, listVars,
       loops, ListenerTypeOK, LockIsHeld, DyingIsLocked, ListedAreMade, NewIsUnlisted,
       GoneAreNoted
  <2>4. CASE ClearNext
    BY <2>0, <2>4, ListenerNames DEF ClearNext, clockVars, clientVars, listVars, loops,
       ListenerTypeOK, LockIsHeld, DyingIsLocked, ListedAreMade, NewIsUnlisted, GoneAreNoted
  <2>5. CASE Cleared
    BY <2>0, <2>5, ListenerNames DEF Cleared, Unlock, clockVars, clientVars, listVars, loops,
       ListenerTypeOK, LockIsHeld, DyingIsLocked, ListedAreMade, NewIsUnlisted, GoneAreNoted
  <2>6. CASE CloseSocket
    BY <2>0, <2>6, ListenerNames DEF CloseSocket, clockVars, clientVars, listVars, loops,
       ListenerTypeOK, LockIsHeld, DyingIsLocked, ListedAreMade, NewIsUnlisted, GoneAreNoted
  <2>7. CASE JoinThreads
    BY <2>0, <2>7, ListenerNames DEF JoinThreads, clockVars, clientVars, listVars, loops,
       ListenerTypeOK, LockIsHeld, DyingIsLocked, ListedAreMade, NewIsUnlisted, GoneAreNoted
  <2>8. CASE DeleteClock
    BY <2>0, <2>8, ListenerNames DEF DeleteClock, clockVars, clientVars, listVars, loops,
       ListenerTypeOK, LockIsHeld, DyingIsLocked, ListedAreMade, NewIsUnlisted, GoneAreNoted
  <2>9. CASE DestroyMembers
    BY <2>0, <2>9, ListenerNames DEF DestroyMembers, clockVars, clientVars, listVars, loops,
       ListenerTypeOK, LockIsHeld, DyingIsLocked, ListedAreMade, NewIsUnlisted, GoneAreNoted
  <2>10. QED
    BY <1>5, <2>1, <2>2, <2>3, <2>4, <2>5, <2>6, <2>7, <2>8, <2>9 DEF Closing
<1>6. CASE \E c \in Conn : Peer(c) \/ ClientWork(c)
  <2>0. UNCHANGED <<loops, clockVars>>
    BY <1>6 DEF Peer, ClientWork
  <2>1. ASSUME NEW c \in Conn, Handshake(c) PROVE GoneAreNoted'
    BY <2>0, <2>1, ListenerNames DEF Handshake, Goes, clockVars, clientVars, listVars, loops,
       ListenerTypeOK, LockIsHeld, DyingIsLocked, ListedAreMade, NewIsUnlisted, GoneAreNoted
  <2>2. ASSUME NEW c \in Conn, Receive(c) PROVE GoneAreNoted'
    BY ZenonT(40), <2>0, <2>2, ListenerNames DEF Receive, Goes, clockVars, clientVars, listVars,
       loops, ListenerTypeOK, LockIsHeld, DyingIsLocked, ListedAreMade, NewIsUnlisted, GoneAreNoted
  <2>3. ASSUME NEW c \in Conn, WriteSocket(c) PROVE GoneAreNoted'
    BY <2>0, <2>3, ListenerNames DEF WriteSocket, Goes, clockVars, clientVars, listVars,
       loops, ListenerTypeOK, LockIsHeld, DyingIsLocked, ListedAreMade, NewIsUnlisted,
       GoneAreNoted
  <2>4. ASSUME NEW c \in Conn, ReadPipe(c) PROVE GoneAreNoted'
    BY <2>0, <2>4, ListenerNames DEF ReadPipe, Goes, clockVars, clientVars, listVars, loops,
       ListenerTypeOK, LockIsHeld, DyingIsLocked, ListedAreMade, NewIsUnlisted, GoneAreNoted
  <2>5. ASSUME NEW c \in Conn, LockForEach(c) PROVE GoneAreNoted'
    BY <2>0, <2>5, ListenerNames DEF LockForEach, Lock, Goes, clockVars, clientVars,
       listVars, loops, ListenerTypeOK, LockIsHeld, DyingIsLocked, ListedAreMade, NewIsUnlisted,
       GoneAreNoted
  <2>6. ASSUME NEW c \in Conn, EndForEach(c) PROVE GoneAreNoted'
    BY <2>0, <2>6, ListenerNames DEF EndForEach, Unlock, Goes, clockVars, clientVars,
       listVars, loops, ListenerTypeOK, LockIsHeld, DyingIsLocked, ListedAreMade, NewIsUnlisted,
       GoneAreNoted
  <2>7. ASSUME NEW c \in Conn, Leave(c) PROVE GoneAreNoted'
    BY <2>0, <2>7, ListenerNames DEF Leave, Goes, clockVars, clientVars, listVars, loops,
       ListenerTypeOK, LockIsHeld, DyingIsLocked, ListedAreMade, NewIsUnlisted, GoneAreNoted
  <2>8. ASSUME NEW c \in Conn, NEW d \in Conn, Cast(c, d) PROVE GoneAreNoted'
    BY <2>0, <2>8, ListenerNames DEF Cast, ReadEndOpen, clockVars, clientVars, listVars,
       loops, ListenerTypeOK, LockIsHeld, DyingIsLocked, ListedAreMade, NewIsUnlisted,
       GoneAreNoted
  <2>9. QED
    BY <1>6, <2>1, <2>2, <2>3, <2>4, <2>5, <2>6, <2>7, <2>8 DEF Peer, ClientWork
<1>7. CASE ClockStep
  BY <1>7, ListenerNames DEF ClockStep, Lock, Unlock, clockVars, clientVars, listVars, loops,
     ListenerTypeOK, LockIsHeld, DyingIsLocked, ListedAreMade, NewIsUnlisted, GoneAreNoted
<1>8. QED
  BY <1>1, <1>2, <1>3, <1>4, <1>5, <1>6, <1>7 DEF ListenerNext

LEMMA MadeIsCountedKept ==
    ASSUME ListenerTypeOK, DyingIsLocked, NewIsUnlisted,
           numConnectedClients = Cardinality(Made), ListenerNext
    PROVE  /\ numConnectedClients' = Cardinality(Made')
           /\ numConnectedClients' \in 0..Cardinality(Conn)
<1>1. IsFiniteSet(Conn) /\ IsFiniteSet(Made) /\ IsFiniteSet(Made')
  BY ListenerBounds, FS_Subset DEF Made
<1>2. Cardinality(Made') \in 0..Cardinality(Conn)
  BY <1>1, FS_Subset, FS_CardinalityType DEF Made
<1>3. CASE MakeTimeHandler
  <2>1. newClient \in Conn /\ life[newClient] = "none"
    BY <1>3 DEF MakeTimeHandler, NewIsUnlisted, ListenerTypeOK
  <2>2. Made' = Made \cup {newClient} /\ newClient \notin Made
    BY <1>3, <2>1 DEF MakeTimeHandler, Made, ListenerTypeOK
  <2>3. Cardinality(Made') = Cardinality(Made) + 1
    BY <1>1, <2>2, FS_AddElement
  <2>4. QED
    BY <1>2, <1>3, <2>3 DEF MakeTimeHandler
<1>4. CASE DropTimeHandler
  <2>1. dying \in Conn /\ life[dying] = "made"
    BY <1>4 DEF DropTimeHandler, DyingAt, DyingIsLocked, ListenerTypeOK
  <2>2. Made' = Made \ {dying} /\ dying \in Made
    BY <1>4, <2>1 DEF DropTimeHandler, Made, ListenerTypeOK
  <2>3. Cardinality(Made') = Cardinality(Made) - 1
    BY <1>1, <2>2, FS_RemoveElement
  <2>4. QED
    BY <1>2, <1>4, <2>3 DEF DropTimeHandler
<1>5. CASE UNCHANGED <<life, numConnectedClients>>
  BY <1>2, <1>5 DEF Made
<1>6. CASE Accepting \/ Destroying
  BY <1>3, <1>4, <1>5, <1>6 DEF Accepting, AcceptCheck, AcceptReturns, ResumeClock, StartThread,
     PushClient, Destroying, WakeThread, JoinThread, StopClock, SaveStopped, Resume, Stop,
     SaveTime, clientVars, clockVars
<1>7. CASE Murdering \/ Saving \/ Closing \/ ClockStep
  BY <1>5, <1>7 DEF Murdering, Saving, Closing, ClockStep, Interrupt, JoinSaver, LockToClear,
     ClearNext, Cleared, CloseSocket, JoinThreads, DeleteClock, DestroyMembers, clientVars,
     clockVars
<1>8. CASE \E c \in Conn : Peer(c) \/ ClientWork(c)
  BY <1>5, <1>8 DEF Peer, ClientWork, Handshake, Receive, WriteSocket, ReadPipe, LockForEach,
     EndForEach, Leave, Cast, clockVars
<1>9. QED
  BY <1>6, <1>7, <1>8 DEF ListenerNext

LoopTypes ==
    /\ clients \subseteq Conn /\ clientsToMurder \subseteq Conn \cup {None}
    /\ clientLock \in Conn \cup {"saver", "murderer", "main", None} /\ forgotten \subseteq Conn
    /\ workerRun \in BOOLEAN /\ listening \in BOOLEAN
    /\ accepting \in {"check", "accept", "count", "resume", "push", "done"}
    /\ newClient \in Conn \cup {None}
    /\ saver \in {"check", "lock", "save", "sleep", "done"}
    /\ saving \subseteq Conn
    /\ murderer \in {"check", "wait", "lock", "erase", "done"}
    /\ victim \in Conn \cup {None}
    /\ closing \in {"serving", "saver", "wake", "clear", "clearing", "socket",
                    "accept", "murderer", "clock", "members", "done"}
    /\ dying \in Conn \cup {None}
    /\ dyingStep \in {"wake", "join", "count", "stop", "save", "none"}

ThreadTypes ==
    /\ life \in [Conn -> {"none", "made", "freed"}]
    /\ thread \in [Conn -> {"none", "handshake", "poll", "lock", "cast",
                            "write", "leave", "ended"}]
    /\ casts \in [Conn -> SUBSET Conn]
    /\ clientRun \in [Conn -> BOOLEAN] /\ pipe \in [Conn -> 0..PipeRoom]
    /\ told \in 0..MaxCasts

ClockTypes ==
    /\ isPaused \in BOOLEAN /\ time \in 0..MaxTime /\ savedTime \in 0..MaxTime
    /\ fault \in {None, "resumed a running clock", "stopped a stopped clock",
                  "used a deleted clock"}

LEMMA LoopTypesKept ==
    ASSUME LoopTypes, NewIsUnlisted, DyingIsLocked, ListenerNext
    PROVE  LoopTypes'
<1>1. CASE Accepting
  BY <1>1 DEF Accepting, AcceptCheck, AcceptReturns, MakeTimeHandler, ResumeClock, StartThread,
     PushClient, NewIsUnlisted, LoopTypes, listVars
<1>2. CASE Murdering
  BY <1>2 DEF Murdering, MurderCheck, DequeueClient, LockToErase, Erased, Lock, Unlock,
     DyingIsLocked, LoopTypes, listVars
<1>3. CASE Saving
  BY <1>3 DEF Saving, SaverCheck, SaverLock, SaveClient, SaverSleeps, SaverWakes, Lock, Unlock,
     LoopTypes, listVars
<1>4. CASE Destroying
  BY <1>4 DEF Destroying, WakeThread, JoinThread, DropTimeHandler, StopClock, SaveStopped,
     DyingAt, LoopTypes, listVars
<1>5. CASE Closing
  <2>1. UNCHANGED <<accepting, newClient, saver, saving, murderer, victim>>
    BY <1>5 DEF Closing
  <2>0. ASSUME UNCHANGED <<clients, clientLock, forgotten, dying, dyingStep>>,
               clientsToMurder' \subseteq clientsToMurder \cup {None},
               closing' \in {"saver", "clear", "accept", "murderer", "clock", "members", "done"},
               workerRun' \in BOOLEAN, listening' \in BOOLEAN
        PROVE  LoopTypes'
    BY <2>0, <2>1 DEF LoopTypes
  <2>2. CASE ClearNext
    BY <2>1, <2>2 DEF ClearNext, LoopTypes
  <2>3. CASE Interrupt \/ JoinSaver
    BY <2>0, <2>3 DEF Interrupt, JoinSaver, LoopTypes, listVars
  <2>4. CASE LockToClear \/ Cleared
    BY <2>1, <2>4 DEF LockToClear, Cleared, Lock, Unlock, LoopTypes, listVars
  <2>5. CASE CloseSocket \/ JoinThreads
    BY <2>0, <2>5 DEF CloseSocket, JoinThreads, LoopTypes, listVars
  <2>6. CASE DeleteClock \/ DestroyMembers
    BY <2>0, <2>6 DEF DeleteClock, DestroyMembers, LoopTypes, listVars
  <2>7. QED
    BY <1>5, <2>2, <2>3, <2>4, <2>5, <2>6 DEF Closing
<1>6. CASE \E c \in Conn : Peer(c) \/ ClientWork(c)
  BY <1>6 DEF Peer, ClientWork, Handshake, Receive, WriteSocket, ReadPipe, LockForEach,
     EndForEach, Leave, Cast, Lock, Unlock, LoopTypes, listVars, loops
<1>7. CASE ClockStep
  BY <1>7 DEF ClockStep, LoopTypes, listVars, loops
<1>8. QED
  BY <1>1, <1>2, <1>3, <1>4, <1>5, <1>6, <1>7 DEF ListenerNext

LEMMA ThreadTypesKept ==
    ASSUME LoopTypes, ThreadTypes, NewIsUnlisted, DyingIsLocked, ListenerNext
    PROVE  ThreadTypes'
<1>0. dying # None => dying \in Conn
  BY DEF LoopTypes
<1>1. CASE MakeTimeHandler
  BY <1>1 DEF MakeTimeHandler, ThreadTypes
<1>2. CASE StartThread
  BY <1>2 DEF StartThread, ThreadTypes
<1>3. CASE WakeThread
  BY <1>0, <1>3, ListenerBounds DEF WakeThread, DyingAt, ThreadTypes
<1>4. CASE DropTimeHandler
  BY <1>4 DEF DropTimeHandler, ThreadTypes
<1>5. CASE UNCHANGED clientVars
  BY <1>5 DEF ThreadTypes, clientVars
<1>6. CASE Accepting \/ Murdering \/ Saving \/ Destroying \/ Closing \/ ClockStep
  BY <1>1, <1>2, <1>3, <1>4, <1>5, <1>6 DEF Accepting, AcceptCheck, AcceptReturns, ResumeClock,
     PushClient, Murdering, Saving, Destroying, JoinThread, StopClock, SaveStopped, Closing,
     ClockStep
<1>7. ASSUME NEW c \in Conn, Handshake(c) \/ Receive(c) \/ WriteSocket(c) PROVE ThreadTypes'
  BY <1>7, ListenerBounds DEF Handshake, Receive, WriteSocket, Goes, ThreadTypes
<1>12. ASSUME NEW c \in Conn, LockForEach(c) \/ EndForEach(c) PROVE ThreadTypes'
  BY <1>12 DEF LockForEach, EndForEach, Goes, ThreadTypes, LoopTypes
<1>8. ASSUME NEW c \in Conn, ReadPipe(c) PROVE ThreadTypes'
  BY <1>8, ListenerBounds DEF ReadPipe, Goes, ThreadTypes
<1>9. ASSUME NEW c \in Conn, Leave(c) PROVE ThreadTypes'
  BY <1>9, ListenerBounds DEF Leave, Goes, ThreadTypes
<1>10. ASSUME NEW c \in Conn, NEW d \in Conn, Cast(c, d) PROVE ThreadTypes'
  BY <1>10, ListenerBounds DEF Cast, ThreadTypes
<1>11. QED
  BY <1>6, <1>7, <1>8, <1>9, <1>10, <1>12 DEF ListenerNext, Peer, ClientWork

LEMMA ClockTypesKept == ClockTypes /\ ListenerNext => ClockTypes'
<1> SUFFICES ASSUME ClockTypes, ListenerNext PROVE ClockTypes'
  OBVIOUS
<1>1. CASE UNCHANGED <<isPaused, time, savedTime, fault>>
  BY <1>1 DEF ClockTypes
<1>2. CASE Accepting \/ Destroying
  BY <1>1, <1>2 DEF Accepting, AcceptCheck, AcceptReturns, MakeTimeHandler, ResumeClock,
     StartThread, PushClient, Destroying, WakeThread, JoinThread, DropTimeHandler, StopClock,
     SaveStopped, Resume, Stop, SaveTime, ClockTypes, clockVars
<1>3. CASE Closing
  BY <1>1, <1>3 DEF Closing, Interrupt, JoinSaver, LockToClear, ClearNext, Cleared, CloseSocket,
     JoinThreads, DeleteClock, DestroyMembers, ClockTypes, clockVars
<1>4. CASE ClockStep
  <2>1. MaxTime \in Nat
    BY ListenerBounds
  <2>2. time \in 0..MaxTime /\ time < MaxTime /\ time' = time + 1
        /\ UNCHANGED <<isPaused, savedTime, fault>>
    BY <1>4 DEF ClockStep, ClockTypes
  <2>3. time' \in 0..MaxTime
    BY <2>1, <2>2
  <2>4. QED
    BY <2>2, <2>3 DEF ClockTypes
<1>5. CASE Murdering \/ Saving \/ \E c \in Conn : Peer(c) \/ ClientWork(c)
  BY <1>1, <1>5 DEF Murdering, Saving, Peer, ClientWork, clockVars
<1>6. QED
  BY <1>2, <1>3, <1>4, <1>5 DEF ListenerNext

LEMMA ListenerTypesKept ==
    ASSUME ListenerTypeOK, DyingIsLocked, NewIsUnlisted,
           numConnectedClients = Cardinality(Made), ListenerNext
    PROVE  ListenerTypeOK'
<1>1. LoopTypes /\ ThreadTypes /\ ClockTypes
  BY DEF ListenerTypeOK, LoopTypes, ThreadTypes, ClockTypes
<1>2. LoopTypes' /\ ThreadTypes' /\ ClockTypes'
  BY <1>1, LoopTypesKept, ThreadTypesKept, ClockTypesKept
<1>3. QED
  BY <1>2, MadeIsCountedKept DEF ListenerTypeOK, LoopTypes, ThreadTypes, ClockTypes

LEMMA ClockIsDrivenKept ==
    ASSUME ListenerTypeOK, LockIsHeld, DyingIsLocked, ListedAreMade, NewIsUnlisted,
           numConnectedClients = Cardinality(Made), ClockIsDriven, ListenerNext
    PROVE  ClockIsDriven'
<1>0. /\ fault = None
      /\ accepting = "resume" => dyingStep # "count" \/ numConnectedClients # 1
  <2>1. fault = None
    BY DEF ListenerNext
  <2>2. ASSUME accepting = "resume", dyingStep = "count" PROVE numConnectedClients # 1
    <3>1. {newClient, dying} \subseteq Made /\ newClient # dying
      BY <2>2, ListenerNames DEF Made, DyingIsLocked, NewIsUnlisted, ListenerTypeOK
    <3>2. IsFiniteSet(Made)
      BY ListenerBounds, FS_Subset DEF Made
    <3>3. Cardinality(Made) # 1
      BY <3>1, <3>2, FS_Singleton
    <3>4. QED
      BY <3>3
  <2>3. QED
    BY <2>1, <2>2
<1>9. numConnectedClients \in Nat
  <2>1. numConnectedClients \in 0..Cardinality(Conn)
    BY DEF ListenerTypeOK
  <2>2. QED
    BY <2>1, ListenerBounds
<1>1. CASE Accepting
  <2>0. UNCHANGED <<saver, saving, murderer, victim, closing, dying, dyingStep, workerRun,
     listening>>
    BY <1>1 DEF Accepting
  <2>1. CASE AcceptCheck
    BY <2>0, <2>1, <1>0 DEF AcceptCheck, clockVars, clientVars, listVars,
       loops, ListenerTypeOK, ClockIsDriven, DyingIsLocked
  <2>2. CASE AcceptReturns
    BY <2>0, <2>2, <1>0 DEF AcceptReturns, clockVars, clientVars, listVars,
       loops, ListenerTypeOK, ClockIsDriven, DyingIsLocked
  <2>3. CASE MakeTimeHandler
    <3>1. numConnectedClients \in Nat /\ numConnectedClients' = numConnectedClients + 1
      BY <1>9, <2>3 DEF MakeTimeHandler
    <3>2. /\ accepting = "count"
          /\ accepting' = IF numConnectedClients' = 1 THEN "resume" ELSE "push"
          /\ UNCHANGED <<isPaused, time, savedTime, fault, dyingStep, closing>>
      BY <2>0, <2>3 DEF MakeTimeHandler
    <3>3. QED
      BY <3>1, <3>2 DEF ClockIsDriven
  <2>4. CASE ResumeClock
    <3>1. accepting = "resume" /\ accepting' = "push" /\ UNCHANGED <<dyingStep, closing>>
      BY <2>0, <2>4 DEF ResumeClock
    <3>2. CASE isPaused
      BY <1>0, <2>4, <3>1, <3>2 DEF ResumeClock, Resume, ClockIsDriven
    <3>3. CASE ~isPaused
      <4>1. fault' # None
        BY <2>4, <3>3, ListenerAssumption DEF ResumeClock, Resume
      <4>2. QED
        BY <4>1 DEF ClockIsDriven
    <3>4. QED
      BY <3>2, <3>3
  <2>5. CASE StartThread
    BY <2>0, <2>5, <1>0 DEF StartThread, clockVars, clientVars, listVars,
       loops, ListenerTypeOK, ClockIsDriven, DyingIsLocked
  <2>6. CASE PushClient
    BY <2>0, <2>6, <1>0 DEF PushClient, clockVars, clientVars, listVars,
       loops, ListenerTypeOK, ClockIsDriven, DyingIsLocked
  <2>7. QED
    BY <1>1, <2>1, <2>2, <2>3, <2>4, <2>5, <2>6 DEF Accepting
<1>2. CASE Murdering
  <2>1. UNCHANGED <<accepting, closing, clockVars>>
    BY <1>2 DEF Murdering
  <2>2. dyingStep' = dyingStep \/ (dyingStep = "none" /\ dyingStep' = "wake")
    BY <1>2, ListenerNames DEF Murdering, MurderCheck, DequeueClient, LockToErase, Erased, Lock,
       LockIsHeld, DyingIsLocked
  <2>3. QED
    BY <2>1, <2>2 DEF ClockIsDriven, clockVars
<1>3. CASE Saving
  BY <1>3 DEF Saving, ClockIsDriven, loops, clockVars
<1>4. CASE Destroying
  <2>0. UNCHANGED <<accepting, newClient, saver, saving, murderer, victim, closing, workerRun,
     listening, listVars, clientLock>>
    BY <1>4 DEF Destroying
  <2>1. CASE WakeThread
    BY <2>0, <2>1, <1>0 DEF WakeThread, DyingAt, ReadEndOpen, clockVars,
       clientVars, listVars, loops, ListenerTypeOK, ClockIsDriven, DyingIsLocked
  <2>2. CASE JoinThread
    BY <2>0, <2>2, <1>0 DEF JoinThread, DyingAt, clockVars, clientVars,
       listVars, loops, ListenerTypeOK, ClockIsDriven, DyingIsLocked
  <2>3. CASE DropTimeHandler
    <3>1. numConnectedClients \in Nat /\ numConnectedClients' = numConnectedClients - 1
      BY <1>9, <2>3 DEF DropTimeHandler
    <3>2. dyingStep = "count" /\ dyingStep' = IF numConnectedClients' = 0 THEN "stop" ELSE "none"
      BY <2>3 DEF DropTimeHandler, DyingAt
    <3>3. UNCHANGED <<isPaused, time, savedTime, fault, accepting, closing>>
      BY <2>0, <2>3 DEF DropTimeHandler
    <3>4. numConnectedClients # 0
      <4>1. dying \in Made /\ IsFiniteSet(Made)
        BY <2>3, <3>2, ListenerBounds, FS_Subset
           DEF DropTimeHandler, DyingAt, DyingIsLocked, Made, ListenerTypeOK
      <4>2. QED
        BY <4>1, FS_EmptySet
    <3>5. QED
      BY <1>0, <3>1, <3>2, <3>3, <3>4 DEF ClockIsDriven
  <2>4. CASE StopClock
    BY <2>0, <2>4, <1>0 DEF StopClock, Stop, DyingAt, clockVars, clientVars,
       listVars, loops, ListenerTypeOK, ClockIsDriven, DyingIsLocked
  <2>5. CASE SaveStopped
    BY <2>0, <2>5, <1>0 DEF SaveStopped, SaveTime, DyingAt, clockVars,
       clientVars, listVars, loops, ListenerTypeOK, ClockIsDriven, DyingIsLocked
  <2>6. QED
    BY <1>4, <2>1, <2>2, <2>3, <2>4, <2>5 DEF Destroying
<1>5. CASE Closing
  <2>0. UNCHANGED <<accepting, newClient, saver, saving, murderer, victim, clientVars>>
    BY <1>5 DEF Closing
  <2>1. CASE Interrupt
    BY <2>0, <2>1, <1>0 DEF Interrupt, clockVars, clientVars, listVars, loops,
       ListenerTypeOK, ClockIsDriven, DyingIsLocked
  <2>2. CASE JoinSaver
    BY <2>0, <2>2, <1>0 DEF JoinSaver, clockVars, clientVars, listVars, loops,
       ListenerTypeOK, ClockIsDriven, DyingIsLocked
  <2>3. CASE LockToClear
    BY <2>0, <2>3, <1>0 DEF LockToClear, Lock, clockVars, clientVars,
       listVars, loops, ListenerTypeOK, ClockIsDriven, DyingIsLocked
  <2>4. CASE ClearNext
    BY <2>0, <2>4, <1>0 DEF ClearNext, clockVars, clientVars, listVars, loops,
       ListenerTypeOK, ClockIsDriven, DyingIsLocked
  <2>5. CASE Cleared
    BY <2>0, <2>5, <1>0 DEF Cleared, Unlock, clockVars, clientVars, listVars,
       loops, ListenerTypeOK, ClockIsDriven, DyingIsLocked
  <2>6. CASE CloseSocket
    BY <2>0, <2>6, <1>0 DEF CloseSocket, clockVars, clientVars, listVars,
       loops, ListenerTypeOK, ClockIsDriven, DyingIsLocked
  <2>7. CASE JoinThreads
    BY <2>0, <2>7, <1>0 DEF JoinThreads, clockVars, clientVars, listVars,
       loops, ListenerTypeOK, ClockIsDriven, DyingIsLocked
  <2>8. CASE DeleteClock
    BY <2>0, <2>8, <1>0 DEF DeleteClock, clockVars, clientVars, listVars,
       loops, ListenerTypeOK, ClockIsDriven, DyingIsLocked
  <2>9. CASE DestroyMembers
    BY <2>0, <2>9, <1>0 DEF DestroyMembers, clockVars, clientVars, listVars,
       loops, ListenerTypeOK, ClockIsDriven, DyingIsLocked
  <2>10. QED
    BY <1>5, <2>1, <2>2, <2>3, <2>4, <2>5, <2>6, <2>7, <2>8, <2>9 DEF Closing
<1>6. CASE \E c \in Conn : Peer(c) \/ ClientWork(c)
  BY <1>6 DEF Peer, ClientWork, ClockIsDriven, loops, clockVars
<1>7. CASE ClockStep
  BY <1>0, <1>7 DEF ClockStep, clockVars, clientVars, listVars, loops, ClockIsDriven
<1>8. QED
  BY <1>1, <1>2, <1>3, <1>4, <1>5, <1>6, <1>7 DEF ListenerNext

LEMMA ListenerInitHolds == ListenerInit => ListenerIInv
<1> SUFFICES ASSUME ListenerInit PROVE ListenerIInv
  OBVIOUS
<1>1. Made = {}
  BY DEF ListenerInit, Made
<1>2. Cardinality({}) = 0 /\ Cardinality(Conn) \in Nat
  BY ListenerBounds, FS_EmptySet
<1>3. LoopTypes /\ ThreadTypes /\ ClockTypes
  <2>1. LoopTypes
    BY DEF ListenerInit, LoopTypes
  <2>2. ThreadTypes /\ ClockTypes
    BY ListenerBounds DEF ListenerInit, ThreadTypes, ClockTypes
  <2>3. QED
    BY <2>1, <2>2
<1>4. ListenerTypeOK
  BY <1>2, <1>3 DEF ListenerInit, ListenerTypeOK, LoopTypes, ThreadTypes, ClockTypes
<1>5. LockIsHeld /\ DyingIsLocked /\ ListedAreMade
  BY ListenerNames DEF ListenerInit, LockIsHeld, DyingIsLocked, ListedAreMade
<1>6. NewIsUnlisted /\ ReachedAreMade /\ ClockIsDriven /\ GoneAreNoted
  BY DEF ListenerInit, NewIsUnlisted, ReachedAreMade, ClockIsDriven, GoneAreNoted
<1>7. QED
  BY <1>1, <1>2, <1>4, <1>5, <1>6 DEF ListenerIInv, ListenerInit

LEMMA ListenerStep == ListenerIInv /\ [ListenerNext]_listenerVars => ListenerIInv'
<1> SUFFICES ASSUME ListenerIInv, [ListenerNext]_listenerVars PROVE ListenerIInv'
  OBVIOUS
<1>1. CASE ListenerNext
  BY <1>1, ListenerTypesKept, LockIsHeldKept, DyingIsLockedKept, ListedAreMadeKept,
     NewIsUnlistedKept, ReachedAreMadeKept, MadeIsCountedKept, ClockIsDrivenKept,
     GoneAreNotedKept DEF ListenerIInv
<1>2. CASE UNCHANGED listenerVars
  <2>1. LockIsHeld'
    BY <1>2 DEF listenerVars, ListenerIInv, LockIsHeld
  <2>5. ListenerTypeOK'
    <3>1. LoopTypes /\ ThreadTypes /\ ClockTypes /\ numConnectedClients \in 0..Cardinality(Conn)
      BY DEF ListenerIInv, ListenerTypeOK, LoopTypes, ThreadTypes, ClockTypes
    <3>2. LoopTypes'
      BY <1>2, <3>1 DEF listenerVars, LoopTypes
    <3>3. ThreadTypes' /\ ClockTypes'
      BY <1>2, <3>1 DEF listenerVars, ThreadTypes, ClockTypes
    <3>4. QED
      BY <1>2, <3>1, <3>2, <3>3 DEF listenerVars, ListenerTypeOK, LoopTypes, ThreadTypes, ClockTypes
  <2>2. DyingIsLocked' /\ ListedAreMade' /\ NewIsUnlisted'
    BY <1>2 DEF listenerVars, ListenerIInv, DyingIsLocked, ListedAreMade, NewIsUnlisted
  <2>3. ReachedAreMade' /\ Made' = Made /\ ClockIsDriven' /\ GoneAreNoted'
    BY <1>2 DEF listenerVars, ListenerIInv, ReachedAreMade, Made, ClockIsDriven, GoneAreNoted
  <2>4. QED
    BY <1>2, <2>1, <2>2, <2>3, <2>5 DEF listenerVars, ListenerIInv
<1>3. QED
  BY <1>1, <1>2

(* No thread reaches a client that was destroyed, the clock runs while somebody *)
(* is connected, and a client that is gone is deleted (server/net/Listener.cpp, *)
(* ListenerClient.cpp, handlers/Time.cpp).                                      *)
THEOREM ListenerSafe == ListenerSpec => []ListenerInv
<1>1. ListenerIInv => ListenerInv
  <2> SUFFICES ASSUME ListenerIInv PROVE ListenerInv
    OBVIOUS
  <2>1. NoFreedClientReached
    BY DEF ListenerIInv, ReachedAreMade, NoFreedClientReached
  <2>2. ClockFollowsPlayers
    BY DEF ListenerIInv, ClockIsDriven, ClockFollowsPlayers
  <2>3. GoneClientsAreDeleted
    BY DEF ListenerIInv, ListenerTypeOK, GoneAreNoted, GoneClientsAreDeleted
  <2>4. QED
    BY <2>1, <2>2, <2>3 DEF ListenerIInv, ListenerInv
<1>2. QED
  BY <1>1, ListenerInitHolds, ListenerStep, PTL DEF ListenerSpec

-----------------------------------------------------------------------------
(* Requests.  The inductive invariant: one set of a key is under way at a    *)
(* time, and one get of a player info key, on their way there and back.      *)

RequestsTypes ==
    /\ RequestsTypeOK
    /\ lastSet \in [Key -> Nat] /\ stored \in [Key -> Nat] /\ linkUp \in BOOLEAN
    /\ got \in [Key -> Nat]
    /\ IsFiniteSet(running) /\ \A k \in requests : Item("get", k, 0) \in running

(* No value is ahead of what was set last. *)
RequestsBounds ==
    /\ \A i \in DOMAIN asks : asks[i].op \in {"get", "set"} /\ asks[i].value <= lastSet[asks[i].key]
    /\ \A w \in running : w.value <= lastSet[w.key]
    /\ \A i \in DOMAIN queue : /\ queue[i].value <= lastSet[queue[i].key]
                               /\ queue[i].op = "get" => queue[i].value = 0

IsSet(w, k) == w.op = "set" /\ w.key = k
IsGet(w, k) == w.op = "get" /\ w.key = k

(* A caller that sets has one item in the queue or at a thread, with the      *)
(* value it set last.                                                         *)
OneSet ==
    \A k \in PlayerKey :
        /\ \A w \in running : IsSet(w, k) => /\ call[k] = "set" /\ w.value = lastSet[k]
                                             /\ \A i \in DOMAIN queue : ~IsSet(queue[i], k)
        /\ \A i \in DOMAIN queue : IsSet(queue[i], k) =>
                /\ call[k] = "set" /\ queue[i].value = lastSet[k]
                /\ \A j \in DOMAIN queue : IsSet(queue[j], k) => j = i
        /\ call[k] = "set" /\ phase # "closed" =>
                \/ \E w \in running : IsSet(w, k)
                \/ \E i \in DOMAIN queue : IsSet(queue[i], k)

(* When it is through, what was set last is stored, or is the last of the     *)
(* sets that the server has not read yet.                                     *)
OnItsWay(k) ==
    \/ \E i \in DOMAIN asks :
            /\ IsSet(asks[i], k) /\ asks[i].value = lastSet[k]
            /\ \A j \in DOMAIN asks : j > i => ~IsSet(asks[j], k)
    \/ stored[k] = lastSet[k] /\ \A i \in DOMAIN asks : ~IsSet(asks[i], k)

LastIsOnItsWay ==
    \A k \in PlayerKey : linkUp /\ call[k] # "set" => OnItsWay(k)

(* A get of player info waits in the queue, at the server or as an answer. *)
OneGet ==
    \A k \in PlayerKey :
        /\ k \in requests => call[k] = "get"
        /\ \A i \in DOMAIN queue : IsGet(queue[i], k) =>
                /\ call[k] = "get" /\ k \notin requests
                /\ \A j \in DOMAIN queue : IsGet(queue[j], k) => j = i
        /\ \A i \in DOMAIN asks : IsGet(asks[i], k) =>
                k \in requests /\ \A j \in DOMAIN asks : j > i => asks[j].key # k
        /\ \A i \in DOMAIN answers : answers[i].key = k =>
                /\ k \in requests /\ answers[i].value = lastSet[k]
                /\ \A j \in DOMAIN asks : ~IsGet(asks[j], k)
                /\ \A j \in DOMAIN answers : answers[j].key = k => j = i

RequestsIInv ==
    RequestsTypes /\ RequestsBounds /\ OneSet /\ LastIsOnItsWay /\ OneGet /\ NobodyIsLeft

(* Threads: another is taken, or one is done. *)
LEMMA AnotherThread ==
    ASSUME NEW S, IsFiniteSet(S), NEW x, Cardinality(S) < Threads
    PROVE  IsFiniteSet(S \cup {x}) /\ Cardinality(S \cup {x}) <= Threads
<1>1. Cardinality(S) \in Nat /\ Threads \in Nat
  BY FS_CardinalityType, RequestsAssumption
<1>2. /\ IsFiniteSet(S \cup {x})
      /\ Cardinality(S \cup {x}) = Cardinality(S) \/ Cardinality(S \cup {x}) = Cardinality(S) + 1
  BY FS_AddElement
<1>3. QED
  BY <1>1, <1>2

LEMMA ThreadDone ==
    ASSUME NEW S, IsFiniteSet(S), NEW x, Cardinality(S) <= Threads
    PROVE  IsFiniteSet(S \ {x}) /\ Cardinality(S \ {x}) <= Threads
<1>1. Cardinality(S) \in Nat /\ Threads \in Nat
  BY FS_CardinalityType, RequestsAssumption
<1>2. /\ IsFiniteSet(S \ {x})
      /\ Cardinality(S \ {x}) = Cardinality(S) \/ Cardinality(S \ {x}) = Cardinality(S) - 1
  BY FS_RemoveElement
<1>3. QED
  BY <1>1, <1>2

LEMMA ItemIs ==
    ASSUME NEW k \in Key, NEW v \in Nat, NEW o \in {"get", "set"}
    PROVE  /\ Item(o, k, v) \in Work /\ Item(o, k, v) \in Parcel /\ Item("reply", k, v) \in Parcel
           /\ Item(o, k, v).op = o /\ Item(o, k, v).key = k /\ Item(o, k, v).value = v
           /\ Item("reply", k, v).key = k /\ Item("reply", k, v).value = v
           /\ Item("reply", k, v).op = "reply"
  BY DEF Item, Work, Parcel

(* The values that the sequences and functions of a state have. *)
LEMMA RequestsValues ==
    ASSUME RequestsTypes
    PROVE  /\ queue \in Seq(Work) /\ asks \in Seq(Parcel) /\ answers \in Seq(Parcel)
           /\ \A i \in DOMAIN queue : queue[i] \in Work /\ queue[i].key \in Key
           /\ \A i \in DOMAIN asks : asks[i] \in Parcel /\ asks[i].key \in Key
           /\ \A i \in DOMAIN answers : answers[i] \in Parcel /\ answers[i].key \in Key
           /\ call \in [Key -> {"none", "get", "set"}]
           /\ \A w \in running : w \in Work /\ w.key \in Key /\ w.value \in Nat
<1>1. queue \in Seq(Work) /\ asks \in Seq(Parcel) /\ answers \in Seq(Parcel)
  BY DEF RequestsTypes, RequestsTypeOK
<1>2. \A w \in Work : w.key \in Key /\ w.value \in Nat
  BY DEF Work
<1>3. \A w \in Parcel : w.key \in Key
  BY DEF Parcel
<1>4. \A i \in DOMAIN queue : queue[i] \in Work
  BY <1>1, ElementOfSeq
<1>5. \A i \in DOMAIN asks : asks[i] \in Parcel
  BY <1>1, ElementOfSeq
<1>6. \A i \in DOMAIN answers : answers[i] \in Parcel
  BY <1>1, ElementOfSeq
<1>7. QED
  BY <1>1, <1>2, <1>3, <1>4, <1>5, <1>6 DEF RequestsTypes, RequestsTypeOK

LEMMA RequestsInitHolds == RequestsInit => RequestsIInv
<1> SUFFICES ASSUME RequestsInit PROVE RequestsIInv
  OBVIOUS
<1> DEFINE pushed == {Item("reply", k, 0) : k \in WorldKey}
<1>1. answers \in Seq(pushed)
  <2>1. IsFiniteSet(pushed)
    <3> DEFINE f == [k \in WorldKey |-> Item("reply", k, 0)]
    <3>1. f \in Surjection(WorldKey, pushed)
      BY DEF Surjection
    <3>2. QED
      BY <3>1, RequestsAssumption, FS_Surjection
  <2>2. \E f \in [1..Cardinality(pushed) -> pushed] : IsInjective(f)
    BY <2>1, FS_CardinalityType DEF ExistsBijection, Bijection, Injection
  <2>3. answers \in [1..Cardinality(pushed) -> pushed] /\ Cardinality(pushed) \in Nat
    BY <2>1, <2>2, FS_CardinalityType DEF RequestsInit, SetToSeq
  <2>4. QED
    BY <2>3, SeqDef
<1>2. \A i \in DOMAIN answers : answers[i].key \in WorldKey
  BY <1>1, ElementOfSeq, ItemIs DEF Item
<1>3. pushed \subseteq Parcel
  BY DEF Item, Parcel, Key
<1>4. answers \in Seq(Parcel)
  BY <1>1, <1>3
<1>5. IsFiniteSet({}) /\ Cardinality({}) = 0
  BY FS_EmptySet
<1>6. RequestsTypes
  BY <1>4, <1>5, RequestsAssumption DEF RequestsInit, RequestsTypes, RequestsTypeOK
<1>10. RequestsBounds
  BY DEF RequestsInit, RequestsBounds
<1>7. OneSet /\ LastIsOnItsWay /\ NobodyIsLeft
  BY DEF RequestsInit, OneSet, LastIsOnItsWay, OnItsWay, NobodyIsLeft, Key
<1>8. OneGet
  BY <1>2, RequestsAssumption DEF RequestsInit, OneGet
<1>9. QED
  BY <1>6, <1>7, <1>8, <1>10 DEF RequestsIInv

(* The steps, without the disjunctions of the next-state relation. *)
RequestsStepOf ==
    \/ \E k \in Key : GetInfo(k)
    \/ \E k \in Key : GiveUp(k)
    \/ \E k \in PlayerKey : SetInfo(k)
    \/ Take
    \/ \E w \in running : WriteSet(w)
    \/ Serve \/ ReceivedKey \/ Break \/ Cleanup \/ CloseSource

(* What a step does to the requests that are on their way to the server. *)
LEMMA AsksOf ==
    ASSUME RequestsTypes, NEW k \in Key, NEW v \in Nat, NEW o \in {"get", "set"}, Write(o, k, v)
    PROVE  \/ UNCHANGED asks
           \/ linkUp /\ asks' = Append(asks, Item(o, k, v)) /\ Item(o, k, v) \in Parcel
  BY ItemIs DEF Write

LEMMA OneSetKept ==
    ASSUME RequestsTypes, OneSet, OneGet, RequestsNext
    PROVE  OneSet'
<1>0. /\ queue \in Seq(Work) /\ call \in [Key -> {"none", "get", "set"}]
      /\ \A w \in running : w \in Work /\ w.key \in Key
      /\ lastSet \in [Key -> Nat] /\ PlayerKey \subseteq Key
  BY RequestsValues DEF RequestsTypes, Key
<1>1. ASSUME NEW k \in Key, GetInfo(k) PROVE OneSet'
  <2>1. Item("get", k, 0) \in Work /\ Item("get", k, 0).op = "get"
    BY ItemIs
  <2>2. /\ queue' = Append(queue, Item("get", k, 0)) /\ call[k] = "none" /\ phase # "closed"
        /\ call' = [call EXCEPT ![k] = "get"] /\ UNCHANGED <<running, lastSet, phase>>
    BY <1>1 DEF GetInfo
  <2>3. \A i \in DOMAIN queue : i \in DOMAIN queue' /\ queue'[i] = queue[i]
    BY <1>0, <2>1, <2>2, Appended
  <2>4. \A i \in DOMAIN queue' : i \in DOMAIN queue \/ queue'[i].op = "get"
    BY <1>0, <2>1, <2>2, Appended
  <2>5. QED
    BY <1>0, <2>2, <2>3, <2>4 DEF OneSet, IsSet
<1>2. ASSUME NEW k \in Key, GiveUp(k) PROVE OneSet'
  BY <1>0, <1>2 DEF GiveUp, OneSet, IsSet
<1>3. ASSUME NEW k \in PlayerKey, SetInfo(k) PROVE OneSet'
  <2> DEFINE e == Item("set", k, lastSet[k] + 1)
  <2>1. e \in Work /\ e.op = "set" /\ e.key = k /\ e.value = lastSet[k] + 1
    BY <1>0, ItemIs
  <2>2. /\ queue' = Append(queue, e) /\ call[k] = "none"
        /\ call' = [call EXCEPT ![k] = "set"] /\ lastSet' = [lastSet EXCEPT ![k] = @ + 1]
        /\ UNCHANGED <<running, phase>>
    BY <1>3 DEF SetInfo
  <2>3. \A i \in DOMAIN queue : i \in DOMAIN queue' /\ queue'[i] = queue[i]
    BY <1>0, <2>1, <2>2, Appended
  <2>4. /\ Len(queue) + 1 \in DOMAIN queue' /\ queue'[Len(queue) + 1] = e
        /\ \A i \in DOMAIN queue' : i \in DOMAIN queue \/ i = Len(queue) + 1
    BY <1>0, <2>1, <2>2, Appended
  <2>5. \A i \in DOMAIN queue : ~IsSet(queue[i], k)
    BY <2>2 DEF OneSet
  <2>6. \A w \in running : ~IsSet(w, k)
    BY <2>2 DEF OneSet
  <2> HIDE DEF e
  <2>7. QED
    BY <1>0, <2>1, <2>2, <2>3, <2>4, <2>5, <2>6 DEF OneSet, IsSet
<1>4. CASE Take
  <2> DEFINE w == Head(queue)
  <2>1. queue # <<>> /\ queue' = Tail(queue) /\ phase # "closed" /\ UNCHANGED <<lastSet, phase>>
    BY <1>4 DEF Take
  <2>2. 1 \in DOMAIN queue /\ w = queue[1] /\ w \in Work /\ w.key \in Key
    <3>1. 1 \in DOMAIN queue /\ w = queue[1] /\ w \in Work
      BY <1>0, <2>1, Shortened
    <3>2. QED
      BY <3>1, RequestsValues
  <2>6. \A i \in DOMAIN queue' : /\ i + 1 \in DOMAIN queue /\ queue'[i] = queue[i + 1]
                                /\ i \in Nat /\ i # 0
    BY <1>0, <2>1, Shortened
  <2>7. \A i \in DOMAIN queue : i = 1 \/ \E j \in DOMAIN queue' : queue'[j] = queue[i]
    BY <1>0, <2>1, Shortened
  <2>8. /\ w.op = "set" => running' = running \cup {w} /\ UNCHANGED call
        /\ w.op # "set" => /\ running' = running \/ running' = running \cup {w}
                           /\ \A k \in Key : call'[k] = call[k] \/ (k = w.key /\ call'[k] = "none")
    BY <1>0, <1>4, <2>2 DEF Take, Ends
  <2>9. w.op # "set" /\ w.key \in PlayerKey => call[w.key] = "get"
    BY <2>2 DEF OneGet, IsGet, Work
  <2> HIDE DEF w
  <2>3. ASSUME NEW k \in PlayerKey PROVE call'[k] = "set" <=> call[k] = "set"
    BY <1>0, <2>8, <2>9
  <2>4. ASSUME NEW k \in PlayerKey, NEW v \in running', IsSet(v, k)
        PROVE  /\ call[k] = "set" /\ v.value = lastSet[k]
               /\ \A i \in DOMAIN queue' : ~IsSet(queue'[i], k)
    <3>1. CASE v \in running
      BY <2>4, <2>6, <3>1 DEF OneSet
    <3>2. CASE v = w /\ w.op = "set"
      BY <2>2, <2>4, <2>6, <3>2 DEF OneSet, IsSet
    <3>3. QED
      BY <2>4, <2>8, <3>1, <3>2 DEF IsSet
  <2>5. ASSUME NEW k \in PlayerKey, NEW i \in DOMAIN queue', IsSet(queue'[i], k)
        PROVE  /\ call[k] = "set" /\ queue'[i].value = lastSet[k]
               /\ \A j \in DOMAIN queue' : IsSet(queue'[j], k) => j = i
    <3>1. i + 1 \in DOMAIN queue /\ queue'[i] = queue[i + 1] /\ i \in Nat
      BY <2>6
    <3>2. ASSUME NEW j \in DOMAIN queue', IsSet(queue'[j], k) PROVE j = i
      <4>1. j + 1 \in DOMAIN queue /\ queue'[j] = queue[j + 1] /\ j \in Nat
        BY <2>6
      <4>2. j + 1 = i + 1
        BY <2>5, <3>1, <3>2, <4>1 DEF OneSet
      <4>3. QED
        BY <3>1, <4>1, <4>2
    <3>3. QED
      BY <2>5, <3>1, <3>2 DEF OneSet
  <2>10. ASSUME NEW k \in PlayerKey, call[k] = "set"
         PROVE  \/ \E v \in running' : IsSet(v, k)
                \/ \E i \in DOMAIN queue' : IsSet(queue'[i], k)
    <3>1. CASE \E v \in running : IsSet(v, k)
      BY <2>8, <3>1
    <3>2. ASSUME NEW i \in DOMAIN queue, IsSet(queue[i], k)
          PROVE  \/ \E v \in running' : IsSet(v, k)
                 \/ \E j \in DOMAIN queue' : IsSet(queue'[j], k)
      BY <2>2, <2>7, <2>8, <3>2 DEF IsSet
    <3>3. QED
      BY <2>1, <2>10, <3>1, <3>2 DEF OneSet
  <2>11. QED
    BY <2>1, <2>3, <2>4, <2>5, <2>10 DEF OneSet
<1>5. ASSUME NEW w \in running, WriteSet(w) PROVE OneSet'
  <2>1. /\ w.op = "set" /\ running' = running \ {w} /\ UNCHANGED <<queue, lastSet, phase>>
        /\ call' = [call EXCEPT ![w.key] = IF @ = "set" THEN "none" ELSE @]
    BY <1>5 DEF WriteSet
  <2>2. \A v \in running : IsSet(v, w.key) /\ w.key \in PlayerKey => v = w
    <3>1. \A v \in Work : v = [op |-> v.op, key |-> v.key, value |-> v.value]
      BY DEF Work
    <3>2. ASSUME NEW v \in running, IsSet(v, w.key), w.key \in PlayerKey PROVE v = w
      <4>1. v.op = w.op /\ v.key = w.key /\ v.value = w.value
        BY <2>1, <3>2 DEF OneSet, IsSet
      <4>2. QED
        BY <1>0, <3>1, <4>1
    <3>3. QED
      BY <3>2
  <2>3. \A k \in PlayerKey : k = w.key => /\ call[k] = "set" /\ call'[k] = "none"
                                         /\ \A i \in DOMAIN queue : ~IsSet(queue[i], k)
    BY <1>0, <2>1 DEF OneSet, IsSet
  <2>4. \A k \in PlayerKey : k # w.key => call'[k] = call[k]
    BY <1>0, <2>1
  <2>5. \A k \in PlayerKey : \A v \in running : IsSet(v, k) => v \in running' \/ k = w.key
    BY <2>1 DEF IsSet
  <2>6. \A v \in running' : v \in running /\ v # w
    BY <2>1
  <2>7. \A k \in PlayerKey : k = w.key => \A v \in running' : ~IsSet(v, k)
    BY <2>2, <2>6
  <2>8. \A k \in PlayerKey : call'[k] = "set" => k # w.key /\ call[k] = "set"
    BY <2>3, <2>4
  <2>9. QED
    BY <2>1, <2>3, <2>4, <2>5, <2>6, <2>7, <2>8 DEF OneSet
<1>6. CASE ReceivedKey
  <2>1. /\ \A w \in running : w.op = "set" => w \in running'
        /\ running' \subseteq running /\ UNCHANGED <<queue, lastSet, phase>>
    BY <1>6, RequestsValues DEF ReceivedKey, Item
  <2>2. \A k \in PlayerKey : call'[k] = "set" <=> call[k] = "set"
    <3>1. UNCHANGED call \/ \E k \in requests : call' = [call EXCEPT ![k] = "none"]
      BY <1>6 DEF ReceivedKey, Ends
    <3>2. \A k \in PlayerKey : k \in requests => call[k] # "set"
      BY DEF OneGet
    <3>3. QED
      BY <1>0, <3>1, <3>2
  <2>3. QED
    BY <1>0, <2>1, <2>2 DEF OneSet, IsSet
<1>7. CASE Serve \/ Break
  BY <1>7 DEF Serve, Break, OneSet, IsSet
<1>8. CASE Cleanup \/ CloseSource
  BY <1>8, EmptySeq DEF Cleanup, CloseSource, OneSet, IsSet
<1>9. QED
  BY <1>1, <1>2, <1>3, <1>4, <1>5, <1>6, <1>7, <1>8 DEF RequestsNext, PoolThread

(* What is put on its way to the server, its value not ahead. *)
LEMMA AsksKept ==
    ASSUME RequestsTypes, RequestsBounds, NEW k \in Key, NEW v \in Nat, v <= lastSet[k],
           NEW o \in {"get", "set"}, Write(o, k, v), UNCHANGED lastSet
    PROVE  /\ asks' \in Seq(Parcel)
           /\ \A i \in DOMAIN asks' : /\ asks'[i].op \in {"get", "set"}
                                      /\ asks'[i].value <= lastSet'[asks'[i].key]
<1> DEFINE e == Item(o, k, v)
<1>1. e \in Parcel /\ e.value = v /\ e.key = k /\ e.op \in {"get", "set"} /\ asks \in Seq(Parcel)
  BY ItemIs, RequestsValues
<1>2. UNCHANGED asks \/ asks' = Append(asks, e)
  BY AsksOf
<1>3. \A i \in DOMAIN asks : asks[i].op \in {"get", "set"} /\ asks[i].value <= lastSet[asks[i].key]
  BY DEF RequestsBounds
<1> HIDE DEF e
<1>4. CASE asks' = Append(asks, e)
  <2>1. asks' \in Seq(Parcel)
    BY <1>1, <1>4, Appended
  <2>2. \A i \in DOMAIN asks' : (i \in DOMAIN asks /\ asks'[i] = asks[i]) \/ asks'[i] = e
    BY <1>1, <1>4, Appended
  <2>3. QED
    BY <1>1, <1>3, <2>1, <2>2
<1>5. QED
  BY <1>1, <1>2, <1>3, <1>4

LEMMA RequestsBoundsKept ==
    ASSUME RequestsTypes, RequestsBounds, RequestsNext
    PROVE  RequestsBounds'
<1>0. /\ queue \in Seq(Work) /\ asks \in Seq(Parcel) /\ lastSet \in [Key -> Nat]
      /\ PlayerKey \subseteq Key
  BY RequestsValues DEF RequestsTypes, Key
<1>9. /\ \A i \in DOMAIN asks : asks[i].value \in Nat /\ asks[i].key \in Key
      /\ \A i \in DOMAIN queue : /\ queue[i].value \in Nat /\ queue[i].key \in Key
                                 /\ queue[i].op \in {"get", "set"}
      /\ \A w \in running : w.value \in Nat /\ w.key \in Key
  BY RequestsValues DEF Parcel, Work
<1>1. ASSUME NEW k \in Key, GetInfo(k) PROVE RequestsBounds'
  <2> DEFINE e == Item("get", k, 0)
  <2>1. queue' = Append(queue, e) /\ UNCHANGED <<asks, running, lastSet>>
    BY <1>1 DEF GetInfo
  <2>2. e \in Work /\ e.value = 0 /\ e.key = k
    BY ItemIs
  <2> HIDE DEF e
  <2>3. \A i \in DOMAIN queue' : (i \in DOMAIN queue /\ queue'[i] = queue[i]) \/ queue'[i] = e
    BY <1>0, <2>1, <2>2, Appended
  <2>4. QED
    BY <1>0, <2>1, <2>2, <2>3 DEF RequestsBounds
<1>2. ASSUME NEW k \in PlayerKey, SetInfo(k) PROVE RequestsBounds'
  <2> DEFINE e == Item("set", k, lastSet[k] + 1)
  <2>1. /\ queue' = Append(queue, e) /\ UNCHANGED <<asks, running>>
        /\ lastSet' = [lastSet EXCEPT ![k] = @ + 1]
    BY <1>2 DEF SetInfo
  <2>2. e \in Work /\ e.value = lastSet[k] + 1 /\ e.key = k /\ e.op = "set"
    BY <1>0, ItemIs
  <2> HIDE DEF e
  <2>3. \A i \in DOMAIN queue' : (i \in DOMAIN queue /\ queue'[i] = queue[i]) \/ queue'[i] = e
    BY <1>0, <2>1, <2>2, Appended
  <2>4. /\ e.value <= lastSet'[e.key]
        /\ \A j \in Key : lastSet[j] <= lastSet'[j] /\ lastSet'[j] \in Nat
    BY <1>0, <2>1, <2>2
  <2>5. \A i \in DOMAIN asks : asks[i].value <= lastSet'[asks[i].key]
    BY <1>0, <1>9, <2>4 DEF RequestsBounds
  <2>6. \A w \in running : w.value <= lastSet'[w.key]
    BY <1>0, <1>9, <2>4 DEF RequestsBounds
  <2>7. \A i \in DOMAIN queue : queue[i].value <= lastSet'[queue[i].key]
    BY <1>0, <1>9, <2>4 DEF RequestsBounds
  <2>8. QED
    BY <2>1, <2>2, <2>3, <2>4, <2>5, <2>6, <2>7 DEF RequestsBounds
<1>3. CASE Take
  <2> DEFINE w == Head(queue)
  <2>1. queue # <<>> /\ queue' = Tail(queue) /\ UNCHANGED lastSet
    BY <1>3 DEF Take
  <2>2. 1 \in DOMAIN queue /\ w = queue[1]
    BY <1>0, <2>1, Shortened
  <2>3. \A i \in DOMAIN queue' : i + 1 \in DOMAIN queue /\ queue'[i] = queue[i + 1]
    BY <1>0, <2>1, Shortened
  <2>4. UNCHANGED running \/ running' = running \cup {w}
    BY <1>3 DEF Take
  <2>5. UNCHANGED asks \/ Write("get", w.key, 0)
    BY <1>3 DEF Take
  <2>6. w.key \in Key /\ w.value <= lastSet[w.key] /\ 0 <= lastSet[w.key]
    BY <1>0, <1>9, <2>2 DEF RequestsBounds
  <2>7. \A i \in DOMAIN asks' : /\ asks'[i].op \in {"get", "set"}
                                /\ asks'[i].value <= lastSet'[asks'[i].key]
    <3>1. CASE UNCHANGED asks
      BY <2>1, <3>1 DEF RequestsBounds
    <3>2. CASE Write("get", w.key, 0)
      BY <2>1, <2>6, <3>2, AsksKept
    <3>3. QED
      BY <2>5, <3>1, <3>2
  <2> HIDE DEF w
  <2>8. QED
    BY <2>1, <2>3, <2>4, <2>6, <2>7 DEF RequestsBounds
<1>4. ASSUME NEW w \in running, WriteSet(w) PROVE RequestsBounds'
  <2>1. /\ running' \subseteq running /\ Write("set", w.key, w.value)
        /\ UNCHANGED <<queue, lastSet>>
    BY <1>4 DEF WriteSet
  <2>2. w.key \in Key /\ w.value \in Nat /\ w.value <= lastSet[w.key]
    BY <1>9 DEF RequestsBounds
  <2>3. \A i \in DOMAIN asks' : /\ asks'[i].op \in {"get", "set"}
                                /\ asks'[i].value <= lastSet'[asks'[i].key]
    BY <2>1, <2>2, AsksKept
  <2>4. QED
    BY <2>1, <2>3 DEF RequestsBounds
<1>5. CASE Serve
  <2>1. asks # <<>> /\ asks' = Tail(asks) /\ UNCHANGED <<queue, running, lastSet>>
    BY <1>5 DEF Serve
  <2>2. \A i \in DOMAIN asks' : i + 1 \in DOMAIN asks /\ asks'[i] = asks[i + 1]
    BY <1>0, <2>1, Shortened
  <2>3. QED
    BY <2>1, <2>2 DEF RequestsBounds
<1>6. CASE ReceivedKey
  <2>1. running' \subseteq running /\ UNCHANGED <<queue, asks, lastSet>>
    BY <1>6 DEF ReceivedKey
  <2>2. QED
    BY <2>1 DEF RequestsBounds
<1>7. CASE Break \/ Cleanup \/ CloseSource \/ \E k \in Key : GiveUp(k)
  BY <1>7 DEF Break, Cleanup, CloseSource, GiveUp, RequestsBounds
<1>8. QED
  BY <1>1, <1>2, <1>3, <1>4, <1>5, <1>6, <1>7 DEF RequestsNext, PoolThread

(* The types: the queue, the threads, and what is between client and server. *)
LEMMA RequestsTypesKept ==
    ASSUME RequestsTypes, RequestsBounds, OneSet, RequestsNext
    PROVE  RequestsTypes'
<1>0. /\ queue \in Seq(Work) /\ asks \in Seq(Parcel) /\ answers \in Seq(Parcel)
      /\ call \in [Key -> {"none", "get", "set"}]
      /\ lastSet \in [Key -> Nat] /\ stored \in [Key -> Nat] /\ got \in [Key -> Nat]
      /\ \A w \in running : w \in Work /\ w.key \in Key /\ w.value \in Nat
      /\ \A k \in Key : stored[k] <= lastSet[k]
      /\ \A i \in DOMAIN asks : asks[i].key \in Key
      /\ \A i \in DOMAIN answers : answers[i].key \in Key
      /\ PlayerKey \subseteq Key /\ WorldKey \subseteq Key
  BY RequestsValues DEF RequestsTypes, RequestsTypeOK, Key
<1>9. /\ \A i \in DOMAIN asks : asks[i].value \in Nat
      /\ \A i \in DOMAIN answers : answers[i].value \in Nat
  BY RequestsValues DEF Parcel
<1>10. /\ running \subseteq Work /\ IsFiniteSet(running)
       /\ Cardinality(running) <= Threads /\ requests \subseteq Key
  <2>1. requests \subseteq {w.key : w \in running}
    BY DEF RequestsTypes, RequestsTypeOK
  <2>2. requests \subseteq Key
    <3>1. SUFFICES ASSUME NEW k \in requests PROVE k \in Key
      OBVIOUS
    <3>2. PICK w \in running : k = w.key
      BY <2>1
    <3>3. QED
      BY <1>0, <3>2
  <2>3. running \subseteq Work /\ IsFiniteSet(running) /\ Cardinality(running) <= Threads
    BY DEF RequestsTypes, RequestsTypeOK
  <2>4. QED
    BY <2>2, <2>3
<1>1. ASSUME NEW k \in Key, GetInfo(k) PROVE RequestsTypes'
  <2>1. /\ queue' = Append(queue, Item("get", k, 0)) /\ call' = [call EXCEPT ![k] = "get"]
        /\ Item("get", k, 0) \in Work
    BY <1>1, ItemIs DEF GetInfo
  <2>2. queue' \in Seq(Work) /\ call' \in [Key -> {"none", "get", "set"}]
    BY <1>0, <2>1, Appended
  <2>3. QED
    BY <1>1, <2>2 DEF GetInfo, RequestsTypes, RequestsTypeOK
<1>2. ASSUME NEW k \in Key, GiveUp(k) PROVE RequestsTypes'
  BY <1>0, <1>2 DEF GiveUp, RequestsTypes, RequestsTypeOK
<1>3. ASSUME NEW k \in PlayerKey, SetInfo(k) PROVE RequestsTypes'
  <2>1. /\ queue' = Append(queue, Item("set", k, lastSet[k] + 1))
        /\ call' = [call EXCEPT ![k] = "set"] /\ lastSet' = [lastSet EXCEPT ![k] = @ + 1]
        /\ Item("set", k, lastSet[k] + 1) \in Work
    BY <1>0, <1>3, ItemIs DEF SetInfo
  <2>2. queue' \in Seq(Work) /\ call' \in [Key -> {"none", "get", "set"}]
    BY <1>0, <2>1, Appended
  <2>3. lastSet' \in [Key -> Nat] /\ \A j \in Key : lastSet[j] <= lastSet'[j]
    BY <1>0, <2>1
  <2>4. \A j \in Key : stored[j] <= lastSet'[j]
    BY <1>0, <2>3
  <2>6. QED
    BY <1>3, <2>2, <2>3, <2>4 DEF SetInfo, RequestsTypes, RequestsTypeOK
<1>4. CASE Take
  <2> DEFINE w == Head(queue)
  <2>1. queue # <<>> /\ queue' = Tail(queue)
    BY <1>4 DEF Take
  <2>2. w \in Work /\ queue' \in Seq(Work) /\ w = queue[1] /\ 1 \in DOMAIN queue
    BY <1>0, <2>1, Shortened
  <2>3. w.key \in Key /\ w.value \in Nat /\ w.op \in {"get", "set"} /\ 0 <= lastSet[w.key]
    BY <1>0, <2>2 DEF Work
  <2>4. call' \in [Key -> {"none", "get", "set"}]
    BY <1>0, <1>4 DEF Take, Ends
  <2>5. /\ UNCHANGED running \/ running' = running \cup {w}
        /\ UNCHANGED requests \/ (requests' = requests \cup {w.key} /\ w.op = "get")
        /\ w.op = "get" /\ requests' # requests => running' = running \cup {w}
        /\ UNCHANGED asks \/ Write("get", w.key, 0)
    BY <1>4, <2>3 DEF Take
  <2>6. /\ Cardinality(running) < Threads
        /\ UNCHANGED <<calls, lastSet, got, phase, cached, linkUp, answers, stored>>
    BY <1>4 DEF Take
  <2>7. /\ running' \subseteq Work /\ running \subseteq running' /\ IsFiniteSet(running')
        /\ Cardinality(running') <= Threads
    <3>1. CASE UNCHANGED running
      BY <1>10, <3>1
    <3>2. CASE running' = running \cup {w}
      BY <1>10, <2>2, <2>6, <3>2, AnotherThread
    <3>3. QED
      BY <2>5, <3>1, <3>2
  <2>8. asks' \in Seq(Parcel)
    BY <1>0, <2>3, <2>5, <2>6, AsksKept
  <2>9. \A k \in requests' : Item("get", k, 0) \in running' /\ k \in Key
    <3>1. \A k \in requests' : k \in requests \/ (k = w.key /\ w \in running' /\ w.op = "get")
      BY <2>3, <2>5
    <3>2. w.op = "get" => w = Item("get", w.key, 0)
      BY <2>2 DEF Item, Work, RequestsBounds
    <3>3. QED
      BY <1>10, <2>3, <2>7, <3>1, <3>2 DEF RequestsTypes
  <2>10. \A k \in requests' : k \in {v.key : v \in running'}
    BY <2>9, ItemIs
  <2>11. QED
    BY <2>2, <2>4, <2>6, <2>7, <2>8, <2>9, <2>10 DEF RequestsTypes, RequestsTypeOK
<1>5. ASSUME NEW w \in running, WriteSet(w) PROVE RequestsTypes'
  <2>1. /\ w.op = "set" /\ running' = running \ {w} /\ Write("set", w.key, w.value)
        /\ call' = [call EXCEPT ![w.key] = IF @ = "set" THEN "none" ELSE @]
    BY <1>5 DEF WriteSet
  <2>2. UNCHANGED <<calls, lastSet, got, queue, phase, requests, cached, linkUp, answers, stored>>
    BY <1>5 DEF WriteSet
  <2>3. asks' \in Seq(Parcel)
    BY <1>0, <2>1, <2>2, AsksKept DEF RequestsBounds
  <2>4. IsFiniteSet(running') /\ Cardinality(running') <= Threads /\ running' \subseteq Work
    BY <1>10, <2>1, ThreadDone
  <2>5. \A k \in requests : Item("get", k, 0) \in running'
    BY <1>10, <2>1, ItemIs DEF RequestsTypes
  <2>6. requests \subseteq {v.key : v \in running'}
    BY <1>10, <2>5, ItemIs
  <2>7. call' \in [Key -> {"none", "get", "set"}]
    BY <1>0, <2>1
  <2>8. QED
    BY <2>2, <2>3, <2>4, <2>5, <2>6, <2>7 DEF RequestsTypes, RequestsTypeOK
<1>6. CASE Serve
  <2> DEFINE m == Head(asks)
  <2>1. asks # <<>> /\ asks' = Tail(asks)
    BY <1>6 DEF Serve
  <2>2. UNCHANGED <<call, calls, lastSet, got, queue, running, phase, requests, cached, linkUp,
                    late>>
    BY <1>6 DEF Serve
  <2>3. asks' \in Seq(Parcel) /\ m = asks[1] /\ 1 \in DOMAIN asks
    BY <1>0, <2>1, Shortened
  <2>4. m.key \in Key /\ m.value \in Nat /\ m.value <= lastSet[m.key]
    BY <1>0, <1>9, <2>3 DEF RequestsBounds
  <2>5. \/ answers' = Append(answers, Item("reply", m.key, stored[m.key])) /\ UNCHANGED stored
        \/ stored' = [stored EXCEPT ![m.key] = m.value] /\ UNCHANGED answers
    BY <1>6 DEF Serve
  <2>6. stored' \in [Key -> Nat] /\ \A k \in Key : stored'[k] <= lastSet[k]
    BY <1>0, <2>4, <2>5
  <2>7. answers' \in Seq(Parcel)
    <3>1. Item("reply", m.key, stored[m.key]) \in Parcel
      BY <1>0, <2>4, ItemIs
    <3>2. QED
      BY <1>0, <2>5, <3>1, Appended
  <2>8. QED
    BY <2>2, <2>3, <2>6, <2>7 DEF RequestsTypes, RequestsTypeOK
<1>7. CASE ReceivedKey
  <2> DEFINE m == Head(answers)
             g == Item("get", m.key, 0)
  <2>1. answers # <<>> /\ answers' = Tail(answers)
    BY <1>7 DEF ReceivedKey
  <2>2. UNCHANGED <<calls, lastSet, queue, phase, linkUp, asks, stored>>
    BY <1>7 DEF ReceivedKey
  <2>3. answers' \in Seq(Parcel) /\ m = answers[1] /\ 1 \in DOMAIN answers
    BY <1>0, <2>1, Shortened
  <2>4. m.key \in Key /\ m.value \in Nat
    BY <1>0, <1>9, <2>3
  <2>5. cached' \subseteq WorldKey
    BY <1>7 DEF ReceivedKey, RequestsTypes, RequestsTypeOK
  <2>6. \/ /\ requests' = requests \ {m.key} /\ running' = running \ {g}
           /\ got' = [got EXCEPT ![m.key] = m.value] /\ call' = [call EXCEPT ![m.key] = "none"]
        \/ UNCHANGED <<requests, running, got, call>>
    BY <1>7 DEF ReceivedKey, Ends
  <2>7. got' \in [Key -> Nat] /\ call' \in [Key -> {"none", "get", "set"}]
    BY <1>0, <2>4, <2>6
  <2>8. IsFiniteSet(running') /\ Cardinality(running') <= Threads /\ running' \subseteq Work
    <3>1. CASE UNCHANGED running
      BY <1>10, <3>1
    <3>2. CASE running' = running \ {g}
      BY <1>10, <3>2, ThreadDone
    <3>3. QED
      BY <2>6, <3>1, <3>2
  <2>9. \A k \in requests' : k \in Key /\ Item("get", k, 0) \in running'
    <3>1. \A k \in requests : Item("get", k, 0) \in running
      BY DEF RequestsTypes
    <3>2. \A k \in Key : k # m.key => Item("get", k, 0) # g
      BY DEF Item
    <3>3. QED
      BY <1>10, <2>6, <3>1, <3>2
  <2>10. \A k \in requests' : k \in {v.key : v \in running'}
    BY <2>9, ItemIs
  <2>11. QED
    BY <2>2, <2>3, <2>5, <2>7, <2>8, <2>9, <2>10 DEF RequestsTypes, RequestsTypeOK
<1>8. CASE Break \/ Cleanup \/ CloseSource
  <2>1. \A S : <<>> \in Seq(S)
    BY EmptySeq
  <2>2. QED
    BY <1>8, <2>1 DEF Break, Cleanup, CloseSource, RequestsTypes, RequestsTypeOK
<1>11. QED
  BY <1>1, <1>2, <1>3, <1>4, <1>5, <1>6, <1>7, <1>8 DEF RequestsNext, PoolThread

(* What is on its way to the server stays so when what is no set of the key   *)
(* follows.                                                                   *)
LEMMA OnItsWayKept ==
    ASSUME RequestsTypes, NEW k \in PlayerKey, OnItsWay(k), NEW e \in Parcel, ~IsSet(e, k),
           UNCHANGED asks \/ asks' = Append(asks, e), UNCHANGED <<lastSet, stored>>
    PROVE  OnItsWay(k)'
<1>1. asks \in Seq(Parcel)
  BY RequestsValues
<1>2. CASE asks' = Append(asks, e)
  <2>1. /\ \A i \in DOMAIN asks : i \in DOMAIN asks' /\ asks'[i] = asks[i]
        /\ \A i \in DOMAIN asks' : i \in DOMAIN asks \/ asks'[i] = e
    BY <1>1, <1>2, Appended
  <2>2. \A i \in DOMAIN asks' : IsSet(asks'[i], k) => i \in DOMAIN asks /\ asks'[i] = asks[i]
    BY <2>1 DEF IsSet
  <2>3. QED
    BY <2>1, <2>2 DEF OnItsWay, IsSet
<1>3. QED
  BY <1>2 DEF OnItsWay, IsSet

LEMMA LastIsOnItsWayKept ==
    ASSUME RequestsTypes, RequestsBounds, OneSet, LastIsOnItsWay, OneGet,
           RequestsNext
    PROVE  LastIsOnItsWay'
<1>0. /\ queue \in Seq(Work) /\ asks \in Seq(Parcel) /\ call \in [Key -> {"none", "get", "set"}]
      /\ \A w \in running : /\ w \in Work /\ w.key \in Key /\ w.value \in Nat
                             /\ w.op \in {"get", "set"}
      /\ lastSet \in [Key -> Nat] /\ stored \in [Key -> Nat] /\ PlayerKey \subseteq Key
  BY RequestsValues DEF RequestsTypes, Key, Work
<1> SUFFICES ASSUME NEW k \in PlayerKey, linkUp', call'[k] # "set"
             PROVE  OnItsWay(k)'
  BY DEF LastIsOnItsWay
<1>9. linkUp
  BY DEF RequestsNext, PoolThread, GetInfo, GiveUp, SetInfo, Take, WriteSet, Serve, ReceivedKey,
         Break, Cleanup, CloseSource, RequestsTypes
<1>10. call[k] # "set" => OnItsWay(k)
  BY <1>9 DEF LastIsOnItsWay
<1>1. CASE (\E c \in Key : GetInfo(c)) \/ Cleanup
  <2>1. UNCHANGED <<asks, lastSet, stored>> /\ call[k] # "set"
    BY <1>0, <1>1 DEF GetInfo, Cleanup
  <2>2. QED
    BY <1>10, <2>1 DEF OnItsWay, IsSet
<1>2. CASE \E c \in Key : GiveUp(c)
  <2>1. UNCHANGED <<asks, lastSet, stored>> /\ call[k] # "set"
    BY <1>0, <1>2 DEF GiveUp
  <2>2. QED
    BY <1>10, <2>1 DEF OnItsWay, IsSet
<1>3. ASSUME NEW c \in PlayerKey, SetInfo(c) PROVE OnItsWay(k)'
  <2>1. /\ UNCHANGED <<asks, stored>> /\ call' = [call EXCEPT ![c] = "set"]
        /\ lastSet' = [lastSet EXCEPT ![c] = @ + 1]
    BY <1>3 DEF SetInfo
  <2>2. k # c /\ call[k] # "set" /\ lastSet'[k] = lastSet[k]
    BY <1>0, <2>1
  <2>3. QED
    BY <1>10, <2>1, <2>2 DEF OnItsWay, IsSet
<1>4. CASE Take
  <2> DEFINE w == Head(queue)
             e == Item("get", w.key, 0)
  <2>1. queue # <<>> /\ UNCHANGED <<lastSet, stored>>
    BY <1>4 DEF Take
  <2>2. 1 \in DOMAIN queue /\ w = queue[1] /\ w \in Work
    BY <1>0, <2>1, Shortened
  <2>3. w.key \in Key /\ w.op \in {"get", "set"}
    BY <2>2 DEF Work
  <2>4. w.op = "get" /\ w.key \in PlayerKey => call[w.key] = "get"
    BY <2>2 DEF OneGet, IsGet
  <2>5. UNCHANGED call \/ (w.op = "get" /\ call' = [call EXCEPT ![w.key] = "none"])
    BY <1>4, <2>3 DEF Take, Ends
  <2>6. call[k] # "set"
    BY <1>0, <2>3, <2>4, <2>5
  <2>7. UNCHANGED asks \/ asks' = Append(asks, e)
    BY <1>4 DEF Take, Write
  <2>8. e \in Parcel /\ e.op = "get"
    BY <2>3, ItemIs
  <2> HIDE DEF e
  <2>9. ~IsSet(e, k)
    BY <2>8 DEF IsSet
  <2>10. QED
    BY <1>10, <2>1, <2>6, <2>7, <2>8, <2>9, OnItsWayKept
<1>5. ASSUME NEW w \in running, WriteSet(w) PROVE OnItsWay(k)'
  <2> DEFINE e == Item("set", w.key, w.value)
  <2>1. /\ w.op = "set" /\ asks' = Append(asks, e) /\ UNCHANGED <<lastSet, stored>>
        /\ call' = [call EXCEPT ![w.key] = IF @ = "set" THEN "none" ELSE @]
    BY <1>5, <1>9 DEF WriteSet, Write
  <2>2. e \in Parcel /\ e.op = "set" /\ e.key = w.key /\ e.value = w.value
    BY <1>0, ItemIs
  <2> HIDE DEF e
  <2>3. CASE w.key = k
    <3>1. e.value = lastSet[k] /\ IsSet(e, k)
      BY <2>1, <2>2, <2>3 DEF OneSet, IsSet
    <3>2. /\ Len(asks) + 1 \in DOMAIN asks' /\ asks'[Len(asks) + 1] = e
          /\ \A j \in DOMAIN asks' : ~(j > Len(asks) + 1)
      BY <1>0, <2>1, <2>2, Appended
    <3>3. QED
      BY <2>1, <3>1, <3>2 DEF OnItsWay
  <2>4. CASE w.key # k
    <3>1. call[k] # "set" /\ ~IsSet(e, k)
      BY <1>0, <2>1, <2>2, <2>4 DEF IsSet
    <3>2. QED
      BY <1>10, <2>1, <2>2, <3>1, OnItsWayKept
  <2>5. QED
    BY <2>3, <2>4
<1>6. CASE Serve
  <2> DEFINE m == Head(asks)
  <2>1. asks # <<>> /\ asks' = Tail(asks) /\ UNCHANGED <<lastSet, call>>
    BY <1>6 DEF Serve
  <2>2. 1 \in DOMAIN asks /\ m = asks[1] /\ m \in Parcel
    BY <1>0, <2>1, Shortened
  <2>3. \A i \in DOMAIN asks' : /\ i + 1 \in DOMAIN asks /\ asks'[i] = asks[i + 1]
                               /\ i \in Nat /\ i # 0
    BY <1>0, <2>1, Shortened
  <2>4. \A i \in DOMAIN asks :
            i # 1 => \E j \in DOMAIN asks' : j + 1 = i /\ asks'[j] = asks[i]
    <3>1. \A i \in DOMAIN asks :
            /\ i \in Nat
            /\ i = 1 \/ (i > 1 /\ i - 1 \in DOMAIN asks' /\ asks'[i - 1] = asks[i])
      BY <1>0, <2>1, Shortened
    <3>2. QED
      BY <3>1
  <2>5. m.key \in Key
    BY <2>2 DEF Parcel
  <2>6. /\ m.op = "get" => UNCHANGED stored
        /\ m.op # "get" => stored' = [stored EXCEPT ![m.key] = m.value]
    BY <1>6 DEF Serve
  <2> HIDE DEF m
  <2>7. CASE stored[k] = lastSet[k] /\ \A i \in DOMAIN asks : ~IsSet(asks[i], k)
    <3>1. m.key # k \/ m.op = "get" \/ m.op = "reply"
      BY <2>2, <2>7 DEF IsSet, Parcel
    <3>2. \A i \in DOMAIN asks' : ~IsSet(asks'[i], k)
      BY <2>3, <2>7
    <3>3. CASE stored'[k] = stored[k]
      BY <2>1, <2>7, <3>2, <3>3 DEF OnItsWay
    <3>4. m.op # "reply"
      BY <2>2 DEF RequestsBounds
    <3>5. QED
      BY <1>0, <2>5, <2>6, <3>1, <3>3, <3>4
  <2>8. ASSUME NEW i \in DOMAIN asks, IsSet(asks[i], k), asks[i].value = lastSet[k],
               \A j \in DOMAIN asks : j > i => ~IsSet(asks[j], k)
        PROVE  OnItsWay(k)'
    <3>1. CASE i = 1
      <4>1. stored'[k] = lastSet'[k]
        BY <1>0, <2>1, <2>2, <2>5, <2>6, <2>8, <3>1 DEF IsSet
      <4>2. \A j \in DOMAIN asks' : ~IsSet(asks'[j], k)
        BY <2>3, <2>8, <3>1
      <4>3. QED
        BY <4>1, <4>2 DEF OnItsWay
    <3>2. CASE i # 1
      <4>1. PICK h \in DOMAIN asks' : h + 1 = i /\ asks'[h] = asks[i]
        BY <2>4, <3>2
      <4>2. \A j \in DOMAIN asks' : j > h => ~IsSet(asks'[j], k)
        BY <2>3, <2>8, <4>1
      <4>3. QED
        BY <2>1, <2>8, <4>1, <4>2 DEF OnItsWay
    <3>3. QED
      BY <3>1, <3>2
  <2>9. QED
    BY <1>10, <2>1, <2>7, <2>8 DEF OnItsWay
<1>7. CASE ReceivedKey
  <2>1. UNCHANGED <<asks, lastSet, stored>>
    BY <1>7 DEF ReceivedKey
  <2>2. UNCHANGED call \/ \E c \in requests : call' = [call EXCEPT ![c] = "none"]
    BY <1>7 DEF ReceivedKey, Ends
  <2>3. call[k] # "set"
    BY <1>0, <2>2 DEF OneGet
  <2>4. QED
    BY <1>10, <2>1, <2>3 DEF OnItsWay, IsSet
<1>8. CASE Break \/ CloseSource
  BY <1>8 DEF Break, CloseSource
<1>11. QED
  BY <1>1, <1>2, <1>3, <1>4, <1>5, <1>6, <1>7, <1>8 DEF RequestsNext, PoolThread

LEMMA OneGetKept ==
    ASSUME RequestsTypes, RequestsBounds, OneSet, LastIsOnItsWay, OneGet, RequestsNext
    PROVE  OneGet'
<1>0. /\ queue \in Seq(Work) /\ asks \in Seq(Parcel) /\ answers \in Seq(Parcel)
      /\ call \in [Key -> {"none", "get", "set"}]
      /\ \A w \in running : w \in Work /\ w.key \in Key /\ w.value \in Nat
      /\ lastSet \in [Key -> Nat] /\ stored \in [Key -> Nat] /\ PlayerKey \subseteq Key
      /\ PlayerKey \cap WorldKey = {} /\ cached \subseteq WorldKey
  BY RequestsValues, RequestsAssumption DEF RequestsTypes, RequestsTypeOK, Key
<1>1. ASSUME NEW c \in Key, GetInfo(c) PROVE OneGet'
  <2> DEFINE e == Item("get", c, 0)
  <2>1. /\ queue' = Append(queue, e) /\ call[c] = "none" /\ call' = [call EXCEPT ![c] = "get"]
        /\ UNCHANGED <<lastSet, requests, asks, answers>>
    BY <1>1 DEF GetInfo
  <2>2. e \in Work /\ e.op = "get" /\ e.key = c
    BY ItemIs
  <2> HIDE DEF e
  <2>3. /\ \A i \in DOMAIN queue : i \in DOMAIN queue' /\ queue'[i] = queue[i]
        /\ \A i \in DOMAIN queue' : i \in DOMAIN queue \/ i = Len(queue) + 1
        /\ queue'[Len(queue) + 1] = e
    BY <1>0, <2>1, <2>2, Appended
  <2>4. c \in PlayerKey => c \notin requests /\ \A i \in DOMAIN queue : ~IsGet(queue[i], c)
    BY <2>1 DEF OneGet
  <2>5. \A k \in PlayerKey : k # c => call'[k] = call[k]
    BY <1>0, <2>1
  <2>6. c \in PlayerKey => call'[c] = "get"
    BY <1>0, <2>1
  <2>7. ASSUME NEW k \in PlayerKey, NEW i \in DOMAIN queue', IsGet(queue'[i], k)
        PROVE  /\ call'[k] = "get" /\ k \notin requests
               /\ \A j \in DOMAIN queue' : IsGet(queue'[j], k) => j = i
    <3>1. CASE k = c
      <4>1. i = Len(queue) + 1
        BY <2>3, <2>4, <2>7, <3>1
      <4>2. \A j \in DOMAIN queue' : IsGet(queue'[j], k) => j = i
        BY <2>3, <2>4, <3>1, <4>1
      <4>3. QED
        BY <2>4, <2>6, <3>1, <4>2
    <3>2. CASE k # c
      <4>1. \A j \in DOMAIN queue' :
                IsGet(queue'[j], k) => j \in DOMAIN queue /\ queue'[j] = queue[j]
        BY <2>2, <2>3, <3>2 DEF IsGet
      <4>2. QED
        BY <2>5, <2>7, <3>2, <4>1 DEF OneGet
    <3>3. QED
      BY <3>1, <3>2
  <2>8. \A k \in PlayerKey : k \in requests => call'[k] = "get"
    BY <2>4, <2>5 DEF OneGet
  <2>9. QED
    BY <2>1, <2>7, <2>8 DEF OneGet
<1>2. CASE \E c \in Key : GiveUp(c)
  <2>1. /\ \A k \in PlayerKey : call'[k] = call[k]
        /\ UNCHANGED <<lastSet, queue, requests, asks, answers>>
    BY <1>0, <1>2 DEF GiveUp
  <2>2. QED
    BY <2>1 DEF OneGet, IsGet
<1>3. ASSUME NEW c \in PlayerKey, SetInfo(c) PROVE OneGet'
  <2> DEFINE e == Item("set", c, lastSet[c] + 1)
  <2>1. /\ queue' = Append(queue, e) /\ call[c] = "none" /\ call' = [call EXCEPT ![c] = "set"]
        /\ lastSet' = [lastSet EXCEPT ![c] = @ + 1] /\ UNCHANGED <<requests, asks, answers>>
    BY <1>3 DEF SetInfo
  <2>2. e \in Work /\ e.op = "set"
    BY <1>0, ItemIs
  <2> HIDE DEF e
  <2>3. \A i \in DOMAIN queue' : \/ i \in DOMAIN queue /\ queue'[i] = queue[i]
                                \/ queue'[i] = e
    BY <1>0, <2>1, <2>2, Appended
  <2>4. \A k \in PlayerKey, i \in DOMAIN queue' :
            IsGet(queue'[i], k) => i \in DOMAIN queue /\ queue'[i] = queue[i]
    BY <2>2, <2>3 DEF IsGet
  <2>5. /\ c \notin requests /\ \A i \in DOMAIN queue : ~IsGet(queue[i], c)
        /\ \A i \in DOMAIN answers : answers[i].key # c
    BY <2>1 DEF OneGet
  <2>6. \A k \in PlayerKey : k # c => call'[k] = call[k] /\ lastSet'[k] = lastSet[k]
    BY <1>0, <2>1
  <2>7. QED
    BY <2>1, <2>4, <2>5, <2>6 DEF OneGet, IsGet
<1>4. CASE Take
  <2> DEFINE w == Head(queue)
             e == Item("get", w.key, 0)
  <2>1. queue # <<>> /\ queue' = Tail(queue) /\ UNCHANGED <<lastSet, answers>>
    BY <1>4 DEF Take
  <2>2. 1 \in DOMAIN queue /\ w = queue[1] /\ w \in Work
    BY <1>0, <2>1, Shortened
  <2>3. w.key \in Key /\ w.op \in {"get", "set"}
    BY <2>2 DEF Work
  <2>4. \A i \in DOMAIN queue' : /\ i + 1 \in DOMAIN queue /\ queue'[i] = queue[i + 1]
                                /\ i \in Nat /\ i # 0
    BY <1>0, <2>1, Shortened
  <2>5. \/ /\ w.key \notin PlayerKey /\ call' = [call EXCEPT ![w.key] = "none"]
           /\ UNCHANGED <<requests, asks>>
        \/ w.op = "set" /\ UNCHANGED <<call, requests, asks>>
        \/ /\ w.op = "get" /\ requests' = requests \cup {w.key} /\ Write("get", w.key, 0)
           /\ UNCHANGED call
    <3>1. CASE w.op = "set"
      BY <1>4, <3>1 DEF Take
    <3>2. CASE w.op = "get" /\ w.key \in cached \cup requests
      <4>1. w.key \notin PlayerKey
        BY <1>0, <2>2, <3>2 DEF OneGet, IsGet
      <4>2. QED
        BY <1>4, <3>2, <4>1 DEF Take, Ends
    <3>3. CASE w.op = "get" /\ w.key \notin cached \cup requests
      BY <1>4, <3>3 DEF Take
    <3>4. QED
      BY <2>3, <3>1, <3>2, <3>3
  <2>6. e \in Parcel /\ e.op = "get" /\ e.key = w.key
    BY <2>3, ItemIs
  <2>7. \/ UNCHANGED asks
        \/ asks' = Append(asks, e) /\ w.op = "get" /\ requests' = requests \cup {w.key}
    BY <2>5 DEF Write
  <2>8. w.op = "get" /\ w.key \in PlayerKey =>
            /\ call[w.key] = "get" /\ w.key \notin requests
            /\ \A i \in DOMAIN asks : ~IsGet(asks[i], w.key)
            /\ \A i \in DOMAIN answers : answers[i].key # w.key
            /\ \A i \in DOMAIN queue : IsGet(queue[i], w.key) => i = 1
    BY <2>2 DEF OneGet, IsGet
  <2> HIDE DEF w, e
  <2>9. ASSUME NEW k \in PlayerKey PROVE call'[k] = call[k]
    BY <1>0, <2>3, <2>5
  <2>10. ASSUME NEW k \in PlayerKey, k \in requests' PROVE call'[k] = "get"
    BY <2>5, <2>8, <2>9, <2>10 DEF OneGet
  <2>11. ASSUME NEW k \in PlayerKey, NEW i \in DOMAIN queue', IsGet(queue'[i], k)
         PROVE  /\ call'[k] = "get" /\ k \notin requests'
                /\ \A j \in DOMAIN queue' : IsGet(queue'[j], k) => j = i
    <3>1. i + 1 \in DOMAIN queue /\ IsGet(queue[i + 1], k) /\ i \in Nat /\ i # 0
      BY <2>4, <2>11
    <3>2. \A j \in DOMAIN queue' : IsGet(queue'[j], k) => j + 1 = i + 1 /\ j \in Nat
      BY <2>4, <3>1 DEF OneGet
    <3>3. k \notin requests'
      <4>1. w.op = "get" => w.key # k
        BY <2>8, <3>1
      <4>2. k \notin requests
        BY <3>1 DEF OneGet
      <4>3. QED
        BY <2>5, <4>1, <4>2
    <3>4. call'[k] = "get"
      BY <2>9, <3>1 DEF OneGet
    <3>5. QED
      BY <3>1, <3>2, <3>3, <3>4
  <2>12. \A k \in PlayerKey : k \in requests => k \in requests'
    BY <2>5
  <2>13. ASSUME NEW k \in PlayerKey, NEW i \in DOMAIN asks', IsGet(asks'[i], k)
         PROVE  k \in requests' /\ \A j \in DOMAIN asks' : j > i => asks'[j].key # k
    <3>1. CASE UNCHANGED asks
      BY <2>12, <2>13, <3>1 DEF OneGet
    <3>2. CASE asks' = Append(asks, e) /\ w.op = "get" /\ requests' = requests \cup {w.key}
      <4>1. /\ \A j \in DOMAIN asks : /\ j \in DOMAIN asks' /\ asks'[j] = asks[j]
                                      /\ j \in Nat /\ j < Len(asks) + 1
            /\ \A j \in DOMAIN asks' : j \in DOMAIN asks \/ j = Len(asks) + 1
            /\ asks'[Len(asks) + 1] = e /\ Len(asks) + 1 \in Nat
        BY <1>0, <2>6, <3>2, Appended
      <4>2. CASE k = w.key
        <5>1. i = Len(asks) + 1
          BY <2>8, <2>13, <3>2, <4>1, <4>2
        <5>2. \A j \in DOMAIN asks' : ~(j > i)
          BY <4>1, <5>1
        <5>3. QED
          BY <3>2, <4>2, <5>2
      <4>3. CASE k # w.key
        <5>1. i \in DOMAIN asks /\ asks'[i] = asks[i]
          BY <2>6, <2>13, <4>1, <4>3 DEF IsGet
        <5>2. k \in requests /\ \A j \in DOMAIN asks : j > i => asks[j].key # k
          BY <2>13, <5>1 DEF OneGet
        <5>3. \A j \in DOMAIN asks' : j > i => asks'[j].key # k
          BY <2>6, <4>1, <4>3, <5>2
        <5>4. QED
          BY <3>2, <5>2, <5>3
      <4>4. QED
        BY <4>2, <4>3
    <3>3. QED
      BY <2>7, <3>1, <3>2
  <2>14. ASSUME NEW k \in PlayerKey, NEW i \in DOMAIN answers, answers[i].key = k
         PROVE  /\ k \in requests' /\ answers[i].value = lastSet[k]
                /\ \A j \in DOMAIN asks' : ~IsGet(asks'[j], k)
                /\ \A j \in DOMAIN answers : answers[j].key = k => j = i
    <3>1. /\ k \in requests /\ answers[i].value = lastSet[k]
          /\ \A j \in DOMAIN asks : ~IsGet(asks[j], k)
          /\ \A j \in DOMAIN answers : answers[j].key = k => j = i
      BY <2>14 DEF OneGet
    <3>2. \A j \in DOMAIN asks' : ~IsGet(asks'[j], k)
      <4>1. CASE UNCHANGED asks
        BY <3>1, <4>1
      <4>2. CASE asks' = Append(asks, e) /\ w.op = "get"
        <5>1. \A j \in DOMAIN asks' : (j \in DOMAIN asks /\ asks'[j] = asks[j]) \/ asks'[j] = e
          BY <1>0, <2>6, <4>2, Appended
        <5>2. w.key # k
          BY <2>8, <2>14, <4>2
        <5>3. QED
          BY <2>6, <3>1, <5>1, <5>2 DEF IsGet
      <4>3. QED
        BY <2>7, <4>1, <4>2
    <3>3. QED
      BY <2>12, <3>1, <3>2
  <2>15. QED
    BY <2>1, <2>10, <2>11, <2>13, <2>14 DEF OneGet
<1>5. ASSUME NEW w \in running, WriteSet(w) PROVE OneGet'
  <2> DEFINE e == Item("set", w.key, w.value)
  <2>1. /\ w.op = "set" /\ (UNCHANGED asks \/ asks' = Append(asks, e))
        /\ call' = [call EXCEPT ![w.key] = IF @ = "set" THEN "none" ELSE @]
        /\ UNCHANGED <<lastSet, queue, requests, answers>>
    BY <1>5 DEF WriteSet, Write
  <2>2. e \in Parcel /\ e.op = "set" /\ e.key = w.key
    BY <1>0, ItemIs
  <2> HIDE DEF e
  <2>3. \A k \in PlayerKey : call[k] = "get" => call'[k] = "get"
    BY <1>0, <2>1
  <2>4. w.key \in PlayerKey => w.key \notin requests
    <3>1. w.key \in PlayerKey => call[w.key] = "set"
      BY <2>1 DEF OneSet, IsSet
    <3>2. QED
      BY <3>1 DEF OneGet
  <2>5. \/ UNCHANGED asks
        \/ /\ \A j \in DOMAIN asks : j \in DOMAIN asks' /\ asks'[j] = asks[j]
           /\ \A j \in DOMAIN asks' : (j \in DOMAIN asks /\ asks'[j] = asks[j]) \/ asks'[j] = e
    <3>1. CASE asks' = Append(asks, e)
      BY <1>0, <2>2, <3>1, Appended
    <3>2. QED
      BY <2>1, <3>1
  <2>6. \A k \in PlayerKey, j \in DOMAIN asks' :
            IsGet(asks'[j], k) => j \in DOMAIN asks /\ asks'[j] = asks[j]
    BY <2>2, <2>5 DEF IsGet
  <2>7. ASSUME NEW k \in PlayerKey, NEW i \in DOMAIN asks', IsGet(asks'[i], k)
        PROVE  k \in requests /\ \A j \in DOMAIN asks' : j > i => asks'[j].key # k
    <3>1. k \in requests /\ \A j \in DOMAIN asks : j > i => asks[j].key # k
      BY <2>6, <2>7 DEF OneGet
    <3>2. w.key # k
      BY <2>4, <3>1
    <3>3. QED
      BY <2>2, <2>5, <3>1, <3>2
  <2>8. QED
    BY <2>1, <2>3, <2>6, <2>7 DEF OneGet
<1>6. CASE Serve
  <2> DEFINE m == Head(asks)
             e == Item("reply", m.key, stored[m.key])
  <2>1. linkUp /\ asks # <<>> /\ asks' = Tail(asks) /\ UNCHANGED <<lastSet, call, queue, requests>>
    BY <1>6 DEF Serve
  <2>2. 1 \in DOMAIN asks /\ m = asks[1] /\ m \in Parcel
    BY <1>0, <2>1, Shortened
  <2>3. \A i \in DOMAIN asks' : /\ i + 1 \in DOMAIN asks /\ asks'[i] = asks[i + 1]
                               /\ i \in Nat /\ i # 0
    BY <1>0, <2>1, Shortened
  <2>5. m.key \in Key /\ stored[m.key] \in Nat
    BY <1>0, <2>2 DEF Parcel
  <2>6. \/ UNCHANGED answers
        \/ m.op = "get" /\ answers' = Append(answers, e)
    BY <1>6 DEF Serve
  <2>7. e \in Parcel /\ e.key = m.key /\ e.value = stored[m.key]
    BY <2>5, ItemIs
  <2>8. m.op = "get" /\ m.key \in PlayerKey =>
            /\ m.key \in requests /\ call[m.key] = "get"
            /\ \A j \in DOMAIN asks : j > 1 => asks[j].key # m.key
            /\ \A j \in DOMAIN answers : answers[j].key # m.key
    BY <2>2 DEF OneGet, IsGet
  <2>9. m.op = "get" /\ m.key \in PlayerKey => stored[m.key] = lastSet[m.key]
    <3>1. SUFFICES ASSUME m.op = "get", m.key \in PlayerKey, ~(stored[m.key] = lastSet[m.key])
                   PROVE  FALSE
      OBVIOUS
    <3>2. \E i \in DOMAIN asks : IsSet(asks[i], m.key)
      BY <2>1, <2>8, <3>1 DEF LastIsOnItsWay, OnItsWay
    <3>3. \A i \in DOMAIN asks : i \in Nat /\ (i = 1 \/ i > 1)
      BY <1>0, <2>1, Shortened
    <3>4. QED
      BY <2>2, <2>8, <3>1, <3>2, <3>3 DEF IsSet
  <2> HIDE DEF m, e
  <2>10. ASSUME NEW k \in PlayerKey, NEW i \in DOMAIN asks', IsGet(asks'[i], k)
         PROVE  /\ k \in requests /\ \A j \in DOMAIN asks' : j > i => asks'[j].key # k
                /\ m.op = "get" => m.key # k
    <3>1. i + 1 \in DOMAIN asks /\ IsGet(asks[i + 1], k) /\ i \in Nat /\ i # 0
      BY <2>3, <2>10
    <3>2. k \in requests /\ \A j \in DOMAIN asks : j > i + 1 => asks[j].key # k
      BY <3>1 DEF OneGet
    <3>3. \A j \in DOMAIN asks' : j > i => asks'[j].key # k
      BY <2>3, <3>1, <3>2
    <3>4. m.op = "get" => m.key # k
      BY <2>8, <3>1 DEF IsGet
    <3>5. QED
      BY <3>2, <3>3, <3>4
  <2>11. ASSUME NEW k \in PlayerKey, NEW i \in DOMAIN answers', answers'[i].key = k
         PROVE  /\ k \in requests /\ answers'[i].value = lastSet[k]
                /\ \A j \in DOMAIN asks' : ~IsGet(asks'[j], k)
                /\ \A j \in DOMAIN answers' : answers'[j].key = k => j = i
    <3>1. CASE UNCHANGED answers
      <4>1. /\ k \in requests /\ answers[i].value = lastSet[k]
            /\ \A j \in DOMAIN asks : ~IsGet(asks[j], k)
            /\ \A j \in DOMAIN answers : answers[j].key = k => j = i
        BY <2>11, <3>1 DEF OneGet
      <4>2. QED
        BY <2>3, <3>1, <4>1
    <3>2. CASE m.op = "get" /\ answers' = Append(answers, e)
      <4>1. /\ \A j \in DOMAIN answers : j \in DOMAIN answers' /\ answers'[j] = answers[j]
            /\ \A j \in DOMAIN answers' : j \in DOMAIN answers \/ j = Len(answers) + 1
            /\ answers'[Len(answers) + 1] = e
        BY <1>0, <2>7, <3>2, Appended
      <4>2. CASE k = m.key
        <5>1. \A j \in DOMAIN answers' : answers'[j].key = k => j = Len(answers) + 1
          BY <2>8, <3>2, <4>1, <4>2
        <5>2. answers'[i] = e
          BY <2>11, <4>1, <5>1
        <5>3. \A j \in DOMAIN asks' : ~IsGet(asks'[j], k)
          BY <2>10, <3>2, <4>2
        <5>4. QED
          BY <2>7, <2>8, <2>9, <2>11, <3>2, <4>2, <5>1, <5>2, <5>3
      <4>3. CASE k # m.key
        <5>1. \A j \in DOMAIN answers' :
                answers'[j].key = k => j \in DOMAIN answers /\ answers'[j] = answers[j]
          BY <2>7, <4>1, <4>3
        <5>2. /\ k \in requests /\ answers[i].value = lastSet[k]
              /\ \A j \in DOMAIN asks : ~IsGet(asks[j], k)
              /\ \A j \in DOMAIN answers : answers[j].key = k => j = i
          BY <2>11, <5>1 DEF OneGet
        <5>3. \A j \in DOMAIN asks' : ~IsGet(asks'[j], k)
          BY <2>3, <5>2
        <5>4. QED
          BY <2>11, <5>1, <5>2, <5>3
      <4>4. QED
        BY <4>2, <4>3
    <3>3. QED
      BY <2>6, <3>1, <3>2
  <2>12. QED
    BY <2>1, <2>10, <2>11 DEF OneGet
<1>7. CASE ReceivedKey
  <2> DEFINE m == Head(answers)
  <2>1. answers # <<>> /\ answers' = Tail(answers) /\ UNCHANGED <<lastSet, queue, asks>>
    BY <1>7 DEF ReceivedKey
  <2>2. 1 \in DOMAIN answers /\ m = answers[1] /\ m \in Parcel
    BY <1>0, <2>1, Shortened
  <2>3. \A i \in DOMAIN answers' : /\ i + 1 \in DOMAIN answers /\ answers'[i] = answers[i + 1]
                                  /\ i \in Nat /\ i # 0
    BY <1>0, <2>1, Shortened
  <2>4. m.key \in Key
    BY <2>2 DEF Parcel
  <2>5. \/ /\ m.key \in requests /\ requests' = requests \ {m.key}
           /\ call' = [call EXCEPT ![m.key] = "none"]
        \/ m.key \notin requests /\ UNCHANGED <<requests, call>>
    BY <1>7 DEF ReceivedKey, Ends
  <2>6. m.key \in PlayerKey =>
            /\ m.key \in requests
            /\ \A j \in DOMAIN asks : ~IsGet(asks[j], m.key)
            /\ \A j \in DOMAIN answers : answers[j].key = m.key => j = 1
            /\ \A j \in DOMAIN queue : ~IsGet(queue[j], m.key)
    BY <2>2 DEF OneGet
  <2> HIDE DEF m
  <2>7. \A k \in PlayerKey : k # m.key => call'[k] = call[k] /\ (k \in requests' <=> k \in requests)
    BY <1>0, <2>4, <2>5
  <2>8. m.key \in PlayerKey =>
            m.key \notin requests' /\ \A j \in DOMAIN answers' : answers'[j].key # m.key
    <3>1. ASSUME m.key \in PlayerKey, NEW j \in DOMAIN answers', answers'[j].key = m.key PROVE FALSE
      <4>1. j + 1 = 1 /\ j \in Nat /\ j # 0
        BY <2>3, <2>6, <3>1
      <4>2. QED
        BY <4>1
    <3>2. QED
      BY <2>5, <2>6, <3>1
  <2>9. ASSUME NEW k \in PlayerKey, k \in requests' PROVE call'[k] = "get"
    BY <2>7, <2>8, <2>9 DEF OneGet
  <2>10. ASSUME NEW k \in PlayerKey, NEW i \in DOMAIN queue, IsGet(queue[i], k)
         PROVE  /\ call'[k] = "get" /\ k \notin requests'
                /\ \A j \in DOMAIN queue : IsGet(queue[j], k) => j = i
    BY <2>6, <2>7, <2>10 DEF OneGet
  <2>11. ASSUME NEW k \in PlayerKey, NEW i \in DOMAIN asks, IsGet(asks[i], k)
         PROVE  k \in requests' /\ \A j \in DOMAIN asks : j > i => asks[j].key # k
    BY <2>6, <2>7, <2>11 DEF OneGet
  <2>12. ASSUME NEW k \in PlayerKey, NEW i \in DOMAIN answers', answers'[i].key = k
         PROVE  /\ k \in requests' /\ answers'[i].value = lastSet[k]
                /\ \A j \in DOMAIN asks : ~IsGet(asks[j], k)
                /\ \A j \in DOMAIN answers' : answers'[j].key = k => j = i
    <3>1. i + 1 \in DOMAIN answers /\ answers[i + 1].key = k /\ i \in Nat
      BY <2>3, <2>12
    <3>2. /\ k \in requests /\ answers[i + 1].value = lastSet[k]
          /\ \A j \in DOMAIN asks : ~IsGet(asks[j], k)
          /\ \A j \in DOMAIN answers : answers[j].key = k => j = i + 1
      BY <3>1 DEF OneGet
    <3>3. k # m.key
      BY <2>8, <2>12
    <3>4. \A j \in DOMAIN answers' : answers'[j].key = k => j = i
      <4>1. \A j \in DOMAIN answers' : answers'[j].key = k => j + 1 = i + 1 /\ j \in Nat
        BY <2>3, <3>2
      <4>2. QED
        BY <3>1, <4>1
    <3>5. QED
      BY <2>3, <2>7, <2>12, <3>2, <3>3, <3>4
  <2>13. QED
    BY <2>1, <2>9, <2>10, <2>11, <2>12 DEF OneGet
<1>8. CASE Break
  <2>1. asks' = <<>> /\ answers' = <<>> /\ UNCHANGED <<lastSet, queue, call, requests>>
    BY <1>8 DEF Break
  <2>2. QED
    BY <2>1 DEF OneGet, IsGet
<1>9. CASE CloseSource
  <2>1. asks' = <<>> /\ answers' = <<>> /\ queue' = <<>> /\ UNCHANGED <<lastSet, call, requests>>
    BY <1>9 DEF CloseSource
  <2>2. QED
    BY <2>1 DEF OneGet, IsGet
<1>10. CASE Cleanup
  <2>1. UNCHANGED <<asks, answers, queue, lastSet, call, requests>>
    BY <1>10 DEF Cleanup
  <2>2. QED
    BY <2>1 DEF OneGet, IsGet
<1>11. QED
  BY <1>1, <1>2, <1>3, <1>4, <1>5, <1>6, <1>7, <1>8, <1>9, <1>10 DEF RequestsNext, PoolThread

LEMMA NobodyIsLeftKept ==
    ASSUME RequestsTypes, NobodyIsLeft, RequestsNext
    PROVE  NobodyIsLeft'
<1>1. running = {} => requests = {}
  BY DEF RequestsTypes
<1>2. CASE phase = "closed"
  <2>1. running = {} /\ requests = {}
    BY <1>2 DEF NobodyIsLeft
  <2>2. ~CloseSource /\ ~Cleanup /\ ~Take /\ \A w \in running : ~WriteSet(w)
    BY <1>2, <2>1 DEF CloseSource, Cleanup, Take, WriteSet
  <2>3. running' = {} /\ requests' = {}
    BY <2>1, <2>2 DEF RequestsNext, PoolThread, GetInfo, GiveUp, SetInfo, Serve, ReceivedKey, Break
  <2>4. QED
    BY <2>3 DEF NobodyIsLeft
<1>3. CASE phase # "closed" /\ CloseSource
  BY <1>1, <1>3 DEF CloseSource, NobodyIsLeft
<1>4. CASE phase # "closed" /\ ~CloseSource
  <2>1. phase' # "closed"
    BY <1>4 DEF RequestsNext, PoolThread, GetInfo, GiveUp, SetInfo, Take, WriteSet, Serve,
                ReceivedKey, Break, Cleanup
  <2>2. QED
    BY <2>1 DEF NobodyIsLeft
<1>5. QED
  BY <1>2, <1>3, <1>4

LEMMA RequestsStep == RequestsIInv /\ [RequestsNext]_requestsVars => RequestsIInv'
<1> SUFFICES ASSUME RequestsIInv, [RequestsNext]_requestsVars PROVE RequestsIInv'
  OBVIOUS
<1>1. CASE RequestsNext
  BY <1>1, RequestsTypesKept, RequestsBoundsKept, OneSetKept, LastIsOnItsWayKept, OneGetKept,
     NobodyIsLeftKept DEF RequestsIInv
<1>2. CASE UNCHANGED requestsVars
  <2> USE <1>2 DEF requestsVars
  <2>1. RequestsTypes' /\ NobodyIsLeft'
    BY DEF RequestsIInv, RequestsTypes, RequestsTypeOK, NobodyIsLeft
  <2>2. RequestsBounds'
    BY DEF RequestsIInv, RequestsBounds
  <2>3. OneSet'
    BY DEF RequestsIInv, OneSet, IsSet
  <2>4. LastIsOnItsWay'
    BY DEF RequestsIInv, LastIsOnItsWay, OnItsWay, IsSet
  <2>5. OneGet'
    BY DEF RequestsIInv, OneGet, IsGet
  <2>6. QED
    BY <2>1, <2>2, <2>3, <2>4, <2>5 DEF RequestsIInv
<1>3. QED
  BY <1>1, <1>2

LEMMA RequestsImplied == RequestsIInv => RequestsInv
<1> SUFFICES ASSUME RequestsIInv PROVE RequestsInv
  OBVIOUS
<1>1. RequestsTypeOK /\ NobodyIsLeft
  BY DEF RequestsIInv, RequestsTypes
<1>2. ASSUME NEW k \in PlayerKey, linkUp, phase = "open", ~Under(k)
      PROVE  stored[k] = lastSet[k]
  <2>1. \A i \in DOMAIN queue : queue[i] \in ToSet(queue)
    BY DEF ToSet
  <2>2. \A w \in running : ~IsSet(w, k)
    BY <1>2 DEF Under, IsSet
  <2>3. \A i \in DOMAIN queue : ~IsSet(queue[i], k)
    BY <1>2, <2>1 DEF Under, IsSet
  <2>4. \A i \in DOMAIN asks : ~IsSet(asks[i], k)
    BY <1>2 DEF Under, IsSet
  <2>5. call[k] # "set"
    BY <1>2, <2>2, <2>3 DEF RequestsIInv, OneSet
  <2>6. QED
    BY <1>2, <2>4, <2>5 DEF RequestsIInv, LastIsOnItsWay, OnItsWay
<1>3. QED
  BY <1>1, <1>2 DEF RequestsInv, LastSetStays

(* For every pool and all keys: once a player's set is through, the server has *)
(* what was set last, and a source that is gone leaves nobody waiting.         *)
THEOREM RequestsSafe == RequestsSpec => []RequestsInv
<1>1. RequestsInit => RequestsIInv
  BY RequestsInitHolds
<1>2. RequestsIInv /\ [RequestsNext]_requestsVars => RequestsIInv'
  BY RequestsStep
<1>3. RequestsIInv => RequestsInv
  BY RequestsImplied
<1>4. QED
  BY <1>1, <1>2, <1>3, PTL DEF RequestsSpec

LEMMA ReadsOwnWritesStep ==
    ASSUME RequestsIInv, RequestsNext, NEW k \in PlayerKey, call[k] = "get", call'[k] = "none"
    PROVE  got'[k] = lastSet[k]
<1>0. /\ queue \in Seq(Work) /\ answers \in Seq(Parcel)
      /\ call \in [Key -> {"none", "get", "set"}]
      /\ got \in [Key -> Nat] /\ PlayerKey \subseteq Key /\ PlayerKey \cap WorldKey = {}
      /\ cached \subseteq WorldKey /\ \A w \in running : w.key \in Key
  BY RequestsValues, RequestsAssumption DEF RequestsIInv, RequestsTypes, RequestsTypeOK, Key
<1>1. CASE Take
  <2> DEFINE w == Head(queue)
  <2>1. 1 \in DOMAIN queue /\ w = queue[1] /\ w \in Work
    BY <1>0, <1>1, Shortened DEF Take
  <2>2. w.key \in Key /\ w.op \in {"get", "set"}
    BY <2>1 DEF Work
  <2>3. w.op = "get" /\ w.key = k => k \notin requests
    BY <2>1 DEF RequestsIInv, OneGet, IsGet
  <2>4. call' = call \/ (w.op = "get" /\ w.key \in cached \cup requests /\ Ends(w.key))
    BY <1>1, <2>2 DEF Take
  <2>5. QED
    BY <1>0, <2>2, <2>3, <2>4 DEF Ends
<1>2. CASE ReceivedKey
  <2> DEFINE m == Head(answers)
  <2>1. 1 \in DOMAIN answers /\ m = answers[1] /\ m \in Parcel
    BY <1>0, <1>2, Shortened DEF ReceivedKey
  <2>2. call' = call \/ (got' = [got EXCEPT ![m.key] = m.value] /\ Ends(m.key))
    BY <1>2 DEF ReceivedKey
  <2>3. m.key = k => m.value = lastSet[k]
    BY <2>1 DEF RequestsIInv, OneGet
  <2>4. QED
    BY <1>0, <2>2, <2>3 DEF Ends
<1>3. CASE ~Take /\ ~ReceivedKey
  <2>1. PICK c \in Key : \/ GetInfo(c) \/ GiveUp(c) \/ (c \in PlayerKey /\ SetInfo(c))
                         \/ UNCHANGED call
                         \/ call' = [call EXCEPT ![c] = IF @ = "set" THEN "none" ELSE @]
    BY <1>0, <1>3 DEF RequestsNext, PoolThread, WriteSet, Serve, Break, Cleanup, CloseSource
  <2>2. QED
    BY <1>0, <2>1 DEF GetInfo, GiveUp, SetInfo
<1>4. QED
  BY <1>1, <1>2, <1>3

(* For every pool and all keys: what a player's get returns is what the player *)
(* set last, whatever sets and answers are on their way.                       *)
THEOREM RequestsReadOwnWrites == RequestsSpec => ReadsOwnWrites
<1>1. RequestsIInv /\ [RequestsNext]_requestsVars =>
        [\A k \in PlayerKey :
            call[k] = "get" /\ call'[k] = "none" => got'[k] = lastSet[k]]_requestsVars
  BY ReadsOwnWritesStep
<1>2. QED
  BY <1>1, RequestsInitHolds, RequestsStep, PTL DEF RequestsSpec, ReadsOwnWrites

-----------------------------------------------------------------------------
(* Chunks.  The inductive invariant: what a client asked for is at one stage *)
(* of its way, the slices sent, received and counted are those of the chunk, *)
(* and the server has one object of a chunk.                                 *)

Number == [Getter -> [Pos -> Nat]]
ChunkRequest == {m \in Message : m.type \in {"get", "unload"}}
Reply == {m \in Message : m.type \in {"slice", "completion"}}

TransferTypes ==
    /\ promised \in [Getter -> SUBSET Pos] /\ completionsBusy \in [Getter -> SUBSET Pos]
    /\ counts \in Number /\ filled \in Number /\ numSlices \in Number /\ have \in Number
    /\ gets \in Number /\ slicesBusy \in Number /\ completions \in Number
    /\ observed \in Number
    /\ tasks \in [Getter -> Seq(Reply)] /\ toGetter \in [Getter -> Seq(Reply)]
    /\ asked \in [Getter -> Seq(ChunkRequest)] /\ connected \in [Getter -> BOOLEAN]
    /\ dupes \in [Getter -> SUBSET Pos] /\ loads \subseteq Load
    /\ handler \in [Getter -> {"up", "locked", "freed"}] /\ lost \in [Getter -> BOOLEAN]
    /\ cache \in [Pos -> Nat] /\ objects \in Nat

(* How often a queue has a message. *)
Count(q, m) == Cardinality({i \in DOMAIN q : q[i] = m})

(* Slices, and completions, that were sent and not worked up. *)
InFlight(c, p) ==
    Count(toGetter[c], Part("slice", p)) + Count(tasks[c], Part("slice", p)) + slicesBusy[c][p]

Ending(c, p) ==
    Count(toGetter[c], Part("completion", p)) + Count(tasks[c], Part("completion", p))
        + (IF p \in completionsBusy[c] THEN 1 ELSE 0)

(* Requests that wait, and tasks that may still send slices. *)
Waiting(c, p) == Count(asked[c], Part("get", p))

IsActive(l) == l.at \in {"queued", "read", "wait"}
Active(c, p) == {l \in loads : l.client = c /\ l.pos = p /\ IsActive(l)}

(* The stages of a request; the last is of those that get no answer. *)
IsAsked(c, p) ==
    /\ Waiting(c, p) = 1 /\ Active(c, p) = {} /\ Ending(c, p) = 0
    /\ InFlight(c, p) = 0 /\ counts[c][p] = 0

IsLoaded(c, p) ==
    /\ Waiting(c, p) = 0 /\ Ending(c, p) = 0
    /\ \E l \in loads :
          /\ Active(c, p) = {l}
          /\ IF l.at = "wait" THEN InFlight(c, p) + counts[c][p] + l.left = Slices[p]
             ELSE InFlight(c, p) = 0 /\ counts[c][p] = 0

IsComplete(c, p) ==
    /\ Waiting(c, p) = 0 /\ Active(c, p) = {} /\ Ending(c, p) = 1
    /\ InFlight(c, p) + counts[c][p] = Slices[p]

IsLeft(c, p) ==
    /\ Waiting(c, p) = 0 /\ Active(c, p) = {} /\ Ending(c, p) = 0
    /\ InFlight(c, p) = 0

OnePerPosition(c, p) ==
    /\ p \notin promised[c] => IsLeft(c, p)
    /\ p \in promised[c] =>
          /\ counts[c][p] = filled[c][p] /\ have[c][p] = 0
          /\ \/ IsAsked(c, p)
             \/ IsLoaded(c, p)
             \/ IsComplete(c, p)
             \/ IsLeft(c, p) /\ counts[c][p] = 0
    /\ p \in completionsBusy[c] => numSlices[c][p] = Slices[p]

(* Who has gone has nothing. *)
HasNothing(c) ==
    /\ promised[c] = {} /\ completionsBusy[c] = {}
    /\ tasks[c] = <<>> /\ toGetter[c] = <<>> /\ asked[c] = <<>>
    /\ \A p \in Pos : slicesBusy[c][p] = 0 /\ have[c][p] = 0

GoesThrough(c) ==
    IF connected[c] THEN \A p \in Pos : OnePerPosition(c, p) ELSE HasNothing(c)

RequestsGoThrough == \A c \in Getter : GoesThrough(c)

RequestsAreCounted ==
    \A c \in Getter, p \in Pos : gets[c][p] <= MaxGets[c] /\ completions[c][p] <= MaxGets[c]

(* The handler keeps the future of each task that has not ended. *)
RunningFor(c) == {l \in loads : l.client = c /\ l.at \notin {"done", "failed"}}

FuturesAreKept ==
    \A c \in Getter :
        /\ handler[c] # "up" => ~connected[c]
        /\ ~lost[c] => \A l, k \in RunningFor(c) : /\ completions[c][l.pos] = l.number
                                                   /\ k.pos = l.pos => k = l
        /\ handler[c] = "freed" /\ ~lost[c] => RunningFor(c) = {}

(* An object is of one position. *)
IsOf(o, p) ==
    \/ cache[p] = o
    \/ \E l \in loads : l.pos = p /\ l.chunk = o
    \/ \E c \in Getter : observed[c][p] = o

ObjectsAreMine ==
    /\ \A o \in Nat, p \in Pos : IsOf(o, p) => o <= objects
    /\ \A o \in Nat, p, q \in Pos : IsOf(o, p) /\ IsOf(o, q) /\ p # q => o = Null
    /\ \A l \in loads : /\ l.at \in {"wait", "observe", "erase"} => l.chunk # Null
                        /\ l.at = "read" => l.chunk = Null

(* There is one object of a position, which the cache has, unless two tasks  *)
(* read it at once; before it is there, one task is about to read it.        *)
Living(p) == {l \in loads : l.pos = p /\ l.at \notin {"done", "failed"}}
Reading(p) == {l \in loads : l.pos = p /\ l.at \in {"queued", "read"} /\ l.chunk = Null}

OnlyCached(p) ==
    /\ \A l \in Living(p) : l.chunk \in {Null, cache[p]}
    /\ \A c \in Getter : observed[c][p] \in {Null, cache[p]}
    /\ \A l \in Reading(p) : /\ \A k \in Reading(p) : k = l
                             /\ \A k \in Living(p) : k.chunk = Null
                             /\ \A c \in Getter : observed[c][p] = Null

CacheHasObject == \A p \in Pos \ twice : OnlyCached(p)

TransferIInv ==
    /\ TransferTypes /\ RequestsGoThrough /\ RequestsAreCounted /\ FuturesAreKept
    /\ ObjectsAreMine /\ CacheHasObject /\ WholeChunksOnly

-----------------------------------------------------------------------------
(* How often a queue has a message, when one comes or goes *)

LEMMA CountType ==
  ASSUME NEW S, NEW q \in Seq(S), NEW m
  PROVE  /\ IsFiniteSet({i \in DOMAIN q : q[i] = m})
         /\ Count(q, m) \in Nat
<1>1. DOMAIN q = 1..Len(q) /\ Len(q) \in Nat
  OBVIOUS
<1>2. IsFiniteSet(1..Len(q))
  BY <1>1, FS_Interval
<1>3. IsFiniteSet({i \in DOMAIN q : q[i] = m})
  BY <1>1, <1>2, FS_Subset
<1>4. QED
  BY <1>3, FS_CardinalityType DEF Count

LEMMA CountNone == \A m : Count(<<>>, m) = 0
<1>1. \A m : {i \in DOMAIN <<>> : <<>>[i] = m} = {}
  OBVIOUS
<1>2. QED
  BY <1>1, FS_EmptySet DEF Count

LEMMA CountAppend ==
  ASSUME NEW S, NEW q \in Seq(S), NEW e \in S, NEW m
  PROVE  Count(Append(q, e), m) = Count(q, m) + (IF e = m THEN 1 ELSE 0)
<1> DEFINE A == {i \in DOMAIN q : q[i] = m}
           r == Append(q, e)
           B == {i \in DOMAIN r : r[i] = m}
<1>1. /\ Len(q) \in Nat /\ DOMAIN q = 1..Len(q) /\ DOMAIN r = 1..(Len(q) + 1)
      /\ r[Len(q) + 1] = e /\ \A i \in 1..Len(q) : r[i] = q[i]
  OBVIOUS
<1>2. IsFiniteSet(A) /\ Count(q, m) \in Nat
  BY CountType
<1>3. CASE e = m
  <2>1. B = A \cup {Len(q) + 1} /\ Len(q) + 1 \notin A
    BY <1>1, <1>3
  <2>2. Cardinality(B) = Cardinality(A) + 1
    BY <1>2, <2>1, FS_AddElement
  <2>3. QED
    BY <1>3, <2>2 DEF Count
<1>4. CASE e # m
  <2>1. B = A
    BY <1>1, <1>4
  <2>2. Count(r, m) = Count(q, m)
    BY <2>1 DEF Count
  <2>3. QED
    BY <1>2, <1>4, <2>2
<1>5. QED
  BY <1>3, <1>4

LEMMA CountTail ==
  ASSUME NEW S, NEW q \in Seq(S), q # <<>>, NEW m
  PROVE  Count(q, m) = Count(Tail(q), m) + (IF Head(q) = m THEN 1 ELSE 0)
<1> DEFINE r == Tail(q)
           A == {i \in DOMAIN q : q[i] = m}
           B == {i \in DOMAIN r : r[i] = m}
           f == [i \in B |-> i + 1]
<1>1. /\ Len(q) \in Nat \ {0} /\ DOMAIN q = 1..Len(q) /\ Head(q) = q[1]
      /\ r \in Seq(S) /\ DOMAIN r = 1..(Len(q) - 1)
      /\ \A i \in 1..(Len(q) - 1) : r[i] = q[i + 1]
  OBVIOUS
<1>2. IsFiniteSet(A) /\ IsFiniteSet(B) /\ Count(q, m) \in Nat /\ Count(r, m) \in Nat
  BY <1>1, CountType
<1>3. Cardinality(A \ {1}) = Cardinality(B)
  <2>1. \A i \in B : i \in Nat /\ i + 1 \in A \ {1}
    BY <1>1
  <2>2. \A j \in A \ {1} : j - 1 \in B /\ (j - 1) + 1 = j
    BY <1>1
  <2>3. f \in [B -> A \ {1}]
    BY <2>1
  <2>4. \A a, b \in B : f[a] = f[b] => a = b
    BY <2>1
  <2>5. \A t \in A \ {1} : \E s \in B : f[s] = t
    BY <2>2
  <2>6. f \in Bijection(B, A \ {1})
    BY <2>3, <2>4, <2>5, Fun_IsBij
  <2>7. ExistsBijection(B, A \ {1})
    BY <2>6 DEF ExistsBijection
  <2>8. QED
    BY <1>2, <2>7, FS_Bijection
<1>4. Cardinality(A) = Cardinality(A \ {1}) + (IF 1 \in A THEN 1 ELSE 0)
  <2>1. Cardinality(A) \in Nat
    BY <1>2, FS_CardinalityType
  <2>2. Cardinality(A \ {1}) = IF 1 \in A THEN Cardinality(A) - 1 ELSE Cardinality(A)
    BY <1>2, FS_RemoveElement
  <2>3. QED
    BY <2>1, <2>2
<1>5. (1 \in A) <=> (Head(q) = m)
  BY <1>1
<1>6. QED
  BY <1>2, <1>3, <1>4, <1>5 DEF Count

-----------------------------------------------------------------------------
(* Messages, tasks, and what changes of one client or position *)

LEMMA MessagesAre ==
  /\ \A p \in Pos : /\ Part("get", p) \in ChunkRequest /\ Part("unload", p) \in ChunkRequest
                    /\ Part("slice", p) \in Reply /\ Part("completion", p) \in Reply
  /\ \A m \in ChunkRequest : /\ m.pos \in Pos /\ m.type \in {"get", "unload"}
                            /\ m = Part(m.type, m.pos)
  /\ \A m \in Reply : m.pos \in Pos /\ m.type \in {"slice", "completion"} /\ m = Part(m.type, m.pos)
<1>1. \A p \in Pos, t \in {"get", "unload", "slice", "completion"} :
        Part(t, p) \in Message /\ Part(t, p).type = t
  BY DEF Part, Message
<1>2. \A m \in Message : m.pos \in Pos /\ m = Part(m.type, m.pos)
  BY DEF Part, Message
<1>3. QED
  BY <1>1, <1>2 DEF ChunkRequest, Reply

LEMMA PartsDiffer ==
  ASSUME NEW t, NEW u, NEW p, NEW q, Part(t, p) = Part(u, q)
  PROVE  t = u /\ p = q
<1>1. Part(t, p).type = t /\ Part(u, q).type = u /\ Part(t, p).pos = p /\ Part(u, q).pos = q
  BY DEF Part
<1>2. QED
  BY <1>1

LEMMA CellIs ==
  ASSUME NEW f \in Number, NEW c \in Getter, NEW p \in Pos, NEW v \in Nat
  PROVE  /\ Cell(f, c, p, v) \in Number
         /\ Cell(f, c, p, v)[c][p] = v
         /\ \A q \in Pos \ {p} : Cell(f, c, p, v)[c][q] = f[c][q]
         /\ \A d \in Getter \ {c} : Cell(f, c, p, v)[d] = f[d]
  BY DEF Cell, Number

LEMMA CellsCount ==
  ASSUME NEW f \in Number, NEW c \in Getter, NEW p \in Pos
  PROVE  f[c][p] \in Nat /\ f[c][p] + 1 \in Nat /\ 1 + f[c][p] \in Nat
  BY DEF Number

LEMMA BecomesCell ==
  ASSUME NEW f \in Number, NEW c \in Getter, NEW p \in Pos, NEW v \in Nat,
         NEW g, g = Cell(f, c, p, v)
  PROVE  /\ g[c][p] = v /\ \A q \in Pos \ {p} : g[c][q] = f[c][q]
         /\ \A d \in Getter \ {c} : g[d] = f[d]
  BY CellIs

LEMMA ZeroIs ==
  ASSUME NEW f \in Number, NEW c \in Getter, NEW p \in Pos
  PROVE  /\ Cell(f, c, p, 0)[c][p] = 0
         /\ \A q \in Pos \ {p} : Cell(f, c, p, 0)[c][q] = f[c][q]
         /\ \A d \in Getter \ {c} : Cell(f, c, p, 0)[d] = f[d]
<1>1. 0 \in Nat
  OBVIOUS
<1>2. QED
  BY <1>1, CellIs

LEMMA SentIs ==
  ASSUME NEW S, NEW msgs \in [Getter -> Seq(S)], NEW c \in Getter, NEW m \in S
  PROVE  /\ Sent(msgs, c, m) \in [Getter -> Seq(S)]
         /\ Sent(msgs, c, m)[c] = Append(msgs[c], m)
         /\ \A d \in Getter \ {c} : Sent(msgs, c, m)[d] = msgs[d]
<1>1. msgs[c] \in Seq(S)
  OBVIOUS
<1>2. Append(msgs[c], m) \in Seq(S)
  BY <1>1
<1>3. QED
  BY <1>2 DEF Sent

LEMMA ReplySent ==
  ASSUME NEW msgs \in [Getter -> Seq(Reply)], NEW c \in Getter, NEW m \in Reply,
         NEW g, g = Sent(msgs, c, m)
  PROVE  /\ g[c] = Append(msgs[c], m) /\ msgs[c] \in Seq(Reply)
         /\ \A d \in Getter \ {c} : g[d] = msgs[d]
<1>1. msgs[c] \in Seq(Reply)
  OBVIOUS
<1>2. QED
  BY <1>1, SentIs

LEMMA TakenIs ==
  ASSUME NEW S, NEW msgs \in [Getter -> Seq(S)], NEW c \in Getter, msgs[c] # <<>>
  PROVE  /\ Head(msgs[c]) \in S
         /\ [msgs EXCEPT ![c] = Tail(@)] \in [Getter -> Seq(S)]
         /\ [msgs EXCEPT ![c] = Tail(@)][c] = Tail(msgs[c])
         /\ \A d \in Getter \ {c} : [msgs EXCEPT ![c] = Tail(@)][d] = msgs[d]
<1>1. msgs[c] \in Seq(S)
  OBVIOUS
<1>2. Tail(msgs[c]) \in Seq(S) /\ Head(msgs[c]) \in S
  BY <1>1
<1>3. QED
  BY <1>2

LEMMA LoadFields ==
  ASSUME NEW l \in Load
  PROVE  /\ l.client \in Getter /\ l.pos \in Pos /\ l.number \in Nat /\ l.at \in Steps
         /\ l.chunk \in Nat /\ l.left \in Nat
  BY DEF Load

LEMMA AtIs ==
  ASSUME NEW l \in Load, NEW step \in Steps
  PROVE  /\ At(l, step) \in Load /\ At(l, step).at = step
         /\ At(l, step).client = l.client /\ At(l, step).pos = l.pos
         /\ At(l, step).number = l.number /\ At(l, step).chunk = l.chunk
         /\ At(l, step).left = l.left
  BY DEF At, Load

LEMMA NewLoadIs ==
  ASSUME NEW c \in Getter, NEW p \in Pos, NEW n \in Nat, NEW o \in Nat
  PROVE  /\ NewLoad(c, p, n, o) \in Load
         /\ NewLoad(c, p, n, o).client = c /\ NewLoad(c, p, n, o).pos = p
         /\ NewLoad(c, p, n, o).number = n /\ NewLoad(c, p, n, o).at = "queued"
         /\ NewLoad(c, p, n, o).chunk = o
  BY DEF NewLoad, Load, Steps

(* What sendSlices makes of a task: it waits for its slices or is done. *)
LEMMA SendingIs ==
  ASSUME NEW l \in Load, TransferTypes
  PROVE  /\ Sending(l) \in Load /\ Sending(l).client = l.client /\ Sending(l).pos = l.pos
         /\ Sending(l).number = l.number /\ Sending(l).chunk = l.chunk
         /\ connected[l.client] => Sending(l).at = "wait" /\ Sending(l).left = Slices[l.pos]
         /\ ~connected[l.client] => Sending(l).at = "done"
<1>1. /\ At(l, "wait") \in Load /\ At(l, "wait").at = "wait"
      /\ At(l, "wait").client = l.client /\ At(l, "wait").pos = l.pos
      /\ At(l, "wait").number = l.number /\ At(l, "wait").chunk = l.chunk
  BY AtIs DEF Steps
<1>2. /\ At(l, "done") \in Load /\ At(l, "done").at = "done"
      /\ At(l, "done").client = l.client /\ At(l, "done").pos = l.pos
      /\ At(l, "done").number = l.number /\ At(l, "done").chunk = l.chunk
  BY AtIs DEF Steps
<1>3. Slices[l.pos] \in Nat
  BY LoadFields, TransferAssumption
<1> DEFINE w == [At(l, "wait") EXCEPT !.left = Slices[l.pos]]
<1>4. /\ w \in Load /\ w.at = "wait" /\ w.client = l.client /\ w.pos = l.pos
      /\ w.number = l.number /\ w.chunk = l.chunk /\ w.left = Slices[l.pos]
  BY <1>1, <1>3 DEF Load
<1>5. Sending(l) = IF connected[l.client] THEN w ELSE At(l, "done")
  BY DEF Sending
<1> HIDE DEF w
<1>6. CASE connected[l.client]
  BY <1>4, <1>5, <1>6
<1>7. CASE ~connected[l.client]
  BY <1>2, <1>5, <1>7
<1>8. QED
  BY <1>6, <1>7

-----------------------------------------------------------------------------
(* Type correctness *)

LEMMA TypesInit == TransferInit => TransferTypes
<1> SUFFICES ASSUME TransferInit PROVE TransferTypes
  OBVIOUS
<1>1. /\ counts \in Number /\ filled \in Number /\ numSlices \in Number /\ gets \in Number
      /\ completions \in Number /\ have \in Number /\ slicesBusy \in Number
      /\ observed \in Number
  BY DEF TransferInit, Number
<1>2. <<>> \in Seq(Reply) /\ <<>> \in Seq(ChunkRequest)
  OBVIOUS
<1>3. /\ tasks \in [Getter -> Seq(Reply)] /\ toGetter \in [Getter -> Seq(Reply)]
      /\ asked \in [Getter -> Seq(ChunkRequest)]
  BY <1>2 DEF TransferInit
<1>4. QED
  BY <1>1, <1>3 DEF TransferInit, TransferTypes, Null

LEMMA TypesClient ==
  ASSUME TransferTypes, NEW c \in Getter,
         \/ Accept(c) \/ TakeTask(c) \/ GoAway(c)
         \/ \E p \in Pos :
              Get(c, p) \/ Unload(c, p) \/ ProcessSlice(c, p) \/ ProcessCompletion(c, p)
  PROVE  TransferTypes'
<1> USE DEF clientSide, serverSide
<1>1. CASE Accept(c)
  <2>1. tasks' \in [Getter -> Seq(Reply)] /\ toGetter' \in [Getter -> Seq(Reply)]
    BY <1>1, TakenIs, SentIs DEF Accept, TransferTypes
  <2>2. QED
    BY <1>1, <2>1 DEF Accept, TransferTypes
<1>2. CASE TakeTask(c)
  <2> DEFINE m == Head(tasks[c])
  <2>1. tasks' \in [Getter -> Seq(Reply)] /\ m \in Reply
    BY <1>2, TakenIs DEF TakeTask, TransferTypes
  <2>2. m.pos \in Pos
    BY <2>1, MessagesAre
  <2>3. Slices[m.pos] \in Nat /\ slicesBusy[c][m.pos] + 1 \in Nat
    <3> HIDE DEF m
    <3>1. Slices[m.pos] \in Nat
      BY <2>2, TransferAssumption
    <3>2. slicesBusy[c][m.pos] \in Nat
      BY <2>2 DEF TransferTypes, Number
    <3>3. QED
      BY <3>1, <3>2
  <2>4. CASE m.type = "slice"
    <3>1. slicesBusy' = Cell(slicesBusy, c, m.pos, slicesBusy[c][m.pos] + 1)
      BY <1>2, <2>4 DEF TakeTask
    <3>2. slicesBusy' \in Number
      <4> HIDE DEF m
      <4> QED
        BY <2>2, <2>3, <3>1, CellIs DEF TransferTypes
    <3>3. QED
      BY <1>2, <2>1, <2>4, <3>2 DEF TakeTask, TransferTypes
  <2>5. CASE m.type # "slice"
    <3>1. /\ numSlices' = Cell(numSlices, c, m.pos, Slices[m.pos])
          /\ completionsBusy' = [completionsBusy EXCEPT ![c] = @ \cup {m.pos}]
      BY <1>2, <2>5 DEF TakeTask
    <3>2. numSlices' \in Number /\ completionsBusy' \in [Getter -> SUBSET Pos]
      <4> HIDE DEF m
      <4>1. numSlices' \in Number
        BY <2>2, <2>3, <3>1, CellIs DEF TransferTypes
      <4>2. completionsBusy' \in [Getter -> SUBSET Pos]
        BY <2>2, <3>1 DEF TransferTypes
      <4> QED
        BY <4>1, <4>2
    <3>3. QED
      BY <1>2, <2>1, <2>5, <3>2 DEF TakeTask, TransferTypes
  <2>6. QED
    BY <2>4, <2>5
<1>3. CASE GoAway(c)
  <2>1. <<>> \in Seq(Reply) /\ <<>> \in Seq(ChunkRequest)
    OBVIOUS
  <2>2. [p \in Pos |-> 0] \in [Pos -> Nat]
    OBVIOUS
  <2>3. slicesBusy' \in Number /\ have' \in Number
    BY <1>3, <2>2 DEF GoAway, TransferTypes, Number
  <2>4. /\ tasks' \in [Getter -> Seq(Reply)] /\ toGetter' \in [Getter -> Seq(Reply)]
        /\ asked' \in [Getter -> Seq(ChunkRequest)]
    BY <1>3, <2>1 DEF GoAway, TransferTypes
  <2>5. QED
    BY <1>3, <2>3, <2>4 DEF GoAway, TransferTypes
<1>4. ASSUME NEW p \in Pos, Get(c, p) PROVE TransferTypes'
  <2>1. counts' \in Number /\ filled' \in Number
    BY <1>4, CellIs DEF Get, TransferTypes
  <2>2. gets \in Number /\ gets' = Cell(gets, c, p, gets[c][p] + 1)
    BY <1>4 DEF TransferTypes, Get
  <2>3. gets' \in Number
    BY <2>2, CellsCount, CellIs
  <2>4. asked' \in [Getter -> Seq(ChunkRequest)]
    <3>1. /\ asked \in [Getter -> Seq(ChunkRequest)] /\ Part("get", p) \in ChunkRequest
          /\ asked' = Sent(asked, c, Part("get", p))
      BY <1>4, MessagesAre DEF Get, TransferTypes
    <3>2. QED
      BY <3>1, SentIs
  <2>5. QED
    BY <1>4, <2>1, <2>3, <2>4 DEF Get, TransferTypes
<1>5. ASSUME NEW p \in Pos, Unload(c, p) PROVE TransferTypes'
  <2>1. have' \in Number /\ asked' \in [Getter -> Seq(ChunkRequest)]
    BY <1>5, CellIs, SentIs, MessagesAre DEF Unload, TransferTypes
  <2>2. QED
    BY <1>5, <2>1 DEF Unload, TransferTypes
<1>6. ASSUME NEW p \in Pos, ProcessSlice(c, p) PROVE TransferTypes'
  <2>0. slicesBusy[c][p] \in Nat /\ filled[c][p] \in Nat /\ counts[c][p] \in Nat
    BY DEF TransferTypes, Number
  <2>1. slicesBusy[c][p] - 1 \in Nat /\ filled[c][p] + 1 \in Nat /\ counts[c][p] + 1 \in Nat
    BY <1>6, <2>0 DEF ProcessSlice
  <2>2. slicesBusy' \in Number /\ filled' \in Number /\ counts' \in Number
    BY <1>6, <2>1, CellIs DEF ProcessSlice, TransferTypes
  <2>3. QED
    BY <1>6, <2>2 DEF ProcessSlice, TransferTypes
<1>7. ASSUME NEW p \in Pos, ProcessCompletion(c, p) PROVE TransferTypes'
  <2>1. filled \in Number /\ have \in Number /\ counts \in Number
    BY DEF TransferTypes
  <2>2. Cell(have, c, p, 1 + filled[c][p]) \in Number /\ Cell(counts, c, p, 0) \in Number
    BY <2>1, CellsCount, CellIs
  <2>3. have' \in Number /\ counts' \in Number
    BY <1>7, <2>2 DEF ProcessCompletion, HandOver, TransferTypes
  <2>4. QED
    BY <1>7, <2>3 DEF ProcessCompletion, HandOver, TransferTypes
<1>8. QED
  BY <1>1, <1>2, <1>3, <1>4, <1>5, <1>6, <1>7

LEMMA CachedIs ==
  ASSUME NEW p \in Pos, TransferTypes
  PROVE  Cached(p) \in Nat
  BY DEF Cached, Null, TransferTypes

LEMMA TypesConnection ==
  ASSUME TransferTypes, NEW c \in Getter, ConnectionThread(c)
  PROVE  TransferTypes'
<1> USE DEF clientSide, serverSide
<1>1. CASE Handle(c)
  <2> DEFINE m == Head(asked[c])
  <2>1. asked' \in [Getter -> Seq(ChunkRequest)] /\ m \in ChunkRequest
    BY <1>1, TakenIs DEF Handle, TransferTypes
  <2>2. m.pos \in Pos
    BY <2>1, MessagesAre
  <2> HIDE DEF m
  <2>3. CASE m.type = "get"
    <3>1. HandleGet(c, m.pos) /\ observed' = observed
      BY <1>1, <2>3 DEF Handle, m
    <3>2. CASE m.pos \in dupes[c]
      BY <1>1, <2>1, <3>1, <3>2 DEF Handle, HandleGet, TransferTypes
    <3>3. CASE m.pos \notin dupes[c]
      <4>1. gets[c][m.pos] \in Nat /\ Cached(m.pos) \in Nat
        BY <2>2, CachedIs DEF TransferTypes, Number
      <4>2. loads' \subseteq Load
        BY <2>2, <3>1, <3>3, <4>1, NewLoadIs DEF HandleGet, TransferTypes
      <4>3. completions' \in Number
        <5>1. completions' = Cell(completions, c, m.pos, gets[c][m.pos])
          BY <3>1, <3>3 DEF HandleGet
        <5>2. QED
          BY <2>2, <4>1, <5>1, CellIs DEF TransferTypes
      <4>4. dupes' \in [Getter -> SUBSET Pos] /\ cache' \in [Pos -> Nat]
        <5>1. /\ dupes' = [dupes EXCEPT ![c] = @ \cup {m.pos}]
              /\ cache' = [cache EXCEPT ![m.pos] = Cached(m.pos)]
          BY <3>1, <3>3 DEF HandleGet
        <5>2. QED
          BY <2>2, <4>1, <5>1 DEF TransferTypes
      <4>5. lost' \in [Getter -> BOOLEAN]
        BY <3>1, <3>3 DEF HandleGet, TransferTypes
      <4>6. QED
        BY <1>1, <2>1, <3>1, <4>2, <4>3, <4>4, <4>5 DEF Handle, TransferTypes
    <3>4. QED
      BY <3>2, <3>3
  <2>4. CASE m.type # "get"
    <3>1. observed' = Cell(observed, c, m.pos, 0)
      BY <1>1, <2>4 DEF Handle, m, Null
    <3>2. observed' \in Number
      BY <2>2, <3>1, CellIs DEF TransferTypes
    <3>3. QED
      BY <1>1, <2>1, <2>4, <3>2 DEF Handle, TransferTypes, m
  <2>5. QED
    BY <2>3, <2>4
<1>2. CASE DestroyHandler(c)
  BY <1>2 DEF DestroyHandler, TransferTypes
<1>3. CASE HandlerGone(c)
  <2>1. [p \in Pos |-> Null] \in [Pos -> Nat]
    BY DEF Null
  <2>2. observed' \in Number
    BY <1>3, <2>1 DEF HandlerGone, TransferTypes, Number
  <2>3. QED
    BY <1>3, <2>2 DEF HandlerGone, TransferTypes
<1>4. QED
  BY <1>1, <1>2, <1>3 DEF ConnectionThread

LEMMA ReadIs ==
  ASSUME NEW l \in Load, TransferTypes, NEW o \in Nat
  PROVE  LET new == [Sending(l) EXCEPT !.chunk = o] IN
         /\ new \in Load /\ new.client = l.client /\ new.pos = l.pos
         /\ new.number = l.number /\ new.chunk = o
         /\ connected[l.client] => new.at = "wait" /\ new.left = Slices[l.pos]
         /\ ~connected[l.client] => new.at = "done"
<1> DEFINE s == Sending(l)
<1>1. /\ s \in Load /\ s.client = l.client /\ s.pos = l.pos /\ s.number = l.number
      /\ connected[l.client] => s.at = "wait" /\ s.left = Slices[l.pos]
      /\ ~connected[l.client] => s.at = "done"
  BY SendingIs
<1> HIDE DEF s
<1> DEFINE new == [s EXCEPT !.chunk = o]
<1>2. /\ new \in Load /\ new.client = s.client /\ new.pos = s.pos /\ new.number = s.number
      /\ new.chunk = o /\ new.at = s.at /\ new.left = s.left
  BY <1>1 DEF Load
<1>3. new = [Sending(l) EXCEPT !.chunk = o]
  BY DEF s
<1>4. QED
  BY <1>1, <1>2, <1>3

LEMMA OneLessIs ==
  ASSUME NEW l \in Load, l.left > 0
  PROVE  LET new == [l EXCEPT !.left = @ - 1] IN
         /\ new \in Load /\ new.client = l.client /\ new.pos = l.pos
         /\ new.number = l.number /\ new.at = l.at /\ new.chunk = l.chunk
         /\ new.left = l.left - 1
<1>1. l.left \in Nat
  BY LoadFields
<1>2. l.left - 1 \in Nat
  BY <1>1
<1>3. QED
  BY <1>2 DEF Load

LEMMA BecomesTypes ==
  ASSUME TransferTypes, NEW l, NEW new \in Load, Becomes(l, new)
  PROVE  loads' \subseteq Load
  BY DEF Becomes, TransferTypes

LEMMA TypesLoad ==
  ASSUME TransferTypes, NEW l \in loads, LoadStep(l)
  PROVE  TransferTypes'
<1> USE DEF clientSide, serverSide
<1>1. l \in Load /\ l.client \in Getter /\ l.pos \in Pos /\ l.chunk \in Nat
  BY LoadFields DEF TransferTypes
<1>2. CASE Begin(l)
  <2>1. At(l, "read") \in Load /\ Sending(l) \in Load
    BY <1>1, AtIs, SendingIs DEF Steps
  <2>2. loads' \subseteq Load
    BY <1>2, <2>1, BecomesTypes DEF Begin
  <2>3. QED
    BY <1>2, <2>2 DEF Begin, TransferTypes
<1>3. CASE Read(l)
  <2>1. CASE Becomes(l, At(l, "failed")) /\ UNCHANGED <<objects, cache>>
    <3>1. loads' \subseteq Load
      BY <1>1, <2>1, AtIs, BecomesTypes DEF Steps
    <3>2. QED
      BY <1>3, <2>1, <3>1 DEF Read, TransferTypes
  <2>2. CASE /\ objects' = objects + 1 /\ cache' = [cache EXCEPT ![l.pos] = objects']
             /\ Becomes(l, [Sending(l) EXCEPT !.chunk = objects'])
    <3>1. objects' \in Nat
      BY <2>2 DEF TransferTypes
    <3>2. [Sending(l) EXCEPT !.chunk = objects'] \in Load
      BY <1>1, <3>1, ReadIs
    <3>3. loads' \subseteq Load
      BY <2>2, <3>2, BecomesTypes
    <3>4. cache' \in [Pos -> Nat]
      BY <1>1, <2>2, <3>1 DEF TransferTypes
    <3>5. QED
      BY <1>3, <3>1, <3>3, <3>4 DEF Read, TransferTypes
  <2>3. QED
    BY <1>3, <2>1, <2>2 DEF Read
<1>4. CASE SendSlice(l)
  <2>1. [l EXCEPT !.left = @ - 1] \in Load
    BY <1>1, <1>4, OneLessIs DEF SendSlice
  <2>2. loads' \subseteq Load
    BY <1>4, <2>1, BecomesTypes DEF SendSlice
  <2>3. toGetter' \in [Getter -> Seq(Reply)]
    BY <1>1, <1>4, SentIs, MessagesAre DEF SendSlice, TransferTypes
  <2>4. QED
    BY <1>4, <2>2, <2>3 DEF SendSlice, TransferTypes
<1>5. CASE SendCompletion(l)
  <2>1. At(l, "observe") \in Load /\ At(l, "done") \in Load
    BY <1>1, AtIs DEF Steps
  <2>2. loads' \subseteq Load
    BY <1>5, <2>1, BecomesTypes DEF SendCompletion
  <2>3. toGetter' \in [Getter -> Seq(Reply)]
    <3>1. Sent(toGetter, l.client, Part("completion", l.pos)) \in [Getter -> Seq(Reply)]
      BY <1>1, SentIs, MessagesAre DEF TransferTypes
    <3>2. QED
      BY <1>5, <3>1 DEF SendCompletion, TransferTypes
  <2>4. QED
    BY <1>5, <2>2, <2>3 DEF SendCompletion, TransferTypes
<1>6. CASE AddChunkObserver(l)
  <2>1. loads' \subseteq Load
    BY <1>1, <1>6, AtIs, BecomesTypes DEF AddChunkObserver, Steps
  <2>2. observed' \in Number
    BY <1>1, <1>6, CellIs DEF AddChunkObserver, TransferTypes
  <2>3. dupes' \in [Getter -> SUBSET Pos]
    BY <1>1, <1>6 DEF AddChunkObserver, TransferTypes
  <2>4. QED
    BY <1>6, <2>1, <2>2, <2>3 DEF AddChunkObserver, TransferTypes
<1>7. CASE Erase(l)
  <2>1. completions' \in Number
    BY <1>1, <1>7, CellIs DEF Erase, TransferTypes, Null
  <2>2. QED
    BY <1>7, <2>1 DEF Erase, TransferTypes
<1>8. QED
  BY <1>2, <1>3, <1>4, <1>5, <1>6, <1>7 DEF LoadStep

(* The steps, one by one, for the lemmas that go through them. *)
LEMMA StepsAre ==
  ASSUME [TransferNext]_transferVars
  PROVE  \/ \E c \in Getter :
              \/ Accept(c) \/ TakeTask(c) \/ GoAway(c)
              \/ \E p \in Pos :
                   Get(c, p) \/ Unload(c, p) \/ ProcessSlice(c, p) \/ ProcessCompletion(c, p)
         \/ \E c \in Getter : ConnectionThread(c)
         \/ \E l \in loads : LoadStep(l)
         \/ UNCHANGED transferVars
  BY DEF TransferNext, ClientPool

LEMMA TypesNext ==
  ASSUME TransferTypes, [TransferNext]_transferVars
  PROVE  TransferTypes'
<1>1. CASE UNCHANGED transferVars
  BY <1>1 DEF TransferTypes, transferVars, clientSide, serverSide
<1>2. QED
  BY <1>1, StepsAre, TypesClient, TypesConnection, TypesLoad

-----------------------------------------------------------------------------
(* What leaves the requests of a client, or of one of its positions, as they *)
(* are                                                                       *)

LEMMA PositionKept ==
  ASSUME NEW c \in Getter, NEW p \in Pos, OnePerPosition(c, p),
         Waiting(c, p)' = Waiting(c, p), Active(c, p)' = Active(c, p),
         Ending(c, p)' = Ending(c, p), InFlight(c, p)' = InFlight(c, p),
         p \in promised'[c] <=> p \in promised[c],
         p \in completionsBusy'[c] <=> p \in completionsBusy[c],
         counts'[c][p] = counts[c][p], filled'[c][p] = filled[c][p],
         have'[c][p] = have[c][p], numSlices'[c][p] = numSlices[c][p]
  PROVE  OnePerPosition(c, p)'
<1>1. IsAsked(c, p)' <=> IsAsked(c, p)
  BY DEF IsAsked
<1>2. IsLoaded(c, p) => IsLoaded(c, p)'
  <2> SUFFICES ASSUME IsLoaded(c, p) PROVE IsLoaded(c, p)'
    OBVIOUS
  <2>1. PICK l \in loads :
          /\ Active(c, p) = {l}
          /\ IF l.at = "wait" THEN InFlight(c, p) + counts[c][p] + l.left = Slices[p]
             ELSE InFlight(c, p) = 0 /\ counts[c][p] = 0
    BY DEF IsLoaded
  <2>2. Active(c, p)' = {l}
    BY <2>1
  <2>3. l \in loads'
    BY <2>2 DEF Active
  <2>4. QED
    BY <2>1, <2>2, <2>3 DEF IsLoaded
<1>3. IsComplete(c, p)' <=> IsComplete(c, p)
  BY DEF IsComplete
<1>4. IsLeft(c, p)' <=> IsLeft(c, p)
  BY DEF IsLeft
<1>5. QED
  BY <1>1, <1>2, <1>3, <1>4 DEF OnePerPosition

(* The numbers are of what is in the queues and at the threads. *)
LEMMA NumbersKept ==
  ASSUME NEW c \in Getter, NEW p \in Pos,
         tasks'[c] = tasks[c], toGetter'[c] = toGetter[c], slicesBusy'[c][p] = slicesBusy[c][p],
         p \in completionsBusy'[c] <=> p \in completionsBusy[c]
  PROVE  InFlight(c, p)' = InFlight(c, p) /\ Ending(c, p)' = Ending(c, p)
  BY DEF InFlight, Ending

LEMMA ClientKept ==
  ASSUME NEW c \in Getter, GoesThrough(c),
         connected'[c] = connected[c], promised'[c] = promised[c],
         completionsBusy'[c] = completionsBusy[c], slicesBusy'[c] = slicesBusy[c],
         tasks'[c] = tasks[c], toGetter'[c] = toGetter[c], asked'[c] = asked[c],
         counts'[c] = counts[c], filled'[c] = filled[c], have'[c] = have[c],
         numSlices'[c] = numSlices[c],
         connected[c] => \A p \in Pos : Active(c, p)' = Active(c, p)
  PROVE  GoesThrough(c)'
<1>1. CASE connected[c]
  <2>1. ASSUME NEW p \in Pos PROVE OnePerPosition(c, p)'
    <3>1. InFlight(c, p)' = InFlight(c, p) /\ Ending(c, p)' = Ending(c, p)
      BY NumbersKept
    <3>2. Waiting(c, p)' = Waiting(c, p)
      BY DEF Waiting
    <3>3. OnePerPosition(c, p) /\ Active(c, p)' = Active(c, p)
      BY <1>1 DEF GoesThrough
    <3>4. QED
      BY <3>1, <3>2, <3>3, PositionKept
  <2>2. QED
    BY <1>1, <2>1 DEF GoesThrough
<1>2. CASE ~connected[c]
  BY <1>2 DEF GoesThrough, HasNothing
<1>3. QED
  BY <1>1, <1>2

LEMMA ActiveKept ==
  ASSUME loads' = loads, NEW c, NEW p
  PROVE  Active(c, p)' = Active(c, p)
  BY DEF Active, IsActive

(* A task takes another's place among those of its client and position. *)
LEMMA BecomesActive ==
  ASSUME NEW l \in loads, NEW new, Becomes(l, new), new.client = l.client, new.pos = l.pos
  PROVE  /\ \A c, p : c # l.client \/ p # l.pos => Active(c, p)' = Active(c, p)
         /\ IsActive(new) => Active(l.client, l.pos)' = (Active(l.client, l.pos) \ {l}) \cup {new}
         /\ ~IsActive(new) => Active(l.client, l.pos)' = Active(l.client, l.pos) \ {l}
<1>1. loads' = (loads \ {l}) \cup {new}
  BY DEF Becomes
<1>2. \A c, p : Active(c, p)' = {k \in loads' : k.client = c /\ k.pos = p /\ IsActive(k)}
  BY DEF Active, IsActive
<1>3. QED
  BY <1>1, <1>2 DEF Active

LEMMA ActiveGone ==
  ASSUME NEW l \in loads, ~IsActive(l), loads' = loads \ {l}, NEW c, NEW p
  PROVE  Active(c, p)' = Active(c, p)
<1>1. Active(c, p)' = {k \in loads' : k.client = c /\ k.pos = p /\ IsActive(k)}
  BY DEF Active, IsActive
<1>2. QED
  BY <1>1 DEF Active

LEMMA NumbersAre ==
  ASSUME TransferTypes, NEW c \in Getter, NEW p \in Pos
  PROVE  /\ \A m : /\ Count(tasks[c], m) \in Nat /\ Count(toGetter[c], m) \in Nat
                   /\ Count(asked[c], m) \in Nat
         /\ InFlight(c, p) \in Nat /\ Ending(c, p) \in Nat /\ Waiting(c, p) \in Nat
         /\ slicesBusy[c][p] \in Nat /\ counts[c][p] \in Nat /\ filled[c][p] \in Nat
         /\ numSlices[c][p] \in Nat /\ have[c][p] \in Nat /\ Slices[p] \in Nat
<1>1. \A m : /\ Count(tasks[c], m) \in Nat /\ Count(toGetter[c], m) \in Nat
             /\ Count(asked[c], m) \in Nat
  BY CountType DEF TransferTypes
<1>2. /\ slicesBusy[c][p] \in Nat /\ counts[c][p] \in Nat /\ filled[c][p] \in Nat
      /\ numSlices[c][p] \in Nat /\ have[c][p] \in Nat /\ Slices[p] \in Nat
  BY TransferAssumption DEF TransferTypes, Number
<1>3. QED
  BY <1>1, <1>2 DEF InFlight, Ending, Waiting

(* A step of one client leaves the others as they are. *)
Untouched(d) ==
    /\ connected'[d] = connected[d] /\ promised'[d] = promised[d]
    /\ completionsBusy'[d] = completionsBusy[d] /\ slicesBusy'[d] = slicesBusy[d]
    /\ tasks'[d] = tasks[d] /\ toGetter'[d] = toGetter[d] /\ asked'[d] = asked[d]
    /\ counts'[d] = counts[d] /\ filled'[d] = filled[d] /\ have'[d] = have[d]
    /\ numSlices'[d] = numSlices[d]
    /\ connected[d] => \A p \in Pos : Active(d, p)' = Active(d, p)

LEMMA OthersGo ==
  ASSUME RequestsGoThrough, NEW c \in Getter, GoesThrough(c)',
         \A d \in Getter \ {c} : Untouched(d)
  PROVE  RequestsGoThrough'
<1>1. ASSUME NEW d \in Getter \ {c} PROVE GoesThrough(d)'
  <2>1. GoesThrough(d) /\ Untouched(d)
    BY DEF RequestsGoThrough
  <2>2. QED
    BY <2>1, ClientKept DEF Untouched
<1>2. QED
  BY <1>1 DEF RequestsGoThrough

LEMMA AllUntouched ==
  ASSUME RequestsGoThrough, \A d \in Getter : Untouched(d)
  PROVE  RequestsGoThrough'
<1>1. ASSUME NEW d \in Getter PROVE GoesThrough(d)'
  <2>1. GoesThrough(d) /\ Untouched(d)
    BY DEF RequestsGoThrough
  <2>2. QED
    BY <2>1, ClientKept DEF Untouched
<1>2. QED
  BY <1>1 DEF RequestsGoThrough

-----------------------------------------------------------------------------
(* Requests go through: the client *)

LEMMA GetGoes ==
  ASSUME TransferTypes, RequestsGoThrough, NEW c \in Getter, NEW p \in Pos, Get(c, p)
  PROVE  RequestsGoThrough'
<1> USE DEF serverSide
<1>1. connected[c] /\ p \notin promised[c] /\ have[c][p] = 0
  BY DEF Get
<1>2. /\ UNCHANGED <<numSlices, have, tasks, slicesBusy, completionsBusy, connected, toGetter,
                     loads>>
      /\ promised' = [promised EXCEPT ![c] = @ \cup {p}]
      /\ counts' = Cell(counts, c, p, 0) /\ filled' = Cell(filled, c, p, 0)
      /\ asked' = Sent(asked, c, Part("get", p))
  BY DEF Get
<1>a. /\ counts'[c][p] = 0 /\ \A q \in Pos \ {p} : counts'[c][q] = counts[c][q]
      /\ \A d \in Getter \ {c} : counts'[d] = counts[d]
  BY <1>2, ZeroIs DEF TransferTypes
<1>b. /\ filled'[c][p] = 0 /\ \A q \in Pos \ {p} : filled'[c][q] = filled[c][q]
      /\ \A d \in Getter \ {c} : filled'[d] = filled[d]
  BY <1>2, ZeroIs DEF TransferTypes
<1>c. asked \in [Getter -> Seq(ChunkRequest)] /\ Part("get", p) \in ChunkRequest
  BY MessagesAre DEF TransferTypes
<1>d. /\ promised'[c] = promised[c] \cup {p}
      /\ \A d \in Getter \ {c} : promised'[d] = promised[d]
  BY <1>2 DEF TransferTypes
<1>5. /\ asked'[c] = Append(asked[c], Part("get", p)) /\ asked[c] \in Seq(ChunkRequest)
      /\ \A d \in Getter \ {c} : asked'[d] = asked[d]
  BY <1>2, <1>c, SentIs
<1>3. \A d \in Getter \ {c} : Untouched(d)
  BY <1>2, <1>5, <1>a, <1>b, <1>d, ActiveKept DEF Untouched
<1>4. /\ promised'[c] = promised[c] \cup {p}
      /\ counts'[c][p] = 0 /\ filled'[c][p] = 0
      /\ \A q \in Pos \ {p} : counts'[c][q] = counts[c][q] /\ filled'[c][q] = filled[c][q]
  BY <1>a, <1>b, <1>d
<1>6. \A m : Count(asked'[c], m) = Count(asked[c], m) + (IF Part("get", p) = m THEN 1 ELSE 0)
  BY <1>5, CountAppend, MessagesAre
<1>7. \A q \in Pos : OnePerPosition(c, q)
  BY <1>1 DEF RequestsGoThrough, GoesThrough
<1>8. \A q \in Pos : /\ InFlight(c, q)' = InFlight(c, q) /\ Ending(c, q)' = Ending(c, q)
                     /\ Active(c, q)' = Active(c, q)
  BY <1>2, NumbersKept, ActiveKept
<1>9. ASSUME NEW q \in Pos \ {p} PROVE OnePerPosition(c, q)'
  <2>1. Part("get", p) # Part("get", q)
    BY PartsDiffer
  <2>2. Waiting(c, q) \in Nat
    BY NumbersAre
  <2>3. Waiting(c, q)' = Waiting(c, q)
    BY <1>6, <2>1, <2>2 DEF Waiting
  <2>4. QED
    BY <1>2, <1>4, <1>7, <1>8, <2>3, PositionKept
<1>10. OnePerPosition(c, p)'
  <2>1. IsLeft(c, p) /\ (p \in completionsBusy[c] => numSlices[c][p] = Slices[p])
    BY <1>1, <1>7 DEF OnePerPosition
  <2>2. Waiting(c, p)' = 1
    BY <1>6, <2>1 DEF Waiting, IsLeft
  <2>3. IsAsked(c, p)'
    BY <1>4, <1>8, <2>1, <2>2 DEF IsAsked, IsLeft
  <2>4. QED
    BY <1>1, <1>2, <1>4, <2>1, <2>3 DEF OnePerPosition
<1>11. GoesThrough(c)'
  BY <1>1, <1>2, <1>9, <1>10 DEF GoesThrough
<1>12. QED
  BY <1>3, <1>11, OthersGo

LEMMA UnloadGoes ==
  ASSUME TransferTypes, RequestsGoThrough, NEW c \in Getter, NEW p \in Pos, Unload(c, p)
  PROVE  RequestsGoThrough'
<1> USE DEF serverSide
<1>1. connected[c] /\ have[c][p] > 0
  BY DEF Unload
<1>2. /\ UNCHANGED <<promised, counts, filled, numSlices, tasks, slicesBusy, completionsBusy,
                     connected, toGetter, loads>>
      /\ have' = Cell(have, c, p, 0) /\ asked' = Sent(asked, c, Part("unload", p))
  BY DEF Unload
<1>a. /\ have'[c][p] = 0 /\ \A q \in Pos \ {p} : have'[c][q] = have[c][q]
      /\ \A d \in Getter \ {c} : have'[d] = have[d]
  BY <1>2, ZeroIs DEF TransferTypes
<1>b. asked \in [Getter -> Seq(ChunkRequest)] /\ Part("unload", p) \in ChunkRequest
  BY MessagesAre DEF TransferTypes
<1>c. /\ asked'[c] = Append(asked[c], Part("unload", p)) /\ asked[c] \in Seq(ChunkRequest)
      /\ \A d \in Getter \ {c} : asked'[d] = asked[d]
  BY <1>2, <1>b, SentIs
<1>3. \A d \in Getter \ {c} : Untouched(d)
  BY <1>2, <1>a, <1>c, ActiveKept DEF Untouched
<1>4. /\ have'[c][p] = 0 /\ \A q \in Pos \ {p} : have'[c][q] = have[c][q]
      /\ asked'[c] = Append(asked[c], Part("unload", p)) /\ asked[c] \in Seq(ChunkRequest)
  BY <1>a, <1>c
<1>5. ASSUME NEW q \in Pos PROVE OnePerPosition(c, q)'
  <2>1. Part("unload", p) # Part("get", q)
    BY PartsDiffer
  <2>2. Waiting(c, q)' = Waiting(c, q)
    BY <1>4, <2>1, CountAppend, MessagesAre, NumbersAre DEF Waiting
  <2>3. /\ InFlight(c, q)' = InFlight(c, q) /\ Ending(c, q)' = Ending(c, q)
        /\ Active(c, q)' = Active(c, q)
    BY <1>2, NumbersKept, ActiveKept
  <2>4. OnePerPosition(c, q)
    BY <1>1 DEF RequestsGoThrough, GoesThrough
  <2>5. CASE q # p
    BY <1>2, <1>4, <2>2, <2>3, <2>4, <2>5, PositionKept
  <2>6. CASE q = p
    <3>1. p \notin promised[c] /\ IsLeft(c, p)
      BY <1>1, <2>4, <2>6 DEF OnePerPosition
    <3>2. IsLeft(c, p)'
      BY <2>2, <2>3, <2>6, <3>1 DEF IsLeft
    <3>3. QED
      BY <1>2, <2>4, <2>6, <3>1, <3>2 DEF OnePerPosition
  <2>7. QED
    BY <2>5, <2>6
<1>6. GoesThrough(c)'
  BY <1>1, <1>2, <1>5 DEF GoesThrough
<1>7. QED
  BY <1>3, <1>6, OthersGo

(* What is on its way says at which stage the request is. *)
LEMMA StageIs ==
  ASSUME NEW c \in Getter, NEW p \in Pos, OnePerPosition(c, p)
  PROVE  /\ Ending(c, p) # 0 => p \in promised[c] /\ IsComplete(c, p)
         /\ InFlight(c, p) # 0 => /\ p \in promised[c]
                                  /\ \/ IsComplete(c, p)
                                     \/ IsLoaded(c, p) /\ \E l \in Active(c, p) : l.at = "wait"
         /\ Active(c, p) # {} => p \in promised[c] /\ IsLoaded(c, p)
         /\ Waiting(c, p) # 0 => p \in promised[c] /\ IsAsked(c, p)
         /\ Ending(c, p) \in {0, 1} /\ Waiting(c, p) \in {0, 1}
  BY DEF OnePerPosition, IsAsked, IsLoaded, IsComplete, IsLeft

LEMMA AcceptGoes ==
  ASSUME TransferTypes, RequestsGoThrough, NEW c \in Getter, Accept(c)
  PROVE  RequestsGoThrough'
<1> USE DEF serverSide
<1> DEFINE m == Head(toGetter[c])
<1>1. connected[c] /\ toGetter[c] # <<>>
  BY DEF Accept
<1>2. /\ UNCHANGED <<promised, counts, filled, numSlices, have, slicesBusy, completionsBusy,
                     connected, asked, loads>>
      /\ tasks' = Sent(tasks, c, m) /\ toGetter' = [toGetter EXCEPT ![c] = Tail(@)]
  BY DEF Accept
<1>3. /\ m \in Reply /\ toGetter[c] \in Seq(Reply) /\ toGetter'[c] = Tail(toGetter[c])
      /\ \A d \in Getter \ {c} : toGetter'[d] = toGetter[d]
  BY <1>1, <1>2, TakenIs DEF TransferTypes
<1>t. tasks \in [Getter -> Seq(Reply)]
  BY DEF TransferTypes
<1> HIDE DEF m
<1>4. /\ tasks'[c] = Append(tasks[c], m) /\ tasks[c] \in Seq(Reply)
      /\ \A d \in Getter \ {c} : tasks'[d] = tasks[d]
  BY <1>2, <1>3, <1>t, SentIs
<1>5. \A d \in Getter \ {c} : Untouched(d)
  BY <1>2, <1>3, <1>4, ActiveKept DEF Untouched
<1>6. \A x : Count(toGetter'[c], x) + Count(tasks'[c], x)
                = Count(toGetter[c], x) + Count(tasks[c], x)
  <2>1. ASSUME NEW x
        PROVE  Count(toGetter'[c], x) + Count(tasks'[c], x)
                  = Count(toGetter[c], x) + Count(tasks[c], x)
    <3>1. Count(toGetter[c], x) = Count(toGetter'[c], x) + (IF m = x THEN 1 ELSE 0)
      BY <1>1, <1>3, CountTail DEF m
    <3>2. Count(tasks'[c], x) = Count(tasks[c], x) + (IF m = x THEN 1 ELSE 0)
      BY <1>3, <1>4, CountAppend
    <3>3. Count(tasks[c], x) \in Nat /\ Count(toGetter'[c], x) \in Nat
      BY <1>3, <1>4, CountType, TypesClient DEF TransferTypes
    <3>4. QED
      BY <3>1, <3>2, <3>3
  <2>2. QED
    BY <2>1
<1>7. ASSUME NEW q \in Pos PROVE OnePerPosition(c, q)'
  <2>1. /\ Count(toGetter'[c], Part("slice", q)) \in Nat
        /\ Count(tasks'[c], Part("slice", q)) \in Nat
        /\ Count(toGetter'[c], Part("completion", q)) \in Nat
        /\ Count(tasks'[c], Part("completion", q)) \in Nat
    BY TypesClient, CountType DEF TransferTypes
  <2>2. InFlight(c, q)' = InFlight(c, q) /\ Ending(c, q)' = Ending(c, q)
    BY <1>2, <1>6, <2>1, NumbersAre DEF InFlight, Ending
  <2>3. Waiting(c, q)' = Waiting(c, q) /\ Active(c, q)' = Active(c, q)
    BY <1>2, ActiveKept DEF Waiting
  <2>4. OnePerPosition(c, q)
    BY <1>1 DEF RequestsGoThrough, GoesThrough
  <2>5. QED
    BY <1>2, <2>2, <2>3, <2>4, PositionKept
<1>8. GoesThrough(c)'
  BY <1>1, <1>2, <1>7 DEF GoesThrough
<1>9. QED
  BY <1>5, <1>8, OthersGo

LEMMA TakeTaskGoes ==
  ASSUME TransferTypes, RequestsGoThrough, NEW c \in Getter, TakeTask(c)
  PROVE  RequestsGoThrough'
<1> USE DEF serverSide
<1>1. /\ tasks[c] # <<>> /\ tasks' = [tasks EXCEPT ![c] = Tail(@)]
      /\ UNCHANGED <<promised, counts, filled, have, connected, asked, toGetter, loads>>
  BY DEF TakeTask
<1>2. /\ Head(tasks[c]) \in Reply /\ tasks[c] \in Seq(Reply) /\ tasks'[c] = Tail(tasks[c])
      /\ \A d \in Getter \ {c} : tasks'[d] = tasks[d]
  BY <1>1, TakenIs DEF TransferTypes
<1>m. PICK m \in Reply : m = Head(tasks[c])
  BY <1>2
<1>p. PICK p \in Pos : p = m.pos
  BY MessagesAre
<1>3. m.type \in {"slice", "completion"} /\ m = Part(m.type, p)
  BY <1>p, MessagesAre
<1>4. /\ m.type = "slice" => /\ slicesBusy' = Cell(slicesBusy, c, p, slicesBusy[c][p] + 1)
                             /\ UNCHANGED <<completionsBusy, numSlices>>
      /\ m.type # "slice" => /\ completionsBusy' = [completionsBusy EXCEPT ![c] = @ \cup {p}]
                             /\ numSlices' = Cell(numSlices, c, p, Slices[p])
                             /\ UNCHANGED slicesBusy
  BY <1>m, <1>p DEF TakeTask
<1>5. connected[c]
  BY <1>1 DEF RequestsGoThrough, GoesThrough, HasNothing
<1>6. \A x : Count(tasks[c], x) = Count(tasks'[c], x) + (IF m = x THEN 1 ELSE 0)
  BY <1>1, <1>2, <1>m, CountTail
<1>7. \A x : Count(tasks'[c], x) \in Nat /\ Count(toGetter[c], x) \in Nat
  BY TypesClient, CountType DEF TransferTypes
<1>8. /\ slicesBusy[c][p] \in Nat /\ slicesBusy[c][p] + 1 \in Nat /\ Slices[p] \in Nat
      /\ slicesBusy \in Number /\ numSlices \in Number
      /\ completionsBusy \in [Getter -> SUBSET Pos]
  BY <1>3, TransferAssumption DEF TransferTypes, Number
<1>9. \A q \in Pos : OnePerPosition(c, q)
  BY <1>5 DEF RequestsGoThrough, GoesThrough
<1>10. \A q \in Pos : Waiting(c, q)' = Waiting(c, q) /\ Active(c, q)' = Active(c, q)
  BY <1>1, ActiveKept DEF Waiting
<1>11. CASE m.type = "slice"
  <2>1. /\ slicesBusy'[c][p] = slicesBusy[c][p] + 1
        /\ \A q \in Pos \ {p} : slicesBusy'[c][q] = slicesBusy[c][q]
        /\ \A d \in Getter \ {c} : slicesBusy'[d] = slicesBusy[d]
    <3>1. slicesBusy' = Cell(slicesBusy, c, p, slicesBusy[c][p] + 1)
      BY <1>4, <1>11
    <3>2. QED
      BY <1>8, <3>1, BecomesCell
  <2>2. UNCHANGED <<completionsBusy, numSlices>>
    BY <1>4, <1>11
  <2>3. \A d \in Getter \ {c} : Untouched(d)
    BY <1>1, <1>2, <2>1, <2>2, ActiveKept DEF Untouched
  <2>4. ASSUME NEW q \in Pos PROVE OnePerPosition(c, q)'
    <3>1. m # Part("completion", q) /\ (m = Part("slice", q) <=> q = p)
      BY <1>3, <1>11, PartsDiffer
    <3>2. Ending(c, q)' = Ending(c, q)
      BY <1>1, <1>6, <1>7, <2>2, <3>1 DEF Ending
    <3>3. Count(tasks'[c], Part("slice", q)) + slicesBusy'[c][q]
              = Count(tasks[c], Part("slice", q)) + slicesBusy[c][q]
      <4>0. /\ Count(tasks'[c], Part("slice", q)) \in Nat
            /\ Count(tasks[c], Part("slice", q))
                 = Count(tasks'[c], Part("slice", q)) + (IF q = p THEN 1 ELSE 0)
        BY <1>6, <1>7, <3>1
      <4>1. CASE q = p
        BY <1>8, <2>1, <4>0, <4>1
      <4>2. CASE q # p
        BY <2>1, <4>0, <4>2
      <4>3. QED
        BY <4>1, <4>2
    <3>4. slicesBusy'[c][q] \in Nat /\ slicesBusy[c][q] \in Nat
      <4>1. slicesBusy \in Number /\ slicesBusy' \in Number
        BY <1>8, TypesClient DEF TransferTypes
      <4>2. QED
        BY <4>1 DEF Number
    <3>5. InFlight(c, q)' = InFlight(c, q)
      <4>1. toGetter'[c] = toGetter[c]
        BY <1>1
      <4>2. /\ Count(tasks[c], Part("slice", q)) \in Nat
            /\ Count(tasks'[c], Part("slice", q)) \in Nat
            /\ Count(toGetter[c], Part("slice", q)) \in Nat
        BY <1>7, NumbersAre
      <4>3. QED
        BY <3>3, <3>4, <4>1, <4>2 DEF InFlight
    <3>6. QED
      BY <1>1, <1>9, <1>10, <2>2, <3>2, <3>5, PositionKept
  <2>5. QED
    BY <1>1, <1>5, <2>3, <2>4, OthersGo DEF GoesThrough
<1>12. CASE m.type # "slice"
  <2>1. /\ numSlices'[c][p] = Slices[p]
        /\ \A q \in Pos \ {p} : numSlices'[c][q] = numSlices[c][q]
        /\ \A d \in Getter \ {c} : numSlices'[d] = numSlices[d]
    <3>1. numSlices' = Cell(numSlices, c, p, Slices[p])
      BY <1>4, <1>12
    <3>2. QED
      BY <1>8, <3>1, BecomesCell
  <2>2. /\ completionsBusy'[c] = completionsBusy[c] \cup {p} /\ slicesBusy' = slicesBusy
        /\ \A d \in Getter \ {c} : completionsBusy'[d] = completionsBusy[d]
    BY <1>4, <1>8, <1>12
  <2>3. \A d \in Getter \ {c} : Untouched(d)
    BY <1>1, <1>2, <2>1, <2>2, ActiveKept DEF Untouched
  <2>4. m = Part("completion", p) /\ \A q \in Pos : m # Part("slice", q)
    BY <1>3, <1>12, PartsDiffer
  <2>5. \A q \in Pos : InFlight(c, q)' = InFlight(c, q)
    BY <1>1, <1>6, <1>7, <2>2, <2>4 DEF InFlight
  <2>6. ASSUME NEW q \in Pos \ {p} PROVE OnePerPosition(c, q)'
    <3>1. m # Part("completion", q)
      BY <2>4, PartsDiffer
    <3>2. Ending(c, q)' = Ending(c, q)
      BY <1>1, <1>6, <1>7, <2>2, <3>1 DEF Ending
    <3>3. QED
      BY <1>1, <1>9, <1>10, <2>1, <2>2, <2>5, <3>2, PositionKept
  <2>7. OnePerPosition(c, p)'
    <3>1. Count(tasks[c], Part("completion", p)) = Count(tasks'[c], Part("completion", p)) + 1
      BY <1>6, <2>4
    <3>2. /\ Count(tasks'[c], Part("completion", p)) \in Nat
          /\ Count(toGetter[c], Part("completion", p)) \in Nat
      BY <1>7
    <3>3. Ending(c, p) \in {0, 1}
      BY <1>3, <1>9, StageIs
    <3>4. Ending(c, p) = 1 /\ p \notin completionsBusy[c]
      BY <3>1, <3>2, <3>3 DEF Ending
    <3>5. Ending(c, p)' = 1
      BY <1>1, <2>2, <3>1, <3>2, <3>4 DEF Ending
    <3>6. IsComplete(c, p) /\ p \in promised[c]
      BY <1>3, <1>9, <3>4, StageIs
    <3>7. IsComplete(c, p)'
      BY <1>1, <1>3, <1>10, <2>5, <3>5, <3>6 DEF IsComplete
    <3>8. QED
      BY <1>1, <1>3, <1>9, <2>1, <3>6, <3>7 DEF OnePerPosition
  <2>8. QED
    BY <1>1, <1>5, <2>3, <2>6, <2>7, OthersGo DEF GoesThrough
<1>13. QED
  BY <1>11, <1>12

LEMMA ProcessSliceGoes ==
  ASSUME TransferTypes, RequestsGoThrough, NEW c \in Getter, NEW p \in Pos, ProcessSlice(c, p)
  PROVE  RequestsGoThrough'
<1> USE DEF serverSide
<1>1. /\ slicesBusy[c][p] > 0
      /\ slicesBusy' = Cell(slicesBusy, c, p, slicesBusy[c][p] - 1)
      /\ filled' = Cell(filled, c, p, filled[c][p] + 1)
      /\ counts' = Cell(counts, c, p, counts[c][p] + 1)
      /\ UNCHANGED <<promised, numSlices, have, tasks, completionsBusy, connected, asked,
                     toGetter, loads>>
  BY DEF ProcessSlice
<1>2. /\ slicesBusy[c][p] \in Nat /\ filled[c][p] \in Nat /\ counts[c][p] \in Nat
      /\ slicesBusy \in Number /\ filled \in Number /\ counts \in Number
  BY NumbersAre DEF TransferTypes
<1>3. slicesBusy[c][p] - 1 \in Nat /\ filled[c][p] + 1 \in Nat /\ counts[c][p] + 1 \in Nat
  BY <1>1, <1>2
<1>4. /\ slicesBusy'[c][p] = slicesBusy[c][p] - 1
      /\ \A q \in Pos \ {p} : slicesBusy'[c][q] = slicesBusy[c][q]
      /\ \A d \in Getter \ {c} : slicesBusy'[d] = slicesBusy[d]
  BY <1>1, <1>2, <1>3, BecomesCell
<1>5. /\ filled'[c][p] = filled[c][p] + 1
      /\ \A q \in Pos \ {p} : filled'[c][q] = filled[c][q]
      /\ \A d \in Getter \ {c} : filled'[d] = filled[d]
  BY <1>1, <1>2, <1>3, BecomesCell
<1>6. /\ counts'[c][p] = counts[c][p] + 1
      /\ \A q \in Pos \ {p} : counts'[c][q] = counts[c][q]
      /\ \A d \in Getter \ {c} : counts'[d] = counts[d]
  BY <1>1, <1>2, <1>3, BecomesCell
<1>7. connected[c]
  BY <1>1, <1>2 DEF RequestsGoThrough, GoesThrough, HasNothing
<1>8. \A d \in Getter \ {c} : Untouched(d)
  BY <1>1, <1>4, <1>5, <1>6, ActiveKept DEF Untouched
<1>9. \A q \in Pos : /\ Waiting(c, q)' = Waiting(c, q) /\ Active(c, q)' = Active(c, q)
                     /\ Ending(c, q)' = Ending(c, q)
  BY <1>1, ActiveKept DEF Waiting, Ending
<1>10. \A q \in Pos : OnePerPosition(c, q)
  BY <1>7 DEF RequestsGoThrough, GoesThrough
<1>11. ASSUME NEW q \in Pos \ {p} PROVE OnePerPosition(c, q)'
  <2>1. InFlight(c, q)' = InFlight(c, q)
    BY <1>1, <1>4, NumbersKept
  <2>2. QED
    BY <1>1, <1>5, <1>6, <1>9, <1>10, <2>1, PositionKept
<1>12. OnePerPosition(c, p)'
  <2>1. /\ Count(tasks[c], Part("slice", p)) \in Nat /\ Count(toGetter[c], Part("slice", p)) \in Nat
        /\ InFlight(c, p) \in Nat
    BY NumbersAre
  <2>2. InFlight(c, p) # 0 /\ InFlight(c, p)' = InFlight(c, p) - 1
    BY <1>1, <1>2, <1>4, <2>1 DEF InFlight
  <2>3. InFlight(c, p)' + counts'[c][p] = InFlight(c, p) + counts[c][p]
    BY <1>2, <1>6, <2>1, <2>2
  <2>4. /\ p \in promised[c]
        /\ \/ IsComplete(c, p)
           \/ IsLoaded(c, p) /\ \E l \in Active(c, p) : l.at = "wait"
    BY <1>10, <2>2, StageIs
  <2>5. /\ counts'[c][p] = filled'[c][p] /\ have'[c][p] = 0 /\ p \in promised'[c]
        /\ p \in completionsBusy'[c] => numSlices'[c][p] = Slices[p]
    BY <1>1, <1>5, <1>6, <1>10, <2>4 DEF OnePerPosition
  <2>6. CASE IsComplete(c, p)
    <3>1. IsComplete(c, p)'
      BY <1>9, <2>3, <2>6 DEF IsComplete
    <3>2. QED
      BY <2>5, <3>1 DEF OnePerPosition
  <2>7. CASE IsLoaded(c, p) /\ \E l \in Active(c, p) : l.at = "wait"
    <3>1. PICK l \in loads :
            /\ Active(c, p) = {l}
            /\ IF l.at = "wait" THEN InFlight(c, p) + counts[c][p] + l.left = Slices[p]
               ELSE InFlight(c, p) = 0 /\ counts[c][p] = 0
      BY <2>7 DEF IsLoaded
    <3>2. l.at = "wait" /\ l \in loads' /\ Active(c, p)' = {l}
      BY <1>1, <1>9, <2>7, <3>1
    <3>3. InFlight(c, p)' + counts'[c][p] + l.left = Slices[p]
      BY <2>3, <3>1, <3>2
    <3>4. IsLoaded(c, p)'
      BY <1>9, <2>7, <3>2, <3>3 DEF IsLoaded
    <3>5. QED
      BY <2>5, <3>4 DEF OnePerPosition
  <2>8. QED
    BY <2>4, <2>6, <2>7
<1>13. QED
  BY <1>1, <1>7, <1>8, <1>11, <1>12, OthersGo DEF GoesThrough

(* Who hands over a chunk has all its slices. *)
LEMMA CompletionFinds ==
  ASSUME TransferTypes, RequestsGoThrough, NEW c \in Getter, NEW p \in Pos,
         ProcessCompletion(c, p)
  PROVE  /\ connected[c] /\ p \in promised[c] /\ IsComplete(c, p)
         /\ counts[c][p] = Slices[p] /\ filled[c][p] = Slices[p] /\ InFlight(c, p) = 0
<1>1. p \in completionsBusy[c] /\ counts[c][p] >= numSlices[c][p]
  BY DEF ProcessCompletion
<1>2. connected[c]
  BY <1>1 DEF RequestsGoThrough, GoesThrough, HasNothing
<1>3. OnePerPosition(c, p)
  BY <1>2 DEF RequestsGoThrough, GoesThrough
<1>4. /\ Count(tasks[c], Part("completion", p)) \in Nat
      /\ Count(toGetter[c], Part("completion", p)) \in Nat
      /\ counts[c][p] \in Nat /\ InFlight(c, p) \in Nat /\ Slices[p] \in Nat
  BY NumbersAre
<1>5. Ending(c, p) # 0
  BY <1>1, <1>4 DEF Ending
<1>6. p \in promised[c] /\ IsComplete(c, p)
  BY <1>3, <1>5, StageIs
<1>7. counts[c][p] = filled[c][p] /\ numSlices[c][p] = Slices[p]
  BY <1>1, <1>3, <1>6 DEF OnePerPosition
<1>8. InFlight(c, p) + counts[c][p] = Slices[p]
  BY <1>6 DEF IsComplete
<1>9. QED
  BY <1>1, <1>2, <1>4, <1>6, <1>7, <1>8

LEMMA ProcessCompletionGoes ==
  ASSUME TransferTypes, RequestsGoThrough, NEW c \in Getter, NEW p \in Pos,
         ProcessCompletion(c, p)
  PROVE  RequestsGoThrough'
<1> USE DEF serverSide
<1>1. /\ connected[c] /\ p \in promised[c] /\ IsComplete(c, p) /\ InFlight(c, p) = 0
  BY CompletionFinds
<1>2. /\ p \in completionsBusy[c]
      /\ completionsBusy' = [completionsBusy EXCEPT ![c] = @ \ {p}]
      /\ have' = Cell(have, c, p, 1 + filled[c][p]) /\ counts' = Cell(counts, c, p, 0)
      /\ promised' = [promised EXCEPT ![c] = @ \ {p}]
      /\ UNCHANGED <<filled, numSlices, tasks, slicesBusy, connected, asked, toGetter, loads>>
  BY <1>1 DEF ProcessCompletion, HandOver
<1>3. /\ counts'[c][p] = 0 /\ \A q \in Pos \ {p} : counts'[c][q] = counts[c][q]
      /\ \A d \in Getter \ {c} : counts'[d] = counts[d]
  BY <1>2, ZeroIs DEF TransferTypes
<1>4. 1 + filled[c][p] \in Nat /\ have \in Number
  BY NumbersAre DEF TransferTypes
<1>5. /\ \A q \in Pos \ {p} : have'[c][q] = have[c][q]
      /\ \A d \in Getter \ {c} : have'[d] = have[d]
  BY <1>2, <1>4, BecomesCell
<1>6. /\ promised'[c] = promised[c] \ {p} /\ completionsBusy'[c] = completionsBusy[c] \ {p}
      /\ \A d \in Getter \ {c} : /\ promised'[d] = promised[d]
                                 /\ completionsBusy'[d] = completionsBusy[d]
  BY <1>2 DEF TransferTypes
<1>7. \A d \in Getter \ {c} : Untouched(d)
  BY <1>2, <1>3, <1>5, <1>6, ActiveKept DEF Untouched
<1>8. \A q \in Pos : /\ Waiting(c, q)' = Waiting(c, q) /\ Active(c, q)' = Active(c, q)
                     /\ InFlight(c, q)' = InFlight(c, q)
  BY <1>2, ActiveKept DEF Waiting, InFlight
<1>9. \A q \in Pos : OnePerPosition(c, q)
  BY <1>1 DEF RequestsGoThrough, GoesThrough
<1>10. ASSUME NEW q \in Pos \ {p} PROVE OnePerPosition(c, q)'
  <2>1. Ending(c, q)' = Ending(c, q)
    BY <1>2, <1>6 DEF Ending
  <2>2. QED
    BY <1>2, <1>3, <1>5, <1>6, <1>8, <1>9, <2>1, PositionKept
<1>11. OnePerPosition(c, p)'
  <2>1. /\ Count(tasks[c], Part("completion", p)) \in Nat
        /\ Count(toGetter[c], Part("completion", p)) \in Nat
    BY NumbersAre
  <2>2. Ending(c, p)' = 0
    BY <1>1, <1>2, <1>6, <2>1 DEF Ending, IsComplete
  <2>3. IsLeft(c, p)'
    BY <1>1, <1>8, <2>2 DEF IsComplete, IsLeft
  <2>4. QED
    BY <1>6, <2>3 DEF OnePerPosition
<1>12. QED
  BY <1>1, <1>2, <1>7, <1>10, <1>11, OthersGo DEF GoesThrough

LEMMA GoAwayGoes ==
  ASSUME TransferTypes, RequestsGoThrough, NEW c \in Getter, GoAway(c)
  PROVE  RequestsGoThrough'
<1> USE DEF serverSide
<1>1. \A d \in Getter \ {c} : Untouched(d)
  BY ActiveKept DEF GoAway, Untouched, TransferTypes
<1>2. /\ ~connected'[c] /\ promised'[c] = {} /\ completionsBusy'[c] = {}
      /\ tasks'[c] = <<>> /\ toGetter'[c] = <<>> /\ asked'[c] = <<>>
      /\ slicesBusy'[c] = [p \in Pos |-> 0] /\ have'[c] = [p \in Pos |-> 0]
  BY DEF GoAway, TransferTypes, Number
<1>3. GoesThrough(c)'
  BY <1>2 DEF GoesThrough, HasNothing
<1>4. QED
  BY <1>1, <1>3, OthersGo

-----------------------------------------------------------------------------
(* Requests go through: the server *)

LEMMA HandleGoes ==
  ASSUME TransferTypes, RequestsGoThrough, NEW c \in Getter, Handle(c)
  PROVE  RequestsGoThrough'
<1> USE DEF clientSide
<1>1. /\ connected[c] /\ asked[c] # <<>> /\ asked' = [asked EXCEPT ![c] = Tail(@)]
      /\ UNCHANGED <<promised, counts, filled, numSlices, have, tasks, slicesBusy,
                     completionsBusy, connected, toGetter>>
  BY DEF Handle
<1>2. /\ Head(asked[c]) \in ChunkRequest /\ asked[c] \in Seq(ChunkRequest)
      /\ asked'[c] = Tail(asked[c])
      /\ \A d \in Getter \ {c} : asked'[d] = asked[d]
  BY <1>1, TakenIs DEF TransferTypes
<1>m. PICK m \in ChunkRequest : m = Head(asked[c])
  BY <1>2
<1>p. PICK p \in Pos : p = m.pos
  BY MessagesAre
<1>3. m = Part(m.type, p)
  BY <1>p, MessagesAre
<1>4. IF m.type = "get" THEN HandleGet(c, p) ELSE loads' = loads
  BY <1>m, <1>p DEF Handle
<1>5. \A x : Count(asked[c], x) = Count(asked'[c], x) + (IF m = x THEN 1 ELSE 0)
  BY <1>1, <1>2, <1>m, CountTail
<1>6. \A x : Count(asked'[c], x) \in Nat
  <2>1. asked'[c] \in Seq(ChunkRequest)
    BY <1>1, <1>2
  <2>2. QED
    BY <2>1, CountType
<1>7. \A q \in Pos : OnePerPosition(c, q)
  BY <1>1 DEF RequestsGoThrough, GoesThrough
<1>8. \A q \in Pos : InFlight(c, q)' = InFlight(c, q) /\ Ending(c, q)' = Ending(c, q)
  BY <1>1, NumbersKept
<1>9. CASE m.type # "get"
  <2>1. loads' = loads
    BY <1>4, <1>9
  <2>2. \A d \in Getter \ {c} : Untouched(d)
    BY <1>1, <1>2, <2>1, ActiveKept DEF Untouched
  <2>3. ASSUME NEW q \in Pos PROVE OnePerPosition(c, q)'
    <3>1. m # Part("get", q)
      BY <1>3, <1>9, PartsDiffer
    <3>2. Waiting(c, q)' = Waiting(c, q) /\ Active(c, q)' = Active(c, q)
      BY <1>5, <1>6, <2>1, <3>1, ActiveKept DEF Waiting
    <3>3. QED
      BY <1>1, <1>7, <1>8, <3>2, PositionKept
  <2>4. QED
    BY <1>1, <2>2, <2>3, OthersGo DEF GoesThrough
<1>10. CASE m.type = "get"
  <2>1. HandleGet(c, p) /\ m = Part("get", p)
    BY <1>3, <1>4, <1>10
  <2>2. PICK S : /\ loads' = loads \cup S
                 /\ IF p \in dupes[c] THEN S = {} ELSE S = {NewLoad(c, p, gets[c][p], Cached(p))}
    BY <2>1 DEF HandleGet
  <2>3. gets[c][p] \in Nat /\ Cached(p) \in Nat
    BY CachedIs DEF TransferTypes, Number
  <2>4. \A l \in S : l.client = c /\ l.pos = p /\ l.at = "queued" /\ IsActive(l)
    BY <2>2, <2>3, NewLoadIs DEF IsActive
  <2>5. /\ \A d, q : d # c \/ q # p => Active(d, q)' = Active(d, q)
        /\ Active(c, p)' = Active(c, p) \cup S
    <3>1. \A d, q : Active(d, q)' = {k \in loads' : k.client = d /\ k.pos = q /\ IsActive(k)}
      BY DEF Active, IsActive
    <3>2. QED
      BY <2>2, <2>4, <3>1 DEF Active
  <2>6. \A d \in Getter \ {c} : Untouched(d)
    BY <1>1, <1>2, <2>5 DEF Untouched
  <2>7. ASSUME NEW q \in Pos \ {p} PROVE OnePerPosition(c, q)'
    <3>1. m # Part("get", q)
      BY <2>1, PartsDiffer
    <3>2. Waiting(c, q)' = Waiting(c, q) /\ Active(c, q)' = Active(c, q)
      BY <1>5, <1>6, <2>5, <3>1 DEF Waiting
    <3>3. QED
      BY <1>1, <1>7, <1>8, <3>2, PositionKept
  <2>8. OnePerPosition(c, p)'
    <3>1. Count(asked[c], Part("get", p)) = Count(asked'[c], Part("get", p)) + 1
      BY <1>5, <2>1
    <3>2. Waiting(c, p) # 0 /\ Waiting(c, p) \in {0, 1}
      BY <1>6, <1>7, <3>1, StageIs DEF Waiting
    <3>3. p \in promised[c] /\ IsAsked(c, p) /\ Waiting(c, p)' = 0
      BY <1>6, <1>7, <3>1, <3>2, StageIs DEF Waiting
    <3>4. /\ counts'[c][p] = filled'[c][p] /\ have'[c][p] = 0 /\ p \in promised'[c]
          /\ p \in completionsBusy'[c] => numSlices'[c][p] = Slices[p]
      BY <1>1, <1>7, <3>3 DEF OnePerPosition
    <3>5. CASE p \in dupes[c]
      <4>1. IsLeft(c, p)' /\ counts'[c][p] = 0
        BY <1>1, <1>8, <2>2, <2>5, <3>3, <3>5 DEF IsAsked, IsLeft
      <4>2. QED
        BY <3>4, <4>1 DEF OnePerPosition
    <3>6. CASE p \notin dupes[c]
      <4>1. PICK l \in loads' : Active(c, p)' = {l} /\ l.at = "queued"
        BY <2>2, <2>4, <2>5, <3>3, <3>6 DEF IsAsked
      <4>2. IsLoaded(c, p)'
        BY <1>1, <1>8, <3>3, <4>1 DEF IsAsked, IsLoaded
      <4>3. QED
        BY <3>4, <4>2 DEF OnePerPosition
    <3>7. QED
      BY <3>5, <3>6
  <2>9. QED
    BY <1>1, <2>6, <2>7, <2>8, OthersGo DEF GoesThrough
<1>11. QED
  BY <1>9, <1>10

LEMMA ConnectionGoes ==
  ASSUME TransferTypes, RequestsGoThrough, NEW c \in Getter, ConnectionThread(c)
  PROVE  RequestsGoThrough'
<1>1. CASE Handle(c)
  BY <1>1, HandleGoes
<1>2. CASE DestroyHandler(c) \/ HandlerGone(c)
  <2>1. UNCHANGED <<clientSide, connected, asked, toGetter, loads>>
    BY <1>2 DEF DestroyHandler, HandlerGone
  <2>2. \A d \in Getter : Untouched(d)
    BY <2>1, ActiveKept DEF Untouched, clientSide
  <2>3. QED
    BY <2>2, AllUntouched
<1>3. QED
  BY <1>1, <1>2 DEF ConnectionThread

(* A task whose client is there is the only one that may send slices. *)
LEMMA OnlyActive ==
  ASSUME TransferTypes, RequestsGoThrough, NEW l \in loads, IsActive(l), connected[l.client]
  PROVE  /\ l.client \in Getter /\ l.pos \in Pos
         /\ OnePerPosition(l.client, l.pos) /\ l.pos \in promised[l.client]
         /\ Active(l.client, l.pos) = {l} /\ IsLoaded(l.client, l.pos)
         /\ IF l.at = "wait"
            THEN InFlight(l.client, l.pos) + counts[l.client][l.pos] + l.left = Slices[l.pos]
            ELSE InFlight(l.client, l.pos) = 0 /\ counts[l.client][l.pos] = 0
<1>1. l.client \in Getter /\ l.pos \in Pos
  BY LoadFields DEF TransferTypes
<1>2. OnePerPosition(l.client, l.pos)
  BY <1>1 DEF RequestsGoThrough, GoesThrough
<1>3. l \in Active(l.client, l.pos)
  BY DEF Active
<1>4. l.pos \in promised[l.client] /\ IsLoaded(l.client, l.pos)
  BY <1>1, <1>2, <1>3, StageIs
<1>5. QED
  BY <1>1, <1>2, <1>3, <1>4 DEF IsLoaded

(* What of one position changes with a step of a task. *)
LEMMA LoadOthers ==
  ASSUME TransferTypes, RequestsGoThrough, NEW l \in loads, NEW new, Becomes(l, new),
         new.client = l.client, new.pos = l.pos,
         UNCHANGED <<clientSide, connected, asked>>,
         \/ toGetter' = toGetter
         \/ /\ connected[l.client]
            /\ \E type \in {"slice", "completion"} :
                  toGetter' = Sent(toGetter, l.client, Part(type, l.pos)),
         connected[l.client] => OnePerPosition(l.client, l.pos)'
  PROVE  RequestsGoThrough'
<1> USE DEF clientSide
<1>1. l.client \in Getter /\ l.pos \in Pos
  BY LoadFields DEF TransferTypes
<1>2. \A d, q : d # l.client \/ q # l.pos => Active(d, q)' = Active(d, q)
  BY BecomesActive
<1>3. /\ \A d \in Getter \ {l.client} : toGetter'[d] = toGetter[d]
      /\ \A q \in Pos \ {l.pos}, type \in {"slice", "completion"} :
            Count(toGetter'[l.client], Part(type, q)) = Count(toGetter[l.client], Part(type, q))
      /\ ~connected[l.client] => toGetter' = toGetter
  <2>1. CASE toGetter' = toGetter
    BY <2>1
  <2>2. CASE connected[l.client] /\ toGetter' # toGetter
    <3>1. PICK type \in {"slice", "completion"} :
            toGetter' = Sent(toGetter, l.client, Part(type, l.pos))
      BY <2>2
    <3>2. toGetter \in [Getter -> Seq(Reply)] /\ Part(type, l.pos) \in Reply
      BY <1>1, MessagesAre DEF TransferTypes
    <3>3. /\ toGetter'[l.client] = Append(toGetter[l.client], Part(type, l.pos))
          /\ \A d \in Getter \ {l.client} : toGetter'[d] = toGetter[d]
          /\ toGetter[l.client] \in Seq(Reply)
      BY <1>1, <3>1, <3>2, ReplySent
    <3>4. ASSUME NEW q \in Pos \ {l.pos}, NEW u \in {"slice", "completion"}
          PROVE  Count(toGetter'[l.client], Part(u, q)) = Count(toGetter[l.client], Part(u, q))
      <4>1. Part(type, l.pos) # Part(u, q)
        BY PartsDiffer
      <4>2. Count(toGetter[l.client], Part(u, q)) \in Nat
        BY <1>1, NumbersAre
      <4>3. QED
        BY <3>2, <3>3, <4>1, <4>2, CountAppend
    <3>5. QED
      BY <2>2, <3>3, <3>4
  <2>3. QED
    BY <2>1, <2>2
<1>4. \A d \in Getter \ {l.client} : Untouched(d)
  BY <1>2, <1>3 DEF Untouched
<1>5. CASE connected[l.client]
  <2>1. ASSUME NEW q \in Pos \ {l.pos} PROVE OnePerPosition(l.client, q)'
    <3>1. OnePerPosition(l.client, q)
      BY <1>1, <1>5 DEF RequestsGoThrough, GoesThrough
    <3>2. /\ Waiting(l.client, q)' = Waiting(l.client, q)
          /\ Active(l.client, q)' = Active(l.client, q)
      BY <1>2 DEF Waiting
    <3>3. \A type \in {"slice", "completion"} :
            Count(toGetter'[l.client], Part(type, q)) = Count(toGetter[l.client], Part(type, q))
      BY <1>3
    <3>4. /\ InFlight(l.client, q)' = InFlight(l.client, q)
          /\ Ending(l.client, q)' = Ending(l.client, q)
      BY <3>3 DEF InFlight, Ending
    <3>5. QED
      BY <1>1, <3>1, <3>2, <3>4, PositionKept
  <2>2. QED
    BY <1>1, <1>4, <1>5, <2>1, OthersGo DEF GoesThrough
<1>6. CASE ~connected[l.client]
  <2>1. Untouched(l.client)
    BY <1>3, <1>6 DEF Untouched
  <2>2. QED
    BY <1>4, <2>1, AllUntouched
<1>7. QED
  BY <1>5, <1>6

LEMMA BeginGoes ==
  ASSUME TransferTypes, RequestsGoThrough, NEW l \in loads, Begin(l)
  PROVE  RequestsGoThrough'
<1>1. l \in Load /\ l.at = "queued" /\ IsActive(l)
  BY DEF TransferTypes, Begin, IsActive
<1>2. PICK new : /\ new = IF connected[l.client] /\ l.chunk = Null
                            THEN At(l, "read") ELSE Sending(l)
                 /\ Becomes(l, new)
  BY DEF Begin
<1>3. UNCHANGED <<clientSide, connected, asked, toGetter>>
  BY DEF Begin
<1>4. /\ new.client = l.client /\ new.pos = l.pos
      /\ connected[l.client] => \/ new.at = "read"
                                \/ new.at = "wait" /\ new.left = Slices[l.pos]
  BY <1>1, <1>2, AtIs, SendingIs DEF Steps
<1>5. ASSUME connected[l.client] PROVE OnePerPosition(l.client, l.pos)'
  <2>1. /\ l.client \in Getter /\ l.pos \in Pos
        /\ OnePerPosition(l.client, l.pos) /\ l.pos \in promised[l.client]
        /\ Active(l.client, l.pos) = {l} /\ IsLoaded(l.client, l.pos)
        /\ InFlight(l.client, l.pos) = 0 /\ counts[l.client][l.pos] = 0
    BY <1>1, <1>5, OnlyActive
  <2>2. IsActive(new) /\ Active(l.client, l.pos)' = {new} /\ new \in loads'
    BY <1>2, <1>4, <1>5, <2>1, BecomesActive DEF IsActive, Becomes
  <2>3. /\ InFlight(l.client, l.pos)' = 0 /\ counts'[l.client][l.pos] = 0
        /\ Waiting(l.client, l.pos)' = Waiting(l.client, l.pos)
        /\ Ending(l.client, l.pos)' = Ending(l.client, l.pos)
    BY <1>3, <2>1 DEF clientSide, InFlight, Ending, Waiting
  <2>4. Slices[l.pos] \in Nat
    BY <2>1, NumbersAre
  <2>5. IF new.at = "wait" THEN InFlight(l.client, l.pos)' + counts'[l.client][l.pos] + new.left
                                  = Slices[l.pos]
        ELSE InFlight(l.client, l.pos)' = 0 /\ counts'[l.client][l.pos] = 0
    BY <1>4, <1>5, <2>3, <2>4
  <2>6. IsLoaded(l.client, l.pos)'
    BY <2>1, <2>2, <2>3, <2>5 DEF IsLoaded
  <2>7. QED
    BY <1>3, <2>1, <2>6 DEF OnePerPosition, clientSide
<1>6. QED
  BY <1>2, <1>3, <1>4, <1>5, LoadOthers

LEMMA ReadGoes ==
  ASSUME TransferTypes, RequestsGoThrough, NEW l \in loads, Read(l)
  PROVE  RequestsGoThrough'
<1>1. l \in Load /\ l.at = "read" /\ IsActive(l)
  BY DEF TransferTypes, Read, IsActive
<1>2. UNCHANGED <<clientSide, connected, asked, toGetter>>
  BY DEF Read
<1>3. PICK new : /\ Becomes(l, new)
                 /\ \/ new = At(l, "failed")
                    \/ new = [Sending(l) EXCEPT !.chunk = objects + 1]
  BY DEF Read
<1>4. /\ new.client = l.client /\ new.pos = l.pos
      /\ connected[l.client] => \/ new.at = "failed"
                                \/ new.at = "wait" /\ new.left = Slices[l.pos]
  <2>1. objects + 1 \in Nat
    BY DEF TransferTypes
  <2>2. CASE new = At(l, "failed")
    BY <1>1, <2>2, AtIs DEF Steps
  <2>3. CASE new = [Sending(l) EXCEPT !.chunk = objects + 1]
    BY <1>1, <2>1, <2>3, ReadIs
  <2>4. QED
    BY <1>3, <2>2, <2>3
<1>5. ASSUME connected[l.client] PROVE OnePerPosition(l.client, l.pos)'
  <2>1. /\ l.client \in Getter /\ l.pos \in Pos
        /\ OnePerPosition(l.client, l.pos) /\ l.pos \in promised[l.client]
        /\ Active(l.client, l.pos) = {l} /\ IsLoaded(l.client, l.pos)
        /\ InFlight(l.client, l.pos) = 0 /\ counts[l.client][l.pos] = 0
    BY <1>1, <1>5, OnlyActive
  <2>2. /\ InFlight(l.client, l.pos)' = 0 /\ counts'[l.client][l.pos] = 0
        /\ Waiting(l.client, l.pos)' = Waiting(l.client, l.pos)
        /\ Ending(l.client, l.pos)' = Ending(l.client, l.pos)
    BY <1>2, <2>1 DEF clientSide, InFlight, Ending, Waiting
  <2>3. Slices[l.pos] \in Nat
    BY <2>1, NumbersAre
  <2>4. CASE new.at = "failed"
    <3>1. Active(l.client, l.pos)' = {}
      BY <1>3, <1>4, <2>1, <2>4, BecomesActive DEF IsActive
    <3>2. IsLeft(l.client, l.pos)'
      BY <2>1, <2>2, <3>1 DEF IsLeft, IsLoaded
    <3>3. QED
      BY <1>2, <2>1, <2>2, <3>2 DEF OnePerPosition, clientSide
  <2>5. CASE new.at = "wait" /\ new.left = Slices[l.pos]
    <3>1. Active(l.client, l.pos)' = {new} /\ new \in loads'
      BY <1>3, <1>4, <2>1, <2>5, BecomesActive DEF IsActive, Becomes
    <3>2. InFlight(l.client, l.pos)' + counts'[l.client][l.pos] + new.left = Slices[l.pos]
      BY <2>2, <2>3, <2>5
    <3>3. IsLoaded(l.client, l.pos)'
      BY <2>1, <2>2, <2>5, <3>1, <3>2 DEF IsLoaded
    <3>4. QED
      BY <1>2, <2>1, <3>3 DEF OnePerPosition, clientSide
  <2>6. QED
    BY <1>4, <1>5, <2>4, <2>5
<1>6. QED
  BY <1>2, <1>3, <1>4, <1>5, LoadOthers

(* What a message that is sent does to the numbers. *)
LEMMA SentNumbers ==
  ASSUME TransferTypes, NEW c \in Getter, NEW p \in Pos, NEW type \in {"slice", "completion"},
         UNCHANGED <<clientSide, connected, asked>>, toGetter' = Sent(toGetter, c, Part(type, p))
  PROVE  /\ InFlight(c, p)' = InFlight(c, p) + (IF type = "slice" THEN 1 ELSE 0)
         /\ Ending(c, p)' = Ending(c, p) + (IF type = "completion" THEN 1 ELSE 0)
         /\ Waiting(c, p)' = Waiting(c, p)
<1>1. toGetter \in [Getter -> Seq(Reply)] /\ Part(type, p) \in Reply
  BY MessagesAre DEF TransferTypes
<1>2. toGetter'[c] = Append(toGetter[c], Part(type, p)) /\ toGetter[c] \in Seq(Reply)
  BY <1>1, ReplySent
<1>3. \A x : Count(toGetter'[c], x) = Count(toGetter[c], x) + (IF Part(type, p) = x THEN 1 ELSE 0)
  BY <1>1, <1>2, CountAppend
<1>4. \A x : Count(toGetter[c], x) \in Nat /\ Count(tasks[c], x) \in Nat
  BY NumbersAre
<1>5. /\ Part(type, p) = Part("slice", p) <=> type = "slice"
      /\ Part(type, p) = Part("completion", p) <=> type = "completion"
  BY PartsDiffer
<1>6. slicesBusy[c][p] \in Nat
  BY NumbersAre
<1>7. InFlight(c, p)' = InFlight(c, p) + (IF type = "slice" THEN 1 ELSE 0)
  BY <1>3, <1>4, <1>5, <1>6 DEF InFlight, clientSide
<1>8. Ending(c, p)' = Ending(c, p) + (IF type = "completion" THEN 1 ELSE 0)
  BY <1>3, <1>4, <1>5 DEF Ending, clientSide
<1>9. Waiting(c, p)' = Waiting(c, p)
  BY DEF Waiting
<1>10. QED
  BY <1>7, <1>8, <1>9

LEMMA SendSliceGoes ==
  ASSUME TransferTypes, RequestsGoThrough, NEW l \in loads, SendSlice(l)
  PROVE  RequestsGoThrough'
<1>1. l \in Load /\ l.at = "wait" /\ l.left > 0 /\ IsActive(l) /\ l.left \in Nat
  BY LoadFields DEF TransferTypes, SendSlice, IsActive
<1>2. /\ UNCHANGED <<clientSide, connected, asked>>
      /\ toGetter' = IF connected[l.client] THEN Sent(toGetter, l.client, Part("slice", l.pos))
                     ELSE toGetter
  BY DEF SendSlice
<1>3. PICK new : new = [l EXCEPT !.left = @ - 1] /\ Becomes(l, new)
  BY DEF SendSlice
<1>4. /\ new.client = l.client /\ new.pos = l.pos /\ new.at = "wait" /\ new.left = l.left - 1
  BY <1>1, <1>3, OneLessIs
<1>5. ASSUME connected[l.client] PROVE OnePerPosition(l.client, l.pos)'
  <2>1. /\ l.client \in Getter /\ l.pos \in Pos
        /\ OnePerPosition(l.client, l.pos) /\ l.pos \in promised[l.client]
        /\ Active(l.client, l.pos) = {l} /\ IsLoaded(l.client, l.pos)
        /\ InFlight(l.client, l.pos) + counts[l.client][l.pos] + l.left = Slices[l.pos]
    BY <1>1, <1>5, OnlyActive
  <2>2. toGetter' = Sent(toGetter, l.client, Part("slice", l.pos))
    BY <1>2, <1>5
  <2>3. /\ InFlight(l.client, l.pos)' = InFlight(l.client, l.pos) + 1
        /\ Ending(l.client, l.pos)' = Ending(l.client, l.pos) + 0
        /\ Waiting(l.client, l.pos)' = Waiting(l.client, l.pos)
    BY <1>2, <2>1, <2>2, SentNumbers
  <2>4. /\ InFlight(l.client, l.pos) \in Nat /\ counts[l.client][l.pos] \in Nat
        /\ Ending(l.client, l.pos) \in Nat
    BY <2>1, NumbersAre
  <2>5. Active(l.client, l.pos)' = {new} /\ new \in loads'
    <3>1. IsActive(new) /\ new \in loads'
      BY <1>3, <1>4 DEF IsActive, Becomes
    <3>2. Active(l.client, l.pos)' = (Active(l.client, l.pos) \ {l}) \cup {new}
      BY <1>3, <1>4, <3>1, BecomesActive
    <3>3. QED
      BY <2>1, <3>1, <3>2
  <2>6. InFlight(l.client, l.pos)' + counts'[l.client][l.pos] + new.left = Slices[l.pos]
    <3>1. counts' = counts
      BY <1>2 DEF clientSide
    <3>2. new.left = l.left - 1 /\ l.left \in Nat
      BY <1>1, <1>4
    <3>3. QED
      BY <2>1, <2>3, <2>4, <3>1, <3>2
  <2>7. IsLoaded(l.client, l.pos)'
    BY <1>4, <2>1, <2>3, <2>4, <2>5, <2>6 DEF IsLoaded
  <2>8. QED
    BY <1>2, <2>1, <2>7 DEF OnePerPosition, clientSide
<1>6. QED
  BY <1>2, <1>3, <1>4, <1>5, LoadOthers

LEMMA SendCompletionGoes ==
  ASSUME TransferTypes, RequestsGoThrough, NEW l \in loads, SendCompletion(l)
  PROVE  RequestsGoThrough'
<1>1. l \in Load /\ l.at = "wait" /\ l.left = 0 /\ IsActive(l)
  BY DEF TransferTypes, SendCompletion, IsActive
<1>2. UNCHANGED <<clientSide, connected, asked>>
  BY DEF SendCompletion
<1>3. PICK new : /\ Becomes(l, new)
                 /\ IF connected[l.client]
                    THEN /\ new = At(l, "observe")
                         /\ toGetter' = Sent(toGetter, l.client, Part("completion", l.pos))
                    ELSE new = At(l, "done") /\ toGetter' = toGetter
  BY DEF SendCompletion
<1>4. new.client = l.client /\ new.pos = l.pos /\ ~IsActive(new)
  BY <1>1, <1>3, AtIs DEF Steps, IsActive
<1>5. ASSUME connected[l.client] PROVE OnePerPosition(l.client, l.pos)'
  <2>1. /\ l.client \in Getter /\ l.pos \in Pos
        /\ OnePerPosition(l.client, l.pos) /\ l.pos \in promised[l.client]
        /\ Active(l.client, l.pos) = {l} /\ IsLoaded(l.client, l.pos)
        /\ InFlight(l.client, l.pos) + counts[l.client][l.pos] + l.left = Slices[l.pos]
    BY <1>1, <1>5, OnlyActive
  <2>2. toGetter' = Sent(toGetter, l.client, Part("completion", l.pos))
    BY <1>3, <1>5
  <2>3. /\ InFlight(l.client, l.pos)' = InFlight(l.client, l.pos) + 0
        /\ Ending(l.client, l.pos)' = Ending(l.client, l.pos) + 1
        /\ Waiting(l.client, l.pos)' = Waiting(l.client, l.pos)
    BY <1>2, <2>1, <2>2, SentNumbers
  <2>4. InFlight(l.client, l.pos) \in Nat /\ counts[l.client][l.pos] \in Nat
    BY <2>1, NumbersAre
  <2>5. Active(l.client, l.pos)' = {}
    BY <1>3, <1>4, <2>1, BecomesActive
  <2>6. InFlight(l.client, l.pos)' + counts'[l.client][l.pos] = Slices[l.pos]
    BY <1>1, <1>2, <2>1, <2>3, <2>4 DEF clientSide
  <2>7. IsComplete(l.client, l.pos)'
    BY <2>1, <2>3, <2>5, <2>6 DEF IsComplete, IsLoaded
  <2>8. QED
    BY <1>2, <2>1, <2>7 DEF OnePerPosition, clientSide
<1>6. QED
  BY <1>2, <1>3, <1>4, <1>5, LoadOthers

LEMMA LoadGoes ==
  ASSUME TransferTypes, RequestsGoThrough, NEW l \in loads, LoadStep(l)
  PROVE  RequestsGoThrough'
<1>1. CASE Begin(l) \/ Read(l) \/ SendSlice(l) \/ SendCompletion(l)
  BY <1>1, BeginGoes, ReadGoes, SendSliceGoes, SendCompletionGoes
<1>2. CASE AddChunkObserver(l) \/ Erase(l)
  <2>1. l \in Load /\ ~IsActive(l)
    BY <1>2 DEF TransferTypes, AddChunkObserver, Erase, IsActive
  <2>2. UNCHANGED <<clientSide, connected, asked, toGetter>>
    BY <1>2 DEF AddChunkObserver, Erase
  <2>3. \A c \in Getter, p \in Pos : Active(c, p)' = Active(c, p)
    <3>1. CASE AddChunkObserver(l)
      <4>1. PICK new : new = At(l, "erase") /\ Becomes(l, new)
        BY <3>1 DEF AddChunkObserver
      <4>2. new.client = l.client /\ new.pos = l.pos /\ ~IsActive(new)
        BY <2>1, <4>1, AtIs DEF Steps, IsActive
      <4>3. Active(l.client, l.pos)' = Active(l.client, l.pos) \ {l}
        BY <4>1, <4>2, BecomesActive
      <4>4. l \notin Active(l.client, l.pos)
        BY <2>1 DEF Active
      <4>5. QED
        BY <4>1, <4>2, <4>3, <4>4, BecomesActive
    <3>2. CASE Erase(l)
      BY <2>1, <3>2, ActiveGone DEF Erase
    <3>3. QED
      BY <1>2, <3>1, <3>2
  <2>4. \A d \in Getter : Untouched(d)
    BY <2>2, <2>3 DEF Untouched, clientSide
  <2>5. QED
    BY <2>4, AllUntouched
<1>3. QED
  BY <1>1, <1>2 DEF LoadStep

LEMMA GoesInit == TransferInit => RequestsGoThrough
<1> SUFFICES ASSUME TransferInit, NEW c \in Getter, NEW p \in Pos
             PROVE  connected[c] /\ OnePerPosition(c, p)
  BY DEF RequestsGoThrough, GoesThrough, TransferInit
<1>1. Waiting(c, p) = 0 /\ InFlight(c, p) = 0 /\ Ending(c, p) = 0
  BY CountNone DEF TransferInit, Waiting, InFlight, Ending
<1>2. Active(c, p) = {}
  BY DEF TransferInit, Active
<1>3. QED
  BY <1>1, <1>2 DEF TransferInit, OnePerPosition, IsLeft

LEMMA GoesNext ==
  ASSUME TransferTypes, RequestsGoThrough, [TransferNext]_transferVars
  PROVE  RequestsGoThrough'
<1>1. CASE UNCHANGED transferVars
  <2>1. \A d \in Getter : Untouched(d)
    BY <1>1, ActiveKept DEF Untouched, transferVars, clientSide, serverSide
  <2>2. QED
    BY <2>1, AllUntouched
<1>2. QED
  BY <1>1, StepsAre, AcceptGoes, TakeTaskGoes, GoAwayGoes, GetGoes, UnloadGoes,
     ProcessSliceGoes, ProcessCompletionGoes, ConnectionGoes, LoadGoes

-----------------------------------------------------------------------------
(* Numbers of requests *)

LEMMA CountedNext ==
  ASSUME TransferTypes, RequestsAreCounted, [TransferNext]_transferVars
  PROVE  RequestsAreCounted'
<1> USE DEF clientSide, serverSide
<1>1. CASE UNCHANGED <<gets, completions>>
  BY <1>1 DEF RequestsAreCounted
<1>2. ASSUME NEW c \in Getter, NEW p \in Pos, Get(c, p) PROVE RequestsAreCounted'
  <2>1. gets[c][p] \in Nat /\ MaxGets[c] \in Nat /\ gets[c][p] + 1 \in Nat /\ gets \in Number
    BY TransferAssumption DEF TransferTypes, Number
  <2>2. gets' = Cell(gets, c, p, gets[c][p] + 1) /\ gets[c][p] < MaxGets[c]
    BY <1>2 DEF Get
  <2>3. /\ gets'[c][p] = gets[c][p] + 1 /\ \A q \in Pos \ {p} : gets'[c][q] = gets[c][q]
        /\ \A d \in Getter \ {c} : gets'[d] = gets[d]
    BY <2>1, <2>2, BecomesCell
  <2>4. gets'[c][p] <= MaxGets[c] /\ completions' = completions
    BY <1>2, <2>1, <2>2, <2>3 DEF Get
  <2>5. QED
    BY <2>3, <2>4 DEF RequestsAreCounted
<1>3. ASSUME NEW c \in Getter, Handle(c) PROVE RequestsAreCounted'
  <2>1. gets' = gets /\ asked[c] # <<>>
    BY <1>3 DEF Handle
  <2>2. Head(asked[c]) \in ChunkRequest
    BY <2>1, TakenIs DEF TransferTypes
  <2>3. PICK p \in Pos : p = Head(asked[c]).pos
    BY <2>2, MessagesAre
  <2>4. completions' = completions \/ completions' = Cell(completions, c, p, gets[c][p])
    BY <1>3, <2>3 DEF Handle, HandleGet
  <2>5. gets[c][p] \in Nat /\ completions \in Number
    BY DEF TransferTypes, Number
  <2>6. CASE completions' = Cell(completions, c, p, gets[c][p])
    <3>1. /\ completions'[c][p] = gets[c][p]
          /\ \A q \in Pos \ {p} : completions'[c][q] = completions[c][q]
          /\ \A d \in Getter \ {c} : completions'[d] = completions[d]
      BY <2>5, <2>6, BecomesCell
    <3>2. QED
      BY <2>1, <3>1 DEF RequestsAreCounted
  <2>7. QED
    BY <1>1, <2>1, <2>4, <2>6
<1>4. ASSUME NEW l \in loads, Erase(l) PROVE RequestsAreCounted'
  <2>1. PICK c \in Getter, p \in Pos : c = l.client /\ p = l.pos
    BY LoadFields DEF TransferTypes
  <2>2. completions' = Cell(completions, c, p, 0) /\ gets' = gets
    BY <1>4, <2>1 DEF Erase, Null
  <2>3. /\ completions'[c][p] = 0 /\ \A q \in Pos \ {p} : completions'[c][q] = completions[c][q]
        /\ \A d \in Getter \ {c} : completions'[d] = completions[d]
    BY <2>2, ZeroIs DEF TransferTypes
  <2>4. \A d \in Getter : MaxGets[d] \in Nat
    BY TransferAssumption
  <2>5. completions'[c][p] <= MaxGets[c]
    BY <2>3, <2>4
  <2>6. QED
    BY <2>2, <2>3, <2>5 DEF RequestsAreCounted
<1>5. ASSUME NEW c \in Getter,
             \/ Accept(c) \/ TakeTask(c) \/ GoAway(c) \/ DestroyHandler(c) \/ HandlerGone(c)
             \/ \E p \in Pos : Unload(c, p) \/ ProcessSlice(c, p) \/ ProcessCompletion(c, p)
      PROVE  UNCHANGED <<gets, completions>>
  BY <1>5 DEF Accept, TakeTask, GoAway, DestroyHandler, HandlerGone, Unload, ProcessSlice,
     ProcessCompletion, HandOver
<1>6. ASSUME NEW l \in loads,
             Begin(l) \/ Read(l) \/ SendSlice(l) \/ SendCompletion(l) \/ AddChunkObserver(l)
      PROVE  UNCHANGED <<gets, completions>>
  BY <1>6 DEF Begin, Read, SendSlice, SendCompletion, AddChunkObserver
<1>7. CASE UNCHANGED transferVars
  BY <1>1, <1>7 DEF transferVars
<1>8. QED
  BY <1>1, <1>2, <1>3, <1>4, <1>5, <1>6, <1>7, StepsAre DEF ConnectionThread, LoadStep

-----------------------------------------------------------------------------
(* Chunks that are handed over are whole *)

LEMMA WholeNext ==
  ASSUME TransferTypes, RequestsGoThrough, WholeChunksOnly, [TransferNext]_transferVars
  PROVE  WholeChunksOnly'
<1> USE DEF clientSide, serverSide
<1>1. CASE have' = have
  BY <1>1 DEF WholeChunksOnly
<1>2. ASSUME NEW c \in Getter, NEW p \in Pos, Unload(c, p) PROVE WholeChunksOnly'
  <2>1. have' = Cell(have, c, p, 0)
    BY <1>2 DEF Unload
  <2>2. /\ have'[c][p] = 0 /\ \A q \in Pos \ {p} : have'[c][q] = have[c][q]
        /\ \A d \in Getter \ {c} : have'[d] = have[d]
    BY <2>1, ZeroIs DEF TransferTypes
  <2>3. QED
    BY <2>2 DEF WholeChunksOnly
<1>3. ASSUME NEW c \in Getter, NEW p \in Pos, ProcessCompletion(c, p) PROVE WholeChunksOnly'
  <2>1. p \in promised[c] /\ filled[c][p] = Slices[p]
    BY <1>3, CompletionFinds
  <2>2. have' = Cell(have, c, p, 1 + Slices[p])
    BY <1>3, <2>1 DEF ProcessCompletion, HandOver
  <2>3. 1 + Slices[p] \in Nat /\ have \in Number
    BY TransferAssumption DEF TransferTypes
  <2>4. /\ have'[c][p] = 1 + Slices[p] /\ \A q \in Pos \ {p} : have'[c][q] = have[c][q]
        /\ \A d \in Getter \ {c} : have'[d] = have[d]
    BY <2>2, <2>3, BecomesCell
  <2>5. QED
    BY <2>4 DEF WholeChunksOnly
<1>4. ASSUME NEW c \in Getter, GoAway(c) PROVE WholeChunksOnly'
  <2>1. /\ \A p \in Pos : have'[c][p] = 0 /\ \A d \in Getter \ {c} : have'[d] = have[d]
    BY <1>4 DEF GoAway, TransferTypes, Number
  <2>2. QED
    BY <2>1 DEF WholeChunksOnly
<1>5. ASSUME NEW c \in Getter,
             \/ Accept(c) \/ TakeTask(c) \/ ConnectionThread(c)
             \/ \E p \in Pos : Get(c, p) \/ ProcessSlice(c, p)
      PROVE  have' = have
  BY <1>5 DEF Accept, TakeTask, ConnectionThread, Handle, DestroyHandler, HandlerGone, Get,
     ProcessSlice
<1>6. ASSUME NEW l \in loads, LoadStep(l) PROVE have' = have
  BY <1>6 DEF LoadStep, Begin, Read, SendSlice, SendCompletion, AddChunkObserver, Erase
<1>7. CASE UNCHANGED transferVars
  BY <1>1, <1>7 DEF transferVars
<1>8. QED
  BY <1>1, <1>2, <1>3, <1>4, <1>5, <1>6, <1>7, StepsAre

-----------------------------------------------------------------------------
(* Futures that a handler keeps *)

LEMMA FuturesInit == TransferInit => FuturesAreKept
  BY DEF TransferInit, FuturesAreKept, RunningFor

LEMMA FuturesBecome ==
  ASSUME FuturesAreKept, NEW l \in loads, l.at \notin {"done", "failed"}, NEW new,
         Becomes(l, new), new.client = l.client, new.pos = l.pos, new.number = l.number,
         UNCHANGED <<handler, connected, lost, completions>>
  PROVE  FuturesAreKept'
<1>1. \A c : RunningFor(c)' \subseteq (RunningFor(c) \ {l}) \cup {new}
  BY DEF RunningFor, Becomes
<1>2. \A c : new \in RunningFor(c)' /\ l.client # c => new \in RunningFor(c)
  BY DEF RunningFor, Becomes
<1>3. l \in RunningFor(l.client)
  BY DEF RunningFor
<1>4. \A c \in Getter : ~lost[c] => \A k \in RunningFor(c)' : completions'[c][k.pos] = k.number
  BY <1>1, <1>2, <1>3 DEF FuturesAreKept
<1>5. ASSUME NEW c \in Getter, ~lost[c], NEW k \in RunningFor(c)', NEW j \in RunningFor(c)',
             j.pos = k.pos
      PROVE  j = k
  <2>1. CASE c # l.client
    <3>1. j \in RunningFor(c) /\ k \in RunningFor(c)
      BY <1>1, <1>2, <1>5, <2>1
    <3>2. QED
      BY <1>5, <3>1 DEF FuturesAreKept
  <2>2. CASE c = l.client
    <3>1. \A i \in RunningFor(c) : i.pos = l.pos => i = l
      BY <1>3, <1>5, <2>2 DEF FuturesAreKept
    <3>2. (j \in RunningFor(c) /\ j # l) \/ j = new
      BY <1>1, <1>5
    <3>3. (k \in RunningFor(c) /\ k # l) \/ k = new
      BY <1>1, <1>5
    <3>4. QED
      BY <1>5, <3>1, <3>2, <3>3 DEF FuturesAreKept
  <2>3. QED
    BY <2>1, <2>2
<1>6. ASSUME NEW c \in Getter, handler[c] = "freed", ~lost[c] PROVE RunningFor(c)' = {}
  <2>1. RunningFor(c) = {}
    BY <1>6 DEF FuturesAreKept
  <2>2. c # l.client
    BY <1>3, <2>1
  <2>3. QED
    BY <1>1, <1>2, <2>1, <2>2
<1>7. \A c \in Getter : handler'[c] # "up" => ~connected'[c]
  BY DEF FuturesAreKept
<1>8. QED
  BY <1>4, <1>5, <1>6, <1>7 DEF FuturesAreKept

LEMMA FuturesSame ==
  ASSUME FuturesAreKept, UNCHANGED <<handler, lost, completions, loads>>,
         \A c \in Getter : connected'[c] => connected[c]
  PROVE  FuturesAreKept'
<1>1. \A c : RunningFor(c)' = RunningFor(c)
  BY DEF RunningFor
<1>2. QED
  BY <1>1 DEF FuturesAreKept

LEMMA FuturesHandle ==
  ASSUME TransferTypes, FuturesAreKept, NEW c \in Getter, Handle(c)
  PROVE  FuturesAreKept'
<1>1. connected[c] /\ asked[c] # <<>> /\ UNCHANGED <<connected, handler>>
  BY DEF Handle
<1>2. PICK p \in Pos : p = Head(asked[c]).pos
  BY <1>1, TakenIs, MessagesAre DEF TransferTypes
<1>3. CASE UNCHANGED <<loads, lost, completions>>
  BY <1>1, <1>3, FuturesSame
<1>4. CASE HandleGet(c, p) /\ p \notin dupes[c]
  <2> DEFINE n == NewLoad(c, p, gets[c][p], Cached(p))
  <2>1. /\ loads' = loads \cup {n} /\ completions' = Cell(completions, c, p, gets[c][p])
        /\ lost' = [lost EXCEPT ![c] = @ \/ UnderWay(c, p)]
    BY <1>4 DEF HandleGet
  <2>2. gets[c][p] \in Nat /\ Cached(p) \in Nat /\ completions \in Number
    BY CachedIs DEF TransferTypes, Number
  <2>3. n.client = c /\ n.pos = p /\ n.number = gets[c][p] /\ n.at = "queued"
    BY <2>2, NewLoadIs
  <2> HIDE DEF n
  <2>4. /\ completions'[c][p] = gets[c][p]
        /\ \A q \in Pos \ {p} : completions'[c][q] = completions[c][q]
        /\ \A d \in Getter \ {c} : completions'[d] = completions[d]
    BY <2>1, <2>2, BecomesCell
  <2>5. /\ \A d \in Getter \ {c} : lost'[d] = lost[d] /\ RunningFor(d)' = RunningFor(d)
        /\ RunningFor(c)' = RunningFor(c) \cup {n}
        /\ ~lost'[c] => ~lost[c] /\ ~UnderWay(c, p)
    BY <2>1, <2>3 DEF RunningFor, TransferTypes
  <2>6. ~UnderWay(c, p) => \A l \in RunningFor(c) : l.pos # p
    BY DEF UnderWay, RunningFor
  <2>7. \A l \in RunningFor(c) : l.pos \in Pos
    BY LoadFields DEF RunningFor, TransferTypes
  <2>8. handler[c] = "up"
    BY <1>1 DEF FuturesAreKept
  <2>9. \A d \in Getter : /\ handler'[d] # "up" => ~connected'[d]
                          /\ handler'[d] = "freed" /\ ~lost'[d] => RunningFor(d)' = {}
    BY <1>1, <2>5, <2>8 DEF FuturesAreKept
  <2>10. ASSUME NEW d \in Getter, ~lost'[d], NEW l \in RunningFor(d)'
         PROVE  completions'[d][l.pos] = l.number
    <3>1. CASE d # c
      <4>1. completions'[d] = completions[d] /\ l \in RunningFor(d) /\ ~lost[d]
        BY <2>4, <2>5, <2>10, <3>1
      <4>2. QED
        BY <4>1 DEF FuturesAreKept
    <3>2. CASE d = c /\ l = n
      BY <2>3, <2>4, <3>2
    <3>3. CASE d = c /\ l \in RunningFor(c)
      <4>1. ~lost[c] /\ l.pos \in Pos \ {p}
        BY <2>5, <2>6, <2>7, <2>10, <3>3
      <4>2. completions[c][l.pos] = l.number
        BY <3>3, <4>1 DEF FuturesAreKept
      <4>3. QED
        BY <2>4, <3>3, <4>1, <4>2
    <3>4. QED
      BY <2>5, <2>10, <3>1, <3>2, <3>3
  <2>11. ASSUME NEW d \in Getter, ~lost'[d], NEW l \in RunningFor(d)', NEW k \in RunningFor(d)',
                k.pos = l.pos
         PROVE  k = l
    <3>1. CASE d # c
      <4>1. k \in RunningFor(d) /\ l \in RunningFor(d) /\ ~lost[d]
        BY <2>5, <2>11, <3>1
      <4>2. QED
        BY <2>11, <4>1 DEF FuturesAreKept
    <3>2. CASE d = c
      <4>1. \A i \in RunningFor(c) : i.pos # n.pos
        BY <2>3, <2>5, <2>6, <2>11, <3>2
      <4>2. \A i, j \in RunningFor(c) : i.pos = j.pos => i = j
        BY <2>5, <2>11, <3>2 DEF FuturesAreKept
      <4>3. QED
        BY <2>5, <2>11, <3>2, <4>1, <4>2
    <3>3. QED
      BY <3>1, <3>2
  <2>12. \A d \in Getter :
           ~lost'[d] => \A l, k \in RunningFor(d)' : /\ completions'[d][l.pos] = l.number
                                                     /\ k.pos = l.pos => k = l
    BY <2>10, <2>11
  <2>13. QED
    BY <2>9, <2>12 DEF FuturesAreKept
<1>5. QED
  BY <1>2, <1>3, <1>4 DEF Handle, HandleGet

LEMMA FuturesGone ==
  ASSUME TransferTypes, FuturesAreKept, NEW c \in Getter, HandlerGone(c)
  PROVE  FuturesAreKept'
<1>1. /\ handler[c] = "locked" /\ \A l \in Kept(c) : l.at \in {"done", "failed"}
      /\ UNCHANGED <<connected, lost, completions, loads>>
      /\ handler' = handler \/ handler' = [handler EXCEPT ![c] = "freed"]
  BY DEF HandlerGone
<1>2. \A d : RunningFor(d)' = RunningFor(d)
  BY <1>1 DEF RunningFor
<1>3. ~lost[c] => RunningFor(c) = {}
  <2>1. ASSUME ~lost[c], NEW l \in RunningFor(c) PROVE FALSE
    <3>1. completions[c][l.pos] = l.number
      BY <2>1 DEF FuturesAreKept
    <3>2. l \in Kept(c)
      BY <2>1, <3>1 DEF Kept, RunningFor
    <3>3. QED
      BY <1>1, <2>1, <3>2 DEF RunningFor
  <2>2. QED
    BY <2>1
<1>4. \A d \in Getter : handler'[d] = handler[d] \/ (d = c /\ handler'[d] = "freed")
  BY <1>1 DEF TransferTypes
<1>5. QED
  BY <1>1, <1>2, <1>3, <1>4 DEF FuturesAreKept

LEMMA FuturesLoad ==
  ASSUME TransferTypes, FuturesAreKept, NEW l \in loads, LoadStep(l)
  PROVE  FuturesAreKept'
<1>1. l \in Load
  BY DEF TransferTypes
<1>2. CASE Begin(l)
  <2>1. PICK new : /\ new = IF connected[l.client] /\ l.chunk = Null
                              THEN At(l, "read") ELSE Sending(l)
                   /\ Becomes(l, new)
    BY <1>2 DEF Begin
  <2>2. new.client = l.client /\ new.pos = l.pos /\ new.number = l.number
    BY <1>1, <2>1, AtIs, SendingIs DEF Steps
  <2>3. UNCHANGED <<handler, connected, lost, completions>> /\ l.at = "queued"
    BY <1>2 DEF Begin
  <2>4. QED
    BY <2>1, <2>2, <2>3, FuturesBecome
<1>3. CASE Read(l)
  <2>1. PICK new : /\ Becomes(l, new)
                   /\ \/ new = At(l, "failed")
                      \/ new = [Sending(l) EXCEPT !.chunk = objects + 1]
    BY <1>3 DEF Read
  <2>2. objects + 1 \in Nat
    BY DEF TransferTypes
  <2>3. new.client = l.client /\ new.pos = l.pos /\ new.number = l.number
    <3>1. CASE new = At(l, "failed")
      BY <1>1, <3>1, AtIs DEF Steps
    <3>2. CASE new = [Sending(l) EXCEPT !.chunk = objects + 1]
      BY <1>1, <2>2, <3>2, ReadIs
    <3>3. QED
      BY <2>1, <3>1, <3>2
  <2>4. UNCHANGED <<handler, connected, lost, completions>> /\ l.at = "read"
    BY <1>3 DEF Read
  <2>5. QED
    BY <2>1, <2>3, <2>4, FuturesBecome
<1>4. CASE SendSlice(l)
  <2>1. PICK new : new = [l EXCEPT !.left = @ - 1] /\ Becomes(l, new)
    BY <1>4 DEF SendSlice
  <2>2. new.client = l.client /\ new.pos = l.pos /\ new.number = l.number
    BY <1>1, <1>4, <2>1, OneLessIs DEF SendSlice
  <2>3. UNCHANGED <<handler, connected, lost, completions>> /\ l.at = "wait"
    BY <1>4 DEF SendSlice
  <2>4. QED
    BY <2>1, <2>2, <2>3, FuturesBecome
<1>5. CASE SendCompletion(l)
  <2>1. PICK new : (new = At(l, "observe") \/ new = At(l, "done")) /\ Becomes(l, new)
    BY <1>5 DEF SendCompletion
  <2>2. new.client = l.client /\ new.pos = l.pos /\ new.number = l.number
    BY <1>1, <2>1, AtIs DEF Steps
  <2>3. UNCHANGED <<handler, connected, lost, completions>> /\ l.at = "wait"
    BY <1>5 DEF SendCompletion
  <2>4. QED
    BY <2>1, <2>2, <2>3, FuturesBecome
<1>6. CASE AddChunkObserver(l)
  <2>1. PICK new : new = At(l, "erase") /\ Becomes(l, new)
    BY <1>6 DEF AddChunkObserver
  <2>2. new.client = l.client /\ new.pos = l.pos /\ new.number = l.number
    BY <1>1, <2>1, AtIs DEF Steps
  <2>3. UNCHANGED <<handler, connected, lost, completions>> /\ l.at = "observe"
    BY <1>6 DEF AddChunkObserver
  <2>4. QED
    BY <2>1, <2>2, <2>3, FuturesBecome
<1>7. CASE Erase(l)
  <2>1. PICK c \in Getter, p \in Pos : c = l.client /\ p = l.pos
    BY <1>1, LoadFields
  <2>2. /\ completions' = Cell(completions, c, p, 0) /\ loads' = loads \ {l}
        /\ UNCHANGED <<handler, connected, lost>> /\ l.at = "erase"
    BY <1>7, <2>1 DEF Erase, Null
  <2>3. /\ \A q \in Pos \ {p} : completions'[c][q] = completions[c][q]
        /\ \A d \in Getter \ {c} : completions'[d] = completions[d]
    BY <2>2, ZeroIs DEF TransferTypes
  <2>4. \A d : RunningFor(d)' = RunningFor(d) \ {l}
    BY <2>2 DEF RunningFor
  <2>5. l \in RunningFor(c)
    BY <2>1, <2>2 DEF RunningFor
  <2>6. ~lost[c] => \A k \in RunningFor(c)' : k.pos # p
    BY <2>1, <2>4, <2>5 DEF FuturesAreKept
  <2>7. \A k \in RunningFor(c)' : k.pos \in Pos
    <3>1. \A k \in loads : k.pos \in Pos
      BY LoadFields DEF TransferTypes
    <3>2. QED
      BY <2>4, <3>1 DEF RunningFor
  <2>8. ASSUME NEW d \in Getter, ~lost[d], NEW k \in RunningFor(d)'
        PROVE  completions'[d][k.pos] = k.number
    <3>1. completions[d][k.pos] = k.number
      BY <2>4, <2>8 DEF FuturesAreKept
    <3>2. d = c => k.pos \in Pos \ {p}
      BY <2>6, <2>7, <2>8
    <3>3. completions'[d][k.pos] = completions[d][k.pos]
      BY <2>3, <3>2
    <3>4. QED
      BY <3>1, <3>3
  <2>9. QED
    BY <2>2, <2>4, <2>8 DEF FuturesAreKept
<1>8. QED
  BY <1>2, <1>3, <1>4, <1>5, <1>6, <1>7 DEF LoadStep

LEMMA FuturesNext ==
  ASSUME TransferTypes, FuturesAreKept, [TransferNext]_transferVars
  PROVE  FuturesAreKept'
<1>1. ASSUME NEW c \in Getter,
             \/ Accept(c) \/ TakeTask(c) \/ GoAway(c)
             \/ \E p \in Pos :
                  Get(c, p) \/ Unload(c, p) \/ ProcessSlice(c, p) \/ ProcessCompletion(c, p)
      PROVE  FuturesAreKept'
  <2>1. UNCHANGED serverSide
    BY <1>1 DEF Accept, TakeTask, GoAway, Get, Unload, ProcessSlice, ProcessCompletion, HandOver
  <2>2. \A d \in Getter : connected'[d] => connected[d]
    BY <1>1 DEF Accept, TakeTask, GoAway, Get, Unload, ProcessSlice, ProcessCompletion, HandOver,
       TransferTypes
  <2>3. QED
    BY <2>1, <2>2, FuturesSame DEF serverSide
<1>2. ASSUME NEW c \in Getter, DestroyHandler(c) PROVE FuturesAreKept'
  <2>1. /\ ~connected[c] /\ handler[c] = "up" /\ handler' = [handler EXCEPT ![c] = "locked"]
        /\ UNCHANGED <<connected, lost, completions, loads>>
    BY <1>2 DEF DestroyHandler
  <2>2. \A d : RunningFor(d)' = RunningFor(d)
    BY <2>1 DEF RunningFor
  <2>3. \A d \in Getter : handler'[d] = handler[d] \/ (d = c /\ handler'[d] = "locked")
    BY <2>1 DEF TransferTypes
  <2>4. QED
    BY <2>1, <2>2, <2>3 DEF FuturesAreKept
<1>3. CASE UNCHANGED transferVars
  BY <1>3, FuturesSame DEF transferVars, serverSide
<1>4. QED
  BY <1>1, <1>2, <1>3, StepsAre, FuturesHandle, FuturesGone, FuturesLoad DEF ConnectionThread

-----------------------------------------------------------------------------
(* What a step does to the chunk objects and those that have them: it asks   *)
(* for one, makes one, hands one on, or only forgets some.                   *)

Ask(p, new) ==
    /\ new \in Load /\ new.pos = p /\ new.at = "queued" /\ new.chunk = Cached(p)
    /\ loads' = loads \cup {new} /\ cache' = [cache EXCEPT ![p] = Cached(p)]
    /\ twice' = (IF Cached(p) = Null /\ BeingRead(p) THEN twice \cup {p} ELSE twice)
    /\ UNCHANGED <<objects, observed>>

Make(l, new) ==
    /\ new \in Load /\ l.at = "read" /\ Becomes(l, new)
    /\ new.pos = l.pos /\ new.chunk = objects + 1 /\ new.at \in {"wait", "done"}
    /\ objects' = objects + 1 /\ cache' = [cache EXCEPT ![l.pos] = objects + 1]
    /\ UNCHANGED <<observed, twice>>

Hand(l, new) ==
    /\ new \in Load /\ l.at \notin {"done", "failed"} /\ Becomes(l, new)
    /\ new.pos = l.pos /\ new.chunk = l.chunk /\ new.at # "queued"
    /\ new.at \in {"wait", "observe", "erase"} => l.chunk # Null
    /\ new.at = "read" => l.at = "queued" /\ l.chunk = Null
    /\ UNCHANGED <<cache, objects, twice>>
    /\ \A c \in Getter, p \in Pos :
         \/ observed'[c][p] = observed[c][p]
         \/ p = l.pos /\ observed'[c][p] = l.chunk /\ l.chunk # Null

Forget ==
    /\ loads' \subseteq loads /\ UNCHANGED <<cache, objects, twice>>
    /\ \A c \in Getter, p \in Pos : observed'[c][p] \in {observed[c][p], Null}

LEMMA HandleObjects ==
  ASSUME TransferTypes, NEW c \in Getter, Handle(c)
  PROVE  Forget \/ \E p \in Pos, new \in Load : Ask(p, new)
<1>1. asked[c] # <<>> /\ UNCHANGED objects
  BY DEF Handle
<1>2. PICK p \in Pos : p = Head(asked[c]).pos
  BY <1>1, TakenIs, MessagesAre DEF TransferTypes
<1>3. CASE HandleGet(c, p) /\ UNCHANGED observed
  <2>1. CASE p \in dupes[c]
    BY <1>1, <1>3, <2>1 DEF HandleGet, Forget
  <2>2. CASE p \notin dupes[c]
    <3>1. gets[c][p] \in Nat /\ Cached(p) \in Nat
      BY CachedIs DEF TransferTypes, Number
    <3>2. PICK new : new = NewLoad(c, p, gets[c][p], Cached(p))
      OBVIOUS
    <3>3. new \in Load /\ new.pos = p /\ new.at = "queued" /\ new.chunk = Cached(p)
      BY <3>1, <3>2, NewLoadIs
    <3>4. Ask(p, new)
      BY <1>1, <1>3, <2>2, <3>2, <3>3 DEF HandleGet, Ask
    <3>5. QED
      BY <3>3, <3>4
  <2>3. QED
    BY <2>1, <2>2
<1>4. CASE observed' = Cell(observed, c, p, Null) /\ UNCHANGED <<cache, loads, twice>>
  <2>1. \A d \in Getter, q \in Pos : observed'[d][q] \in {observed[d][q], Null}
    <3>1. observed \in Number /\ Null \in Nat
      BY DEF TransferTypes, Null
    <3>2. /\ observed'[c][p] = Null /\ \A q \in Pos \ {p} : observed'[c][q] = observed[c][q]
          /\ \A d \in Getter \ {c} : observed'[d] = observed[d]
      BY <1>4, <3>1, BecomesCell
    <3>3. QED
      BY <3>2
  <2>2. QED
    BY <1>1, <1>4, <2>1 DEF Forget
<1>5. QED
  BY <1>2, <1>3, <1>4 DEF Handle

LEMMA LoadObjects ==
  ASSUME TransferTypes, ObjectsAreMine, NEW l \in loads, LoadStep(l)
  PROVE  Forget \/ \E new \in Load : Make(l, new) \/ Hand(l, new)
<1>1. l \in Load
  BY DEF TransferTypes
<1>2. CASE Begin(l)
  <2>1. PICK new : /\ new = IF connected[l.client] /\ l.chunk = Null
                              THEN At(l, "read") ELSE Sending(l)
                   /\ Becomes(l, new)
    BY <1>2 DEF Begin
  <2>2. UNCHANGED <<cache, objects, twice, observed>> /\ l.at = "queued"
    BY <1>2 DEF Begin
  <2>3. CASE connected[l.client] /\ l.chunk = Null
    <3>1. /\ new \in Load /\ new.pos = l.pos /\ new.chunk = l.chunk /\ new.at = "read"
      BY <1>1, <2>1, <2>3, AtIs DEF Steps
    <3>2. QED
      BY <2>1, <2>2, <2>3, <3>1 DEF Hand
  <2>4. CASE ~(connected[l.client] /\ l.chunk = Null)
    <3>1. /\ new \in Load /\ new.pos = l.pos /\ new.chunk = l.chunk
          /\ connected[l.client] => new.at = "wait"
          /\ ~connected[l.client] => new.at = "done"
      BY <1>1, <2>1, <2>4, SendingIs
    <3>2. QED
      BY <2>1, <2>2, <2>4, <3>1 DEF Hand
  <2>5. QED
    BY <2>3, <2>4
<1>3. CASE Read(l)
  <2>1. l.at = "read" /\ UNCHANGED <<observed, twice>>
    BY <1>3 DEF Read
  <2>2. CASE Becomes(l, At(l, "failed")) /\ UNCHANGED <<objects, cache>>
    <3>1. PICK new : new = At(l, "failed")
      OBVIOUS
    <3>2. /\ new \in Load /\ new.pos = l.pos /\ new.chunk = l.chunk /\ new.at = "failed"
      BY <1>1, <3>1, AtIs DEF Steps
    <3>3. QED
      BY <2>1, <2>2, <3>1, <3>2 DEF Hand
  <2>3. CASE /\ objects' = objects + 1 /\ cache' = [cache EXCEPT ![l.pos] = objects + 1]
             /\ Becomes(l, [Sending(l) EXCEPT !.chunk = objects + 1])
    <3>1. PICK new : new = [Sending(l) EXCEPT !.chunk = objects + 1]
      OBVIOUS
    <3>2. objects + 1 \in Nat
      BY DEF TransferTypes
    <3>3. /\ new \in Load /\ new.pos = l.pos /\ new.chunk = objects + 1
          /\ new.at \in {"wait", "done"}
      BY <1>1, <3>1, <3>2, ReadIs
    <3>4. QED
      BY <2>1, <2>3, <3>1, <3>3 DEF Make
  <2>4. QED
    BY <1>3, <2>2, <2>3 DEF Read
<1>4. CASE SendSlice(l)
  <2>1. PICK new : new = [l EXCEPT !.left = @ - 1] /\ Becomes(l, new)
    BY <1>4 DEF SendSlice
  <2>2. new \in Load /\ new.pos = l.pos /\ new.chunk = l.chunk /\ new.at = l.at
    BY <1>1, <1>4, <2>1, OneLessIs DEF SendSlice
  <2>3. UNCHANGED <<cache, objects, twice, observed>> /\ l.at = "wait" /\ l.chunk # Null
    BY <1>4 DEF SendSlice, ObjectsAreMine
  <2>4. QED
    BY <2>1, <2>2, <2>3 DEF Hand
<1>5. CASE SendCompletion(l)
  <2>1. PICK new : (new = At(l, "observe") \/ new = At(l, "done")) /\ Becomes(l, new)
    BY <1>5 DEF SendCompletion
  <2>2. /\ new \in Load /\ new.pos = l.pos /\ new.chunk = l.chunk
        /\ new.at \in {"observe", "done"}
    BY <1>1, <2>1, AtIs DEF Steps
  <2>3. UNCHANGED <<cache, objects, twice, observed>> /\ l.at = "wait" /\ l.chunk # Null
    BY <1>5 DEF SendCompletion, ObjectsAreMine
  <2>4. QED
    BY <2>1, <2>2, <2>3 DEF Hand
<1>6. CASE AddChunkObserver(l)
  <2>1. PICK new : new = At(l, "erase") /\ Becomes(l, new)
    BY <1>6 DEF AddChunkObserver
  <2>2. new \in Load /\ new.pos = l.pos /\ new.chunk = l.chunk /\ new.at = "erase"
    BY <1>1, <2>1, AtIs DEF Steps
  <2>3. UNCHANGED <<cache, objects, twice>> /\ l.at = "observe" /\ l.chunk # Null
    BY <1>6 DEF AddChunkObserver, ObjectsAreMine
  <2>4. /\ l.client \in Getter /\ l.pos \in Pos /\ l.chunk \in Nat /\ observed \in Number
        /\ observed' = observed \/ observed' = Cell(observed, l.client, l.pos, l.chunk)
    BY <1>1, <1>6, LoadFields DEF AddChunkObserver, TransferTypes
  <2>5. \A c \in Getter, p \in Pos : \/ observed'[c][p] = observed[c][p]
                                     \/ p = l.pos /\ observed'[c][p] = l.chunk
    <3>1. CASE observed' = observed
      BY <3>1
    <3>2. CASE observed' = Cell(observed, l.client, l.pos, l.chunk)
      BY <2>4, <3>2, BecomesCell
    <3>3. QED
      BY <2>4, <3>1, <3>2
  <2>6. QED
    BY <2>1, <2>2, <2>3, <2>5 DEF Hand
<1>7. CASE Erase(l)
  BY <1>7 DEF Erase, Forget
<1>8. QED
  BY <1>2, <1>3, <1>4, <1>5, <1>6, <1>7 DEF LoadStep

LEMMA ObjectsChange ==
  ASSUME TransferTypes, ObjectsAreMine, [TransferNext]_transferVars
  PROVE  \/ Forget
         \/ \E p \in Pos, new \in Load : Ask(p, new)
         \/ \E l \in loads, new \in Load : Make(l, new) \/ Hand(l, new)
<1>1. CASE UNCHANGED serverSide
  BY <1>1 DEF serverSide, Forget
<1>2. ASSUME NEW c \in Getter,
             \/ Accept(c) \/ TakeTask(c) \/ GoAway(c)
             \/ \E p \in Pos :
                  Get(c, p) \/ Unload(c, p) \/ ProcessSlice(c, p) \/ ProcessCompletion(c, p)
      PROVE  UNCHANGED serverSide
  BY <1>2 DEF Accept, TakeTask, GoAway, Get, Unload, ProcessSlice, ProcessCompletion, HandOver
<1>3. ASSUME NEW c \in Getter, DestroyHandler(c) \/ HandlerGone(c) PROVE Forget
  <2>1. /\ UNCHANGED <<loads, cache, objects, twice>>
        /\ observed' = observed \/ observed' = [observed EXCEPT ![c] = [p \in Pos |-> Null]]
    BY <1>3 DEF DestroyHandler, HandlerGone
  <2>2. \A d \in Getter, p \in Pos : observed'[d][p] \in {observed[d][p], Null}
    <3>1. CASE observed' = [observed EXCEPT ![c] = [p \in Pos |-> Null]]
      <4>1. /\ observed'[c] = [p \in Pos |-> Null]
            /\ \A d \in Getter \ {c} : observed'[d] = observed[d]
        BY <3>1 DEF TransferTypes, Number
      <4>2. QED
        BY <4>1
    <3>2. QED
      BY <2>1, <3>1
  <2>3. QED
    BY <2>1, <2>2 DEF Forget
<1>4. ASSUME NEW l \in loads, LoadStep(l)
      PROVE  Forget \/ \E new \in Load : Make(l, new) \/ Hand(l, new)
  BY <1>4, LoadObjects
<1>5. CASE UNCHANGED transferVars
  BY <1>1, <1>5 DEF transferVars
<1>6. QED
  BY <1>1, <1>2, <1>3, <1>4, <1>5, StepsAre, HandleObjects DEF ConnectionThread

-----------------------------------------------------------------------------
(* An object is of one position *)

LEMMA ObjectsInit == TransferInit => ObjectsAreMine
<1> SUFFICES ASSUME TransferInit PROVE ObjectsAreMine
  OBVIOUS
<1>1. /\ \A p \in Pos : cache[p] = 0
      /\ \A c \in Getter, p \in Pos : observed[c][p] = 0
      /\ loads = {} /\ objects = 0
  BY DEF TransferInit, Null
<1>2. \A o \in Nat, p \in Pos : IsOf(o, p) => o = 0
  BY <1>1 DEF IsOf
<1>3. QED
  BY <1>1, <1>2 DEF ObjectsAreMine, Null

(* No step that makes no object gives one to another position. *)
LEMMA NothingNew ==
  ASSUME TransferTypes, ObjectsAreMine, objects' = objects,
         \A o \in Nat, p \in Pos : IsOf(o, p)' => IsOf(o, p) \/ o = Null,
         \A l \in loads' : /\ l.at \in {"wait", "observe", "erase"} => l.chunk # Null
                           /\ l.at = "read" => l.chunk = Null
  PROVE  ObjectsAreMine'
<1>1. ASSUME NEW o \in Nat, NEW p \in Pos, IsOf(o, p)' PROVE o <= objects'
  <2>1. IsOf(o, p) => o <= objects
    BY DEF ObjectsAreMine
  <2>2. o = Null => o <= objects
    BY DEF Null, TransferTypes
  <2>3. QED
    BY <1>1, <2>1, <2>2
<1>2. ASSUME NEW o \in Nat, NEW p \in Pos, NEW q \in Pos, IsOf(o, p)', IsOf(o, q)', p # q
      PROVE  o = Null
  BY <1>2 DEF ObjectsAreMine
<1>3. QED
  BY <1>1, <1>2 DEF ObjectsAreMine

LEMMA ForgetObjects ==
  ASSUME TransferTypes, ObjectsAreMine, Forget
  PROVE  ObjectsAreMine'
<1>1. ASSUME NEW o \in Nat, NEW p \in Pos, IsOf(o, p)' PROVE IsOf(o, p) \/ o = Null
  BY <1>1 DEF IsOf, Forget
<1>2. \A l \in loads' : /\ l.at \in {"wait", "observe", "erase"} => l.chunk # Null
                        /\ l.at = "read" => l.chunk = Null
  BY DEF Forget, ObjectsAreMine
<1>3. QED
  BY <1>1, <1>2, NothingNew DEF Forget

LEMMA HandObjects ==
  ASSUME TransferTypes, ObjectsAreMine, NEW l \in loads, NEW new, Hand(l, new)
  PROVE  ObjectsAreMine'
<1>1. /\ loads' = (loads \ {l}) \cup {new} /\ new.pos = l.pos /\ new.chunk = l.chunk
      /\ UNCHANGED <<cache, objects>>
      /\ new.at \in {"wait", "observe", "erase"} => l.chunk # Null
      /\ new.at = "read" => l.chunk = Null
      /\ \A c \in Getter, p \in Pos :
           observed'[c][p] = observed[c][p] \/ (p = l.pos /\ observed'[c][p] = l.chunk)
  BY DEF Hand, Becomes
<1>2. ASSUME NEW o \in Nat, NEW p \in Pos, IsOf(o, p)' PROVE IsOf(o, p) \/ o = Null
  <2>1. CASE cache'[p] = o
    BY <1>1, <2>1 DEF IsOf
  <2>2. CASE \E k \in loads' : k.pos = p /\ k.chunk = o
    BY <1>1, <2>2 DEF IsOf
  <2>3. CASE \E c \in Getter : observed'[c][p] = o
    BY <1>1, <2>3 DEF IsOf
  <2>4. QED
    BY <1>2, <2>1, <2>2, <2>3 DEF IsOf
<1>3. \A k \in loads' : /\ k.at \in {"wait", "observe", "erase"} => k.chunk # Null
                        /\ k.at = "read" => k.chunk = Null
  BY <1>1 DEF ObjectsAreMine
<1>4. QED
  BY <1>1, <1>2, <1>3, NothingNew

LEMMA AskObjects ==
  ASSUME TransferTypes, ObjectsAreMine, NEW p \in Pos, NEW new, Ask(p, new)
  PROVE  ObjectsAreMine'
<1>1. /\ loads' = loads \cup {new} /\ new.pos = p /\ new.chunk = Cached(p) /\ new.at = "queued"
      /\ cache' = [cache EXCEPT ![p] = Cached(p)] /\ UNCHANGED <<objects, observed>>
  BY DEF Ask
<1>2. Cached(p) \in {cache[p], Null}
  BY DEF Cached
<1>3. cache'[p] = Cached(p) /\ \A q \in Pos \ {p} : cache'[q] = cache[q]
  BY <1>1 DEF TransferTypes
<1>4. ASSUME NEW o \in Nat, NEW q \in Pos, IsOf(o, q)' PROVE IsOf(o, q) \/ o = Null
  <2>1. CASE cache'[q] = o
    BY <1>2, <1>3, <2>1 DEF IsOf
  <2>2. CASE \E k \in loads' : k.pos = q /\ k.chunk = o
    BY <1>1, <1>2, <2>2 DEF IsOf
  <2>3. CASE \E c \in Getter : observed'[c][q] = o
    BY <1>1, <2>3 DEF IsOf
  <2>4. QED
    BY <1>4, <2>1, <2>2, <2>3 DEF IsOf
<1>5. \A k \in loads' : /\ k.at \in {"wait", "observe", "erase"} => k.chunk # Null
                        /\ k.at = "read" => k.chunk = Null
  BY <1>1 DEF ObjectsAreMine
<1>6. QED
  BY <1>1, <1>4, <1>5, NothingNew

LEMMA MakeObjects ==
  ASSUME TransferTypes, ObjectsAreMine, NEW l \in loads, NEW new, Make(l, new)
  PROVE  ObjectsAreMine'
<1>1. /\ loads' = (loads \ {l}) \cup {new} /\ new.pos = l.pos /\ new.chunk = objects + 1
      /\ new.at \in {"wait", "done"} /\ objects' = objects + 1 /\ observed' = observed
      /\ cache' = [cache EXCEPT ![l.pos] = objects + 1]
  BY DEF Make, Becomes
<1>2. objects \in Nat /\ l.pos \in Pos
  BY LoadFields DEF TransferTypes
<1>3. cache'[l.pos] = objects + 1 /\ \A q \in Pos \ {l.pos} : cache'[q] = cache[q]
  BY <1>1, <1>2 DEF TransferTypes
<1>4. ASSUME NEW o \in Nat, NEW q \in Pos, IsOf(o, q)'
      PROVE  IsOf(o, q) \/ (o = objects + 1 /\ q = l.pos)
  <2>1. CASE cache'[q] = o
    BY <1>3, <2>1 DEF IsOf
  <2>2. CASE \E k \in loads' : k.pos = q /\ k.chunk = o
    BY <1>1, <2>2 DEF IsOf
  <2>3. CASE \E c \in Getter : observed'[c][q] = o
    BY <1>1, <2>3 DEF IsOf
  <2>4. QED
    BY <1>4, <2>1, <2>2, <2>3 DEF IsOf
<1>5. \A o \in Nat, q \in Pos : IsOf(o, q) => o <= objects
  BY DEF ObjectsAreMine
<1>6. \A o \in Nat, q \in Pos : IsOf(o, q)' => o <= objects'
  BY <1>1, <1>2, <1>4, <1>5
<1>7. \A q \in Pos : ~IsOf(objects + 1, q)
  BY <1>2, <1>5
<1>8. ASSUME NEW o \in Nat, NEW p \in Pos, NEW q \in Pos, IsOf(o, p)', IsOf(o, q)', p # q
      PROVE  o = Null
  <2>1. IsOf(o, p) /\ IsOf(o, q)
    BY <1>4, <1>7, <1>8
  <2>2. QED
    BY <1>8, <2>1 DEF ObjectsAreMine
<1>9. objects + 1 # Null
  BY <1>2 DEF Null
<1>10. \A k \in loads' : /\ k.at \in {"wait", "observe", "erase"} => k.chunk # Null
                         /\ k.at = "read" => k.chunk = Null
  BY <1>1, <1>9 DEF ObjectsAreMine
<1>11. QED
  BY <1>6, <1>8, <1>10 DEF ObjectsAreMine

LEMMA ObjectsNext ==
  ASSUME TransferTypes, ObjectsAreMine, [TransferNext]_transferVars
  PROVE  ObjectsAreMine'
  BY ObjectsChange, ForgetObjects, AskObjects, MakeObjects, HandObjects

-----------------------------------------------------------------------------
(* The cache has the object of a position *)

LEMMA CacheInit == TransferInit => CacheHasObject
<1> SUFFICES ASSUME TransferInit, NEW p \in Pos PROVE OnlyCached(p)
  BY DEF CacheHasObject
<1>1. /\ \A c \in Getter : observed[c][p] = Null
      /\ loads = {}
  BY DEF TransferInit, Null
<1>2. Living(p) = {} /\ Reading(p) = {}
  BY <1>1 DEF Living, Reading
<1>3. QED
  BY <1>1, <1>2 DEF OnlyCached

LEMMA ForgetCache ==
  ASSUME CacheHasObject, Forget
  PROVE  CacheHasObject'
<1> SUFFICES ASSUME NEW p \in Pos, p \notin twice PROVE OnlyCached(p)'
  BY DEF CacheHasObject, Forget
<1>1. OnlyCached(p)
  BY DEF CacheHasObject
<1>2. /\ cache'[p] = cache[p] /\ \A c \in Getter : observed'[c][p] \in {observed[c][p], Null}
      /\ Living(p)' \subseteq Living(p) /\ Reading(p)' \subseteq Reading(p)
  BY DEF Forget, Living, Reading
<1>3. QED
  BY <1>1, <1>2 DEF OnlyCached

(* What is alive at a position is the cache's, so none is about to be read. *)
LEMMA NoneRead ==
  ASSUME NEW p, OnlyCached(p),
         \/ \E l \in Living(p) : l.chunk # Null
         \/ \E c \in Getter : observed[c][p] # Null
  PROVE  Reading(p) = {}
  BY DEF OnlyCached

LEMMA HandCache ==
  ASSUME TransferTypes, CacheHasObject, NEW l \in loads, NEW new, Hand(l, new)
  PROVE  CacheHasObject'
<1> SUFFICES ASSUME NEW p \in Pos, p \notin twice PROVE OnlyCached(p)'
  BY DEF CacheHasObject, Hand
<1>1. /\ loads' = (loads \ {l}) \cup {new} /\ new.pos = l.pos /\ new.chunk = l.chunk
      /\ cache' = cache /\ l.at \notin {"done", "failed"} /\ new.at # "queued"
      /\ new.at = "read" => l.at = "queued" /\ l.chunk = Null
      /\ \A c \in Getter : \/ observed'[c][p] = observed[c][p]
                           \/ p = l.pos /\ observed'[c][p] = l.chunk /\ l.chunk # Null
  BY DEF Hand, Becomes
<1>2. OnlyCached(p)
  BY DEF CacheHasObject
<1>3. CASE p # l.pos
  <2>1. Living(p)' = Living(p) /\ Reading(p)' = Reading(p)
    BY <1>1, <1>3 DEF Living, Reading
  <2>2. QED
    BY <1>1, <1>2, <1>3, <2>1 DEF OnlyCached
<1>4. CASE p = l.pos
  <2>1. l \in Living(p) /\ l.chunk \in {Null, cache[p]}
    BY <1>1, <1>2, <1>4 DEF Living, OnlyCached
  <2>2. /\ Living(p)' \subseteq Living(p) \cup {new}
        /\ \A k \in Reading(p)' : \/ k \in Reading(p) /\ k # l
                                  \/ k = new /\ l \in Reading(p)
    BY <1>1, <1>4 DEF Living, Reading
  <2>3. \A k \in Living(p)' : k.chunk \in {Null, cache'[p]}
    BY <1>1, <1>2, <2>1, <2>2 DEF OnlyCached
  <2>4. \A c \in Getter : observed'[c][p] \in {Null, cache'[p]}
    BY <1>1, <1>2, <2>1 DEF OnlyCached
  <2>5. ASSUME NEW k \in Reading(p)'
        PROVE  /\ \A j \in Reading(p)' : j = k
               /\ \A j \in Living(p)' : j.chunk = Null
               /\ \A c \in Getter : observed'[c][p] = Null
    <3>1. PICK i \in Reading(p) : TRUE
      BY <2>2
    <3>2. /\ \A j \in Reading(p) : j = i
          /\ \A j \in Living(p) : j.chunk = Null
          /\ \A c \in Getter : observed[c][p] = Null
      BY <1>2, <3>1 DEF OnlyCached
    <3>3. l.chunk = Null
      BY <2>1, <3>2
    <3>4. \A j \in Reading(p)' : j = k
      BY <2>2, <3>2
    <3>5. QED
      BY <1>1, <2>2, <3>2, <3>3, <3>4
  <2>6. QED
    BY <2>3, <2>4, <2>5 DEF OnlyCached
<1>5. QED
  BY <1>3, <1>4

LEMMA MakeCache ==
  ASSUME TransferTypes, ObjectsAreMine, CacheHasObject, NEW l \in loads, NEW new, Make(l, new)
  PROVE  CacheHasObject'
<1> SUFFICES ASSUME NEW p \in Pos, p \notin twice PROVE OnlyCached(p)'
  BY DEF CacheHasObject, Make
<1>1. /\ loads' = (loads \ {l}) \cup {new} /\ new.pos = l.pos /\ new.chunk = objects + 1
      /\ new.at \in {"wait", "done"} /\ observed' = observed /\ l.at = "read"
      /\ cache' = [cache EXCEPT ![l.pos] = objects + 1]
  BY DEF Make, Becomes
<1>2. OnlyCached(p) /\ l.pos \in Pos
  BY LoadFields DEF CacheHasObject, TransferTypes
<1>3. cache'[l.pos] = objects + 1 /\ \A q \in Pos \ {l.pos} : cache'[q] = cache[q]
  BY <1>1, <1>2 DEF TransferTypes
<1>4. CASE p # l.pos
  <2>1. Living(p)' = Living(p) /\ Reading(p)' = Reading(p)
    BY <1>1, <1>4 DEF Living, Reading
  <2>2. QED
    BY <1>1, <1>2, <1>3, <1>4, <2>1 DEF OnlyCached
<1>5. CASE p = l.pos
  <2>1. l \in Reading(p)
    BY <1>1, <1>5 DEF Reading, ObjectsAreMine
  <2>2. /\ \A k \in Reading(p) : k = l
        /\ \A k \in Living(p) : k.chunk = Null
        /\ \A c \in Getter : observed[c][p] = Null
    BY <1>2, <2>1 DEF OnlyCached
  <2>3. Living(p)' \subseteq Living(p) \cup {new} /\ Reading(p)' \subseteq Reading(p) \ {l}
    BY <1>1, <1>5 DEF Living, Reading
  <2>4. QED
    BY <1>1, <1>3, <1>5, <2>2, <2>3 DEF OnlyCached
<1>6. QED
  BY <1>4, <1>5

(* A living object of a position is known to the cache as long as it lives. *)
LEMMA CachedFinds ==
  ASSUME TransferTypes, ObjectsAreMine, NEW p \in Pos, OnlyCached(p)
  PROVE  /\ Cached(p) # Null => Cached(p) = cache[p] /\ Reading(p) = {}
         /\ Cached(p) = Null => /\ \A l \in Living(p) : l.chunk = Null
                                /\ \A c \in Getter : observed[c][p] = Null
<1>1. ASSUME Cached(p) # Null PROVE Cached(p) = cache[p] /\ Reading(p) = {}
  <2>1. Cached(p) = cache[p] /\ cache[p] # Null /\ Alive(cache[p])
    BY <1>1 DEF Cached
  <2>2. cache[p] \in Nat /\ IsOf(cache[p], p)
    BY DEF TransferTypes, IsOf
  <2>3. \A q \in Pos : IsOf(cache[p], q) => q = p
    BY <2>1, <2>2 DEF ObjectsAreMine
  <2>4. CASE \E l \in loads : l.chunk = cache[p] /\ l.at \notin {"done", "failed"}
    <3>1. PICK l \in loads : l.chunk = cache[p] /\ l.at \notin {"done", "failed"}
      BY <2>4
    <3>2. l.pos \in Pos
      BY LoadFields DEF TransferTypes
    <3>3. l.pos = p
      BY <2>3, <3>1, <3>2 DEF IsOf
    <3>4. l \in Living(p) /\ l.chunk # Null
      BY <2>1, <3>1, <3>3 DEF Living
    <3>5. QED
      BY <2>1, <3>4, NoneRead
  <2>5. CASE \E c \in Getter, q \in Pos : observed[c][q] = cache[p]
    <3>1. PICK c \in Getter, q \in Pos : observed[c][q] = cache[p]
      BY <2>5
    <3>2. q = p
      BY <2>3, <3>1 DEF IsOf
    <3>3. QED
      BY <2>1, <3>1, <3>2, NoneRead
  <2>6. QED
    BY <2>1, <2>4, <2>5 DEF Alive
<1>2. ASSUME Cached(p) = Null
      PROVE  /\ \A l \in Living(p) : l.chunk = Null
             /\ \A c \in Getter : observed[c][p] = Null
  <2>1. cache[p] = Null \/ ~Alive(cache[p])
    BY <1>2 DEF Cached
  <2>2. \A l \in Living(p) : l.chunk = Null
    BY <2>1 DEF OnlyCached, Living, Alive
  <2>3. \A c \in Getter : observed[c][p] = Null
    BY <2>1 DEF OnlyCached, Alive
  <2>4. QED
    BY <2>2, <2>3
<1>3. QED
  BY <1>1, <1>2

LEMMA AskCache ==
  ASSUME TransferTypes, ObjectsAreMine, CacheHasObject, NEW p \in Pos, NEW new, Ask(p, new)
  PROVE  CacheHasObject'
<1>1. /\ loads' = loads \cup {new} /\ new.pos = p /\ new.chunk = Cached(p) /\ new.at = "queued"
      /\ cache' = [cache EXCEPT ![p] = Cached(p)] /\ observed' = observed
      /\ twice \subseteq twice'
      /\ p \notin twice' => Cached(p) # Null \/ ~BeingRead(p)
  BY DEF Ask
<1>2. cache'[p] = Cached(p) /\ \A q \in Pos \ {p} : cache'[q] = cache[q]
  BY <1>1 DEF TransferTypes
<1>3. ASSUME NEW q \in Pos, q \notin twice' PROVE OnlyCached(q)'
  <2>1. OnlyCached(q)
    BY <1>1, <1>3 DEF CacheHasObject
  <2>2. CASE q # p
    <3>1. Living(q)' = Living(q) /\ Reading(q)' = Reading(q)
      BY <1>1, <2>2 DEF Living, Reading
    <3>2. QED
      BY <1>1, <1>2, <2>1, <2>2, <3>1 DEF OnlyCached
  <2>3. CASE q = p /\ Cached(p) # Null
    <3>1. Cached(p) = cache[p] /\ Reading(p) = {}
      BY <2>1, <2>3, CachedFinds
    <3>2. Living(p)' \subseteq Living(p) \cup {new} /\ Reading(p)' = {}
      BY <1>1, <2>3, <3>1 DEF Living, Reading
    <3>3. QED
      BY <1>1, <1>2, <2>1, <2>3, <3>1, <3>2 DEF OnlyCached
  <2>4. CASE q = p /\ Cached(p) = Null
    <3>1. /\ \A l \in Living(p) : l.chunk = Null
          /\ \A c \in Getter : observed[c][p] = Null
      BY <2>1, <2>4, CachedFinds
    <3>2. Reading(p) = {}
      BY <1>1, <1>3, <2>4 DEF BeingRead, Reading
    <3>3. Living(p)' \subseteq Living(p) \cup {new} /\ Reading(p)' \subseteq {new}
      BY <1>1, <3>2 DEF Living, Reading
    <3>4. QED
      BY <1>1, <1>2, <2>4, <3>1, <3>3 DEF OnlyCached
  <2>5. QED
    BY <2>2, <2>3, <2>4
<1>4. QED
  BY <1>3 DEF CacheHasObject

LEMMA CacheNext ==
  ASSUME TransferTypes, ObjectsAreMine, CacheHasObject, [TransferNext]_transferVars
  PROVE  CacheHasObject'
  BY ObjectsChange, ForgetCache, AskCache, MakeCache, HandCache

-----------------------------------------------------------------------------
(* The invariant holds and says what the runs check *)

LEMMA IInvInit == TransferInit => TransferIInv
<1> SUFFICES ASSUME TransferInit PROVE TransferIInv
  OBVIOUS
<1>1. \A c \in Getter, p \in Pos : gets[c][p] = 0 /\ completions[c][p] = 0 /\ have[c][p] = 0
  BY DEF TransferInit
<1>2. \A c \in Getter : MaxGets[c] \in Nat
  BY TransferAssumption
<1>3. RequestsAreCounted /\ WholeChunksOnly
  BY <1>1, <1>2 DEF RequestsAreCounted, WholeChunksOnly
<1>4. QED
  BY <1>3, TypesInit, GoesInit, FuturesInit, ObjectsInit, CacheInit DEF TransferIInv

LEMMA IInvNext == TransferIInv /\ [TransferNext]_transferVars => TransferIInv'
  BY TypesNext, GoesNext, CountedNext, FuturesNext, ObjectsNext, CacheNext, WholeNext
     DEF TransferIInv

(* No more slices are under way than the chunk has. *)
LEMMA SlicesBounded ==
  ASSUME TransferIInv, NEW c \in Getter, NEW p \in Pos
  PROVE  slicesBusy[c][p] <= Slices[p]
<1>1. /\ TransferTypes /\ RequestsGoThrough /\ GoesThrough(c)
      /\ Slices[p] \in Nat /\ slicesBusy[c][p] \in Nat /\ counts[c][p] \in Nat
  BY TransferAssumption DEF TransferIInv, RequestsGoThrough, TransferTypes, Number
<1>2. slicesBusy[c][p] <= InFlight(c, p) /\ InFlight(c, p) \in Nat
  <2>1. /\ Count(tasks[c], Part("slice", p)) \in Nat
        /\ Count(toGetter[c], Part("slice", p)) \in Nat
    BY <1>1, NumbersAre
  <2>2. QED
    BY <1>1, <2>1 DEF InFlight
<1>3. CASE connected[c]
  <2>1. OnePerPosition(c, p)
    BY <1>1, <1>3 DEF GoesThrough
  <2>2. CASE InFlight(c, p) = 0
    BY <1>1, <1>2, <2>2
  <2>3. CASE IsLoaded(c, p) /\ InFlight(c, p) # 0
    <3>1. PICK l \in loads : InFlight(c, p) + counts[c][p] + l.left = Slices[p]
      BY <2>3 DEF IsLoaded
    <3>2. l.left \in Nat
      BY <1>1, LoadFields DEF TransferTypes
    <3>3. QED
      BY <1>1, <1>2, <3>1, <3>2
  <2>4. CASE IsComplete(c, p)
    <3>1. InFlight(c, p) + counts[c][p] = Slices[p]
      BY <2>4 DEF IsComplete
    <3>2. QED
      BY <1>1, <1>2, <3>1
  <2>5. QED
    BY <2>1, <2>2, <2>3, <2>4 DEF OnePerPosition, IsAsked, IsLeft
<1>4. CASE ~connected[c]
  BY <1>1, <1>4 DEF GoesThrough, HasNothing
<1>5. QED
  BY <1>3, <1>4

LEMMA TypeOKFollows == TransferIInv => TransferTypeOK
<1> SUFFICES ASSUME TransferIInv PROVE TransferTypeOK
  OBVIOUS
<1>1. TransferTypes /\ RequestsGoThrough /\ RequestsAreCounted /\ ObjectsAreMine
  BY DEF TransferIInv
<1>2. ASSUME NEW c \in Getter
      PROVE  /\ promised[c] \subseteq Pos /\ dupes[c] \subseteq Pos
             /\ completionsBusy[c] \subseteq Pos /\ handler[c] \in {"up", "locked", "freed"}
  BY <1>1 DEF TransferTypes
<1>3. ASSUME NEW c \in Getter PROVE ToSet(tasks[c]) \subseteq Message
  <2>1. tasks[c] \in Seq(Reply)
    BY <1>1 DEF TransferTypes
  <2>2. \A i \in DOMAIN tasks[c] : tasks[c][i] \in Reply
    BY <2>1
  <2>3. QED
    BY <2>2 DEF ToSet, Reply
<1>4. ASSUME NEW c \in Getter, NEW p \in promised[c] PROVE have[c][p] = 0
  <2>1. p \in Pos /\ GoesThrough(c)
    BY <1>1, <1>2, <1>4 DEF RequestsGoThrough
  <2>2. QED
    BY <1>4, <2>1 DEF GoesThrough, OnePerPosition, HasNothing
<1>5. ASSUME NEW c \in Getter, NEW p \in Pos PROVE completions[c][p] \in 0..MaxGets[c]
  <2>1. completions[c][p] \in Nat /\ completions[c][p] <= MaxGets[c] /\ MaxGets[c] \in Nat
    BY <1>1, TransferAssumption DEF TransferTypes, Number, RequestsAreCounted
  <2>2. QED
    BY <2>1
<1>6. ASSUME NEW p \in Pos PROVE cache[p] \in 0..objects
  <2>1. cache[p] \in Nat /\ objects \in Nat /\ IsOf(cache[p], p)
    BY <1>1 DEF TransferTypes, IsOf
  <2>2. QED
    BY <1>1, <2>1 DEF ObjectsAreMine
<1>7. QED
  BY <1>1, <1>2, <1>3, <1>4, <1>5, <1>6, SlicesBounded DEF TransferTypeOK, TransferTypes

LEMMA OneFollows == TransferIInv => OneObject
<1> SUFFICES ASSUME TransferIInv, NEW p \in Pos \ twice
             PROVE  Cardinality({observed[c][p] : c \in Getter} \ {Null}) <= 1
  BY DEF OneObject
<1> DEFINE S == {observed[c][p] : c \in Getter} \ {Null}
<1>1. S \subseteq {cache[p]}
  BY DEF TransferIInv, CacheHasObject, OnlyCached
<1>2. IsFiniteSet({cache[p]}) /\ Cardinality({cache[p]}) = 1
  BY FS_Singleton
<1>3. Cardinality(S) <= Cardinality({cache[p]})
  BY <1>1, <1>2, FS_Subset
<1>4. QED
  BY <1>2, <1>3

LEMMA TransferInvFollows == TransferIInv => TransferInv
<1> SUFFICES ASSUME TransferIInv PROVE TransferInv
  OBVIOUS
<1>1. NoTaskOutlivesHandler
  BY DEF TransferIInv, FuturesAreKept, RunningFor, NoTaskOutlivesHandler
<1>2. QED
  BY <1>1, TypeOKFollows, OneFollows DEF TransferInv, TransferIInv

(* However the threads of the clients' pools and of the server's interleave   *)
(* and whichever clients leave on the way, a chunk is handed over with every  *)
(* slice that the server has of it; no task of the server's pool uses a       *)
(* handler that was destroyed, unless the future of a task was replaced; and  *)
(* clients that observe a position observe one object, unless two tasks read  *)
(* it at once.  For every number of clients, positions, slices, requests and  *)
(* threads.                                                                   *)
THEOREM TransferSafe == TransferSpec => []TransferInv
<1>1. TransferInit => TransferIInv
  BY IInvInit
<1>2. TransferIInv /\ [TransferNext]_transferVars => TransferIInv'
  BY IInvNext
<1>3. TransferIInv => TransferInv
  BY TransferInvFollows
<1>4. QED
  BY <1>1, <1>2, <1>3, PTL DEF TransferSpec
=============================================================================
