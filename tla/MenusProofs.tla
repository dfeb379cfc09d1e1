---------------------------- MODULE MenusProofs ----------------------------
(***************************************************************************)
(* What a player goes through around a world, for any number of worlds,    *)
(* players and visits and for any bounds: the theorems say of joining a    *)
(* server, of choosing a world on the title screen, and of the window with *)
(* its menus what the run Menus checks on small instances.                 *)
(***************************************************************************)
EXTENDS Joining, Worlds, Screens, FiniteSetTheorems, SequenceTheorems, WellFoundedInduction,
        TLAPS

-----------------------------------------------------------------------------
(* The dialog for servers.  The inductive invariant: as long as no keys were *)
(* made in haste there is one registration at most, and none where keys are  *)
(* stored; as long as no request was overtaken the worker has no host but    *)
(* the one in the modal.                                                     *)

JoiningShape ==
    /\ {isConnecting, modalOpen, overtaken, hurried} \subseteq BOOLEAN
    /\ selector = "none" => joiner = "none"
    /\ joiner \in {"dial", "auth", "made"} => workHost \in Host
    /\ joiner = "made" => connectedWorld \in Host

OneRegistration ==
    ~hurried =>
        /\ stored # 0 => stored = service /\ joiner \notin {"register", "save"}
        /\ stored # 0 \/ joiner \in {"register", "save"} =>
                \A i \in DOMAIN pending : pending[i] # "register"
        /\ joiner = "save" => authKeys \in {0, service}
        /\ \A i, j \in DOMAIN pending :
                pending[i] = "register" /\ pending[j] = "register" => i = j

OneHost ==
    ~overtaken =>
        /\ stageOf = connHost /\ workHost \in {connHost, Nobody}
        /\ \A i \in DOMAIN pending : pending[i] \in Host => pending[i] = connHost

JoiningIInv ==
    JoiningTypeOK /\ JoiningShape /\ SelectedExists /\ OneRegistration /\ OneHost

LEMMA JoiningConstants ==
    /\ MaxKeys \in Nat /\ 1 \in 0..MaxKeys /\ 0 \in 0..MaxKeys /\ MaxConnects \in Nat
    /\ IsFiniteSet(Host) /\ Nobody \notin Host /\ "register" \notin Host /\ "stop" \notin Host
  BY JoiningAssumption

AuthOK ==
    /\ authKeys \in 0..MaxKeys /\ signer \in 0..MaxKeys /\ stored \in 0..MaxKeys
    /\ service \in 0..MaxKeys /\ made \in 0..MaxKeys /\ closeRegisterModal \in 0..2
    /\ hurried \in BOOLEAN

Joiners == {"none", "idle", "register", "save", "dial", "auth", "made", "undefined"}
WorkOK ==
    /\ selector \in {"none", "up", "closing"} /\ joiner \in Joiners
    /\ pending \in Seq(WorkItem) /\ workHost \in Host \cup {Nobody}
    /\ selector = "none" => joiner = "none"
    /\ joiner \in {"dial", "auth", "made"} => workHost \in Host

Stages == {"Idle", "Dialing", "Authenticating", "LoadingChunks", "Connected", "Error"}
ConnOK ==
    /\ connStage \in Stages /\ connHost \in Host \cup {Nobody} /\ stageOf \in Host \cup {Nobody}
    /\ isConnecting \in BOOLEAN /\ modalOpen \in BOOLEAN /\ overtaken \in BOOLEAN
    /\ modalOpen => isConnecting

OpenOK ==
    /\ wantsOpenWorld => connectedWorld \in Host
    /\ joiner = "made" => connectedWorld \in Host

HostsOK == servers \in Seq(Host) /\ selectedServer \in Nat /\ SelectedExists

JoiningOK == AuthOK /\ WorkOK /\ ConnOK /\ OpenOK /\ HostsOK

LEMMA JoiningTypesAre == JoiningTypeOK /\ JoiningShape /\ SelectedExists <=> JoiningOK
  BY DEF JoiningTypeOK, JoiningShape, JoiningOK, AuthOK, WorkOK, ConnOK, OpenOK, HostsOK,
     Joiners, Stages

-----------------------------------------------------------------------------
(* The queue of the worker *)

LEMMA AppendedIs ==
    ASSUME NEW S, NEW q \in Seq(S), NEW x \in S
    PROVE  /\ Append(q, x) \in Seq(S) /\ DOMAIN Append(q, x) = 1..(Len(q) + 1)
           /\ Len(q) \in Nat /\ DOMAIN q = 1..Len(q)
           /\ Append(q, x)[Len(q) + 1] = x
           /\ \A i \in DOMAIN q : Append(q, x)[i] = q[i] /\ i \in DOMAIN Append(q, x)
           /\ \A i \in DOMAIN Append(q, x) : i = Len(q) + 1 \/ i \in DOMAIN q
  OBVIOUS

LEMMA TailIs ==
    ASSUME NEW S, NEW q \in Seq(S), q # <<>>
    PROVE  /\ Tail(q) \in Seq(S) /\ Head(q) \in S /\ Head(q) = q[1] /\ 1 \in DOMAIN q
           /\ DOMAIN Tail(q) = 1..(Len(q) - 1)
           /\ \A i \in DOMAIN Tail(q) : i + 1 \in DOMAIN q /\ i # 0 /\ Tail(q)[i] = q[i + 1]
  OBVIOUS

LEMMA IdleIs == Idle \in {"none", "idle"}
  BY DEF Idle

LEMMA TakenIs ==
    ASSUME WorkOK, TakeWork
    PROVE  /\ joiner = "idle" /\ pending # <<>> /\ pending' = Tail(pending)
           /\ \/ /\ Head(pending) = "stop" /\ joiner' \in {"none", "idle"}
                 /\ workHost' = Nobody
              \/ /\ Head(pending) = "register" /\ joiner' = "register" /\ workHost' = Nobody
              \/ Head(pending) \in Host /\ joiner' = "dial" /\ workHost' = Head(pending)
<1>1. /\ joiner = "idle" /\ pending # <<>> /\ pending' = Tail(pending)
      /\ joiner' = CASE Head(pending) = "stop" -> Idle
                     [] Head(pending) = "register" -> "register"
                     [] OTHER -> "dial"
      /\ workHost' = IF Head(pending) \in Host THEN Head(pending) ELSE Nobody
  BY DEF TakeWork
<1>2. Head(pending) \in WorkItem
  BY <1>1, TailIs DEF WorkOK
<1>3. CASE Head(pending) = "stop"
  BY <1>1, <1>3, IdleIs, JoiningConstants
<1>4. CASE Head(pending) = "register"
  BY <1>1, <1>4, JoiningConstants
<1>5. CASE Head(pending) \in Host
  BY <1>1, <1>5, JoiningConstants
<1>6. QED
  BY <1>2, <1>3, <1>4, <1>5 DEF WorkItem

(* Connect: a request for a host of the list. *)
LEMMA ConnectIs ==
    ASSUME HostsOK, NEW i \in DOMAIN servers, NEW inTable \in BOOLEAN, Connect(i, inTable)
    PROVE  \E h \in Host :
              /\ selector = "up" /\ pending' = Append(pending, h) /\ connHost' = h /\ stageOf' = h
              /\ connStage' = "Dialing" /\ isConnecting' = TRUE /\ modalOpen' = ~inTable
              /\ overtaken' = (overtaken \/ Busy)
              /\ servers' \in Seq(Host) /\ Len(servers') = Len(servers)
              /\ UNCHANGED <<authVars, selector, formVars, joiner, workHost, openVars,
                             selectedServer, picked>>
<1> DEFINE h == servers[i]
           a == SubSeq(servers, 1, i - 1)
           b == SubSeq(servers, i + 1, Len(servers))
<1>1. servers \in Seq(Host) /\ h \in Host /\ Len(servers) \in Nat /\ i \in 1..Len(servers)
  BY DEF HostsOK
<1>2. a \in Seq(Host) /\ Len(a) = i - 1 /\ b \in Seq(Host) /\ Len(b) = Len(servers) - i
  BY <1>1
<1> HIDE DEF a, b
<1>3. a \o b \in Seq(Host) /\ Len(a \o b) = Len(servers) - 1
  BY <1>1, <1>2
<1>4. RemoveAt(servers, i) = a \o b
  BY DEF RemoveAt, a, b
<1>5. servers' = <<h>> \o RemoveAt(servers, i)
  BY DEF Connect
<1> DEFINE r == RemoveAt(servers, i)
<1>6. r \in Seq(Host) /\ Len(r) = Len(servers) - 1
  BY <1>3, <1>4
<1> HIDE DEF r
<1>7. <<h>> \o r \in Seq(Host) /\ Len(<<h>> \o r) = Len(servers)
  BY <1>1, <1>6
<1>8. servers' \in Seq(Host) /\ Len(servers') = Len(servers)
  BY <1>5, <1>7 DEF r
<1>9. QED
  BY <1>1, <1>8 DEF Connect, ListUsable
-----------------------------------------------------------------------------
(* The types, in every step *)

Connects == ConnectSelected \/ \E i \in DOMAIN servers : DoubleClick(i)

LEMMA ConnectsAre ==
    ASSUME HostsOK, Connects
    PROVE  \E i \in DOMAIN servers, inTable \in BOOLEAN : Connect(i, inTable)
<1>1. CASE ConnectSelected
  <2>1. selectedServer \in DOMAIN servers
    BY <1>1 DEF ConnectSelected, HostsOK, SelectedExists
  <2>2. QED
    BY <1>1, <2>1 DEF ConnectSelected
<1>2. CASE \E i \in DOMAIN servers : DoubleClick(i)
  BY <1>2 DEF DoubleClick
<1>3. QED
  BY <1>1, <1>2 DEF Connects

LEMMA NextIs ==
    ASSUME JoiningNext
    PROVE  \/ MultiPlayer \/ GenerateKeys \/ GenerateUnnamed \/ CancelKeys \/ DrawKeypairModal
           \/ DismissError \/ CloseList \/ RemoveServer \/ Connects \/ CloseConnecting
           \/ SelectorFrame \/ BeginClose \/ JoinWorker
           \/ (\E i \in DOMAIN servers : SelectServer(i))
           \/ (\E h \in Host : AddServer(h))
           \/ TakeWork \/ RegisterKey \/ SaveKeys \/ ConnectFails \/ Dialled \/ SourceMade
           \/ WantOpen \/ Restart
  BY DEF JoiningNext, DialogSteps, WorkerSteps, Connects

LEMMA AuthKept == ASSUME JoiningOK, JoiningNext PROVE AuthOK'
<1>0. /\ authKeys \in 0..MaxKeys /\ signer \in 0..MaxKeys /\ stored \in 0..MaxKeys
      /\ service \in 0..MaxKeys /\ made \in 0..MaxKeys /\ closeRegisterModal \in 0..2
      /\ hurried \in BOOLEAN /\ MaxKeys \in Nat /\ 0 \in 0..MaxKeys /\ 0 \in 0..2 /\ 1 \in 0..2
      /\ 2 \in 0..2
  BY JoiningConstants DEF JoiningOK, AuthOK
<1>1. CASE \/ MultiPlayer \/ GenerateUnnamed \/ CancelKeys \/ DismissError
  <2>1. UNCHANGED <<authVars, hurried>> /\ closeRegisterModal' = 0
    BY <1>1 DEF MultiPlayer, GenerateUnnamed, CancelKeys, DismissError
  <2>2. QED
    BY <1>0, <2>1 DEF AuthOK, authVars
<1>2. CASE GenerateKeys
  <2>1. /\ made < MaxKeys /\ made' = made + 1 /\ authKeys' = made + 1
        /\ signer' \in {made + 1, signer} /\ UNCHANGED <<stored, service, closeRegisterModal>>
        /\ hurried' = (hurried \/ stored # 0 \/ joiner \in {"register", "save"}
                         \/ Contains(pending, "register"))
    BY <1>2 DEF GenerateKeys
  <2>2. made + 1 \in 0..MaxKeys
    BY <1>0, <2>1
  <2>3. hurried' \in BOOLEAN
    BY <2>1
  <2>4. QED
    BY <1>0, <2>1, <2>2, <2>3 DEF AuthOK
<1>3. CASE DrawKeypairModal
  <2>1. /\ authKeys' \in {authKeys, 0} /\ closeRegisterModal' = 0
        /\ UNCHANGED <<signer, stored, service, made, hurried>>
    BY <1>3 DEF DrawKeypairModal
  <2>2. QED
    BY <1>0, <2>1 DEF AuthOK
<1>4. CASE RegisterKey
  <2>1. /\ service' \in {service, authKeys} /\ closeRegisterModal' \in {closeRegisterModal, 2}
        /\ UNCHANGED <<authKeys, signer, stored, made, hurried>>
    BY <1>4 DEF RegisterKey
  <2>2. QED
    BY <1>0, <2>1 DEF AuthOK
<1>5. CASE SaveKeys
  <2>1. /\ stored' = authKeys /\ closeRegisterModal' = 1
        /\ UNCHANGED <<authKeys, signer, service, made, hurried>>
    BY <1>5 DEF SaveKeys
  <2>2. QED
    BY <1>0, <2>1 DEF AuthOK
<1>6. CASE Restart
  <2>1. /\ authKeys' = stored /\ signer' = stored /\ closeRegisterModal' = 0
        /\ UNCHANGED <<stored, service, made, hurried>>
    BY <1>6 DEF Restart
  <2>2. QED
    BY <1>0, <2>1 DEF AuthOK
<1>7. CASE Connects
  <2>1. UNCHANGED <<authVars, formVars>>
    BY <1>7 DEF Connects, ConnectSelected, DoubleClick, Connect
  <2>2. QED
    BY <1>0, <2>1 DEF AuthOK, authVars, formVars
<1>8. CASE \/ CloseList \/ RemoveServer \/ CloseConnecting \/ SelectorFrame
           \/ BeginClose \/ JoinWorker
           \/ (\E i \in DOMAIN servers : SelectServer(i))
           \/ (\E h \in Host : AddServer(h))
           \/ TakeWork \/ ConnectFails \/ Dialled \/ SourceMade \/ WantOpen
  <2>1. UNCHANGED <<authVars, closeRegisterModal, hurried>>
    BY <1>8 DEF CloseList, RemoveServer, CloseConnecting, SelectorFrame, BeginClose, JoinWorker,
       SelectServer, AddServer, TakeWork, ConnectFails, Dialled, SourceMade, WantOpen, formVars
  <2>2. QED
    BY <1>0, <2>1 DEF AuthOK, authVars
<1>9. QED
  BY <1>1, <1>2, <1>3, <1>4, <1>5, <1>6, <1>7, <1>8, NextIs

LEMMA WorkKept == ASSUME JoiningOK, JoiningNext PROVE WorkOK'
<1> USE DEF workVars, Joiners
<1>0. /\ WorkOK /\ HostsOK /\ Nobody \notin Host /\ "register" \in WorkItem /\ "stop" \in WorkItem
      /\ \A h \in Host : h \in WorkItem
  BY JoiningConstants DEF JoiningOK, WorkItem
<1>1. CASE MultiPlayer
  <2>1. /\ selector \in {"none", "up"} /\ selector' = "up"
        /\ \/ joiner' = "idle" /\ pending' = <<>> /\ workHost' = Nobody
           \/ UNCHANGED <<joiner, pending, workHost>>
    BY <1>1 DEF MultiPlayer
  <2>2. CASE joiner' = "idle" /\ pending' = <<>> /\ workHost' = Nobody
    BY <2>1, <2>2 DEF WorkOK
  <2>3. CASE UNCHANGED <<joiner, pending, workHost>>
    BY <1>0, <2>1, <2>3 DEF WorkOK
  <2>4. QED
    BY <2>1, <2>2, <2>3
<1>2. ASSUME NEW x \in WorkItem, pending' = Append(pending, x), UNCHANGED <<joiner, workHost>>,
             selector' \in {selector, "closing"}
      PROVE  WorkOK'
  <2>1. pending' \in Seq(WorkItem)
    BY <1>0, <1>2 DEF WorkOK
  <2>2. QED
    BY <1>0, <1>2, <2>1 DEF WorkOK
<1>3. CASE GenerateKeys
  BY <1>0, <1>2, <1>3 DEF GenerateKeys
<1>4. CASE BeginClose
  BY <1>0, <1>2, <1>4 DEF BeginClose
<1>5. CASE Connects
  <2>1. \E h \in Host : pending' = Append(pending, h) /\ UNCHANGED <<joiner, workHost, selector>>
    BY <1>0, <1>5, ConnectsAre, ConnectIs
  <2>2. QED
    BY <1>0, <1>2, <2>1
<1>6. CASE JoinWorker
  BY <1>0, <1>6 DEF JoinWorker, WorkOK
<1>7. CASE TakeWork
  <2>1. pending' \in Seq(WorkItem)
    BY <1>0, <1>7, TakenIs, TailIs DEF WorkOK
  <2>2. /\ selector' = selector /\ joiner = "idle"
        /\ \/ joiner' \in {"none", "idle", "register"} /\ workHost' = Nobody
           \/ joiner' = "dial" /\ workHost' \in Host
    BY <1>0, <1>7, TakenIs DEF TakeWork
  <2>3. QED
    BY <1>0, <2>1, <2>2 DEF WorkOK
<1>8. CASE RegisterKey \/ SaveKeys
  <2>1. /\ joiner \in {"register", "save"} /\ UNCHANGED <<selector, pending, workHost>>
        /\ joiner' \in {"undefined", "save", "none", "idle"}
    BY <1>8, IdleIs DEF RegisterKey, SaveKeys
  <2>2. QED
    BY <1>0, <2>1 DEF WorkOK
<1>9. CASE ConnectFails \/ WantOpen
  <2>1. /\ joiner \in {"dial", "auth", "made"} /\ UNCHANGED <<selector, pending>>
        /\ joiner' \in {"none", "idle"} /\ workHost' = Nobody
    BY <1>9, IdleIs DEF ConnectFails, WantOpen
  <2>2. QED
    BY <1>0, <2>1 DEF WorkOK
<1>10. CASE Dialled \/ SourceMade
  <2>1. /\ joiner \in {"dial", "auth"} /\ UNCHANGED <<selector, pending, workHost>>
        /\ joiner' \in {"auth", "made"}
    BY <1>10 DEF Dialled, SourceMade
  <2>2. QED
    BY <1>0, <2>1 DEF WorkOK
<1>11. CASE Restart
  <2>1. selector' = "none" /\ joiner' = "none" /\ pending' = <<>> /\ workHost' = Nobody
    BY <1>11 DEF Restart
  <2>2. QED
    BY <1>0, <2>1 DEF WorkOK
<1>12. CASE \/ GenerateUnnamed \/ CancelKeys \/ DrawKeypairModal \/ DismissError \/ CloseList
            \/ RemoveServer \/ CloseConnecting \/ SelectorFrame
            \/ (\E i \in DOMAIN servers : SelectServer(i))
            \/ (\E h \in Host : AddServer(h))
  <2>1. UNCHANGED <<selector, workVars>>
    BY <1>12 DEF GenerateUnnamed, CancelKeys, DrawKeypairModal, DismissError, CloseList,
       RemoveServer, CloseConnecting, SelectorFrame, SelectServer, AddServer
  <2>2. QED
    BY <1>0, <2>1 DEF WorkOK
<1>13. QED
  BY <1>1, <1>3, <1>4, <1>5, <1>6, <1>7, <1>8, <1>9, <1>10, <1>11, <1>12, NextIs

LEMMA ConnKept == ASSUME JoiningOK, JoiningNext PROVE ConnOK' /\ OpenOK'
<1> USE DEF workVars, connVars, openVars, Joiners, Stages
<1>0. WorkOK /\ HostsOK /\ ConnOK /\ OpenOK /\ Nobody \notin Host
  BY JoiningConstants DEF JoiningOK
<1>1. ASSUME UNCHANGED connVars PROVE ConnOK'
  BY <1>0, <1>1 DEF ConnOK
<1>2. ASSUME UNCHANGED <<connectedWorld, wantsOpenWorld>>, joiner' # "made" \/ joiner' = joiner
      PROVE  OpenOK'
  BY <1>0, <1>2 DEF OpenOK
<1>3. CASE MultiPlayer
  <2>1. CASE selector = "none"
    <3>1. /\ joiner' = "idle" /\ wantsOpenWorld' = FALSE
          /\ isConnecting' = FALSE /\ modalOpen' = FALSE /\ connHost' = Nobody
          /\ connStage' = "Idle" /\ stageOf' = Nobody /\ overtaken' = FALSE
      BY <1>3, <2>1 DEF MultiPlayer
    <3>2. QED
      BY <3>1 DEF ConnOK, OpenOK
  <2>2. CASE selector # "none"
    <3>1. /\ UNCHANGED <<workVars, isConnecting, modalOpen, connHost, connStage, stageOf>>
          /\ UNCHANGED <<overtaken, connectedWorld, wantsOpenWorld, connects>>
      BY <1>3, <2>2 DEF MultiPlayer
    <3>2. QED
      BY <1>1, <1>2, <3>1
  <2>3. QED
    BY <2>1, <2>2
<1>4. CASE Connects
  <2>1. PICK i \in DOMAIN servers, inTable \in BOOLEAN : Connect(i, inTable)
    BY <1>0, <1>4, ConnectsAre
  <2>2. PICK h \in Host :
           /\ connHost' = h /\ stageOf' = h /\ connStage' = "Dialing" /\ isConnecting' = TRUE
           /\ modalOpen' = ~inTable /\ overtaken' = (overtaken \/ Busy)
           /\ UNCHANGED <<joiner, openVars>>
    BY <1>0, <2>1, ConnectIs
  <2>3. overtaken' \in BOOLEAN /\ modalOpen' \in BOOLEAN
    BY <2>2
  <2>4. ConnOK'
    BY <2>2, <2>3 DEF ConnOK
  <2>5. QED
    BY <1>2, <2>2, <2>4
<1>5. CASE CloseConnecting
  <2>1. /\ modalOpen' = FALSE /\ isConnecting' = FALSE
        /\ UNCHANGED <<connHost, connStage, stageOf, overtaken, workVars, openVars>>
    BY <1>5 DEF CloseConnecting
  <2>2. QED
    BY <1>0, <1>2, <2>1 DEF ConnOK
<1>6. CASE SelectorFrame
  BY <1>1, <1>2, <1>6 DEF SelectorFrame
<1>7. CASE BeginClose
  <2>1. wantsOpenWorld' = FALSE /\ UNCHANGED <<joiner, connectedWorld, connVars>>
    BY <1>7 DEF BeginClose
  <2>2. QED
    BY <1>0, <1>1, <2>1 DEF OpenOK
<1>8. CASE JoinWorker
  BY <1>1, <1>2, <1>8 DEF JoinWorker
<1>9. CASE TakeWork
  <2>1. UNCHANGED <<connVars, openVars>> /\ joiner' # "made"
    BY <1>0, <1>9, TakenIs DEF TakeWork
  <2>2. QED
    BY <1>1, <1>2, <2>1
<1>10. CASE RegisterKey \/ SaveKeys
  <2>1. UNCHANGED <<connVars, openVars>> /\ joiner' # "made"
    BY <1>10, IdleIs DEF RegisterKey, SaveKeys
  <2>2. QED
    BY <1>1, <1>2, <2>1
<1>11. CASE ConnectFails \/ Dialled
  <2>1. /\ connStage' \in {"Error", "Authenticating"} /\ stageOf' = workHost
        /\ UNCHANGED <<isConnecting, modalOpen, connHost, overtaken, openVars>>
        /\ joiner' # "made"
    BY <1>11, IdleIs DEF ConnectFails, Dialled
  <2>2. workHost \in Host \cup {Nobody}
    BY <1>0 DEF WorkOK
  <2>3. ConnOK'
    BY <1>0, <2>1, <2>2 DEF ConnOK
  <2>4. QED
    BY <1>2, <2>1, <2>3
<1>12. CASE SourceMade
  <2>1. /\ joiner = "auth" /\ connectedWorld' = workHost /\ joiner' = "made"
        /\ connStage' = "Connected" /\ stageOf' = workHost
        /\ UNCHANGED <<isConnecting, modalOpen, connHost, overtaken, wantsOpenWorld>>
    BY <1>12 DEF SourceMade
  <2>2. workHost \in Host
    BY <1>0, <2>1 DEF WorkOK
  <2>3. QED
    BY <1>0, <2>1, <2>2 DEF ConnOK, OpenOK
<1>13. CASE WantOpen
  <2>1. /\ joiner = "made" /\ joiner' # "made" /\ UNCHANGED <<connVars, connectedWorld>>
    BY <1>13, IdleIs DEF WantOpen
  <2>2. QED
    BY <1>0, <1>1, <2>1 DEF OpenOK
<1>14. CASE Restart
  <2>1. /\ isConnecting' = FALSE /\ modalOpen' = FALSE /\ joiner' = "none"
        /\ connHost' = Nobody /\ connStage' = "Idle" /\ stageOf' = Nobody /\ overtaken' = FALSE
        /\ wantsOpenWorld' = FALSE
    BY <1>14 DEF Restart
  <2>2. QED
    BY <2>1 DEF ConnOK, OpenOK
<1>15. CASE \/ GenerateKeys \/ GenerateUnnamed \/ CancelKeys \/ DrawKeypairModal \/ DismissError
            \/ CloseList \/ RemoveServer
            \/ (\E i \in DOMAIN servers : SelectServer(i))
            \/ (\E h \in Host : AddServer(h))
  <2>1. UNCHANGED <<connVars, openVars, joiner>>
    BY <1>15 DEF GenerateKeys, GenerateUnnamed, CancelKeys, DrawKeypairModal, DismissError,
       CloseList, RemoveServer, SelectServer, AddServer
  <2>2. QED
    BY <1>1, <1>2, <2>1
<1>16. QED
  BY <1>3, <1>4, <1>5, <1>6, <1>7, <1>8, <1>9, <1>10, <1>11, <1>12, <1>13, <1>14, <1>15, NextIs

LEMMA HostsKept == ASSUME JoiningOK, JoiningNext PROVE HostsOK'
<1>0. HostsOK /\ servers \in Seq(Host) /\ Len(servers) \in Nat /\ DOMAIN servers = 1..Len(servers)
      /\ selectedServer \in Nat /\ (selectedServer > 0 => selectedServer \in DOMAIN servers)
  BY DEF JoiningOK, HostsOK, SelectedExists
<1>1. ASSUME servers' \in Seq(Host), Len(servers') >= Len(servers),
             selectedServer' \in {selectedServer, 0} \/ selectedServer' \in DOMAIN servers
      PROVE  HostsOK'
  <2>1. DOMAIN servers' = 1..Len(servers') /\ Len(servers') \in Nat /\ selectedServer' \in Nat
    BY <1>0, <1>1
  <2>2. selectedServer' > 0 => selectedServer' \in DOMAIN servers'
    BY <1>0, <1>1, <2>1
  <2>3. QED
    BY <1>1, <2>1, <2>2 DEF HostsOK, SelectedExists
<1>2. CASE MultiPlayer \/ Restart
  <2>1. selectedServer' = 0 /\ servers' = servers
    BY <1>2 DEF MultiPlayer, Restart
  <2>2. QED
    BY <1>0, <1>1, <2>1
<1>3. CASE RemoveServer
  <2> DEFINE a == SubSeq(servers, 1, selectedServer - 1)
             b == SubSeq(servers, selectedServer + 1, Len(servers))
  <2>1. selectedServer' = 0 /\ servers' = a \o b /\ selectedServer \in 1..Len(servers)
    BY <1>0, <1>3 DEF RemoveServer, RemoveAt
  <2>2. a \in Seq(Host) /\ b \in Seq(Host)
    BY <1>0, <2>1
  <2> HIDE DEF a, b
  <2>3. servers' \in Seq(Host) /\ ~(selectedServer' > 0) /\ selectedServer' \in Nat
    BY <2>1, <2>2
  <2>4. QED
    BY <2>3 DEF HostsOK, SelectedExists
<1>4. CASE Connects
  <2>1. servers' \in Seq(Host) /\ Len(servers') = Len(servers) /\ selectedServer' = selectedServer
    BY <1>0, <1>4, ConnectsAre, ConnectIs
  <2>2. QED
    BY <1>0, <1>1, <2>1
<1>5. ASSUME NEW h \in Host, AddServer(h) PROVE HostsOK'
  <2>1. servers' = <<h>> \o servers /\ selectedServer' = selectedServer
    BY <1>5 DEF AddServer
  <2>2. servers' \in Seq(Host) /\ Len(servers') = Len(servers) + 1
    BY <1>0, <2>1
  <2>3. QED
    BY <1>0, <1>1, <2>1, <2>2
<1>6. ASSUME NEW i \in DOMAIN servers, SelectServer(i) PROVE HostsOK'
  BY <1>0, <1>1, <1>6 DEF SelectServer
<1>7. CASE \/ GenerateKeys \/ GenerateUnnamed \/ CancelKeys \/ DrawKeypairModal \/ DismissError
           \/ CloseList \/ CloseConnecting \/ SelectorFrame \/ BeginClose \/ JoinWorker
           \/ TakeWork \/ RegisterKey \/ SaveKeys \/ ConnectFails \/ Dialled \/ SourceMade
           \/ WantOpen
  <2>1. UNCHANGED hostVars
    BY <1>7 DEF GenerateKeys, GenerateUnnamed, CancelKeys, DrawKeypairModal, DismissError,
       CloseList, CloseConnecting, SelectorFrame, BeginClose, JoinWorker, TakeWork, RegisterKey,
       SaveKeys, ConnectFails, Dialled, SourceMade, WantOpen
  <2>2. QED
    BY <1>0, <1>1, <2>1 DEF hostVars
<1>8. QED
  BY <1>2, <1>3, <1>4, <1>5, <1>6, <1>7, NextIs
-----------------------------------------------------------------------------
(* One registration, and one host *)

LEMMA OneRegistrationKept ==
    ASSUME JoiningOK, OneRegistration, JoiningNext PROVE OneRegistration'
<1> USE DEF authVars, workVars, formVars
<1> DEFINE Registers(i) == pending[i] = "register"
           None == \A i \in DOMAIN pending : ~Registers(i)
           Hold == /\ stored # 0 => stored = service /\ joiner \notin {"register", "save"}
                   /\ stored # 0 \/ joiner \in {"register", "save"} => None
                   /\ joiner = "save" => authKeys \in {0, service}
                   /\ \A i, j \in DOMAIN pending : Registers(i) /\ Registers(j) => i = j
<1>0. WorkOK /\ HostsOK /\ pending \in Seq(WorkItem) /\ hurried \in BOOLEAN
      /\ (hurried \/ Hold)
  BY DEF JoiningOK, WorkOK, AuthOK, OneRegistration
(* Steps that add nothing to register. *)
<1>1. ASSUME UNCHANGED <<stored, service, hurried>>,
             \/ pending' = pending \/ pending' = <<>>
             \/ \E x \in WorkItem : x # "register" /\ pending' = Append(pending, x),
             joiner' \notin {"register", "save"} \/ joiner' = joiner,
             joiner' = "save" => authKeys' \in {0, authKeys}
      PROVE  OneRegistration'
  <2>1. CASE pending' = pending
    BY <1>0, <1>1, <2>1 DEF OneRegistration
  <2>2. CASE pending' = <<>>
    <3>1. DOMAIN pending' = {}
      BY <2>2
    <3>2. QED
      BY <1>0, <1>1, <3>1 DEF OneRegistration
  <2>3. ASSUME NEW x \in WorkItem, x # "register", pending' = Append(pending, x)
        PROVE  OneRegistration'
    <3>1. \A i \in DOMAIN pending' :
             pending'[i] = "register" => i \in DOMAIN pending /\ pending[i] = "register"
      BY <1>0, <2>3, AppendedIs
    <3>2. QED
      BY <1>0, <1>1, <3>1 DEF OneRegistration
  <2>4. QED
    BY <1>1, <2>1, <2>2, <2>3
<1>2. CASE MultiPlayer
  <2>1. /\ UNCHANGED <<stored, service, hurried, authKeys>>
        /\ pending' = pending \/ pending' = <<>>
        /\ joiner' = "idle" \/ joiner' = joiner
    BY <1>2 DEF MultiPlayer
  <2>2. QED
    BY <1>1, <2>1
<1>3. CASE GenerateKeys
  <2>1. CASE hurried'
    BY <2>1 DEF OneRegistration
  <2>2. CASE ~hurried'
    <3>1. /\ ~hurried /\ stored = 0 /\ joiner \notin {"register", "save"}
          /\ ~Contains(pending, "register")
          /\ pending' = Append(pending, "register") /\ UNCHANGED <<stored, service, joiner>>
      BY <1>3, <2>2 DEF GenerateKeys
    <3>2. None
      BY <1>0, <3>1 DEF Contains
    <3>3. \A i \in DOMAIN pending' : pending'[i] = "register" => i = Len(pending) + 1
      BY <1>0, <3>1, <3>2, AppendedIs, JoiningConstants DEF WorkItem
    <3>4. QED
      BY <3>1, <3>3 DEF OneRegistration
  <2>3. QED
    BY <2>1, <2>2
<1>4. CASE DrawKeypairModal
  <2>1. /\ authKeys' \in {0, authKeys}
        /\ UNCHANGED <<stored, service, hurried, pending, joiner>>
    BY <1>4 DEF DrawKeypairModal
  <2>2. QED
    BY <1>1, <2>1
<1>5. CASE Connects
  <2>1. \E h \in Host : /\ pending' = Append(pending, h)
                        /\ UNCHANGED <<authVars, formVars, joiner>>
    BY <1>0, <1>5, ConnectsAre, ConnectIs
  <2>2. \A h \in Host : h \in WorkItem /\ h # "register"
    BY JoiningConstants DEF WorkItem
  <2>3. QED
    BY <1>1, <2>1, <2>2
<1>6. CASE BeginClose
  <2>1. pending' = Append(pending, "stop") /\ UNCHANGED <<authVars, hurried, joiner>>
    BY <1>6 DEF BeginClose
  <2>2. "stop" \in WorkItem /\ "stop" # "register"
    BY DEF WorkItem
  <2>3. QED
    BY <1>1, <2>1, <2>2
<1>7. CASE TakeWork
  <2>1. /\ joiner = "idle" /\ pending # <<>> /\ pending' = Tail(pending)
        /\ UNCHANGED <<authVars, hurried>> /\ joiner' # "save"
        /\ joiner' = "register" => Head(pending) = "register"
    BY <1>0, <1>7, TakenIs DEF TakeWork
  <2>2. /\ Head(pending) = pending[1] /\ 1 \in DOMAIN pending
        /\ \A i \in DOMAIN pending' :
              i + 1 \in DOMAIN pending /\ i + 1 # 1 /\ pending'[i] = pending[i + 1]
              /\ i \in Int
    <3>1. /\ Head(pending) = pending[1] /\ 1 \in DOMAIN pending
          /\ DOMAIN pending' = 1..(Len(pending) - 1)
          /\ \A i \in DOMAIN pending' :
                i + 1 \in DOMAIN pending /\ i # 0 /\ pending'[i] = pending[i + 1]
      BY <1>0, <2>1, TailIs
    <3>2. QED
      BY <3>1
  <2>3. CASE hurried
    BY <2>1, <2>3 DEF OneRegistration
  <2>4. CASE ~hurried
    <3>1. /\ stored # 0 => stored = service /\ None
          /\ \A i, j \in DOMAIN pending : Registers(i) /\ Registers(j) => i = j
      BY <1>0, <2>4
    <3>2. stored # 0 => \A i \in DOMAIN pending' : pending'[i] # "register"
      BY <2>2, <3>1
    <3>3. stored # 0 => joiner' # "register"
      BY <2>1, <2>2, <3>1
    <3>4. joiner' = "register" => \A i \in DOMAIN pending' : pending'[i] # "register"
      BY <2>1, <2>2, <3>1
    <3>5. ASSUME NEW i \in DOMAIN pending', NEW j \in DOMAIN pending',
                 pending'[i] = "register", pending'[j] = "register"
          PROVE  i = j
      <4>1. i + 1 = j + 1 /\ i \in Int /\ j \in Int
        BY <2>2, <3>1, <3>5
      <4>2. QED
        BY <4>1
    <3>6. QED
      BY <2>1, <3>1, <3>2, <3>3, <3>4, <3>5 DEF OneRegistration
  <2>5. QED
    BY <1>0, <2>3, <2>4
<1>8. CASE RegisterKey
  <2>1. /\ joiner = "register" /\ UNCHANGED <<authKeys, stored, hurried, pending>>
        /\ \/ joiner' \in {"undefined", "none", "idle"}
           \/ joiner' = "save" /\ service' = authKeys
    BY <1>8, IdleIs DEF RegisterKey
  <2>2. QED
    BY <1>0, <2>1 DEF OneRegistration
<1>9. CASE SaveKeys
  <2>1. /\ joiner = "save" /\ stored' = authKeys /\ joiner' \in {"none", "idle"}
        /\ UNCHANGED <<authKeys, service, hurried, pending>>
    BY <1>9, IdleIs DEF SaveKeys
  <2>2. QED
    BY <1>0, <2>1 DEF OneRegistration
<1>10. CASE Restart
  <2>1. /\ joiner' = "none" /\ pending' = <<>> /\ UNCHANGED <<stored, service, hurried>>
    BY <1>10 DEF Restart
  <2>2. QED
    BY <1>1, <2>1
<1>11. CASE ConnectFails \/ Dialled \/ SourceMade \/ WantOpen
  <2>1. /\ UNCHANGED <<authVars, hurried, pending>> /\ joiner' \notin {"register", "save"}
    BY <1>11, IdleIs DEF ConnectFails, Dialled, SourceMade, WantOpen
  <2>2. QED
    BY <1>1, <2>1
<1>12. CASE \/ GenerateUnnamed \/ CancelKeys \/ DismissError \/ CloseList
            \/ RemoveServer \/ CloseConnecting \/ SelectorFrame \/ JoinWorker
            \/ (\E i \in DOMAIN servers : SelectServer(i))
            \/ (\E h \in Host : AddServer(h))
  <2>1. UNCHANGED <<authVars, hurried, pending, joiner>>
    BY <1>12 DEF GenerateUnnamed, CancelKeys, DismissError, CloseList, RemoveServer,
       CloseConnecting, SelectorFrame, JoinWorker, SelectServer, AddServer
  <2>2. QED
    BY <1>1, <2>1
<1>13. QED
  BY <1>2, <1>3, <1>4, <1>5, <1>6, <1>7, <1>8, <1>9, <1>10, <1>11, <1>12, NextIs

LEMMA OneHostKept == ASSUME JoiningOK, OneHost, JoiningNext PROVE OneHost'
<1> USE DEF workVars, connVars
<1> DEFINE Ours(i) == pending[i] \in Host => pending[i] = connHost
<1>0. /\ WorkOK /\ HostsOK /\ pending \in Seq(WorkItem) /\ overtaken \in BOOLEAN
      /\ workHost \in Host \cup {Nobody} /\ Nobody \notin Host
      /\ overtaken \/ /\ stageOf = connHost /\ workHost \in {connHost, Nobody}
                      /\ \A i \in DOMAIN pending : Ours(i)
  BY JoiningConstants DEF JoiningOK, WorkOK, ConnOK, OneHost
<1>1. ASSUME UNCHANGED <<connHost, overtaken>>,
             stageOf' = stageOf \/ (stageOf' = workHost /\ workHost # Nobody),
             workHost' \in {workHost, Nobody},
             \/ pending' = pending
             \/ \E x \in WorkItem : x \notin Host /\ pending' = Append(pending, x)
      PROVE  OneHost'
  <2>1. CASE pending' = pending
    BY <1>0, <1>1, <2>1 DEF OneHost
  <2>2. ASSUME NEW x \in WorkItem, x \notin Host, pending' = Append(pending, x) PROVE OneHost'
    <3>1. \A i \in DOMAIN pending' :
             pending'[i] \in Host => i \in DOMAIN pending /\ pending'[i] = pending[i]
      BY <1>0, <2>2, AppendedIs
    <3>2. QED
      BY <1>0, <1>1, <3>1 DEF OneHost
  <2>3. QED
    BY <1>1, <2>1, <2>2
<1>2. ASSUME connHost' = Nobody, stageOf' = Nobody, workHost' = Nobody, pending' = <<>>
      PROVE  OneHost'
  <2>1. DOMAIN pending' = {}
    BY <1>2
  <2>2. QED
    BY <1>2, <2>1 DEF OneHost
<1>3. CASE MultiPlayer
  <2>1. CASE selector = "none"
    BY <1>2, <1>3, <2>1 DEF MultiPlayer
  <2>2. CASE selector # "none"
    <3>1. UNCHANGED <<workVars, connHost, stageOf, overtaken>>
      BY <1>3, <2>2 DEF MultiPlayer
    <3>2. QED
      BY <1>1, <3>1
  <2>3. QED
    BY <2>1, <2>2
<1>4. CASE GenerateKeys
  <2>1. pending' = Append(pending, "register") /\ UNCHANGED <<connVars, workHost>>
    BY <1>4 DEF GenerateKeys
  <2>2. QED
    BY <1>1, <2>1, JoiningConstants DEF WorkItem
<1>5. CASE BeginClose
  <2>1. pending' = Append(pending, "stop") /\ UNCHANGED <<connVars, workHost>>
    BY <1>5 DEF BeginClose
  <2>2. QED
    BY <1>1, <2>1, JoiningConstants DEF WorkItem
<1>6. CASE Connects
  <2>1. PICK h \in Host : /\ pending' = Append(pending, h) /\ connHost' = h /\ stageOf' = h
                          /\ overtaken' = (overtaken \/ Busy) /\ workHost' = workHost
    BY <1>0, <1>6, ConnectsAre, ConnectIs
  <2>2. CASE overtaken'
    BY <2>2 DEF OneHost
  <2>3. CASE ~overtaken'
    <3>1. workHost = Nobody /\ \A i \in DOMAIN pending : pending[i] \notin Host
      BY <2>1, <2>3 DEF Busy
    <3>2. h \in WorkItem
      BY DEF WorkItem
    <3>3. \A i \in DOMAIN pending' : pending'[i] = h \/ pending'[i] \notin Host
      BY <1>0, <2>1, <3>1, <3>2, AppendedIs
    <3>4. QED
      BY <2>1, <3>1, <3>3 DEF OneHost
  <2>4. QED
    BY <2>2, <2>3
<1>7. CASE TakeWork
  <2>1. /\ pending # <<>> /\ pending' = Tail(pending) /\ UNCHANGED connVars
        /\ workHost' \in {Nobody, Head(pending)} /\ (workHost' = Nobody \/ workHost' \in Host)
    BY <1>0, <1>7, TakenIs DEF TakeWork
  <2>2. /\ Head(pending) = pending[1] /\ 1 \in DOMAIN pending
        /\ \A i \in DOMAIN pending' : i + 1 \in DOMAIN pending /\ pending'[i] = pending[i + 1]
    BY <1>0, <2>1, TailIs
  <2>3. overtaken \/ workHost' \in {connHost, Nobody}
    BY <1>0, <2>1, <2>2
  <2>4. overtaken \/ \A i \in DOMAIN pending' : pending'[i] \in Host => pending'[i] = connHost
    BY <1>0, <2>2
  <2>5. QED
    BY <1>0, <2>1, <2>3, <2>4 DEF OneHost
<1>8. CASE ConnectFails \/ Dialled \/ SourceMade
  <2>1. /\ joiner \in {"dial", "auth"} /\ stageOf' = workHost /\ workHost' \in {workHost, Nobody}
        /\ UNCHANGED <<connHost, overtaken, pending>>
    BY <1>8 DEF ConnectFails, Dialled, SourceMade
  <2>2. workHost # Nobody
    BY <1>0, <2>1 DEF WorkOK
  <2>3. QED
    BY <1>1, <2>1, <2>2
<1>9. CASE RegisterKey \/ SaveKeys \/ WantOpen
  <2>1. UNCHANGED <<connVars, pending>> /\ workHost' \in {workHost, Nobody}
    BY <1>9 DEF RegisterKey, SaveKeys, WantOpen
  <2>2. QED
    BY <1>1, <2>1
<1>10. CASE Restart
  BY <1>2, <1>10 DEF Restart
<1>11. CASE \/ GenerateUnnamed \/ CancelKeys \/ DrawKeypairModal \/ DismissError \/ CloseList
            \/ RemoveServer \/ CloseConnecting \/ SelectorFrame \/ JoinWorker
            \/ (\E i \in DOMAIN servers : SelectServer(i))
            \/ (\E h \in Host : AddServer(h))
  <2>1. UNCHANGED <<connHost, stageOf, overtaken, workVars>>
    BY <1>11 DEF GenerateUnnamed, CancelKeys, DrawKeypairModal, DismissError, CloseList,
       RemoveServer, CloseConnecting, SelectorFrame, JoinWorker, SelectServer, AddServer
  <2>2. QED
    BY <1>1, <2>1
<1>12. QED
  BY <1>3, <1>4, <1>5, <1>6, <1>7, <1>8, <1>9, <1>10, <1>11, NextIs

-----------------------------------------------------------------------------

LEMMA SeqOfHosts == SetToSeq(Host) \in Seq(Host)
<1> DEFINE n == Cardinality(Host)
<1>1. n \in Nat /\ ExistsBijection(1..n, Host)
  BY FS_CardinalityType, JoiningConstants
<1>2. PICK f \in Bijection(1..n, Host) : TRUE
  BY <1>1 DEF ExistsBijection
<1>3. f \in [1..n -> Host] /\ IsInjective(f)
  BY <1>2 DEF Bijection, Injection, IsInjective
<1>4. SetToSeq(Host) \in [1..n -> Host]
  BY <1>3 DEF SetToSeq
<1>5. QED
  BY <1>1, <1>4, SeqDef

LEMMA JoiningInitHolds == JoiningInit => JoiningIInv
<1> SUFFICES ASSUME JoiningInit PROVE JoiningIInv
  OBVIOUS
<1>1. stored \in 0..MaxKeys
  BY JoiningConstants DEF JoiningInit
<1>2. AuthOK
  <2>1. /\ made = stored /\ authKeys = stored /\ signer = stored /\ service = stored
        /\ closeRegisterModal = 0 /\ hurried = FALSE
    BY DEF JoiningInit
  <2>2. 0 \in 0..2
    OBVIOUS
  <2>3. QED
    BY <1>1, <2>1, <2>2 DEF AuthOK
<1>3. WorkOK
  BY DEF JoiningInit, NoRequest, WorkOK, Joiners
<1>4. ConnOK /\ OpenOK
  BY DEF JoiningInit, NoRequest, ConnOK, OpenOK, Stages
<1>5. HostsOK
  <2>1. servers \in Seq(Host) /\ selectedServer = 0
    <3>1. servers \in {<<>>, SetToSeq(Host)} /\ selectedServer = 0
      BY DEF JoiningInit
    <3>2. <<>> \in Seq(Host)
      OBVIOUS
    <3>3. QED
      BY <3>1, <3>2, SeqOfHosts
  <2>2. QED
    BY <2>1 DEF HostsOK, SelectedExists
<1>6. OneRegistration /\ OneHost
  <2>1. /\ pending = <<>> /\ joiner = "none" /\ stored = service /\ stageOf = Nobody
        /\ connHost = Nobody /\ workHost = Nobody
    BY DEF JoiningInit, NoRequest
  <2>2. DOMAIN pending = {}
    BY <2>1
  <2>3. QED
    BY <2>1, <2>2 DEF OneRegistration, OneHost
<1>7. QED
  BY <1>2, <1>3, <1>4, <1>5, <1>6, JoiningTypesAre DEF JoiningIInv, JoiningOK

LEMMA JoiningStep == JoiningIInv /\ [JoiningNext]_joiningVars => JoiningIInv'
<1> SUFFICES ASSUME JoiningIInv, [JoiningNext]_joiningVars PROVE JoiningIInv'
  OBVIOUS
<1>1. JoiningOK /\ OneRegistration /\ OneHost
  BY JoiningTypesAre DEF JoiningIInv
<1>2. (JoiningTypeOK /\ JoiningShape /\ SelectedExists <=> JoiningOK)'
  BY JoiningTypesAre, PTL
<1>3. CASE JoiningNext
  <2>1. JoiningOK'
    BY <1>1, <1>3, AuthKept, WorkKept, ConnKept, HostsKept DEF JoiningOK
  <2>2. OneRegistration' /\ OneHost'
    BY <1>1, <1>3, OneRegistrationKept, OneHostKept
  <2>3. QED
    BY <1>2, <2>1, <2>2 DEF JoiningIInv
<1>4. CASE UNCHANGED joiningVars
  <2>1. UNCHANGED <<authVars, selector, formVars, workVars, connVars, openVars, hostVars>>
    BY <1>4 DEF joiningVars
  <2>2. JoiningOK'
    BY <1>1, <2>1 DEF JoiningOK, AuthOK, WorkOK, ConnOK, OpenOK, HostsOK, SelectedExists,
       authVars, formVars, workVars, connVars, openVars, hostVars
  <2>3. OneRegistration' /\ OneHost'
    BY <1>1, <2>1 DEF OneRegistration, OneHost, authVars, formVars, workVars, connVars
  <2>4. QED
    BY <1>2, <2>2, <2>3 DEF JoiningIInv
<1>5. QED
  BY <1>3, <1>4

(* What is selected in the list of servers exists; the keys in the           *)
(* preferences are those the service has, unless they were made in haste;    *)
(* and the stage in the modal is that of the host it names, unless it was    *)
(* overtaken (drawServerList, connect, saveRecents, registerAuthKeys).       *)
THEOREM JoiningSafe == JoiningSpec => []JoiningInv
<1>1. JoiningInit => JoiningIInv
  BY JoiningInitHolds
<1>2. JoiningIInv /\ [JoiningNext]_joiningVars => JoiningIInv'
  BY JoiningStep
<1>3. JoiningIInv => JoiningInv
  BY DEF JoiningIInv, JoiningInv, OneRegistration, OneHost, KeysAgree, StageIsOfHost
<1>4. QED
  BY <1>1, <1>2, <1>3, PTL DEF JoiningSpec

-----------------------------------------------------------------------------
(* The list of worlds and its background.  The inductive invariant: what is  *)
(* listed is what the preferences have, in the order of the times, none of   *)
(* which is yet to come; and while something is faded, the texture that will *)
(* be shown has the last image.                                              *)

WorldsShape ==
    /\ clock \in Nat /\ opened \subseteq World /\ lastImage \in World \cup {NoWorld}
    /\ texture \in [{1, 2} -> World \cup {NoWorld}]
    /\ frame \in {"begin", "taken", "draw"}
    /\ backgroundInfo \in {NoInfo, Info("invalid", NoWorld)} \cup {Info("image", w) : w \in World}
    /\ visible \in BOOLEAN /\ lastVisible \in BOOLEAN /\ showBackground \in BOOLEAN

ListIsSaved == recents = prefs \/ (recents = <<>> /\ ~visible)

ListedAreOld ==
    /\ \A i \in DOMAIN prefs : prefs[i].time <= clock /\ prefs[i].world \in opened

FadingToLast ==
    /\ bgAnim \in {"FadeIn1", "Crossfade2To1"} =>
          lastImage # NoWorld /\ texture[1] = lastImage /\ showBackground
    /\ bgAnim = "Crossfade1To2" =>
          lastImage # NoWorld /\ texture[2] = lastImage /\ showBackground
    /\ bgAnim = "FadeOut" => lastImage = NoWorld

ClosedFades ==
    /\ frame # "draw" => lastVisible = visible
    /\ ~lastVisible => ~showBackground \/ bgAnim = "FadeOut"

WorldsIInv ==
    /\ WorldsTypeOK /\ WorldsShape
    /\ OpenedIsFirst /\ ListIsSaved /\ ListedAreOld
    /\ BackgroundIsLast /\ FadingToLast /\ ClosedFades

-----------------------------------------------------------------------------
(* A set of numbers has a least one.                                       *)

LEMMA Least ==
    ASSUME NEW S \in SUBSET Nat, S # {}
    PROVE  \E x \in S : \A y \in S : x <= y
<1> DEFINE R == OpToRel(<, Nat)
<1>1. IsWellFoundedOn(R, Nat)
  BY NatLessThanWellFounded
<1>2. \A x, y \in Nat : x < y => <<x, y>> \in R
  BY DEF OpToRel
<1> HIDE DEF R
<1>3. PICK x \in S : \A y \in S : ~(<<y, x>> \in R)
  BY <1>1, WFMin
<1>4. ASSUME NEW y \in S PROVE x <= y
  <2>1. x \in Nat /\ y \in Nat /\ ~(<<y, x>> \in R)
    BY <1>3
  <2>2. ~(y < x)
    BY <1>2, <2>1
  <2>3. QED
    BY <2>1, <2>2
<1>5. QED
  BY <1>4

LEMMA WorldsConstants ==
    /\ NoWorld \notin World /\ MaxRecents \in Nat /\ MaxRecents >= 1
    /\ Second \in Nat /\ Second >= 1 /\ MaxEvents \in Nat
  BY WorldsAssumption

(* The list, and where it is shown. *)
Strict(q) ==
    \A i, j \in DOMAIN q : i < j => q[i].time > q[j].time /\ q[i].world # q[j].world

PrefsOK ==
    /\ prefs \in Seq(Entry) /\ Len(prefs) <= MaxRecents
    /\ clock \in Nat /\ opened \subseteq World
    /\ Strict(prefs)
    /\ \A i \in DOMAIN prefs : prefs[i].world = last => i = 1
    /\ \A i \in DOMAIN prefs : prefs[i].time <= clock /\ prefs[i].world \in opened

ListOK ==
    /\ ListIsSaved /\ visible \in BOOLEAN
    /\ selectedWorld \in 0..MaxRecents /\ dialogs \subseteq {"file", "create", "error"}

(* What saveRecents makes of a list: the same entries, each of them once. *)
LEMMA SortingIs ==
    ASSUME NEW q \in Seq(Entry),
           NEW p \in Bijection(DOMAIN q, DOMAIN q),
           \A i, j \in DOMAIN q : i < j => q[p[i]].time > q[p[j]].time,
           \A i, j \in DOMAIN q : i # j => q[i].world # q[j].world,
           SaveRecents(q)
    PROVE  /\ prefs' \in Seq(Entry) /\ Len(prefs') = Len(q) /\ recents' = prefs'
           /\ Strict(prefs')
           /\ \A i \in DOMAIN prefs' : \E k \in DOMAIN q : prefs'[i] = q[k]
           /\ \A k \in DOMAIN q : 1 \in DOMAIN prefs' /\ prefs'[1].time >= q[k].time
<1> DEFINE t == Sorting(q)
           D == DOMAIN q
           T(i) == q[i].time
           W(i) == q[i].world
<1>1. Len(q) \in Nat /\ D = 1..Len(q) /\ \A i \in D : q[i] \in Entry
  OBVIOUS
<1>2. \A i \in D : T(i) \in Nat /\ W(i) \in World
  BY <1>1 DEF Entry
<1>3. /\ p \in [D -> D] /\ \A b \in D : \E a \in D : p[a] = b
      /\ \A i, j \in D : i < j => T(p[i]) > T(p[j])
      /\ \A i, j \in D : i # j => W(i) # W(j)
  BY DEF Bijection, Injection, Surjection
<1>4. \E x \in Bijection(D, D) : \A i, j \in D : i < j => q[x[i]].time >= q[x[j]].time
  <2>1. ASSUME NEW i \in D, NEW j \in D, i < j PROVE T(p[i]) >= T(p[j])
    <3>1. p[i] \in D /\ p[j] \in D /\ T(p[i]) > T(p[j])
      BY <1>3, <2>1
    <3> HIDE DEF D, T, W
    <3>2. QED
      BY <1>2, <3>1
  <2>2. QED
    BY <2>1
<1>5. t \in Bijection(D, D) /\ \A i, j \in D : i < j => T(t[i]) >= T(t[j])
  <2>1. t = CHOOSE x \in Bijection(D, D) : \A i, j \in D : i < j => q[x[i]].time >= q[x[j]].time
    BY DEF Sorting
  <2> HIDE DEF t
  <2>2. QED
    BY <1>4, <2>1
<1>6. recents' = [i \in D |-> q[t[i]]] /\ prefs' = recents'
  BY DEF SaveRecents
<1> HIDE DEF t
<1>7. /\ t \in [D -> D] /\ \A b \in D : \E a \in D : t[a] = b
      /\ \A i, j \in D : t[i] = t[j] => i = j
  BY <1>5 DEF Bijection, Injection, Surjection, IsInjective
<1> HIDE DEF D, T, W
<1>8. ASSUME NEW a \in D, NEW b \in D, a # b PROVE T(a) # T(b)
  <2>1. PICK i \in D, j \in D : p[i] = a /\ p[j] = b
    BY <1>3
  <2>2. i # j /\ i \in Int /\ j \in Int
    BY <1>1, <1>8, <2>1
  <2>3. i < j \/ j < i
    BY <2>2
  <2>4. T(a) > T(b) \/ T(b) > T(a)
    BY <1>3, <2>1, <2>3
  <2>5. QED
    BY <1>2, <2>4
<1>9. prefs' \in Seq(Entry) /\ Len(prefs') = Len(q) /\ DOMAIN prefs' = D
  <2>1. prefs' = [i \in 1..Len(q) |-> q[t[i]]] /\ \A i \in 1..Len(q) : q[t[i]] \in Entry
    BY <1>1, <1>6, <1>7
  <2>2. QED
    BY <1>1, <2>1
<1>10. ASSUME NEW i \in D
       PROVE  t[i] \in D /\ prefs'[i] = q[t[i]] /\ prefs'[i].time = T(t[i])
              /\ prefs'[i].world = W(t[i])
  BY <1>6, <1>7 DEF T, W
<1>11. Strict(prefs')
  <2>1. SUFFICES ASSUME NEW i \in D, NEW j \in D, i < j
                 PROVE  prefs'[i].time > prefs'[j].time /\ prefs'[i].world # prefs'[j].world
    BY <1>9 DEF Strict
  <2>2. i # j
    BY <1>1, <2>1
  <2>3. t[i] # t[j]
    BY <1>7, <2>2
  <2>4. T(t[i]) >= T(t[j]) /\ T(t[i]) # T(t[j]) /\ W(t[i]) # W(t[j])
    BY <1>3, <1>5, <1>8, <1>10, <2>1, <2>3
  <2>5. QED
    BY <1>2, <1>10, <2>4
<1>12. ASSUME NEW k \in D PROVE 1 \in D /\ prefs'[1].time >= T(k)
  <2>1. 1 \in D
    BY <1>1
  <2>2. PICK a \in D : t[a] = k
    BY <1>7
  <2>3. CASE a = 1
    BY <1>2, <1>10, <2>1, <2>2, <2>3
  <2>4. CASE a # 1
    <3>1. 1 < a
      BY <1>1, <2>4
    <3>2. T(t[1]) >= T(t[a])
      BY <1>5, <2>1, <3>1
    <3>3. QED
      BY <1>10, <2>1, <2>2, <3>2
  <2>5. QED
    BY <2>3, <2>4
<1>13. QED
  BY <1>6, <1>9, <1>10, <1>11, <1>12 DEF D, T
(* RemoveAt leaves the other entries in their order. *)
LEMMA RemovedIs ==
    ASSUME NEW q \in Seq(Entry), NEW i \in DOMAIN q
    PROVE  /\ RemoveAt(q, i) \in Seq(Entry) /\ Len(RemoveAt(q, i)) = Len(q) - 1
           /\ \A k \in DOMAIN RemoveAt(q, i) :
                 RemoveAt(q, i)[k] = IF k < i THEN q[k] ELSE q[k + 1]
<1> DEFINE a == SubSeq(q, 1, i - 1)
           b == SubSeq(q, i + 1, Len(q))
<1>1. Len(q) \in Nat /\ i \in 1..Len(q)
  OBVIOUS
<1>2. /\ a \in Seq(Entry) /\ Len(a) = i - 1
      /\ \A k \in 1..(i - 1) : a[k] = q[k]
  BY <1>1
<1>3. /\ b \in Seq(Entry) /\ Len(b) = Len(q) - i
      /\ \A k \in 1..(Len(q) - i) : b[k] = q[k + i]
  BY <1>1
<1> HIDE DEF a, b
<1>4. /\ a \o b \in Seq(Entry) /\ Len(a \o b) = Len(q) - 1
      /\ \A k \in 1..(Len(q) - 1) : (a \o b)[k] = IF k < i THEN q[k] ELSE q[k + 1]
  BY <1>1, <1>2, <1>3
<1>5. RemoveAt(q, i) = a \o b
  BY DEF RemoveAt, a, b
<1>6. QED
  BY <1>4, <1>5

(* A list that is in order stays as it is when it is saved. *)
LEMMA OrderedIsSaved ==
    ASSUME NEW q \in Seq(Entry), Strict(q), SaveRecents(q)
    PROVE  /\ recents' = prefs' /\ prefs' \in Seq(Entry) /\ Len(prefs') = Len(q)
           /\ Strict(prefs')
           /\ \A i \in DOMAIN prefs' : \E k \in DOMAIN q : prefs'[i] = q[k]
           /\ \A k \in DOMAIN q : 1 \in DOMAIN prefs' /\ prefs'[1].time >= q[k].time
<1> DEFINE p == [i \in DOMAIN q |-> i]
<1>1. p \in Bijection(DOMAIN q, DOMAIN q)
  BY DEF Bijection, Injection, Surjection, IsInjective
<1>2. \A i, j \in DOMAIN q : i < j => q[p[i]].time > q[p[j]].time
  BY DEF Strict
<1>3. ASSUME NEW i \in DOMAIN q, NEW j \in DOMAIN q, i # j PROVE q[i].world # q[j].world
  <2>1. i \in Int /\ j \in Int
    OBVIOUS
  <2>2. i < j \/ j < i
    BY <1>3, <2>1
  <2>3. QED
    BY <2>2 DEF Strict
<1> HIDE DEF p
<1>4. QED
  BY <1>1, <1>2, <1>3, SortingIs

(* The entry that was used longest ago exists. *)
LEMMA AgeIs ==
    ASSUME PrefsOK, NEW i \in DOMAIN prefs
    PROVE  Age(prefs[i]) \in Nat /\ Age(prefs[i]) <= clock + 1
<1>1. prefs[i].time \in Nat /\ prefs[i].time <= clock /\ clock \in Nat
  <2>1. prefs[i] \in Entry /\ prefs[i].time <= clock /\ clock \in Nat
    BY DEF PrefsOK
  <2>2. QED
    BY <2>1 DEF Entry
<1>2. \A x, s \in Nat : s >= 1 => x \div s \in Nat /\ x \div s <= x
  OBVIOUS
<1>3. clock + 1 - prefs[i].time \in Nat /\ clock + 1 - prefs[i].time <= clock + 1
  BY <1>1
<1>4. (clock + 1 - prefs[i].time) \div Second \in Nat
      /\ (clock + 1 - prefs[i].time) \div Second <= clock + 1 - prefs[i].time
  BY <1>2, <1>3, WorldsConstants
<1>5. QED
  BY <1>1, <1>3, <1>4 DEF Age

LEMMA OldestExists ==
    ASSUME PrefsOK, Len(prefs) >= 1
    PROVE  \E i \in DOMAIN prefs :
              \A j \in DOMAIN prefs :
                 \/ Age(prefs[j]) < Age(prefs[i])
                 \/ (Age(prefs[j]) = Age(prefs[i]) /\ i <= j)
<1> DEFINE D == DOMAIN prefs
           A(i) == Age(prefs[i])
           S == {clock + 1 - A(i) : i \in D}
<1>1. D = 1..Len(prefs) /\ Len(prefs) \in Nat /\ clock \in Nat
  BY DEF PrefsOK
<1>2. \A i \in D : A(i) \in Nat /\ A(i) <= clock + 1
  BY AgeIs
<1> HIDE DEF A, D
<1>3. S \in SUBSET Nat /\ S # {}
  <2>1. 1 \in D
    BY <1>1
  <2>2. \A i \in D : clock + 1 - A(i) \in Nat
    BY <1>1, <1>2
  <2>3. QED
    BY <2>1, <2>2
<1>4. PICK x \in S : \A y \in S : x <= y
  BY <1>3, Least
<1>5. PICK m \in D : x = clock + 1 - A(m)
  BY <1>4
<1>6. \A j \in D : A(j) <= A(m)
  <2>1. SUFFICES ASSUME NEW j \in D PROVE A(j) <= A(m)
    OBVIOUS
  <2>2. clock + 1 - A(m) <= clock + 1 - A(j)
    BY <1>4, <1>5
  <2>3. A(m) \in Nat /\ A(j) \in Nat
    BY <1>2
  <2>4. QED
    BY <1>1, <2>2, <2>3
<1> DEFINE R == {i \in D : A(i) = A(m)}
<1>7. R \in SUBSET Nat /\ R # {}
  BY <1>1
<1>8. PICK i \in R : \A j \in R : i <= j
  BY <1>7, Least
<1>9. ASSUME NEW j \in D PROVE A(j) < A(i) \/ (A(j) = A(i) /\ i <= j)
  <2>1. A(i) = A(m) /\ A(j) <= A(m) /\ A(j) \in Nat /\ A(m) \in Nat
    BY <1>2, <1>6
  <2>2. CASE A(j) = A(m)
    BY <1>8, <2>1, <2>2
  <2>3. CASE A(j) # A(m)
    <3>1. A(j) < A(m)
      BY <2>1, <2>3
    <3>2. QED
      BY <2>1, <3>1
  <2>4. QED
    BY <2>2, <2>3
<1>10. QED
  BY <1>9 DEF A, D

(* addPath: one entry is new or made new, the others are those there were. *)
LEMMA AddPathIs ==
    ASSUME PrefsOK, recents = prefs, NEW w \in World
    PROVE  /\ AddPath(w) \in Seq(Entry) /\ Len(AddPath(w)) <= MaxRecents
           /\ \E m \in DOMAIN AddPath(w) :
                 /\ AddPath(w)[m] = Added(w)
                 /\ \A k \in DOMAIN AddPath(w) \ {m} :
                       k \in DOMAIN prefs /\ AddPath(w)[k] = prefs[k] /\ prefs[k].world # w
<1> DEFINE q == AddPath(w)
<1>1. /\ prefs \in Seq(Entry) /\ Len(prefs) \in Nat /\ DOMAIN prefs = 1..Len(prefs)
      /\ Len(prefs) <= MaxRecents /\ Strict(prefs) /\ clock \in Nat
  BY DEF PrefsOK
<1>2. Added(w) \in Entry
  BY <1>1 DEF Added, Entry
<1>3. CASE IndexOfWorld(w) # {}
  <2>1. PICK m \in DOMAIN prefs : prefs[m].world = w
    BY <1>3 DEF IndexOfWorld
  <2>2. ASSUME NEW k \in DOMAIN prefs, k # m PROVE prefs[k].world # w
    <3>1. k < m \/ m < k
      BY <1>1, <2>2
    <3>2. QED
      BY <1>1, <2>1, <3>1 DEF Strict
  <2>3. IndexOfWorld(w) = {m}
    BY <2>1, <2>2 DEF IndexOfWorld
  <2>4. q = [i \in DOMAIN prefs |-> IF i \in {m} THEN Added(w) ELSE prefs[i]]
    BY <1>3, <2>3 DEF AddPath
  <2>5. /\ q \in Seq(Entry) /\ Len(q) = Len(prefs) /\ DOMAIN q = DOMAIN prefs
        /\ q[m] = Added(w) /\ \A k \in DOMAIN q \ {m} : q[k] = prefs[k]
    BY <1>1, <1>2, <2>1, <2>4
  <2>6. QED
    BY <1>1, <2>1, <2>2, <2>5
<1>4. CASE IndexOfWorld(w) = {} /\ Len(prefs) < MaxRecents
  <2>1. q = Append(prefs, Added(w))
    BY <1>4 DEF AddPath
  <2>2. \A k \in DOMAIN prefs : prefs[k].world # w
    BY <1>4 DEF IndexOfWorld
  <2>3. /\ q \in Seq(Entry) /\ Len(q) = Len(prefs) + 1 /\ DOMAIN q = 1..(Len(prefs) + 1)
        /\ q[Len(prefs) + 1] = Added(w) /\ \A k \in DOMAIN prefs : q[k] = prefs[k]
    BY <1>1, <1>2, <2>1
  <2>4. \A k \in DOMAIN q \ {Len(prefs) + 1} : k \in DOMAIN prefs
    BY <1>1, <2>3
  <2>5. Len(prefs) + 1 \in DOMAIN q /\ Len(q) <= MaxRecents
    BY <1>1, <1>4, <2>3, WorldsConstants
  <2>6. QED
    BY <2>2, <2>3, <2>4, <2>5
<1>5. CASE IndexOfWorld(w) = {} /\ ~(Len(prefs) < MaxRecents)
  <2> DEFINE oldest == CHOOSE i \in DOMAIN prefs :
                          \A j \in DOMAIN prefs :
                             \/ Age(prefs[j]) < Age(prefs[i])
                             \/ (Age(prefs[j]) = Age(prefs[i]) /\ i <= j)
  <2>1. oldest \in DOMAIN prefs
    BY <1>1, <1>5, OldestExists, WorldsConstants
  <2>2. q = [prefs EXCEPT ![oldest] = Added(w)]
    BY <1>5 DEF AddPath
  <2> HIDE DEF oldest
  <2>3. \A k \in DOMAIN prefs : prefs[k].world # w
    BY <1>5 DEF IndexOfWorld
  <2>4. /\ q \in Seq(Entry) /\ Len(q) = Len(prefs) /\ DOMAIN q = DOMAIN prefs
        /\ q[oldest] = Added(w) /\ \A k \in DOMAIN q \ {oldest} : q[k] = prefs[k]
    BY <1>1, <1>2, <2>1, <2>2
  <2>5. QED
    BY <1>1, <2>1, <2>3, <2>4
<1>6. QED
  BY <1>3, <1>4, <1>5
(* A world that was opened is at the head of the list that is saved. *)
LEMMA AddedIsSaved ==
    ASSUME PrefsOK, recents = prefs, NEW w \in World, SaveRecents(AddPath(w)),
           clock' = clock + 1, opened' = opened \cup {w}, last' = w
    PROVE  PrefsOK' /\ recents' = prefs'
<1> DEFINE q == AddPath(w)
           D == DOMAIN q
<1>1. q \in Seq(Entry) /\ Len(q) <= MaxRecents
  BY AddPathIs
<1>2. PICK m \in D : /\ q[m] = Added(w)
                     /\ \A k \in D \ {m} :
                           k \in DOMAIN prefs /\ q[k] = prefs[k] /\ prefs[k].world # w
  BY AddPathIs
<1> HIDE DEF q
<1>3. /\ Strict(prefs) /\ clock \in Nat /\ opened \subseteq World /\ prefs \in Seq(Entry)
      /\ \A i \in DOMAIN prefs : prefs[i].time <= clock /\ prefs[i].world \in opened
  BY DEF PrefsOK
<1>4. Len(q) \in Nat /\ D = 1..Len(q) /\ \A k \in D : k \in Int
  BY <1>1
<1>5. q[m].time = clock + 1 /\ q[m].world = w
  BY <1>2 DEF Added
<1>6. \A k \in D \ {m} : /\ q[k].time = prefs[k].time /\ q[k].world = prefs[k].world
                         /\ k \in DOMAIN prefs /\ prefs[k].world # w
  BY <1>2
<1>7. \A k \in D : q[k].time \in Nat /\ q[k].world \in World
  <2>1. \A k \in D : q[k] \in Entry
    BY <1>1
  <2>2. QED
    BY <2>1 DEF Entry
<1>8. \A k \in D \ {m} : q[k].time <= clock /\ q[k].world \in opened /\ q[k].world # w
  BY <1>3, <1>6
<1>9. ASSUME NEW i \in D \ {m}, NEW j \in D \ {m}, i < j
      PROVE  q[i].time > q[j].time /\ q[i].world # q[j].world
  BY <1>3, <1>6, <1>9 DEF Strict
<1> DEFINE p == [k \in D |-> IF k = 1 THEN m ELSE IF k <= m THEN k - 1 ELSE k]
<1>10. /\ p \in [D -> D] /\ IsInjective(p)
       /\ \A b \in D : \E a \in D : p[a] = b
  <2>1. p \in [D -> D]
    BY <1>4
  <2>2. ASSUME NEW a \in D, NEW b \in D, a # b PROVE p[a] # p[b]
    BY <1>4, <2>2
  <2>3. ASSUME NEW b \in D PROVE \E a \in D : p[a] = b
    <3>1. CASE b = m
      <4>1. 1 \in D /\ p[1] = m
        BY <1>4
      <4>2. QED
        BY <3>1, <4>1
    <3>2. CASE b < m
      <4>1. b + 1 \in D /\ p[b + 1] = b
        BY <1>4, <3>2
      <4>2. QED
        BY <4>1
    <3>3. CASE b > m
      <4>1. p[b] = b
        BY <1>4, <3>3
      <4>2. QED
        BY <4>1
    <3>4. QED
      BY <1>4, <3>1, <3>2, <3>3
  <2>4. QED
    BY <2>1, <2>2, <2>3 DEF IsInjective
<1>11. p \in Bijection(D, D)
  BY <1>10 DEF Bijection, Injection, Surjection
<1>12. ASSUME NEW i \in D, NEW j \in D, i < j PROVE q[p[i]].time > q[p[j]].time
  <2>1. i \in 1..Len(q) /\ j \in 1..Len(q) /\ m \in 1..Len(q) /\ j # 1
    BY <1>4, <1>12
  <2>2. CASE i = 1
    <3>1. p[i] = m /\ p[j] \in D \ {m}
      BY <1>4, <2>1, <2>2
    <3>2. QED
      BY <1>3, <1>5, <1>7, <1>8, <3>1
  <2>3. CASE i # 1
    <3>1. p[i] \in D \ {m} /\ p[j] \in D \ {m} /\ p[i] < p[j]
      BY <1>4, <1>12, <2>1, <2>3
    <3>2. QED
      BY <1>9, <3>1
  <2>4. QED
    BY <2>2, <2>3
<1> HIDE DEF p
<1>13. ASSUME NEW i \in D, NEW j \in D, i # j PROVE q[i].world # q[j].world
  <2>1. CASE i = m \/ j = m
    BY <1>5, <1>8, <1>13, <2>1
  <2>2. CASE i # m /\ j # m
    <3>1. i < j \/ j < i
      BY <1>4, <1>13
    <3>2. QED
      BY <1>9, <2>2, <3>1
  <2>3. QED
    BY <2>1, <2>2
<1>14. SaveRecents(q)
  BY DEF q
<1>15. /\ prefs' \in Seq(Entry) /\ Len(prefs') = Len(q) /\ recents' = prefs'
       /\ Strict(prefs')
       /\ \A i \in DOMAIN prefs' : \E k \in D : prefs'[i] = q[k]
       /\ 1 \in DOMAIN prefs' /\ prefs'[1].time >= clock + 1
  BY <1>1, <1>5, <1>11, <1>12, <1>13, <1>14, SortingIs
<1>16. \A i \in DOMAIN prefs' : prefs'[i].time <= clock + 1 /\ prefs'[i].world \in opened \cup {w}
  BY <1>3, <1>5, <1>7, <1>8, <1>15
<1>17. ASSUME NEW i \in DOMAIN prefs', prefs'[i].world = w PROVE i = 1
  <2>1. PICK k \in D : prefs'[i] = q[k]
    BY <1>15
  <2>2. prefs'[i].time = clock + 1
    BY <1>5, <1>8, <1>17, <2>1
  <2>3. prefs'[1].time <= prefs'[i].time /\ prefs'[1].time \in Nat /\ prefs'[i].time \in Nat
    <3>1. prefs'[1] \in Entry /\ prefs'[i] \in Entry
      BY <1>15
    <3>2. QED
      BY <1>15, <1>16, <2>2, <3>1 DEF Entry
  <2>4. ~(1 < i)
    BY <1>15, <2>3 DEF Strict
  <2>5. QED
    BY <1>15, <2>4
<1>18. QED
  BY <1>1, <1>3, <1>15, <1>16, <1>17 DEF PrefsOK

(* A world that was removed leaves the others as they are. *)
LEMMA RemovedIsSaved ==
    ASSUME PrefsOK, recents = prefs, NEW i \in DOMAIN recents,
           SaveRecents(RemoveAt(recents, i)), UNCHANGED <<clock, opened, last>>
    PROVE  PrefsOK' /\ recents' = prefs'
<1> DEFINE q == RemoveAt(prefs, i)
           old(k) == IF k < i THEN k ELSE k + 1
<1>1. /\ prefs \in Seq(Entry) /\ Len(prefs) <= MaxRecents /\ Strict(prefs)
      /\ clock \in Nat /\ opened \subseteq World
      /\ \A k \in DOMAIN prefs : prefs[k].world = last => k = 1
      /\ \A k \in DOMAIN prefs : prefs[k].time <= clock /\ prefs[k].world \in opened
  BY DEF PrefsOK
<1>2. /\ q \in Seq(Entry) /\ Len(q) = Len(prefs) - 1
      /\ \A k \in DOMAIN q : q[k] = IF k < i THEN prefs[k] ELSE prefs[k + 1]
  BY <1>1, RemovedIs
<1> HIDE DEF q
<1>3. /\ Len(prefs) \in Nat /\ i \in 1..Len(prefs) /\ DOMAIN prefs = 1..Len(prefs)
      /\ Len(q) \in Nat /\ DOMAIN q = 1..Len(q)
  BY <1>1, <1>2
<1>4. \A k \in DOMAIN q : old(k) \in DOMAIN prefs /\ q[k] = prefs[old(k)]
  BY <1>2, <1>3
<1>5. Strict(q)
  <2>1. SUFFICES ASSUME NEW a \in DOMAIN q, NEW b \in DOMAIN q, a < b
                 PROVE  q[a].time > q[b].time /\ q[a].world # q[b].world
    BY DEF Strict
  <2>2. old(a) < old(b) /\ old(a) \in DOMAIN prefs /\ old(b) \in DOMAIN prefs
    BY <1>3, <1>4, <2>1
  <2> HIDE DEF old
  <2>3. QED
    BY <1>1, <1>4, <2>2 DEF Strict
<1>6. /\ recents' = prefs' /\ prefs' \in Seq(Entry) /\ Len(prefs') = Len(q) /\ Strict(prefs')
      /\ \A a \in DOMAIN prefs' : \E k \in DOMAIN q : prefs'[a] = q[k]
      /\ \A k \in DOMAIN q : 1 \in DOMAIN prefs' /\ prefs'[1].time >= q[k].time
  BY <1>2, <1>5, OrderedIsSaved DEF q
<1>7. \A a \in DOMAIN prefs' : prefs'[a].time <= clock /\ prefs'[a].world \in opened
  BY <1>1, <1>4, <1>6
<1>8. ASSUME NEW a \in DOMAIN prefs', prefs'[a].world = last PROVE a = 1
  <2>1. PICK k \in DOMAIN q : prefs'[a] = q[k]
    BY <1>6
  <2>2. old(k) = 1
    BY <1>1, <1>4, <1>8, <2>1
  <2>3. PICK j \in DOMAIN q : 1 \in DOMAIN prefs' /\ prefs'[1] = q[j]
    BY <1>6, <2>1
  <2>4. k = 1 /\ i > 1
    BY <1>3, <2>2
  <2>5. /\ prefs'[1] \in Entry /\ prefs'[a] \in Entry /\ prefs'[1].time \in Nat
        /\ prefs'[a].time \in Nat
    <3>1. prefs'[1] \in Entry /\ prefs'[a] \in Entry
      BY <1>6, <2>3
    <3>2. QED
      BY <3>1 DEF Entry
  <2>6. prefs'[1].time <= prefs'[a].time
    <3>1. CASE j = 1
      BY <2>1, <2>3, <2>4, <2>5, <3>1
    <3>2. CASE j # 1
      <4>1. k < j
        BY <1>3, <2>4, <3>2
      <4>2. q[k].time > q[j].time
        BY <1>5, <4>1 DEF Strict
      <4>3. QED
        BY <2>1, <2>3, <2>5, <4>2
    <3>3. QED
      BY <3>1, <3>2
  <2>7. ~(1 < a)
    BY <1>6, <2>3, <2>5, <2>6 DEF Strict
  <2>8. QED
    BY <1>6, <2>7
<1>9. Len(prefs') <= MaxRecents
  BY <1>1, <1>2, <1>3, <1>6, WorldsConstants
<1>10. clock' \in Nat /\ opened' \subseteq World
  BY <1>1
<1>11. QED
  BY <1>6, <1>7, <1>8, <1>9, <1>10 DEF PrefsOK
(* The list, in every step. *)
LEMMA OpenIs ==
    ASSUME NEW w, Open(w)
    PROVE  \/ UNCHANGED <<recents, prefs, selectedWorld, screen, clock, opened, last>>
              /\ dialogs' = {"error"}
           \/ /\ SaveRecents(AddPath(w)) /\ clock' = clock + 1
              /\ opened' = opened \cup {w} /\ last' = w
              /\ selectedWorld' = 0 /\ dialogs' = {}
  BY DEF Open

LEMMA ListKept == ASSUME PrefsOK, ListOK, WorldsNext PROVE PrefsOK' /\ ListOK'
<1> USE DEF Ready, Event, workerVars
<1> DEFINE listed == <<recents, prefs, clock, opened, last>>
           keeps == UNCHANGED listed /\ visible' = visible
<1>0. /\ selectedWorld \in 0..MaxRecents /\ dialogs \subseteq {"file", "create", "error"}
      /\ MaxRecents \in Nat /\ 0 \in 0..MaxRecents
      /\ visible => recents = prefs
      /\ DOMAIN recents = 1..Len(recents) /\ Len(recents) \in 0..MaxRecents
  <2>1. Len(prefs) \in 0..MaxRecents /\ DOMAIN prefs = 1..Len(prefs) /\ MaxRecents \in Nat
    BY WorldsConstants DEF PrefsOK
  <2>2. QED
    BY <2>1, WorldsConstants DEF ListOK, ListIsSaved
<1>1. ASSUME UNCHANGED <<prefs, clock, opened, last>> PROVE PrefsOK'
  BY <1>1 DEF PrefsOK, Strict
<1>2. ASSUME UNCHANGED <<recents, prefs, clock, opened, last, selectedWorld>>,
             visible' = visible \/ visible' = FALSE,
             dialogs' \subseteq {"file", "create", "error"}
      PROVE  PrefsOK' /\ ListOK'
  <2>1. visible \in BOOLEAN /\ (recents = prefs \/ (recents = <<>> /\ ~visible))
    BY DEF ListOK, ListIsSaved
  <2>2. (recents' = prefs' \/ (recents' = <<>> /\ ~visible')) /\ visible' \in BOOLEAN
    <3>1. CASE visible' = visible
      BY <1>2, <2>1, <3>1
    <3>2. CASE visible' = FALSE
      BY <1>2, <2>1, <3>2
    <3>3. QED
      BY <1>2, <3>1, <3>2
  <2>3. QED
    BY <1>0, <1>1, <1>2, <2>2 DEF ListOK, ListIsSaved
<1>3. ASSUME PrefsOK', recents' = prefs', visible' = visible,
             selectedWorld' \in {0, selectedWorld},
             dialogs' \subseteq {"file", "create", "error"}
      PROVE  PrefsOK' /\ ListOK'
  BY <1>0, <1>3 DEF ListOK, ListIsSaved
<1>4. CASE WorkerTake \/ WorkerDone \/ StartOfFrame \/ ResetInfo \/ Animate \/ Draw
  <2>1. UNCHANGED listVars
    BY <1>4 DEF WorkerTake, WorkerDone, StartOfFrame, ResetInfo, Animate, Draw
  <2>2. QED
    BY <1>0, <1>2, <2>1 DEF listVars
<1>5. CASE Show
  <2>1. visible' = TRUE /\ dialogs' = {} /\ recents' = prefs /\ selectedWorld' = 0
        /\ UNCHANGED <<prefs, clock, opened, last>>
    BY <1>5 DEF Show
  <2>2. QED
    BY <1>0, <1>1, <2>1 DEF ListOK, ListIsSaved
<1>6. CASE Close \/ CreateFails \/ Dismiss \/ \E d \in {"file", "create"} : OpenDialog(d)
  <2>1. /\ UNCHANGED <<recents, prefs, clock, opened, last, selectedWorld>>
        /\ visible' = visible \/ visible' = FALSE
    BY <1>6 DEF Close, CreateFails, Dismiss, OpenDialog
  <2>2. dialogs' \subseteq {"file", "create", "error"}
    BY <1>0, <1>6 DEF Close, CreateFails, Dismiss, OpenDialog
  <2>3. QED
    BY <1>2, <2>1, <2>2
<1>7. ASSUME NEW i \in 1..MaxRecents, Select(i) PROVE PrefsOK' /\ ListOK'
  <2>1. /\ UNCHANGED <<recents, prefs, clock, opened, last, dialogs, visible>>
        /\ selectedWorld' = i
    BY <1>7 DEF Select
  <2>2. QED
    BY <1>0, <1>1, <2>1 DEF ListOK, ListIsSaved
<1>8. ASSUME NEW i \in DOMAIN recents, visible, SaveRecents(RemoveAt(recents, i)),
             UNCHANGED <<clock, opened, last, visible, dialogs>>,
             selectedWorld' \in {0, selectedWorld}
      PROVE  PrefsOK' /\ ListOK'
  BY <1>0, <1>3, <1>8, RemovedIsSaved
<1>9. CASE RemoveSelected
  BY <1>8, <1>9 DEF RemoveSelected
<1>10. ASSUME NEW i \in 1..MaxRecents, RemoveWorld(i) PROVE PrefsOK' /\ ListOK'
  BY <1>8, <1>10 DEF RemoveWorld
<1>11. ASSUME NEW w \in World, visible, Open(w), visible' = visible PROVE PrefsOK' /\ ListOK'
  <2>1. CASE UNCHANGED <<recents, prefs, selectedWorld, screen, clock, opened, last>>
             /\ dialogs' = {"error"}
    BY <1>2, <1>11, <2>1
  <2>2. CASE /\ SaveRecents(AddPath(w)) /\ clock' = clock + 1
             /\ opened' = opened \cup {w} /\ last' = w
             /\ selectedWorld' = 0 /\ dialogs' = {}
    BY <1>0, <1>3, <1>11, <2>2, AddedIsSaved
  <2>3. QED
    BY <1>11, <2>1, <2>2, OpenIs
<1>12. CASE OpenSelected
  <2>1. recents[selectedWorld].world \in World
    <3>1. selectedWorld \in DOMAIN prefs /\ recents = prefs /\ prefs \in Seq(Entry)
      BY <1>0, <1>12 DEF OpenSelected, PrefsOK
    <3>2. prefs[selectedWorld] \in Entry
      BY <3>1
    <3>3. QED
      BY <3>1, <3>2 DEF Entry
  <2>2. visible /\ visible' = visible /\ Open(recents[selectedWorld].world)
    BY <1>12 DEF OpenSelected
  <2>3. QED
    BY <1>11, <2>1, <2>2
<1>13. ASSUME NEW w \in World, OpenOther(w) PROVE PrefsOK' /\ ListOK'
  <2>1. visible /\ visible' = visible /\ Open(w)
    BY <1>13 DEF OpenOther
  <2>2. QED
    BY <1>11, <2>1
<1>14. ASSUME NEW w \in World, CreateWorld(w) PROVE PrefsOK' /\ ListOK'
  <2>1. /\ SaveRecents(AddPath(w)) /\ clock' = clock + 1 /\ visible
        /\ opened' = opened \cup {w} /\ last' = w /\ dialogs' = {}
        /\ UNCHANGED <<selectedWorld, visible>>
    BY <1>14 DEF CreateWorld
  <2>2. QED
    BY <1>0, <1>3, <2>1, AddedIsSaved
<1>15. CASE ComeBack
  <2>1. visible' = FALSE /\ recents' = <<>> /\ selectedWorld' = 0 /\ dialogs' = {}
        /\ UNCHANGED <<prefs, clock, opened, last>>
    BY <1>15 DEF ComeBack
  <2>2. QED
    BY <1>0, <1>1, <2>1 DEF ListOK, ListIsSaved
<1>16. QED
  BY <1>4, <1>5, <1>6, <1>7, <1>9, <1>10, <1>12, <1>13, <1>14, <1>15 DEF WorldsNext, UserEvent
-----------------------------------------------------------------------------
(* The worker and the background *)

Image == World \cup {NoWorld}
Invalid == Info("invalid", NoWorld)
Known == {Info("image", w) : w \in World}

WorkerOK ==
    /\ work \in Seq(World) /\ worker \in World \cup {NoWorld}
    /\ frame \in {"begin", "taken", "draw"}
    /\ backgroundInfo \in {NoInfo, Invalid} \cup Known
    /\ frame = "taken" => backgroundInfo # NoInfo

BackgroundOK ==
    /\ texture \in [{1, 2} -> Image] /\ mix \in {1, 2} /\ bgAnim \in Animation
    /\ lastImage \in Image /\ showBackground \in BOOLEAN
    /\ bgAnim \notin {"None", "FadeOut"} => showBackground
    /\ BackgroundIsLast /\ FadingToLast

LEMMA InfosAre ==
    /\ NoInfo.kind = "none" /\ Invalid.kind = "invalid" /\ Invalid # NoInfo
    /\ \A w : Info("image", w).kind = "image" /\ Info("image", w).image = w
              /\ Info("image", w) # NoInfo
  BY DEF NoInfo, Info, Invalid

LEMMA WorkerKept == ASSUME WorkerOK, ListOK, PrefsOK, WorldsNext PROVE WorkerOK'
<1> USE DEF Ready, Event, workerVars
<1>1. CASE WorkerTake
  <2>1. /\ work # <<>> /\ worker' = Head(work) /\ work' = Tail(work)
        /\ UNCHANGED <<frame, backgroundInfo>>
    BY <1>1 DEF WorkerTake
  <2>2. Head(work) \in World /\ Tail(work) \in Seq(World)
    BY <2>1 DEF WorkerOK
  <2>3. QED
    BY <2>1, <2>2 DEF WorkerOK
<1>2. CASE WorkerDone
  <2>1. /\ worker \in World /\ worker' = NoWorld /\ UNCHANGED <<frame, work>>
        /\ backgroundInfo' \in {backgroundInfo, Info("image", worker), Invalid}
    BY <1>2 DEF WorkerDone, WorkerOK, Invalid
  <2>2. /\ backgroundInfo' \in {NoInfo, Invalid} \cup Known
        /\ backgroundInfo' = NoInfo => backgroundInfo = NoInfo
    BY <2>1, InfosAre DEF WorkerOK, Known
  <2>3. QED
    BY <2>1, <2>2 DEF WorkerOK
<1>3. CASE StartOfFrame
  <2>1. /\ UNCHANGED <<work, worker, backgroundInfo>>
        /\ \/ frame' = "draw"
           \/ frame' = "taken" /\ backgroundInfo # NoInfo
    BY <1>3 DEF StartOfFrame
  <2>2. QED
    BY <2>1 DEF WorkerOK
<1>4. CASE ResetInfo
  BY <1>4 DEF ResetInfo, WorkerOK
<1>5. CASE Animate \/ Draw
  BY <1>5 DEF Animate, Draw, WorkerOK
<1>6. CASE ComeBack
  <2>1. work' = <<>> /\ frame' = "begin" /\ backgroundInfo' = NoInfo /\ worker' = worker
    BY <1>6 DEF ComeBack
  <2>2. QED
    BY <2>1 DEF WorkerOK
<1>7. ASSUME NEW i \in 1..MaxRecents, Select(i) PROVE WorkerOK'
  <2>1. /\ work' = Append(work, recents[i].world) /\ i \in DOMAIN recents
        /\ UNCHANGED <<worker, frame, backgroundInfo>> /\ visible
    BY <1>7 DEF Select
  <2>2. recents[i] \in Entry
    BY <2>1 DEF ListOK, ListIsSaved, PrefsOK
  <2>3. recents[i].world \in World
    BY <2>2 DEF Entry
  <2>4. Append(work, recents[i].world) \in Seq(World)
    BY <2>3 DEF WorkerOK
  <2>5. QED
    BY <2>1, <2>4 DEF WorkerOK
<1>8. ASSUME UNCHANGED <<work, worker, frame, backgroundInfo>> PROVE WorkerOK'
  BY <1>8 DEF WorkerOK
<1>9. CASE \/ Show \/ Close \/ RemoveSelected \/ OpenSelected \/ CreateFails \/ Dismiss
           \/ \E i \in 1..MaxRecents : RemoveWorld(i)
           \/ \E w \in World : OpenOther(w) \/ CreateWorld(w)
           \/ \E d \in {"file", "create"} : OpenDialog(d)
  BY <1>8, <1>9 DEF Show, Close, RemoveSelected, OpenSelected, CreateFails, Dismiss,
     RemoveWorld, OpenOther, CreateWorld, OpenDialog
<1>10. QED
  BY <1>1, <1>2, <1>3, <1>4, <1>5, <1>6, <1>7, <1>9 DEF WorldsNext, UserEvent

(* What the background does; the texture that is not shown takes the image. *)
LEMMA ImageIsSet ==
    ASSUME BackgroundOK, NEW w \in World, SetBackgroundImage(w) PROVE BackgroundOK'
<1> DEFINE animate == bgAnim = "None"
           t == IF mix = 1 /\ showBackground /\ animate THEN 2 ELSE 1
<1>1. /\ texture' = [texture EXCEPT ![t] = w]
      /\ bgAnim' = IF ~animate THEN "None" ELSE IF ~showBackground THEN "FadeIn1"
                   ELSE IF mix = 1 THEN "Crossfade1To2" ELSE "Crossfade2To1"
      /\ mix' = IF animate THEN mix ELSE 1
      /\ showBackground' = TRUE /\ lastImage' = w
  BY DEF SetBackgroundImage
<1>2. /\ texture \in [{1, 2} -> Image] /\ mix \in {1, 2} /\ showBackground \in BOOLEAN
      /\ w \in Image /\ w # NoWorld /\ t \in {1, 2}
  BY WorldsConstants DEF BackgroundOK, Image
<1>3. texture' \in [{1, 2} -> Image] /\ texture'[t] = w
  BY <1>1, <1>2
<1>4. mix' \in {1, 2} /\ bgAnim' \in Animation
  BY <1>1, <1>2 DEF Animation
<1>5. BackgroundIsLast'
  <2>1. CASE animate
    <3>1. bgAnim' # "None"
      BY <1>1, <2>1
    <3>2. QED
      BY <3>1 DEF BackgroundIsLast
  <2>2. CASE ~animate
    <3>1. t = 1 /\ mix' = 1 /\ showBackground' /\ texture'[1] = w /\ lastImage' # NoWorld
      BY <1>1, <1>2, <1>3, <2>2
    <3>2. QED
      BY <1>1, <3>1 DEF BackgroundIsLast
  <2>3. QED
    BY <2>1, <2>2
<1>6. FadingToLast'
  <2>1. CASE ~animate
    BY <1>1, <2>1 DEF FadingToLast
  <2>2. CASE animate /\ ~showBackground
    <3>1. t = 1 /\ bgAnim' = "FadeIn1"
      BY <1>1, <2>2
    <3>2. QED
      BY <1>1, <1>2, <1>3, <3>1 DEF FadingToLast
  <2>3. CASE animate /\ showBackground /\ mix = 1
    <3>1. t = 2 /\ bgAnim' = "Crossfade1To2"
      BY <1>1, <2>3
    <3>2. QED
      BY <1>1, <1>2, <1>3, <3>1 DEF FadingToLast
  <2>4. CASE animate /\ showBackground /\ mix # 1
    <3>1. t = 1 /\ bgAnim' = "Crossfade2To1"
      BY <1>1, <2>4
    <3>2. QED
      BY <1>1, <1>2, <1>3, <3>1 DEF FadingToLast
  <2>5. QED
    BY <1>2, <2>1, <2>2, <2>3, <2>4
<1>7. QED
  BY <1>1, <1>2, <1>3, <1>4, <1>5, <1>6 DEF BackgroundOK

LEMMA ImageIsCleared ==
    ASSUME BackgroundOK, ClearBackgroundImage PROVE BackgroundOK'
<1>1. bgAnim' = "FadeOut" /\ lastImage' = NoWorld /\ UNCHANGED <<texture, mix, showBackground>>
  BY DEF ClearBackgroundImage
<1>2. BackgroundIsLast' /\ FadingToLast'
  BY <1>1 DEF BackgroundIsLast, FadingToLast
<1>3. QED
  BY <1>1, <1>2 DEF BackgroundOK, Animation, Image

LEMMA FadingEnds ==
    ASSUME BackgroundOK, bgAnim # "None", EndAnimation PROVE BackgroundOK'
<1>1. /\ bgAnim' = "None"
      /\ mix' = IF bgAnim = "Crossfade1To2" THEN 2 ELSE 1
      /\ showBackground' = (bgAnim # "FadeOut")
      /\ UNCHANGED <<texture, lastImage>>
  BY DEF EndAnimation
<1>2. mix' \in {1, 2} /\ FadingToLast' /\ showBackground' \in BOOLEAN
  BY <1>1 DEF FadingToLast
<1>3. BackgroundIsLast'
  <2>1. CASE bgAnim = "FadeOut"
    BY <1>1, <2>1 DEF BackgroundIsLast, BackgroundOK, FadingToLast
  <2>2. CASE bgAnim = "Crossfade1To2"
    <3>1. mix' = 2 /\ showBackground' /\ texture'[2] = lastImage' /\ lastImage' # NoWorld
      BY <1>1, <2>2 DEF BackgroundOK, FadingToLast
    <3>2. QED
      BY <3>1 DEF BackgroundIsLast
  <2>3. CASE bgAnim \in {"FadeIn1", "Crossfade2To1"}
    <3>1. mix' = 1 /\ showBackground' /\ texture'[1] = lastImage' /\ lastImage' # NoWorld
      BY <1>1, <2>3 DEF BackgroundOK, FadingToLast
    <3>2. QED
      BY <3>1 DEF BackgroundIsLast
  <2>4. QED
    BY <2>1, <2>2, <2>3 DEF BackgroundOK, Animation
<1>4. QED
  BY <1>1, <1>2, <1>3 DEF BackgroundOK, Animation

LEMMA BackgroundKept ==
    ASSUME BackgroundOK, ClosedFades, WorkerOK, ListOK, lastVisible \in BOOLEAN, WorldsNext
    PROVE  BackgroundOK' /\ ClosedFades' /\ lastVisible' \in BOOLEAN
<1> USE DEF Ready, Event
<1>0. visible \in BOOLEAN /\ lastVisible \in BOOLEAN
  BY DEF ListOK
<1>1. ASSUME UNCHANGED backgroundVars
      PROVE  BackgroundOK'
  BY <1>1 DEF backgroundVars, BackgroundOK, BackgroundIsLast, FadingToLast
<1>2. ASSUME UNCHANGED <<backgroundVars, visible, lastVisible>>, frame' \in {frame, "draw"}
      PROVE  BackgroundOK' /\ ClosedFades' /\ lastVisible' \in BOOLEAN
  BY <1>0, <1>1, <1>2 DEF backgroundVars, ClosedFades
<1>3. CASE WorkerTake \/ WorkerDone \/ ResetInfo
  <2>1. UNCHANGED <<backgroundVars, visible, lastVisible>> /\ frame' \in {frame, "draw"}
    BY <1>3 DEF WorkerTake, WorkerDone, ResetInfo, listVars
  <2>2. QED
    BY <1>2, <2>1
<1>4. CASE StartOfFrame
  <2>1. UNCHANGED <<visible, lastVisible>> /\ lastVisible = visible
    BY <1>4 DEF StartOfFrame, listVars, ClosedFades
  <2>2. CASE UNCHANGED backgroundVars
    BY <1>0, <1>1, <2>1, <2>2 DEF ClosedFades, backgroundVars
  <2>3. CASE ClearBackgroundImage
    <3>1. bgAnim' = "FadeOut"
      BY <2>3 DEF ClearBackgroundImage
    <3>2. QED
      BY <1>0, <2>1, <2>3, <3>1, ImageIsCleared DEF ClosedFades
  <2>4. CASE /\ backgroundInfo # NoInfo /\ backgroundInfo.kind # "invalid" /\ visible
             /\ SetBackgroundImage(backgroundInfo.image)
    <3>1. backgroundInfo \in Known
      BY <2>4, InfosAre DEF WorkerOK
    <3>2. backgroundInfo.image \in World
      BY <3>1, InfosAre DEF Known
    <3>3. QED
      BY <1>0, <2>1, <2>4, <3>2, ImageIsSet DEF ClosedFades
  <2>5. QED
    BY <1>4, <2>2, <2>3, <2>4 DEF StartOfFrame
<1>5. CASE Animate
  <2>1. UNCHANGED <<visible, lastVisible, frame>> /\ bgAnim # "None" /\ EndAnimation
    BY <1>5 DEF Animate, listVars
  <2>2. ClosedFades'
    <3>1. SUFFICES ASSUME ~lastVisible PROVE ~showBackground'
      BY <2>1 DEF ClosedFades
    <3>2. bgAnim = "FadeOut"
      BY <2>1, <3>1 DEF ClosedFades, BackgroundOK
    <3>3. QED
      BY <2>1, <3>2 DEF EndAnimation
  <2>3. QED
    BY <1>0, <2>1, <2>2, FadingEnds
<1>6. CASE Draw
  <2>1. visible' = visible /\ lastVisible' = visible
    BY <1>6 DEF Draw, listVars
  <2>2. CASE lastVisible /\ ~visible /\ showBackground
    <3>1. ClearBackgroundImage
      BY <1>6, <2>2 DEF Draw
    <3>2. bgAnim' = "FadeOut"
      BY <3>1 DEF ClearBackgroundImage
    <3>3. QED
      BY <1>0, <2>1, <3>1, <3>2, ImageIsCleared DEF ClosedFades
  <2>3. CASE ~(lastVisible /\ ~visible /\ showBackground)
    <3>1. UNCHANGED backgroundVars
      BY <1>6, <2>3 DEF Draw
    <3>2. ClosedFades'
      BY <2>1, <2>3, <3>1 DEF ClosedFades, backgroundVars
    <3>3. QED
      BY <1>0, <1>1, <2>1, <3>1, <3>2
  <2>4. QED
    BY <2>2, <2>3
<1>7. CASE Show
  <2>1. visible' = TRUE /\ UNCHANGED <<backgroundVars, lastVisible>> /\ frame' = "draw"
    BY <1>7 DEF Show
  <2>2. QED
    BY <1>0, <1>1, <2>1 DEF ClosedFades, backgroundVars
<1>8. CASE Close
  <2>1. visible' = FALSE /\ UNCHANGED <<backgroundVars, lastVisible>> /\ frame' = "draw"
    BY <1>8 DEF Close
  <2>2. QED
    BY <1>0, <1>1, <2>1 DEF ClosedFades, backgroundVars
<1>9. CASE ComeBack
  <2>1. /\ lastVisible' = FALSE /\ visible' = FALSE /\ texture' = <<NoWorld, NoWorld>> /\ mix' = 1
        /\ bgAnim' = "None" /\ showBackground' = FALSE /\ lastImage' = NoWorld
    BY <1>9 DEF ComeBack
  <2>2. <<NoWorld, NoWorld>> \in [{1, 2} -> Image] /\ NoWorld \in Image
    BY DEF Image
  <2>3. BackgroundIsLast' /\ FadingToLast' /\ ClosedFades'
    BY <2>1 DEF BackgroundIsLast, FadingToLast, ClosedFades
  <2>4. QED
    BY <2>1, <2>2, <2>3 DEF BackgroundOK, Animation
<1>10. CASE \/ RemoveSelected \/ OpenSelected \/ CreateFails \/ Dismiss
            \/ \E i \in 1..MaxRecents : Select(i) \/ RemoveWorld(i)
            \/ \E w \in World : OpenOther(w) \/ CreateWorld(w)
            \/ \E d \in {"file", "create"} : OpenDialog(d)
  <2>1. UNCHANGED <<backgroundVars, visible, lastVisible, frame>>
    BY <1>10 DEF RemoveSelected, OpenSelected, CreateFails, Dismiss, Select, RemoveWorld,
       OpenOther, CreateWorld, OpenDialog
  <2>2. QED
    BY <1>2, <2>1
<1>11. QED
  BY <1>3, <1>4, <1>5, <1>6, <1>7, <1>8, <1>9, <1>10 DEF WorldsNext, UserEvent
LEMMA WorldsTypesAre ==
    WorldsTypeOK /\ WorldsShape /\ OpenedIsFirst /\ ListIsSaved /\ ListedAreOld
    /\ BackgroundIsLast /\ FadingToLast
        <=> PrefsOK /\ ListOK /\ WorkerOK /\ BackgroundOK /\ lastVisible \in BOOLEAN
<1>1. ASSUME WorldsTypeOK, WorldsShape, OpenedIsFirst, ListIsSaved, ListedAreOld,
             BackgroundIsLast, FadingToLast
      PROVE  PrefsOK /\ ListOK /\ WorkerOK /\ BackgroundOK /\ lastVisible \in BOOLEAN
  <2>1. PrefsOK
    BY <1>1 DEF WorldsTypeOK, WorldsShape, OpenedIsFirst, ListedAreOld, PrefsOK, Strict
  <2>2. ListOK
    BY <1>1 DEF WorldsTypeOK, WorldsShape, ListOK
  <2>3. WorkerOK
    BY <1>1 DEF WorldsTypeOK, WorldsShape, WorkerOK, Invalid, Known
  <2>4. BackgroundOK
    BY <1>1 DEF WorldsTypeOK, WorldsShape, BackgroundOK, Image
  <2>5. QED
    BY <1>1, <2>1, <2>2, <2>3, <2>4 DEF WorldsShape
<1>2. ASSUME PrefsOK, ListOK, WorkerOK, BackgroundOK, lastVisible \in BOOLEAN
      PROVE  /\ WorldsTypeOK /\ WorldsShape /\ OpenedIsFirst /\ ListIsSaved /\ ListedAreOld
             /\ BackgroundIsLast /\ FadingToLast
  <2>1. OpenedIsFirst /\ ListedAreOld
    BY <1>2 DEF PrefsOK, Strict, OpenedIsFirst, ListedAreOld
  <2>2. WorldsShape
    BY <1>2 DEF WorldsShape, PrefsOK, ListOK, WorkerOK, BackgroundOK, Image, Invalid, Known
  <2>3. recents \in Seq(Entry) /\ Len(recents) <= MaxRecents
    <3>1. prefs \in Seq(Entry) /\ Len(prefs) <= MaxRecents /\ recents \in {prefs, <<>>}
      BY <1>2 DEF PrefsOK, ListOK, ListIsSaved
    <3>2. <<>> \in Seq(Entry) /\ Len(<<>>) <= MaxRecents
      BY WorldsConstants
    <3>3. QED
      BY <3>1, <3>2
  <2>4. texture[mix] \in World \cup {NoWorld}
    BY <1>2 DEF BackgroundOK, Image
  <2>5. WorldsTypeOK
    BY <1>2, <2>3, <2>4 DEF WorldsTypeOK, PrefsOK, ListOK, WorkerOK, BackgroundOK
  <2>6. QED
    BY <1>2, <2>1, <2>2, <2>5 DEF ListOK, BackgroundOK
<1>3. QED
  BY <1>1, <1>2

LEMMA WorldsInitHolds == WorldsInit => WorldsIInv
<1> SUFFICES ASSUME WorldsInit PROVE WorldsIInv
  OBVIOUS
<1>1. PICK before \in UNION {[1..n -> World] : n \in 0..MaxRecents} :
         /\ IsInjective(before)
         /\ prefs = [i \in DOMAIN before |->
                        [world |-> before[i], time |-> Len(before) + 1 - i]]
         /\ opened = ToSet(before) /\ clock = Len(before)
         /\ last = IF before = <<>> THEN NoWorld ELSE before[1]
  BY DEF WorldsInit
<1>2. PICK n \in 0..MaxRecents : before \in [1..n -> World]
  BY <1>1
<1>3. /\ n \in Nat /\ n <= MaxRecents /\ before \in Seq(World) /\ Len(before) = n
      /\ DOMAIN before = 1..n /\ \A i \in 1..n : before[i] \in World
  BY <1>2, WorldsConstants
<1>4. PrefsOK
  <2>1. \A i \in 1..n : [world |-> before[i], time |-> n + 1 - i] \in Entry
    BY <1>3 DEF Entry
  <2>2. /\ prefs \in Seq(Entry) /\ Len(prefs) = n /\ DOMAIN prefs = 1..n
        /\ \A i \in 1..n : prefs[i].world = before[i] /\ prefs[i].time = n + 1 - i
    BY <1>1, <1>3, <2>1
  <2>3. opened = {before[i] : i \in 1..n}
    BY <1>1, <1>3 DEF ToSet
  <2>4. Strict(prefs)
    BY <1>1, <1>3, <2>2 DEF Strict, IsInjective
  <2>5. \A i \in 1..n : prefs[i].time <= clock /\ prefs[i].world \in opened
    BY <1>1, <1>3, <2>2, <2>3
  <2>6. ASSUME NEW i \in 1..n, prefs[i].world = last PROVE i = 1
    <3>1. before # <<>> /\ 1 \in 1..n
      BY <1>3
    <3>2. before[i] = before[1]
      BY <1>1, <2>2, <2>6, <3>1
    <3>3. QED
      BY <1>1, <1>3, <3>1, <3>2 DEF IsInjective
  <2>7. opened \subseteq World /\ clock \in Nat
    BY <1>1, <1>3, <2>3
  <2>8. QED
    BY <1>3, <2>2, <2>4, <2>5, <2>6, <2>7 DEF PrefsOK
<1>5. /\ recents = <<>> /\ selectedWorld = 0 /\ dialogs = {} /\ visible = FALSE
      /\ lastVisible = FALSE /\ frame = "begin" /\ work = <<>> /\ worker = NoWorld
      /\ backgroundInfo = NoInfo /\ texture = <<NoWorld, NoWorld>> /\ mix = 1
      /\ bgAnim = "None" /\ showBackground = FALSE /\ lastImage = NoWorld
  BY DEF WorldsInit
<1>6. ListOK
  <2>1. ListIsSaved
    BY <1>5 DEF ListIsSaved
  <2>2. selectedWorld \in 0..MaxRecents
    BY <1>5, WorldsConstants
  <2>3. QED
    BY <1>5, <2>1, <2>2 DEF ListOK
<1>7. WorkerOK
  BY <1>5 DEF WorkerOK
<1>8. BackgroundOK
  <2>1. <<NoWorld, NoWorld>> \in [{1, 2} -> Image] /\ NoWorld \in Image
    BY DEF Image
  <2>2. QED
    BY <1>5, <2>1 DEF BackgroundOK, BackgroundIsLast, FadingToLast, Animation
<1>9. ClosedFades
  BY <1>5 DEF ClosedFades
<1>10. QED
  BY <1>4, <1>5, <1>6, <1>7, <1>8, <1>9, WorldsTypesAre DEF WorldsIInv

LEMMA WorldsStep == WorldsIInv /\ [WorldsNext]_worldsVars => WorldsIInv'
<1> SUFFICES ASSUME WorldsIInv, [WorldsNext]_worldsVars PROVE WorldsIInv'
  OBVIOUS
<1>0. ASSUME PrefsOK', ListOK', WorkerOK', BackgroundOK', ClosedFades', lastVisible' \in BOOLEAN
      PROVE  WorldsIInv'
  <2>1. (WorldsTypeOK /\ WorldsShape /\ OpenedIsFirst /\ ListIsSaved /\ ListedAreOld
         /\ BackgroundIsLast /\ FadingToLast
            <=> PrefsOK /\ ListOK /\ WorkerOK /\ BackgroundOK /\ lastVisible \in BOOLEAN)'
    BY WorldsTypesAre, PTL
  <2>2. QED
    BY <1>0, <2>1 DEF WorldsIInv
<1>1. PrefsOK /\ ListOK /\ WorkerOK /\ BackgroundOK /\ ClosedFades /\ lastVisible \in BOOLEAN
  BY WorldsTypesAre DEF WorldsIInv
<1>2. CASE WorldsNext
  <2>1. PrefsOK' /\ ListOK' /\ WorkerOK' /\ BackgroundOK'
        /\ ClosedFades' /\ lastVisible' \in BOOLEAN
    BY <1>1, <1>2, ListKept, WorkerKept, BackgroundKept
  <2>2. QED
    BY <1>0, <2>1
<1>3. CASE UNCHANGED worldsVars
  <2>1. UNCHANGED <<listVars, workerVars, backgroundVars, lastVisible, frame>>
    BY <1>3 DEF worldsVars
  <2>2. PrefsOK' /\ ListOK'
    BY <1>1, <2>1 DEF listVars, PrefsOK, Strict, ListOK, ListIsSaved
  <2>3. WorkerOK' /\ BackgroundOK' /\ ClosedFades' /\ lastVisible' \in BOOLEAN
    BY <1>1, <2>1 DEF listVars, workerVars, backgroundVars, WorkerOK, BackgroundOK,
       BackgroundIsLast, FadingToLast, ClosedFades
  <2>4. QED
    BY <1>0, <2>2, <2>3
<1>4. QED
  BY <1>2, <1>3

LEMMA WorldsIInvIsEnough == WorldsIInv => WorldsInv
<1> SUFFICES ASSUME WorldsIInv PROVE WorldsInv
  OBVIOUS
<1>1. PrefsOK /\ ListIsSaved
  BY WorldsTypesAre DEF WorldsIInv
<1>2. ASSUME NEW e \in ToSet(prefs) PROVE e.world \in opened
  BY <1>1, <1>2 DEF PrefsOK, ToSet
<1>3. ASSUME NEW e \in ToSet(recents) PROVE e.world \in opened
  <2>1. ToSet(<<>>) = {}
    BY DEF ToSet
  <2>2. QED
    BY <1>1, <1>2, <1>3, <2>1 DEF ListIsSaved
<1>4. ListedWereOpened
  BY <1>2, <1>3 DEF ListedWereOpened
<1>5. ClosedIsPlain
  BY DEF WorldsIInv, ClosedFades, ClosedIsPlain
<1>6. QED
  BY <1>4, <1>5 DEF WorldsIInv, WorldsInv

(* The list of worlds has each of them once, newest first, and only such as  *)
(* were opened, also in the preferences; the picture behind it is the last   *)
(* that was set when nothing is faded, and gone when the window is           *)
(* (Recents::addPath, saveRecents, setBackgroundImage, animateBackground).   *)
THEOREM WorldsSafe == WorldsSpec => []WorldsInv
<1>1. WorldsInit => WorldsIInv
  BY WorldsInitHolds
<1>2. WorldsIInv /\ [WorldsNext]_worldsVars => WorldsIInv'
  BY WorldsStep
<1>3. WorldsIInv => WorldsInv
  BY WorldsIInvIsEnough
<1>4. QED
  BY <1>1, <1>2, <1>3, PTL DEF WorldsSpec

-----------------------------------------------------------------------------
(* The window, its stages and its menus.  The inductive invariant.          *)

Request == [add : BOOLEAN, window : Window]
Renderers ==
  [visit : 1..Visits, multi : BOOLEAN, valid : BOOLEAN, open : SUBSET Menus,
   count : 0..(Width - 1), accepts : BOOLEAN, held : BOOLEAN, exit : 0..(LeaveAt + 1),
   needsQuit : BOOLEAN, isQuitting : BOOLEAN, shoot : BOOLEAN,
   shot : Sizes \cup {NoPicture}, reload : BOOLEAN, loaded : BOOLEAN, bar : BOOLEAN]

ScreensShape ==
  /\ world \in Renderers \cup {NoRenderer}
  /\ requests \in Seq(Request) /\ workerRun \in BOOLEAN
  /\ pics \in Seq(Save \cup {Poke})
  /\ visits \in 0..Visits

(* The stages: the queue has one at most, and a renderer is on stage, on its *)
(* way there, or being destroyed.                                            *)
StagesAgree ==
  /\ changes \in {<<>>, <<"title">>, <<"world">>}
  /\ Alive => world.visit = visits
  /\ changes = <<"title">> =>
        OnStage /\ phase \in {"draw", "end", "events", "stages", "closing", "over"}
  /\ changes = <<"world">> =>
        ~OnStage /\ phase \in {"begin", "draw", "end", "events", "stages", "closing", "over"}
  /\ phase = "joining" => ~OnStage /\ changes = <<>> /\ Alive
  /\ phase = "closing" => Alive
  /\ phase = "over" => ~Alive
  /\ phase # "over" /\ (OnStage \/ changes = <<"world">>) => Alive
  /\ Alive => OnStage \/ changes = <<"world">> \/ phase = "joining"

(* The worker: it has no renderer's pictures but this one's, and is told to  *)
(* end after the last of them.                                               *)
WorkerAgrees ==
  /\ Alive /\ phase \notin {"joining", "closing"} =>
        workerRun /\ doing \notin {Poke, Ended} /\ \A i \in DOMAIN pics : pics[i] # Poke
  /\ phase \in {"joining", "closing"} => ~workerRun
  /\ ~Alive => doing = Ended
  /\ doing \in Save => doing.visit = world.visit
  /\ \A i \in DOMAIN pics : pics[i] # Poke => pics[i].visit = world.visit

(* A picture is saved, or the next thing that the worker will save. *)
Pictured ==
  \/ world.visit \in pictures
  \/ doing \in Save
  \/ doing = Waiting /\ pics # <<>> /\ Head(pics) # Poke
MayLeave == world.visit \in excused \/ Pictured

PictureComes ==
  /\ Alive /\ world.exit # 0 => Pictured
  /\ Alive /\ (changes = <<"title">> \/ phase \in {"joining", "closing"}) => MayLeave
  /\ Alive /\ OnStage /\ ~running =>
        \/ MayLeave
        \/ /\ world.shoot /\ world.isQuitting
           /\ phase \in {"events", "stages", "windows", "clicks", "begin", "draw"}

PrefsComeIn ==
  Alive => \/ world.loaded = saved
           \/ world.reload /\ OnStage /\ phase \in {"begin", "draw", "end"}

(* The cursor is counted once for the menu that is open and once for the bar. *)
Counts ==
  LET b == IF bar THEN 1 ELSE 0
  IN  \/ world.open = {} /\ world.count = b
      \/ \E menu \in Menus : world.open = {menu} /\ world.count = 1 + b

MenusAgree ==
  /\ Alive /\ ~world.bar =>
        /\ Counts /\ world.accepts = (world.count = 0)
        /\ OnStage => captured = world.accepts
        /\ changes = <<"world">> => world.open = {} /\ ~bar
  /\ Alive => (<<"pause", world.visit>> \in shown <=> "pause" \in world.open)
  /\ \A w \in shown : w[2] <= visits

(* When the requests are done, only the windows of the renderer are there,   *)
(* and of the others those with preferences.                                 *)
WindowsHaveOwners ==
  /\ \A w \in Requested : w[1] # "prefs" =>
        Alive /\ w[2] = world.visit /\ (w[1] = "chat" => world.multi)
  /\ phase = "clicks" => requests = <<>>

ScreensIInv ==
  /\ ScreensTypeOK /\ ScreensShape /\ StagesAgree /\ WorkerAgrees /\ PictureComes
  /\ LeavingSaves /\ PrefsComeIn /\ MenusAgree /\ WindowsHaveOwners

-----------------------------------------------------------------------------
(* The renderer of a world as a record, and what becomes of it.             *)

LEMMA ScreensNumbers ==
  /\ Visits \in Nat /\ Visits > 0 /\ MaxInputs \in Nat
  /\ QuitFrames \in Nat /\ QuitFrames > 0
  /\ LeaveAt \in Nat /\ LeaveAt > 2 /\ Width \in Nat /\ Width > 3
BY ScreensAssumption

LEMMA NoPictures == NoPicture \notin Sizes
BY ScreensAssumption

LEMMA Items ==
  /\ Poke # Waiting /\ Poke # Ended /\ Waiting # Ended
  /\ Poke \notin Save /\ Waiting \notin Save /\ Ended \notin Save
BY WorkerAssumption

LEMMA RendererIs ==
  ASSUME NEW w \in Renderers
  PROVE  /\ w.visit \in 1..Visits /\ w.visit # 0
         /\ w.multi \in BOOLEAN /\ w.valid \in BOOLEAN /\ w.open \subseteq Menus
         /\ w.count \in 0..(Width - 1) /\ w.accepts \in BOOLEAN /\ w.held \in BOOLEAN
         /\ w.exit \in 0..(LeaveAt + 1) /\ w.needsQuit \in BOOLEAN /\ w.isQuitting \in BOOLEAN
         /\ w.shoot \in BOOLEAN /\ w.shot \in Sizes \cup {NoPicture}
         /\ w.reload \in BOOLEAN /\ w.loaded \in BOOLEAN /\ w.bar \in BOOLEAN
BY ScreensNumbers DEF Renderers

LEMMA AliveIs ==
  ASSUME world \in Renderers \cup {NoRenderer}
  PROVE  /\ Alive <=> world \in Renderers
         /\ ~Alive <=> world = NoRenderer
<1>1. NoRenderer.visit = 0
  BY DEF NoRenderer
<1>2. world \in Renderers => world.visit # 0
  BY RendererIs
<1>3. QED
  BY <1>1, <1>2 DEF Alive

(* What a menu leaves alone in a renderer. *)
SameWorld(w, r) ==
  /\ r.visit = w.visit /\ r.multi = w.multi /\ r.valid = w.valid /\ r.held = w.held
  /\ r.exit = w.exit /\ r.needsQuit = w.needsQuit /\ r.isQuitting = w.isQuitting
  /\ r.reload = w.reload /\ r.loaded = w.loaded /\ r.bar = w.bar

LEMMA IncrementIs ==
  ASSUME NEW w \in Renderers
  PROVE  LET r == Increment(w)
         IN  /\ r \in Renderers /\ SameWorld(w, r)
             /\ r.open = w.open /\ r.shoot = w.shoot /\ r.shot = w.shot
             /\ r.count = (w.count + 1) % Width
             /\ r.accepts = IF r.count = 1 THEN FALSE ELSE w.accepts
<1> DEFINE n == (w.count + 1) % Width
<1>1. n \in 0..(Width - 1)
  BY RendererIs, ScreensNumbers
<1> HIDE DEF n
<1>2. Increment(w) = [w EXCEPT !.count = n, !.accepts = IF n = 1 THEN FALSE ELSE @]
  BY DEF Increment, n
<1>3. (IF n = 1 THEN FALSE ELSE w.accepts) \in BOOLEAN
  BY RendererIs
<1>4. Increment(w) \in Renderers
  BY <1>1, <1>2, <1>3 DEF Renderers
<1>5. /\ Increment(w).count = n /\ Increment(w).accepts = IF n = 1 THEN FALSE ELSE w.accepts
      /\ SameWorld(w, Increment(w)) /\ Increment(w).open = w.open
      /\ Increment(w).shoot = w.shoot /\ Increment(w).shot = w.shot
  BY <1>2 DEF Renderers, SameWorld
<1>6. QED
  BY <1>4, <1>5 DEF n

LEMMA DecrementIs ==
  ASSUME NEW w \in Renderers
  PROVE  LET r == Decrement(w)
         IN  /\ r \in Renderers /\ SameWorld(w, r)
             /\ r.open = w.open /\ r.shoot = w.shoot /\ r.shot = w.shot
             /\ r.count = (w.count + Width - 1) % Width
             /\ r.accepts = IF r.count = 0 THEN TRUE ELSE w.accepts
<1> DEFINE n == (w.count + Width - 1) % Width
<1>1. n \in 0..(Width - 1)
  BY RendererIs, ScreensNumbers
<1> HIDE DEF n
<1>2. Decrement(w) = [w EXCEPT !.count = n, !.accepts = IF n = 0 THEN TRUE ELSE @]
  BY DEF Decrement, n
<1>3. (IF n = 0 THEN TRUE ELSE w.accepts) \in BOOLEAN
  BY RendererIs
<1>4. Decrement(w) \in Renderers
  BY <1>1, <1>2, <1>3 DEF Renderers
<1>5. /\ Decrement(w).count = n /\ Decrement(w).accepts = IF n = 0 THEN TRUE ELSE w.accepts
      /\ SameWorld(w, Decrement(w)) /\ Decrement(w).open = w.open
      /\ Decrement(w).shoot = w.shoot /\ Decrement(w).shot = w.shot
  BY <1>2 DEF Renderers, SameWorld
<1>6. QED
  BY <1>4, <1>5 DEF n

LEMMA OpenIsRenderer ==
  ASSUME NEW w \in Renderers, NEW o \in SUBSET Menus
  PROVE  LET r == [w EXCEPT !.open = o]
         IN  /\ r \in Renderers /\ SameWorld(w, r) /\ r.open = o
             /\ r.count = w.count /\ r.accepts = w.accepts
             /\ r.shoot = w.shoot /\ r.shot = w.shot
BY DEF Renderers, SameWorld

LEMMA OpenPauseIs ==
  ASSUME NEW w \in Renderers
  PROVE  LET r == OpenPause(w)
         IN  /\ r \in Renderers /\ SameWorld(w, r)
             /\ r.open = w.open \cup {"pause"} /\ r.shoot = TRUE
             /\ r.count = (w.count + 1) % Width
             /\ r.accepts = IF r.count = 1 THEN FALSE ELSE w.accepts
<1> DEFINE v == [w EXCEPT !.open = @ \cup {"pause"}, !.shoot = TRUE]
<1>1. w.open \cup {"pause"} \in SUBSET Menus
  BY RendererIs DEF Menus
<1>2. v \in Renderers
  BY <1>1 DEF Renderers
<1>3. /\ SameWorld(w, v) /\ v.open = w.open \cup {"pause"} /\ v.shoot = TRUE
      /\ v.count = w.count /\ v.accepts = w.accepts
  BY DEF Renderers, SameWorld
<1>4. OpenPause(w) = Increment(v)
  BY DEF OpenPause
<1> HIDE DEF v
<1>5. LET r == OpenPause(w)
      IN  /\ r \in Renderers /\ SameWorld(v, r) /\ r.open = v.open /\ r.shoot = v.shoot
          /\ r.count = (v.count + 1) % Width
          /\ r.accepts = IF r.count = 1 THEN FALSE ELSE v.accepts
  BY <1>2, <1>4, IncrementIs
<1>6. SameWorld(w, OpenPause(w))
  BY <1>3, <1>5 DEF SameWorld
<1>7. QED
  BY <1>3, <1>5, <1>6

LEMMA ClosePauseIs ==
  ASSUME NEW w \in Renderers
  PROVE  LET r == ClosePause(w)
         IN  /\ r \in Renderers /\ SameWorld(w, r)
             /\ r.open = w.open \ {"pause"} /\ r.shoot = w.shoot
             /\ r.count = (w.count + Width - 1) % Width
             /\ r.accepts = IF r.count = 0 THEN TRUE ELSE w.accepts
<1> DEFINE v == [w EXCEPT !.open = @ \ {"pause"}, !.shot = NoPicture]
<1>1. w.open \ {"pause"} \in SUBSET Menus
  BY RendererIs DEF Menus
<1>2. v \in Renderers
  BY <1>1 DEF Renderers
<1>3. /\ SameWorld(w, v) /\ v.open = w.open \ {"pause"} /\ v.shoot = w.shoot
      /\ v.count = w.count /\ v.accepts = w.accepts
  BY DEF Renderers, SameWorld
<1>4. ClosePause(w) = Decrement(v)
  BY DEF ClosePause
<1> HIDE DEF v
<1>5. LET r == ClosePause(w)
      IN  /\ r \in Renderers /\ SameWorld(v, r) /\ r.open = v.open /\ r.shoot = v.shoot
          /\ r.count = (v.count + Width - 1) % Width
          /\ r.accepts = IF r.count = 0 THEN TRUE ELSE v.accepts
  BY <1>2, <1>4, DecrementIs
<1>6. SameWorld(w, ClosePause(w))
  BY <1>3, <1>5 DEF SameWorld
<1>7. QED
  BY <1>3, <1>5, <1>6

LEMMA EscapeMenuIs ==
  ASSUME NEW w \in Renderers
  PROVE  LET r == EscapeMenu(w)
         IN  /\ r \in Renderers /\ SameWorld(w, r)
             /\ \/ /\ "pause" \in w.open /\ r = ClosePause(w) /\ r.open = w.open \ {"pause"}
                   /\ r.shoot = w.shoot
                \/ /\ "pause" \notin w.open /\ w.count = 0 /\ r = OpenPause(w)
                   /\ r.open = w.open \cup {"pause"} /\ r.shoot = TRUE
                \/ "pause" \notin w.open /\ w.count # 0 /\ r = w
<1>1. CASE "pause" \in w.open
  BY <1>1, ClosePauseIs DEF EscapeMenu
<1>2. CASE "pause" \notin w.open /\ w.count = 0
  BY <1>2, OpenPauseIs DEF EscapeMenu
<1>3. CASE "pause" \notin w.open /\ w.count # 0
  BY <1>3 DEF EscapeMenu, SameWorld
<1>4. QED
  BY <1>1, <1>2, <1>3

LEMMA EscapeOthersIs ==
  ASSUME NEW w \in Renderers
  PROVE  LET r == EscapeOthers(w)
             mine == IF "inventory" \in w.open THEN {"inventory"} ELSE w.open \cap {"chat"}
         IN  /\ r \in Renderers /\ SameWorld(w, r) /\ r.shoot = w.shoot
             /\ \/ /\ mine # {} /\ w.count # 0 /\ r.open = w.open \ mine
                   /\ r.count = (w.count + Width - 1) % Width
                   /\ r.accepts = IF r.count = 0 THEN TRUE ELSE w.accepts
                \/ (mine = {} \/ w.count = 0) /\ r = w
<1> DEFINE mine == IF "inventory" \in w.open THEN {"inventory"} ELSE w.open \cap {"chat"}
<1> HIDE DEF mine
<1>1. CASE mine # {} /\ w.count # 0
  <2> DEFINE o == w.open \ mine
             v == [w EXCEPT !.open = o]
  <2>1. o \in SUBSET Menus
    BY RendererIs
  <2>2. v = [w EXCEPT !.open = @ \ mine]
    OBVIOUS
  <2>3. EscapeOthers(w) = Decrement([w EXCEPT !.open = @ \ mine])
    BY <1>1 DEF EscapeOthers, mine
  <2> HIDE DEF o
  <2>4. v \in Renderers /\ SameWorld(w, v) /\ v.open = o /\ v.count = w.count
        /\ v.accepts = w.accepts /\ v.shoot = w.shoot
    BY <2>1, OpenIsRenderer
  <2> HIDE DEF v
  <2>5. EscapeOthers(w) = Decrement(v)
    BY <2>2, <2>3
  <2>6. LET r == EscapeOthers(w)
        IN  /\ r \in Renderers /\ SameWorld(v, r) /\ r.open = v.open /\ r.shoot = v.shoot
            /\ r.count = (v.count + Width - 1) % Width
            /\ r.accepts = IF r.count = 0 THEN TRUE ELSE v.accepts
    <3>1. v \in Renderers
      BY <2>4
    <3>2. QED
      BY <2>5, <3>1, DecrementIs
  <2>7. SameWorld(w, EscapeOthers(w))
    BY <2>4, <2>6 DEF SameWorld
  <2>8. EscapeOthers(w).open = w.open \ mine
    BY <2>4, <2>6 DEF o
  <2>9. QED
    BY <1>1, <2>4, <2>6, <2>7, <2>8 DEF mine
<1>2. CASE ~(mine # {} /\ w.count # 0)
  <2>1. EscapeOthers(w) = w
    BY <1>2 DEF EscapeOthers, mine
  <2>2. QED
    BY <1>2, <2>1 DEF SameWorld, mine
<1>3. QED
  BY <1>1, <1>2

-----------------------------------------------------------------------------
(* What every action does with the renderer.                                *)

LEMMA OnStageIs ==
  ASSUME world \in Renderers \cup {NoRenderer}, StagesAgree, OnStage, phase # "over"
  PROVE  Alive /\ world \in Renderers
BY AliveIs DEF StagesAgree

(* The menus, one after the other or one at a time. *)
MenuMoves ==
  Escape \/ OpenMenu("inventory") \/ OpenMenu("chat") \/ ToggleBar \/ ReturnToGame

LEMMA MenuMoveIs ==
  ASSUME world \in Renderers, MenuMoves
  PROVE  /\ world' \in Renderers /\ SameWorld(world, world') /\ (world.shoot => world'.shoot)
         /\ UNCHANGED <<running, quitFrames, stage, changes, viewport, windows, saved, picVars,
                        visits, ghosts>>
         /\ OnStage
         /\ \/ phase = "events" /\ phase' = "events"
            \/ phase = "clicks" /\ phase' = "begin" /\ world.exit = 0
<1>1. CASE Escape
  <2>1. world' = EscapeOthers(EscapeMenu(world))
    BY <1>1 DEF Escape
  <2>2. LET r == EscapeMenu(world)
        IN  /\ r \in Renderers /\ SameWorld(world, r) /\ (world.shoot => r.shoot)
    BY EscapeMenuIs
  <2> DEFINE m == EscapeMenu(world)
  <2>3. world' = EscapeOthers(m) /\ m \in Renderers /\ SameWorld(world, m)
        /\ (world.shoot => m.shoot)
    BY <2>1, <2>2
  <2> HIDE DEF m
  <2>4. world' \in Renderers /\ SameWorld(m, world') /\ world'.shoot = m.shoot
    <3>1. m \in Renderers
      BY <2>3
    <3>2. QED
      BY <2>3, <3>1, EscapeOthersIs
  <2>5. SameWorld(world, world')
    BY <2>3, <2>4 DEF SameWorld
  <2>6. QED
    BY <1>1, <2>3, <2>4, <2>5 DEF Escape, Input
<1>2. CASE \E menu \in {"inventory", "chat"} : OpenMenu(menu)
  <2>1. PICK menu \in {"inventory", "chat"} : OpenMenu(menu)
    BY <1>2
  <2> DEFINE v == [world EXCEPT !.open = world.open \cup {menu}]
  <2>2. world.open \cup {menu} \in SUBSET Menus
    BY RendererIs DEF Menus
  <2>3. v \in Renderers /\ SameWorld(world, v) /\ v.shoot = world.shoot
    BY <2>2, OpenIsRenderer
  <2>4. world' = Increment(v)
    BY <2>1 DEF OpenMenu
  <2> HIDE DEF v
  <2>5. world' \in Renderers /\ SameWorld(v, world') /\ world'.shoot = v.shoot
    <3>1. v \in Renderers
      BY <2>3
    <3>2. QED
      BY <2>4, <3>1, IncrementIs
  <2>6. SameWorld(world, world')
    BY <2>3, <2>5 DEF SameWorld
  <2>7. QED
    BY <2>1, <2>3, <2>5, <2>6 DEF OpenMenu, Input
<1>3. CASE ToggleBar
  <2>1. world' = Increment(world) \/ world' = Decrement(world)
    BY <1>3 DEF ToggleBar
  <2>2. world' \in Renderers /\ SameWorld(world, world') /\ world'.shoot = world.shoot
    BY ZenonT(40), <2>1, IncrementIs, DecrementIs
  <2>3. QED
    BY <1>3, <2>2 DEF ToggleBar, Input
<1>4. CASE ReturnToGame
  <2>1. world' = ClosePause(world)
    BY <1>4 DEF ReturnToGame
  <2>2. world' \in Renderers /\ SameWorld(world, world') /\ world'.shoot = world.shoot
    BY <2>1, ClosePauseIs
  <2>3. QED
    BY <1>4, <2>2 DEF ReturnToGame, PauseClick, Click
<1>5. QED
  BY <1>1, <1>2, <1>3, <1>4 DEF MenuMoves

LEMMA CloseWindowIs ==
  ASSUME world \in Renderers \cup {NoRenderer}, StagesAgree, CloseWindow
  PROVE  \/ ~OnStage /\ world' = world
         \/ /\ OnStage /\ world \in Renderers /\ world' \in Renderers
            /\ world'.shoot = TRUE /\ world'.isQuitting = TRUE
            /\ world'.visit = world.visit /\ world'.multi = world.multi
            /\ world'.exit = world.exit /\ world'.open = world.open
            /\ world'.count = world.count /\ world'.accepts = world.accepts
            /\ world'.bar = world.bar /\ world'.loaded = world.loaded
            /\ world'.reload = world.reload
<1>1. CASE ~OnStage
  BY <1>1 DEF CloseWindow
<1>2. CASE OnStage
  <2>1. world \in Renderers
    BY <1>2, OnStageIs DEF CloseWindow, Input
  <2>2. world' = [world EXCEPT !.shoot = TRUE, !.isQuitting = TRUE]
    BY <1>2 DEF CloseWindow
  <2>3. world' \in Renderers
    BY <2>1, <2>2 DEF Renderers
  <2>4. QED
    BY <1>2, <2>1, <2>2, <2>3 DEF Renderers
<1>3. QED
  BY <1>1, <1>2

(* A renderer of which nothing but its keys and its source has changed. *)
Alike(w, r) ==
  /\ r.visit = w.visit /\ r.multi = w.multi /\ r.open = w.open /\ r.count = w.count
  /\ r.accepts = w.accepts /\ r.exit = w.exit /\ r.isQuitting = w.isQuitting
  /\ r.shoot = w.shoot /\ r.loaded = w.loaded /\ r.reload = w.reload /\ r.bar = w.bar

LEMMA MoveKeyIs ==
  ASSUME world \in Renderers \cup {NoRenderer}, StagesAgree, MoveKey
  PROVE  world \in Renderers /\ world' \in Renderers /\ Alike(world, world')
<1>1. world \in Renderers
  BY OnStageIs DEF MoveKey, Input
<1>2. world' = [world EXCEPT !.held = ~world.held]
  BY DEF MoveKey
<1> DEFINE h == ~world.held
<1>3. h \in BOOLEAN
  OBVIOUS
<1>4. world' = [world EXCEPT !.held = h]
  BY <1>2
<1> HIDE DEF h
<1>5. QED
  BY <1>1, <1>3, <1>4 DEF Renderers, Alike

LEMMA LoseSourceIs ==
  ASSUME world \in Renderers \cup {NoRenderer}, LoseSource
  PROVE  world \in Renderers /\ world' \in Renderers /\ Alike(world, world')
<1>1. world \in Renderers
  BY AliveIs DEF LoseSource
<1>2. world' = [world EXCEPT !.valid = FALSE]
  BY DEF LoseSource
<1>3. QED
  BY <1>1, <1>2 DEF Renderers, Alike

LEMMA LeaveWorldIs ==
  ASSUME world \in Renderers \cup {NoRenderer}, StagesAgree, NEW quit \in BOOLEAN,
         LeaveWorld(quit)
  PROVE  /\ OnStage /\ world \in Renderers /\ world' \in Renderers
         /\ world'.visit = world.visit /\ world'.multi = world.multi
         /\ world.exit = 0 /\ world'.exit = 1 /\ world'.open = world.open
         /\ world'.count = world.count /\ world'.accepts = world.accepts
         /\ world'.bar = world.bar /\ world'.loaded = world.loaded
         /\ world'.reload = world.reload /\ world'.shoot = world.shoot
         /\ world'.isQuitting = world.isQuitting
<1>1. world \in Renderers /\ OnStage /\ world.exit = 0
  BY OnStageIs DEF LeaveWorld, PauseClick, Click
<1>2. world' = [world EXCEPT !.exit = 1, !.needsQuit = world.needsQuit \/ quit,
                             !.shot = NoPicture]
  BY DEF LeaveWorld
<1>3. (world.needsQuit \/ quit) \in BOOLEAN /\ 1 \in 0..(LeaveAt + 1)
  BY <1>1, RendererIs, ScreensNumbers
<1>4. QED
  BY ZenonT(40), <1>1, <1>2, <1>3 DEF Renderers

LEMMA ChangePrefsIs ==
  ASSUME world \in Renderers \cup {NoRenderer}, StagesAgree, ChangePrefs
  PROVE  /\ OnStage /\ world \in Renderers /\ world' \in Renderers
         /\ world'.visit = world.visit /\ world'.multi = world.multi
         /\ world'.exit = world.exit /\ world'.open = world.open
         /\ world'.count = world.count /\ world'.accepts = world.accepts
         /\ world'.bar = world.bar /\ world'.loaded = world.loaded
         /\ world'.reload = TRUE /\ world'.shoot = world.shoot
         /\ world'.isQuitting = world.isQuitting
<1>1. world \in Renderers /\ OnStage
  BY OnStageIs DEF ChangePrefs, Click
<1>2. world' = [world EXCEPT !.reload = TRUE]
  BY DEF ChangePrefs
<1>3. QED
  BY <1>1, <1>2 DEF Renderers

LEMMA OpenWorldIs ==
  ASSUME NEW multi \in BOOLEAN, visits \in 0..Visits, saved \in BOOLEAN, bar \in BOOLEAN,
         OpenWorld(multi)
  PROVE  /\ world' \in Renderers /\ visits' = visits + 1 /\ visits' \in 1..Visits
         /\ world'.visit = visits' /\ world'.multi = multi /\ world'.exit = 0
         /\ world'.open = {} /\ world'.count = 0 /\ world'.accepts = TRUE
         /\ world'.bar = bar /\ world'.loaded = saved /\ world'.reload = FALSE
         /\ world'.shoot = FALSE /\ world'.isQuitting = FALSE
<1>1. visits' = visits + 1 /\ visits' \in 1..Visits
  BY ScreensNumbers DEF OpenWorld
<1>2. world' = Renderer(visits', multi)
  BY <1>1 DEF OpenWorld
<1>3. 0 \in 0..(Width - 1) /\ 0 \in 0..(LeaveAt + 1)
  BY ScreensNumbers
<1>4. world' \in Renderers
  BY <1>1, <1>2, <1>3 DEF Renderer, Renderers
<1>5. QED
  BY <1>1, <1>2, <1>4 DEF Renderer

LEMMA CountedIs ==
  ASSUME NEW w \in Renderers
  PROVE  /\ Counted(w) \in 0..(LeaveAt + 1) /\ (Counted(w) = 0 <=> w.exit = 0)
BY RendererIs, ScreensNumbers DEF Counted

LEMMA BeginIs ==
  ASSUME world \in Renderers \cup {NoRenderer}, StagesAgree, running \in BOOLEAN, Begin
  PROVE  \/ /\ UNCHANGED <<world, running, changes>> /\ ~OnStage
         \/ /\ OnStage /\ world \in Renderers /\ world' \in Renderers
            /\ world'.visit = world.visit /\ world'.multi = world.multi
            /\ world'.open = world.open
            /\ world'.count = world.count /\ world'.accepts = world.accepts
            /\ world'.bar = world.bar /\ world'.loaded = world.loaded
            /\ world'.reload = world.reload /\ world'.shoot = world.shoot
            /\ world'.isQuitting = world.isQuitting
            /\ (world'.exit # 0 => world.exit # 0)
            /\ \/ UNCHANGED <<running, changes>>
               \/ /\ world.exit # 0 /\ running' \in BOOLEAN
                  /\ changes' = changes \/ changes' = Append(changes, "title")
<1>1. CASE ~OnStage
  BY <1>1 DEF Begin
<1>2. CASE OnStage
  <2> DEFINE exit == Counted(world)
             leave == exit = LeaveAt /\ "pause" \in world.open
             n == IF leave THEN 0 ELSE exit
  <2>1. world \in Renderers
    BY <1>2, OnStageIs DEF Begin
  <2>2. exit \in 0..(LeaveAt + 1) /\ (exit = 0 <=> world.exit = 0)
    BY <2>1, CountedIs
  <2>3. /\ world' = [world EXCEPT !.exit = n]
        /\ running' = (running /\ ~(leave /\ world.needsQuit))
        /\ changes' = IF leave /\ ~world.needsQuit THEN Append(changes, "title") ELSE changes
    BY <1>2 DEF Begin
  <2>4. n \in 0..(LeaveAt + 1) /\ (n # 0 => world.exit # 0) /\ (leave => world.exit # 0)
    BY <2>2, ScreensNumbers
  <2> HIDE DEF n, leave
  <2>5. world' \in Renderers
    BY <2>1, <2>3, <2>4 DEF Renderers
  <2>6. /\ world'.visit = world.visit /\ world'.multi = world.multi
        /\ world'.open = world.open
        /\ world'.count = world.count /\ world'.accepts = world.accepts
        /\ world'.bar = world.bar /\ world'.loaded = world.loaded
        /\ world'.reload = world.reload /\ world'.shoot = world.shoot
        /\ world'.isQuitting = world.isQuitting /\ world'.exit = n
    BY <2>1, <2>3 DEF Renderers
  <2>7. CASE leave
    BY <1>2, <2>1, <2>3, <2>4, <2>5, <2>6, <2>7
  <2>8. CASE ~leave
    <3>1. changes' = changes
      BY <2>3, <2>8
    <3>2. running' = running
      BY <2>3, <2>8
    <3>3. QED
      BY <1>2, <2>1, <2>3, <2>4, <2>5, <2>6, <3>1, <3>2
  <2>9. QED
    BY <2>7, <2>8
<1>3. QED
  BY <1>1, <1>2

LEMMA DrawnIs ==
  ASSUME world \in Renderers \cup {NoRenderer}, StagesAgree, viewport \in Sizes, Drawn
  PROVE  \/ UNCHANGED <<world, pics>> /\ ~(OnStage /\ world.shoot)
         \/ /\ OnStage /\ world.shoot /\ world \in Renderers /\ world' \in Renderers
            /\ world'.visit = world.visit /\ world'.multi = world.multi
            /\ world'.exit = world.exit /\ world'.open = world.open
            /\ world'.count = world.count /\ world'.accepts = world.accepts
            /\ world'.bar = world.bar /\ world'.loaded = world.loaded
            /\ world'.reload = world.reload
            /\ world'.isQuitting = world.isQuitting
            /\ \/ ~world.isQuitting /\ pics' = pics
               \/ /\ world.isQuitting
                  /\ \E p \in Save : p.visit = world.visit /\ pics' = Append(pics, p)
<1>1. CASE ~(OnStage /\ world.shoot)
  BY <1>1 DEF Drawn
<1>2. CASE OnStage /\ world.shoot
  <2> DEFINE shot == IF world.shot = NoPicture THEN viewport ELSE world.shot
             taken == [world EXCEPT !.shot = shot, !.shoot = FALSE]
             none == [taken EXCEPT !.shot = NoPicture]
  <2>1. world \in Renderers
    BY <1>2, OnStageIs DEF Drawn
  <2>2. shot \in Sizes \cup {NoPicture}
    BY <2>1, RendererIs
  <2>3. /\ world' = IF world.isQuitting THEN none ELSE taken
        /\ pics' = IF world.isQuitting THEN Queued(taken) ELSE pics
    BY <1>2 DEF Drawn
  <2> HIDE DEF shot
  <2>4. taken \in Renderers /\ Alike([world EXCEPT !.shoot = FALSE], taken) /\ taken.shot = shot
    BY <2>1, <2>2 DEF Renderers, Alike
  <2>5. none \in Renderers
    BY <2>1, <2>2 DEF Renderers
  <2>6. ASSUME world' \in {taken, none}
        PROVE  /\ world'.visit = world.visit /\ world'.multi = world.multi
               /\ world'.exit = world.exit /\ world'.open = world.open
               /\ world'.count = world.count /\ world'.accepts = world.accepts
               /\ world'.bar = world.bar /\ world'.loaded = world.loaded
               /\ world'.reload = world.reload
               /\ world'.isQuitting = world.isQuitting
    BY <2>1, <2>6 DEF Renderers
  <2>7. CASE ~world.isQuitting
    BY <1>2, <2>1, <2>3, <2>4, <2>6, <2>7
  <2>8. CASE world.isQuitting
    <3> DEFINE p == [visit |-> taken.visit, data |-> taken.shot, size |-> viewport]
    <3>1. taken.visit = world.visit /\ taken.visit \in 1..Visits
          /\ taken.shot \in Sizes \cup {NoPicture}
      BY <2>1, <2>2, RendererIs DEF Renderers
    <3>2. p \in Save /\ p.visit = world.visit
      BY <3>1 DEF Save
    <3>3. pics' = Append(pics, p)
      BY <2>3, <2>8 DEF Queued
    <3> HIDE DEF p
    <3>4. \E q \in Save : q.visit = world.visit /\ pics' = Append(pics, q)
      BY <3>2, <3>3
    <3>5. QED
      BY <1>2, <2>1, <2>3, <2>5, <2>6, <2>8, <3>4
  <2>9. QED
    BY <2>7, <2>8
<1>3. QED
  BY <1>1, <1>2

LEMMA EndFrameIs ==
  ASSUME world \in Renderers \cup {NoRenderer}, StagesAgree, saved \in BOOLEAN, EndFrame
  PROVE  \/ ~OnStage /\ world' = world
         \/ /\ OnStage /\ world \in Renderers /\ world' \in Renderers
            /\ world'.visit = world.visit /\ world'.multi = world.multi
            /\ world'.exit = world.exit /\ world'.open = world.open
            /\ world'.count = world.count /\ world'.accepts = world.accepts
            /\ world'.bar = world.bar /\ world'.shoot = world.shoot
            /\ world'.isQuitting = world.isQuitting /\ world'.reload = FALSE
            /\ world'.loaded = IF world.reload THEN saved ELSE world.loaded
<1>1. CASE ~OnStage
  BY <1>1 DEF EndFrame
<1>2. CASE OnStage
  <2>1. world \in Renderers
    BY <1>2, OnStageIs DEF EndFrame
  <2>2. world' = IF world.reload THEN [world EXCEPT !.loaded = saved, !.reload = FALSE]
                 ELSE world
    BY <1>2 DEF EndFrame, Loaded
  <2>3. CASE world.reload
    <3>1. world' = [world EXCEPT !.loaded = saved, !.reload = FALSE]
      BY <2>2, <2>3
    <3>2. QED
      BY <1>2, <2>1, <2>3, <3>1 DEF Renderers
  <2>4. CASE ~world.reload
    <3>1. world' = world
      BY <2>2, <2>4
    <3>2. world.reload = FALSE
      BY <2>1, <2>4, RendererIs
    <3>3. QED
      BY <1>2, <2>1, <2>4, <3>1, <3>2
  <2>5. QED
    BY <2>3, <2>4
<1>3. QED
  BY <1>1, <1>2

-----------------------------------------------------------------------------
(* The types, by what they are about.                                       *)

LoopOK ==
  /\ running \in BOOLEAN /\ quitFrames \in 0..QuitFrames
  /\ phase \in {"events", "stages", "windows", "clicks", "begin", "draw", "end", "joining",
                "closing", "over"}
  /\ stage \in {"title", "world"}
  /\ captured \in BOOLEAN /\ bar \in BOOLEAN /\ viewport \in Sizes /\ saved \in BOOLEAN
RendererOK == world \in Renderers \cup {NoRenderer} /\ visits \in 0..Visits
GuiOK == windows \subseteq Window /\ shown \subseteq Window /\ requests \in Seq(Request)
PicturesOK ==
  /\ workerRun \in BOOLEAN /\ pics \in Seq(Save \cup {Poke})
  /\ doing \in Save \cup {Poke, Waiting, Ended}

ScreensBase == LoopOK /\ RendererOK /\ GuiOK /\ PicturesOK /\ StagesAgree

LEMMA ScreensIInvIs ==
  ScreensIInv <=>
    /\ ScreensBase /\ WorkerAgrees /\ PictureComes
    /\ LeavingSaves /\ PrefsComeIn /\ MenusAgree /\ WindowsHaveOwners
<1>1. ASSUME ScreensIInv
      PROVE  /\ ScreensBase /\ WorkerAgrees /\ PictureComes
             /\ LeavingSaves /\ PrefsComeIn /\ MenusAgree /\ WindowsHaveOwners
  <2>1. LoopOK /\ windows \subseteq Window /\ shown \subseteq Window
        /\ doing \in Save \cup {Poke, Waiting, Ended}
    BY <1>1 DEF ScreensIInv, ScreensTypeOK, LoopOK
  <2>2. RendererOK /\ requests \in Seq(Request) /\ workerRun \in BOOLEAN
        /\ pics \in Seq(Save \cup {Poke})
    BY <1>1 DEF ScreensIInv, ScreensShape, RendererOK
  <2>3. QED
    BY <1>1, <2>1, <2>2 DEF ScreensIInv, ScreensBase, GuiOK, PicturesOK
<1>2. ASSUME ScreensBase, WorkerAgrees, PictureComes, LeavingSaves, PrefsComeIn, MenusAgree,
             WindowsHaveOwners
      PROVE  ScreensIInv
  <2>1. ScreensShape
    BY <1>2 DEF ScreensBase, ScreensShape, RendererOK, GuiOK, PicturesOK
  <2>2. Len(changes) <= 1 /\ DOMAIN changes \in {{}, {1}}
    BY <1>2 DEF ScreensBase, StagesAgree
  <2>3. \A i \in DOMAIN requests : requests[i].window \in Window
    <3>1. requests \in Seq(Request)
      BY <1>2 DEF ScreensBase, GuiOK
    <3>2. \A i \in DOMAIN requests : requests[i] \in Request
      BY <3>1
    <3>3. \A r \in Request : r.window \in Window
      BY DEF Request
    <3>4. QED
      BY <3>2, <3>3
  <2>4. Alive => /\ world.count \in 0..(Width - 1) /\ world.exit \in 0..(LeaveAt + 1)
                 /\ world.open \subseteq Menus /\ world.shot \in Sizes \cup {NoPicture}
    BY <1>2, AliveIs, RendererIs DEF ScreensBase, RendererOK
  <2>5. (doing # Ended) => Alive
    BY <1>2 DEF WorkerAgrees
  <2>6. "world" \in {changes[i] : i \in DOMAIN changes} => changes = <<"world">>
    <3>1. \A c \in {<<>>, <<"title">>} : "world" \notin {c[i] : i \in DOMAIN c}
      OBVIOUS
    <3>2. QED
      BY <1>2, <3>1 DEF ScreensBase, StagesAgree
  <2>7. (OnStage \/ "world" \in {changes[i] : i \in DOMAIN changes}) =>
          Alive \/ phase = "over"
    BY <1>2, <2>6 DEF ScreensBase, StagesAgree
  <2>8. ScreensTypeOK
    BY <1>2, <2>2, <2>3, <2>4, <2>5, <2>7
    DEF ScreensTypeOK, ScreensBase, LoopOK, GuiOK, PicturesOK
  <2>9. QED
    BY <1>2, <2>1, <2>8 DEF ScreensIInv, ScreensBase
<1>3. QED
  BY <1>1, <1>2

(* The steps, those of the menus taken together. *)
LEMMA ScreensNextIs ==
  ASSUME ScreensNext
  PROVE  \/ EndEvents \/ UpdateStages \/ StagesDone \/ Destroyed \/ UpdateWindows
         \/ NoClick \/ BeginInvalid \/ Begin \/ Drawn \/ EndFrame
         \/ Take \/ Finish
         \/ CloseWindow \/ Resize \/ MoveKey \/ MenuMoves
         \/ Preferences \/ ChangePrefs \/ ClosePrefs
         \/ (\E quit \in BOOLEAN : LeaveWorld(quit))
         \/ (\E multi \in BOOLEAN : OpenWorld(multi))
         \/ LoseSource
BY DEF ScreensNext, Frame, Worker, User, MenuMoves

(* The steps that leave the renderer alone. *)
Looks ==
  \/ EndEvents \/ UpdateStages \/ StagesDone \/ UpdateWindows \/ NoClick \/ BeginInvalid
  \/ Take \/ Finish \/ Resize \/ Preferences \/ ClosePrefs

LEMMA LooksAre ==
  ASSUME Looks
  PROVE  UNCHANGED <<world, visits>>
BY DEF Looks, EndEvents, UpdateStages, StagesDone, UpdateWindows, NoClick, BeginInvalid,
       Take, Finish, Resize, Input, Preferences, PauseClick, Click, ClosePrefs

LEMMA ScreensStepIs ==
  ASSUME ScreensNext
  PROVE  \/ Looks \/ MenuMoves \/ Destroyed \/ Begin \/ Drawn \/ EndFrame
         \/ CloseWindow \/ MoveKey \/ LoseSource \/ ChangePrefs
         \/ (\E quit \in BOOLEAN : LeaveWorld(quit))
         \/ (\E multi \in BOOLEAN : OpenWorld(multi))
BY ScreensNextIs DEF Looks

(* The renderer stays one of its visit, is destroyed, or is made.           *)
LEMMA RendererMoves ==
  ASSUME ScreensBase, ScreensNext
  PROVE  \/ UNCHANGED <<world, visits>>
         \/ /\ world \in Renderers /\ world' \in Renderers /\ visits' = visits
            /\ world'.visit = world.visit /\ world'.multi = world.multi
            /\ (world.exit = 0 => world'.exit = 0 \/ \E quit \in BOOLEAN : LeaveWorld(quit))
         \/ Destroyed /\ world' = NoRenderer /\ visits' = visits
         \/ /\ \E multi \in BOOLEAN : OpenWorld(multi)
            /\ world' \in Renderers /\ world'.visit = visits' /\ world'.exit = 0
            /\ visits' = visits + 1 /\ visits' \in 1..Visits
<1>0. /\ world \in Renderers \cup {NoRenderer} /\ visits \in 0..Visits /\ StagesAgree
      /\ running \in BOOLEAN /\ saved \in BOOLEAN /\ bar \in BOOLEAN /\ viewport \in Sizes
  BY DEF ScreensBase, RendererOK, LoopOK
<1>1. CASE Looks
  BY <1>1, LooksAre
<1>2. CASE MenuMoves
  <2>1. world \in Renderers
    <3>1. OnStage /\ phase # "over"
      BY <1>2 DEF MenuMoves, Escape, OpenMenu, ToggleBar, ReturnToGame, PauseClick, Click, Input
    <3>2. QED
      BY <1>0, <3>1, OnStageIs
  <2>2. QED
    BY <1>2, <2>1, MenuMoveIs DEF SameWorld
<1>3. CASE Destroyed
  BY <1>3 DEF Destroyed
<1>4. CASE Begin
  <2>1. visits' = visits
    BY <1>4 DEF Begin
  <2>2. QED
    BY <1>0, <1>4, <2>1, BeginIs
<1>5. CASE Drawn
  <2>1. visits' = visits
    BY <1>5 DEF Drawn
  <2>2. QED
    BY <1>0, <1>5, <2>1, DrawnIs
<1>6. CASE EndFrame
  <2>1. visits' = visits
    BY <1>6 DEF EndFrame
  <2>2. QED
    BY <1>0, <1>6, <2>1, EndFrameIs
<1>7. CASE CloseWindow
  <2>1. visits' = visits
    BY <1>7 DEF CloseWindow, Input
  <2>2. QED
    BY <1>0, <1>7, <2>1, CloseWindowIs
<1>8. CASE MoveKey
  <2>1. visits' = visits
    BY <1>8 DEF MoveKey, Input
  <2>2. QED
    BY <1>0, <1>8, <2>1, MoveKeyIs DEF Alike
<1>9. CASE LoseSource
  <2>1. visits' = visits
    BY <1>9 DEF LoseSource
  <2>2. QED
    BY <1>0, <1>9, <2>1, LoseSourceIs DEF Alike
<1>10. CASE ChangePrefs
  <2>1. visits' = visits
    BY <1>10 DEF ChangePrefs
  <2>2. QED
    BY <1>0, <1>10, <2>1, ChangePrefsIs
<1>11. CASE \E quit \in BOOLEAN : LeaveWorld(quit)
  <2>1. PICK quit \in BOOLEAN : LeaveWorld(quit)
    BY <1>11
  <2>2. visits' = visits
    BY <2>1 DEF LeaveWorld
  <2>3. QED
    BY <1>0, <1>11, <2>1, <2>2, LeaveWorldIs
<1>12. CASE \E multi \in BOOLEAN : OpenWorld(multi)
  <2>1. PICK multi \in BOOLEAN : OpenWorld(multi)
    BY <1>12
  <2>2. QED
    BY <1>0, <1>12, <2>1, OpenWorldIs
<1>13. QED
  BY <1>1, <1>2, <1>3, <1>4, <1>5, <1>6, <1>7, <1>8, <1>9, <1>10, <1>11, <1>12, ScreensStepIs

LEMMA RendererKept ==
  ASSUME ScreensBase, ScreensNext
  PROVE  RendererOK'
<1>1. RendererOK
  BY DEF ScreensBase
<1>2. visits' \in 0..Visits /\ world' \in Renderers \cup {NoRenderer}
  BY <1>1, RendererMoves, ScreensNumbers DEF RendererOK
<1>3. NoRenderer' = NoRenderer /\ Renderers' = Renderers
  BY DEF NoRenderer, Renderers
<1>4. QED
  BY <1>2, <1>3 DEF RendererOK

-----------------------------------------------------------------------------
(* The types are kept.                                                      *)

LEMMA ChangesAre ==
  ASSUME ScreensBase
  PROVE  /\ changes # <<>> => /\ Head(changes) \in {"title", "world"}
                              /\ changes = <<Head(changes)>> /\ Tail(changes) = <<>>
         /\ changes = <<>> => /\ Append(changes, "title") = <<"title">>
                              /\ Append(changes, "world") = <<"world">>
<1>1. changes \in {<<>>, <<"title">>, <<"world">>}
  BY DEF ScreensBase, StagesAgree
<1>2. /\ Head(<<"title">>) = "title" /\ Tail(<<"title">>) = <<>>
      /\ Head(<<"world">>) = "world" /\ Tail(<<"world">>) = <<>>
      /\ Append(<<>>, "title") = <<"title">> /\ Append(<<>>, "world") = <<"world">>
  OBVIOUS
<1>3. QED
  BY <1>1, <1>2

LEMMA MouseIs ==
  ASSUME world \in Renderers, world' \in Renderers, captured \in BOOLEAN, Mouse(world')
  PROVE  captured' \in BOOLEAN
<1>1. world'.accepts \in BOOLEAN
  BY RendererIs
<1>2. CASE world'.accepts # world.accepts
  BY <1>1, <1>2 DEF Mouse
<1>3. CASE world'.accepts = world.accepts
  BY <1>3 DEF Mouse
<1>4. QED
  BY <1>2, <1>3

LEMMA LoopKept ==
  ASSUME ScreensBase, ScreensNext
  PROVE  LoopOK'
<1>0. LoopOK /\ StagesAgree /\ world \in Renderers \cup {NoRenderer}
  BY DEF ScreensBase, RendererOK
<1>1. CASE MenuMoves
  <2>1. /\ OnStage /\ phase # "over"
        /\ Mouse(world') /\ bar' \in BOOLEAN
    BY <1>0, <1>1 DEF MenuMoves, Escape, OpenMenu, ToggleBar, ReturnToGame, PauseClick, Click,
       Input, LoopOK
  <2>2. world \in Renderers
    BY <1>0, <2>1, OnStageIs
  <2>3. world' \in Renderers /\ phase' \in {"events", "begin"}
        /\ UNCHANGED <<running, quitFrames, stage, viewport, saved>>
    BY <1>1, <2>2, MenuMoveIs
  <2>4. captured' \in BOOLEAN
    BY <1>0, <2>1, <2>2, <2>3, MouseIs DEF LoopOK
  <2>5. QED
    BY <1>0, <2>1, <2>3, <2>4 DEF LoopOK
<1>2. CASE UpdateStages
  <2>1. stage' \in {"title", "world"}
    BY <1>2, ChangesAre DEF UpdateStages
  <2>2. captured' \in BOOLEAN
    BY <1>2 DEF UpdateStages
  <2>3. phase' \in {"joining", "stages"}
    BY <1>2 DEF UpdateStages
  <2>4. QED
    BY <1>0, <1>2, <2>1, <2>2, <2>3 DEF LoopOK, UpdateStages, guiVars
<1>3. CASE EndFrame
  <2>1. quitFrames' \in 0..QuitFrames
    BY <1>0, <1>3, ScreensNumbers DEF EndFrame, LoopOK
  <2>2. phase' \in {"events", "closing", "over"}
    BY <1>3 DEF EndFrame
  <2>3. QED
    BY <1>0, <1>3, <2>1, <2>2 DEF EndFrame, LoopOK, windowVars, guiVars
<1>4. CASE Begin
  BY <1>0, <1>4, BeginIs DEF Begin, LoopOK, guiVars
<1>5. CASE CloseWindow
  <2>1. QuitFrames \in 0..QuitFrames
    BY ScreensNumbers
  <2>2. QED
    BY <1>0, <1>5, <2>1 DEF CloseWindow, Input, LoopOK
<1>6. CASE Resize
  BY <1>0, <1>6 DEF Resize, Input, LoopOK
<1>7. CASE ChangePrefs
  BY <1>0, <1>7 DEF ChangePrefs, Click, LoopOK, windowVars
<1>8. CASE \E multi \in BOOLEAN : OpenWorld(multi)
  BY <1>0, <1>8 DEF OpenWorld, LoopOK
<1>9. CASE \E quit \in BOOLEAN : LeaveWorld(quit)
  BY <1>0, <1>9 DEF LeaveWorld, PauseClick, Click, LoopOK, windowVars, guiVars
<1>10. CASE EndEvents \/ StagesDone \/ Destroyed \/ UpdateWindows \/ NoClick
  BY <1>0, <1>10 DEF EndEvents, StagesDone, Destroyed, UpdateWindows, NoClick, LoopOK,
     windowVars, guiVars
<1>11. CASE BeginInvalid \/ Drawn \/ Take \/ Finish \/ MoveKey
  BY <1>0, <1>11 DEF BeginInvalid, Drawn, Take, Finish, MoveKey, Input, LoopOK,
     windowVars, guiVars
<1>12. CASE Preferences \/ ClosePrefs \/ LoseSource
  BY <1>0, <1>12 DEF Preferences, PauseClick, ClosePrefs, LoseSource, Click, LoopOK,
     windowVars, guiVars
<1>13. QED
  BY <1>1, <1>2, <1>3, <1>4, <1>5, <1>6, <1>7, <1>8, <1>9, <1>10, <1>11, <1>12, ScreensNextIs

(* The pictures. *)
LEMMA PicturesKept ==
  ASSUME ScreensBase, ScreensNext
  PROVE  PicturesOK'
<1> DEFINE P == Save \cup {Poke}
<1>0. /\ workerRun \in BOOLEAN /\ pics \in Seq(P) /\ doing \in P \cup {Waiting, Ended}
      /\ LoopOK /\ StagesAgree /\ world \in Renderers \cup {NoRenderer} /\ saved \in BOOLEAN
      /\ viewport \in Sizes /\ Save' = Save
  BY DEF ScreensBase, RendererOK, PicturesOK, LoopOK, Save
<1>1. Poke \in P /\ Append(pics, Poke) \in Seq(P)
  BY <1>0
<1>2. SUFFICES /\ workerRun' \in BOOLEAN /\ pics' \in Seq(P)
               /\ doing' \in P \cup {Waiting, Ended}
  BY <1>0 DEF PicturesOK
<1>3. CASE UNCHANGED picVars
  BY <1>0, <1>3 DEF picVars
<1>4. CASE UpdateStages
  BY <1>0, <1>1, <1>4 DEF UpdateStages
<1>5. CASE EndFrame
  BY <1>0, <1>1, <1>5 DEF EndFrame
<1>6. CASE Destroyed
  BY <1>0, <1>6 DEF Destroyed
<1>7. CASE Drawn
  <2>1. pics' = pics \/ \E p \in Save : pics' = Append(pics, p)
    BY <1>0, <1>7, DrawnIs
  <2>2. pics' \in Seq(P)
    BY <1>0, <2>1
  <2>3. QED
    BY <1>0, <1>7, <2>2 DEF Drawn
<1>8. CASE \E quit \in BOOLEAN : LeaveWorld(quit)
  <2>1. PICK quit \in BOOLEAN : LeaveWorld(quit)
    BY <1>8
  <2>2. world \in Renderers
    BY <1>0, <2>1, LeaveWorldIs
  <2> DEFINE p == [visit |-> world.visit, data |-> world.shot, size |-> viewport]
  <2>3. p \in Save
    BY <1>0, <2>2, RendererIs DEF Save
  <2>4. pics' = Append(pics, p)
    BY <2>1 DEF LeaveWorld, Queued
  <2> HIDE DEF p
  <2>5. pics' \in Seq(P)
    BY <1>0, <2>3, <2>4
  <2>6. QED
    BY <1>0, <2>1, <2>5 DEF LeaveWorld
<1>9. CASE \E multi \in BOOLEAN : OpenWorld(multi)
  BY <1>0, <1>9 DEF OpenWorld
<1>10. CASE Take
  <2>1. Head(pics) \in P /\ Tail(pics) \in Seq(P)
    BY <1>0, <1>10 DEF Take
  <2>2. QED
    BY <1>0, <1>10, <2>1 DEF Take
<1>11. CASE Finish
  BY <1>0, <1>11 DEF Finish
<1>12. CASE MenuMoves
  BY <1>0, <1>3, <1>12 DEF MenuMoves, Escape, OpenMenu, ToggleBar, ReturnToGame, Input
<1>13. CASE EndEvents \/ StagesDone \/ UpdateWindows \/ NoClick \/ BeginInvalid \/ Begin
  BY <1>3, <1>13 DEF EndEvents, StagesDone, UpdateWindows, NoClick, BeginInvalid, Begin
<1>14. CASE \/ CloseWindow \/ Resize \/ MoveKey \/ Preferences \/ ChangePrefs \/ ClosePrefs
            \/ LoseSource
  BY <1>3, <1>14 DEF CloseWindow, Resize, MoveKey, Input, Preferences, ChangePrefs, ClosePrefs,
     LoseSource
<1>15. QED
  BY <1>4, <1>5, <1>6, <1>7, <1>8, <1>9, <1>10, <1>11, <1>12, <1>13, <1>14, ScreensNextIs

-----------------------------------------------------------------------------
(* Windows and requests.                                                    *)

(* The windows that there are after the requests q, if W are there before. *)
After(W, q) ==
  LET LastOf(w) == {i \in DOMAIN q : q[i].window = w
                      /\ \A j \in (i + 1)..Len(q) : q[j].window # w}
  IN  {w \in Window : IF LastOf(w) = {} THEN w \in W ELSE \A i \in LastOf(w) : q[i].add}

LEMMA RequestedIs == Requested = After(windows, requests)
BY DEF Requested, After

(* One more request decides about its own window and about no other. *)
LEMMA AfterAppend ==
  ASSUME NEW W, NEW q \in Seq(Request), NEW r \in Request
  PROVE  \A w \in Window :
           w \in After(W, Append(q, r)) <=> IF w = r.window THEN r.add ELSE w \in After(W, q)
<1> DEFINE p == Append(q, r)
           LastOf(w) == {i \in DOMAIN q : q[i].window = w
                           /\ \A j \in (i + 1)..Len(q) : q[j].window # w}
           LastIn(w) == {i \in DOMAIN p : p[i].window = w
                           /\ \A j \in (i + 1)..Len(p) : p[j].window # w}
<1>1. /\ Len(q) \in Nat /\ DOMAIN q = 1..Len(q) /\ Len(p) = Len(q) + 1
      /\ DOMAIN p = 1..(Len(q) + 1) /\ p[Len(q) + 1] = r
      /\ \A i \in 1..Len(q) : p[i] = q[i]
  OBVIOUS
<1>2. SUFFICES ASSUME NEW w \in Window
               PROVE  w \in After(W, p) <=> IF w = r.window THEN r.add ELSE w \in After(W, q)
  OBVIOUS
<1>3. w \in After(W, q) <=> IF LastOf(w) = {} THEN w \in W ELSE \A i \in LastOf(w) : q[i].add
  BY DEF After
<1>4. w \in After(W, p) <=> IF LastIn(w) = {} THEN w \in W ELSE \A i \in LastIn(w) : p[i].add
  BY DEF After
<1> HIDE DEF p
<1>5. CASE w = r.window
  <2>1. LastIn(w) = {Len(q) + 1}
    <3>1. Len(q) + 1 \in LastIn(w)
      BY <1>1, <1>5
    <3>2. ASSUME NEW i \in LastIn(w), i # Len(q) + 1 PROVE FALSE
      <4>1. i \in 1..Len(q) /\ Len(q) + 1 \in (i + 1)..Len(p)
        BY <1>1, <3>2
      <4>2. p[Len(q) + 1].window # w
        BY <3>2, <4>1
      <4>3. QED
        BY <1>1, <1>5, <4>2
    <3>3. QED
      BY <3>1, <3>2
  <2>2. QED
    BY <1>1, <1>4, <1>5, <2>1
<1>6. CASE w # r.window
  <2>1. ASSUME NEW i \in LastOf(w) PROVE i \in LastIn(w)
    <3>1. i \in 1..Len(q) /\ q[i].window = w /\ \A j \in (i + 1)..Len(q) : q[j].window # w
      BY <1>1, <2>1
    <3>2. i \in DOMAIN p /\ p[i].window = w
      BY <1>1, <3>1
    <3>3. ASSUME NEW j \in (i + 1)..Len(p) PROVE p[j].window # w
      <4>1. j = Len(q) + 1 \/ (j \in 1..Len(q) /\ j \in (i + 1)..Len(q))
        BY <1>1, <3>1, <3>3
      <4>2. QED
        BY <1>1, <1>6, <3>1, <4>1
    <3>4. QED
      BY <3>2, <3>3
  <2>2. ASSUME NEW i \in LastIn(w) PROVE i \in LastOf(w)
    <3>1. i \in 1..(Len(q) + 1) /\ p[i].window = w
          /\ \A j \in (i + 1)..Len(p) : p[j].window # w
      BY <1>1, <2>2
    <3>2. i \in 1..Len(q)
      BY <1>1, <1>6, <3>1
    <3>3. ASSUME NEW j \in (i + 1)..Len(q) PROVE q[j].window # w
      <4>1. j \in 1..Len(q) /\ j \in (i + 1)..Len(p)
        BY <1>1, <3>2, <3>3
      <4>2. QED
        BY <1>1, <3>1, <4>1
    <3>4. QED
      BY <1>1, <3>1, <3>2, <3>3
  <2>3. LastIn(w) = LastOf(w) /\ \A i \in LastOf(w) : p[i] = q[i]
    BY <1>1, <2>1, <2>2
  <2> HIDE DEF LastIn, LastOf
  <2>4. QED
    BY <1>3, <1>4, <1>6, <2>3
<1>7. QED
  BY <1>5, <1>6

(* No request, no change. *)
LEMMA AfterNone ==
  ASSUME NEW W, NEW q \in Seq(Request), NEW w \in Window,
         \A i \in DOMAIN q : q[i].window # w
  PROVE  w \in After(W, q) <=> w \in W
BY DEF After

LEMMA AfterEmpty ==
  ASSUME NEW W \in SUBSET Window
  PROVE  After(W, <<>>) = W
<1>1. <<>> \in Seq(Request) /\ DOMAIN <<>> = {}
  OBVIOUS
<1>2. \A w \in Window : w \in After(W, <<>>) <=> w \in W
  BY <1>1 DEF After
<1>3. After(W, <<>>) \subseteq Window
  BY DEF After
<1>4. QED
  BY <1>2, <1>3

LEMMA AppendedRequests ==
  ASSUME NEW q \in Seq(Request), NEW a \in Request, NEW b \in Request, NEW c \in Request
  PROVE  /\ q \o (<<a>> \o <<b>> \o <<c>>) = Append(Append(Append(q, a), b), c)
         /\ q \o (<<a>> \o <<>> \o <<c>>) = Append(Append(q, a), c)
         /\ q \o (<<>> \o <<b>> \o <<c>>) = Append(Append(q, b), c)
         /\ q \o (<<>> \o <<>> \o <<c>>) = Append(q, c)
         /\ q \o <<a>> \o <<b>> = Append(Append(q, a), b)
         /\ q \o <<a>> \o <<>> = Append(q, a)
<1>1. <<a>> \in Seq(Request) /\ <<b>> \in Seq(Request) /\ <<c>> \in Seq(Request)
      /\ <<>> \in Seq(Request)
  OBVIOUS
<1>2. \A s \in Seq(Request), x \in Request :
        Append(s, x) = s \o <<x>> /\ s \o <<x>> \in Seq(Request)
  OBVIOUS
<1>3. \A s \in Seq(Request) : s \o <<>> = s /\ <<>> \o s = s
  OBVIOUS
<1>4. \A s, t \in Seq(Request), x \in Request : s \o (t \o <<x>>) = (s \o t) \o <<x>>
  OBVIOUS
<1>5. q \o (<<a>> \o <<b>> \o <<c>>) = ((q \o <<a>>) \o <<b>>) \o <<c>>
  BY <1>1, <1>2, <1>4
<1>6. q \o (<<a>> \o <<c>>) = (q \o <<a>>) \o <<c>> /\ q \o (<<b>> \o <<c>>) = (q \o <<b>>) \o <<c>>
  BY <1>1, <1>4
<1>7. q \o (<<a>> \o <<b>> \o <<c>>) = Append(Append(Append(q, a), b), c)
  <2> DEFINE qa == q \o <<a>>
             qb == qa \o <<b>>
  <2>1. qa \in Seq(Request) /\ qa = Append(q, a)
    BY <1>2
  <2>2. qb \in Seq(Request) /\ qb = Append(qa, b)
    BY <1>2, <2>1
  <2>3. qb \o <<c>> = Append(qb, c)
    BY <1>2, <2>2
  <2>4. QED
    BY <1>5, <2>1, <2>2, <2>3
<1>8. q \o (<<a>> \o <<>> \o <<c>>) = Append(Append(q, a), c)
  <2>1. <<a>> \o <<>> = <<a>>
    BY <1>1, <1>3
  <2>2. QED
    BY <1>2, <1>6, <2>1
<1>9. q \o (<<>> \o <<b>> \o <<c>>) = Append(Append(q, b), c)
  <2>1. <<>> \o <<b>> = <<b>>
    BY <1>1, <1>3
  <2>2. QED
    BY ZenonT(40), <1>2, <1>6, <2>1
<1>10. q \o (<<>> \o <<>> \o <<c>>) = Append(q, c)
  <2>1. <<>> \o <<>> = <<>> /\ <<>> \o <<c>> = <<c>>
    BY <1>1, <1>3
  <2>2. QED
    BY <1>2, <2>1
<1>11. q \o <<a>> \o <<b>> = Append(Append(q, a), b)
  BY <1>2
<1>12. q \o <<a>> \o <<>> = Append(q, a)
  BY <1>2, <1>3
<1>13. QED
  BY <1>7, <1>8, <1>9, <1>10, <1>11, <1>12

LEMMA WindowIs ==
  ASSUME NEW kind \in Kinds, NEW v \in 1..Visits
  PROVE  /\ <<kind, v>> \in Window
         /\ [add |-> TRUE, window |-> <<kind, v>>] \in Request
         /\ [add |-> FALSE, window |-> <<kind, v>>] \in Request
BY DEF Window, Request

(* What the pause menu does with its window. *)
LEMMA PauseShownIs ==
  ASSUME GuiOK, NEW w \in Renderers, PauseShown(w)
  PROVE  /\ shown' \subseteq Window
         /\ shown' = IF "pause" \in w.open THEN shown \cup {<<"pause", w.visit>>}
                     ELSE shown \ {<<"pause", w.visit>>, <<"prefs", w.visit>>}
         /\ \/ requests' = requests
            \/ requests' = Append(requests, [add |-> TRUE, window |-> <<"pause", w.visit>>])
<1>1. w.visit \in 1..Visits
  BY RendererIs
<1>2. <<"pause", w.visit>> \in Window
  BY <1>1, WindowIs DEF Kinds
<1>3. shown' = IF "pause" \in w.open THEN shown \cup {<<"pause", w.visit>>}
               ELSE shown \ {<<"pause", w.visit>>, <<"prefs", w.visit>>}
  BY DEF PauseShown
<1>4. QED
  BY <1>2, <1>3 DEF PauseShown, GuiOK

(* The destructor's requests: the windows of this renderer go. *)
LEMMA RemovalsAre ==
  ASSUME GuiOK, world \in Renderers
  PROVE  LET v == world.visit
         IN  /\ requests \o Removals \in Seq(Request)
             /\ \A w \in After(windows, requests \o Removals) :
                  /\ w \in After(windows, requests)
                  /\ w # <<"pause", v>> /\ w # <<"inventory", v>>
                  /\ (world.multi => w # <<"chat", v>>)
<1> DEFINE v == world.visit
           a == [add |-> FALSE, window |-> <<"pause", v>>]
           b == [add |-> FALSE, window |-> <<"chat", v>>]
           c == [add |-> FALSE, window |-> <<"inventory", v>>]
           some == \/ <<"pause", v>> \in windows
                   \/ {i \in DOMAIN requests : requests[i].window = <<"pause", v>>} # {}
           q == requests
<1>1. v \in 1..Visits /\ q \in Seq(Request) /\ world.multi \in BOOLEAN
  BY RendererIs DEF GuiOK
<1>2. a \in Request /\ b \in Request /\ c \in Request
      /\ <<"pause", v>> \in Window
  <2>1. "pause" \in Kinds /\ "chat" \in Kinds /\ "inventory" \in Kinds
    BY DEF Kinds
  <2>2. QED
    BY <1>1, <2>1, WindowIs
<1>3. /\ a.add = FALSE /\ a.window = <<"pause", v>> /\ b.add = FALSE /\ b.window = <<"chat", v>>
      /\ c.add = FALSE /\ c.window = <<"inventory", v>>
  OBVIOUS
<1>4. Removals = (IF some THEN <<a>> ELSE <<>>) \o (IF world.multi THEN <<b>> ELSE <<>>) \o <<c>>
  BY DEF Removals, Removal
<1>5. ~some => \A i \in DOMAIN q : q[i].window # <<"pause", v>>
  OBVIOUS
<1>6. ~some => <<"pause", v>> \notin windows
  OBVIOUS
<1>7. ~some => <<"pause", v>> \notin After(windows, q)
  <2> HIDE DEF some, q
  <2>1. QED
    BY <1>1, <1>2, <1>5, <1>6, AfterNone
<1> DEFINE p == IF some THEN Append(q, a) ELSE q
           r == IF world.multi THEN Append(p, b) ELSE p
<1> HIDE DEF a, b, c, some, q, v
<1>8. requests \o Removals = Append(r, c)
  <2>1. requests = q
    BY DEF q
  <2>2. CASE some /\ world.multi
    BY SMTT(30), <1>1, <1>2, <1>4, <2>1, <2>2, AppendedRequests
  <2>3. CASE some /\ ~world.multi
    BY <1>1, <1>2, <1>4, <2>1, <2>3, AppendedRequests
  <2>4. CASE ~some /\ world.multi
    BY <1>1, <1>2, <1>4, <2>1, <2>4, AppendedRequests
  <2>5. CASE ~some /\ ~world.multi
    BY <1>1, <1>2, <1>4, <2>1, <2>5, AppendedRequests
  <2>6. QED
    BY <2>2, <2>3, <2>4, <2>5
<1>9. /\ p \in Seq(Request)
      /\ \A w \in Window : w \in After(windows, p) =>
            w \in After(windows, q) /\ w # <<"pause", v>>
  <2>1. CASE some
    <3>1. p = Append(q, a)
      BY <2>1
    <3>2. p \in Seq(Request)
      BY <1>1, <1>2, <3>1
    <3>3. \A w \in Window : w \in After(windows, Append(q, a)) <=>
                              IF w = a.window THEN a.add ELSE w \in After(windows, q)
      BY <1>1, <1>2, AfterAppend
    <3>4. QED
      BY <1>3, <3>1, <3>2, <3>3
  <2>2. CASE ~some
    BY <1>1, <1>7, <2>2
  <2>3. QED
    BY <2>1, <2>2
<1> HIDE DEF p
<1>10. /\ r \in Seq(Request)
       /\ \A w \in Window : w \in After(windows, r) =>
             w \in After(windows, p) /\ (world.multi => w # <<"chat", v>>)
  <2>1. CASE world.multi
    BY <1>2, <1>3, <1>9, <2>1, AfterAppend
  <2>2. CASE ~world.multi
    BY <1>9, <2>2
  <2>3. QED
    BY <2>1, <2>2
<1> HIDE DEF r
<1>11. /\ Append(r, c) \in Seq(Request)
       /\ \A w \in Window : w \in After(windows, Append(r, c)) =>
             w \in After(windows, r) /\ w # <<"inventory", v>>
  BY <1>2, <1>3, <1>10, AfterAppend
<1>12. \A w \in After(windows, Append(r, c)) : w \in Window
  BY DEF After
<1>13. \A w \in After(windows, Append(r, c)) :
         /\ w \in After(windows, q)
         /\ w # <<"pause", v>> /\ w # <<"inventory", v>>
         /\ (world.multi => w # <<"chat", v>>)
  BY <1>9, <1>10, <1>11, <1>12
<1>14. QED
  BY <1>8, <1>11, <1>13 DEF v, q

(* A world that is opened asks for its windows. *)
LEMMA AdditionsAre ==
  ASSUME GuiOK, visits \in 0..Visits, NEW multi \in BOOLEAN, OpenWorld(multi)
  PROVE  LET v == visits'
         IN  /\ v \in 1..Visits /\ requests' \in Seq(Request) /\ shown' \subseteq Window
             /\ \A w \in After(windows, requests') :
                  \/ w \in After(windows, requests)
                  \/ w = <<"inventory", v>>
                  \/ multi /\ w = <<"chat", v>>
             /\ \A w \in shown' : w \in shown \/ w = <<"inventory", v>> \/ w = <<"chat", v>>
<1> DEFINE v == visits + 1
           a == [add |-> TRUE, window |-> <<"inventory", v>>]
           b == [add |-> TRUE, window |-> <<"chat", v>>]
           q == requests
           p == Append(q, a)
           r == IF multi THEN Append(p, b) ELSE p
<1>1. v = visits' /\ v \in 1..Visits /\ q \in Seq(Request)
  BY ScreensNumbers DEF OpenWorld, GuiOK
<1>2. /\ a \in Request /\ b \in Request
      /\ <<"inventory", v>> \in Window /\ <<"chat", v>> \in Window
  <2>1. "chat" \in Kinds /\ "inventory" \in Kinds
    BY DEF Kinds
  <2>2. QED
    BY <1>1, <2>1, WindowIs
<1>3. a.window = <<"inventory", v>> /\ b.window = <<"chat", v>>
  OBVIOUS
<1>4. requests' = requests \o <<a>> \o (IF multi THEN <<b>> ELSE <<>>)
  BY DEF OpenWorld
<1>5. shown' = shown \cup {<<"inventory", v>>} \cup (IF multi THEN {<<"chat", v>>} ELSE {})
  BY DEF OpenWorld
<1> HIDE DEF a, b, v
<1>6. requests' = r
  BY <1>1, <1>2, <1>4, AppendedRequests
<1>7. /\ p \in Seq(Request)
      /\ \A w \in Window : w \in After(windows, p) =>
            w \in After(windows, q) \/ w = <<"inventory", v>>
  BY <1>1, <1>2, <1>3, AfterAppend
<1> HIDE DEF p
<1>8. /\ r \in Seq(Request)
      /\ \A w \in Window : w \in After(windows, r) =>
            w \in After(windows, p) \/ (multi /\ w = <<"chat", v>>)
  BY <1>2, <1>3, <1>7, AfterAppend
<1> HIDE DEF r
<1>9. \A w \in After(windows, r) : w \in Window
  BY DEF After
<1>10. \A w \in After(windows, r) :
         \/ w \in After(windows, q)
         \/ w = <<"inventory", v>>
         \/ multi /\ w = <<"chat", v>>
  BY <1>7, <1>8, <1>9
<1>11. /\ shown' \subseteq Window
       /\ \A w \in shown' : w \in shown \/ w = <<"inventory", v>> \/ w = <<"chat", v>>
  BY <1>2, <1>5 DEF GuiOK
<1>12. QED
  BY <1>1, <1>6, <1>8, <1>10, <1>11

(* The user interface in a step: nothing, the pause menu's or the           *)
(* preferences' window, or what a renderer asks for when it is made and     *)
(* when it is destroyed.                                                    *)
LEMMA GuiMoves ==
  ASSUME ScreensBase, ScreensNext
  PROVE  \/ UNCHANGED <<windows, shown, requests>> /\ ~UpdateWindows /\ ~Destroyed
            /\ ~(\E multi \in BOOLEAN : OpenWorld(multi))
         \/ /\ windows' = windows /\ shown' \subseteq Window
            /\ world \in Renderers /\ world' \in Renderers
            /\ world'.visit = world.visit /\ world'.multi = world.multi
            /\ visits' = visits /\ phase' # "clicks"
            /\ \A w \in shown' : w \in shown \/ w[2] = world.visit
            /\ \/ requests' = requests
               \/ \E k \in {"pause", "prefs"} :
                    requests' = Append(requests, [add |-> TRUE, window |-> <<k, world.visit>>])
         \/ UpdateWindows \/ Destroyed
         \/ \E multi \in BOOLEAN : OpenWorld(multi)
<1>0. /\ GuiOK /\ world \in Renderers \cup {NoRenderer} /\ StagesAgree
  BY DEF ScreensBase, RendererOK
<1>1. CASE Escape \/ ReturnToGame
  <2>1. OnStage /\ phase # "over"
    BY <1>1 DEF Escape, Input, ReturnToGame, PauseClick, Click
  <2>2. world \in Renderers
    BY <1>0, <2>1, OnStageIs
  <2>3. /\ world' \in Renderers /\ world'.visit = world.visit /\ world'.multi = world.multi
        /\ windows' = windows /\ visits' = visits /\ phase' # "clicks"
    BY <1>1, <2>2, MenuMoveIs DEF MenuMoves, SameWorld
  <2>4. \/ UNCHANGED <<shown, requests>>
        \/ \E w \in Renderers : w.visit = world.visit /\ PauseShown(w)
    <3>1. CASE Escape
      <4>1. EscapeMenu(world) \in Renderers /\ EscapeMenu(world).visit = world.visit
        BY <2>2, EscapeMenuIs DEF SameWorld
      <4>2. UNCHANGED <<shown, requests>> \/ PauseShown(EscapeMenu(world))
        BY <3>1 DEF Escape
      <4>3. QED
        BY <4>1, <4>2
    <3>2. CASE ReturnToGame
      <4>1. PauseShown(ClosePause(world))
        <5>1. world' = ClosePause(world) /\ PauseShown(world')
          BY <3>2 DEF ReturnToGame
        <5>2. QED
          BY <5>1
      <4>2. ClosePause(world) \in Renderers /\ ClosePause(world).visit = world.visit
        BY <2>2, ClosePauseIs DEF SameWorld
      <4>3. QED
        BY <4>1, <4>2
    <3>3. QED
      BY <1>1, <3>1, <3>2
  <2>5. CASE UNCHANGED <<shown, requests>>
    BY <1>0, <2>2, <2>3, <2>5 DEF GuiOK
  <2>6. CASE \E w \in Renderers : w.visit = world.visit /\ PauseShown(w)
    <3>1. PICK w \in Renderers : w.visit = world.visit /\ PauseShown(w)
      BY <2>6
    <3>2. /\ shown' \subseteq Window
          /\ shown' = IF "pause" \in w.open THEN shown \cup {<<"pause", w.visit>>}
                      ELSE shown \ {<<"pause", w.visit>>, <<"prefs", w.visit>>}
          /\ \/ requests' = requests
             \/ requests' = Append(requests, [add |-> TRUE, window |-> <<"pause", w.visit>>])
      BY <1>0, <3>1, PauseShownIs
    <3>3. \A x \in shown' : x \in shown \/ x[2] = world.visit
      BY <3>1, <3>2
    <3>4. QED
      BY <2>2, <2>3, <3>1, <3>2, <3>3
  <2>7. QED
    BY <2>4, <2>5, <2>6
<1>2. CASE Preferences
  <2>1. OnStage /\ phase # "over" /\ UNCHANGED <<windows, world, visits>> /\ phase' # "clicks"
    BY <1>2 DEF Preferences, PauseClick, Click, guiVars
  <2>2. world \in Renderers
    BY <1>0, <2>1, OnStageIs
  <2>3. world.visit \in 1..Visits
    BY <2>2, RendererIs
  <2>4. <<"prefs", world.visit>> \in Window
    BY <2>3, WindowIs DEF Kinds
  <2>5. /\ shown' = shown \cup {<<"prefs", world.visit>>}
        /\ \/ requests' = requests
           \/ requests' = Append(requests, [add |-> TRUE, window |-> <<"prefs", world.visit>>])
    BY <1>2 DEF Preferences
  <2>6. shown' \subseteq Window /\ \A x \in shown' : x \in shown \/ x[2] = world.visit
    BY <1>0, <2>4, <2>5 DEF GuiOK
  <2>7. QED
    BY <2>1, <2>2, <2>5, <2>6
<1>3. CASE ClosePrefs
  <2>1. OnStage /\ phase # "over" /\ UNCHANGED <<windows, world, visits, requests>>
        /\ phase' # "clicks" /\ shown' \subseteq shown
    BY <1>3 DEF ClosePrefs, Click
  <2>2. world \in Renderers
    BY <1>0, <2>1, OnStageIs
  <2>3. QED
    BY <1>0, <2>1, <2>2 DEF GuiOK
<1> DEFINE Steady == /\ UNCHANGED <<windows, shown, requests>> /\ ~UpdateWindows /\ ~Destroyed
                     /\ ~(\E multi \in BOOLEAN : OpenWorld(multi))
<1>4. CASE OpenMenu("inventory") \/ OpenMenu("chat") \/ ToggleBar
  <2>1. Steady
    BY <1>4 DEF OpenMenu, ToggleBar, Input, UpdateWindows, Destroyed, OpenWorld
  <2>2. QED
    BY <2>1
<1>5. CASE EndEvents \/ UpdateStages \/ StagesDone
  <2>1. Steady
    BY <1>5 DEF EndEvents, UpdateStages, StagesDone, guiVars, UpdateWindows, Destroyed, OpenWorld
  <2>2. QED
    BY <2>1
<1>6. CASE BeginInvalid \/ Begin \/ Drawn \/ EndFrame
  <2>1. Steady
    BY <1>6 DEF BeginInvalid, Begin, Drawn, EndFrame, guiVars, UpdateWindows, Destroyed, OpenWorld
  <2>2. QED
    BY <2>1
<1>7. CASE Take \/ Finish \/ LoseSource
  <2>1. UNCHANGED <<windows, shown, requests, phase>>
    BY <1>7 DEF Take, Finish, LoseSource, guiVars
  <2>2. ~UpdateWindows /\ ~(\E multi \in BOOLEAN : OpenWorld(multi))
    BY <2>1 DEF UpdateWindows, OpenWorld
  <2>3. ~Destroyed
    BY <2>1 DEF Destroyed
  <2>4. QED
    BY <2>1, <2>2, <2>3
<1>8. CASE CloseWindow \/ Resize \/ MoveKey
  <2>1. Steady
    BY <1>8 DEF CloseWindow, Resize, MoveKey, Input, UpdateWindows, Destroyed, OpenWorld
  <2>2. QED
    BY <2>1
<1>9. CASE \E quit \in BOOLEAN : LeaveWorld(quit)
  <2>1. UNCHANGED <<windows, shown, requests>>
    BY <1>9 DEF LeaveWorld, guiVars
  <2>2. \E quit \in BOOLEAN : LeaveWorld(quit) /\ OnStage /\ phase = "clicks" /\ phase' = "begin"
    BY <1>9 DEF LeaveWorld, PauseClick, Click
  <2>3. ~UpdateWindows /\ ~Destroyed /\ ~(\E multi \in BOOLEAN : OpenWorld(multi))
    BY <2>2 DEF UpdateWindows, Destroyed, OpenWorld, OnStage
  <2>4. QED
    BY <2>1, <2>3
<1>10. CASE ChangePrefs
  <2>1. Steady
    BY <1>10 DEF ChangePrefs, Click, UpdateWindows, Destroyed, OpenWorld, OnStage
  <2>2. QED
    BY <2>1
<1>11. CASE NoClick
  <2>1. world' = world /\ phase = "clicks" /\ UNCHANGED <<windows, shown, requests, visits>>
    BY <1>11 DEF NoClick, guiVars
  <2>2. ~UpdateWindows /\ ~Destroyed
    BY <2>1 DEF UpdateWindows, Destroyed
  <2>3. ~(\E multi \in BOOLEAN : OpenWorld(multi))
    BY <1>0, <2>1, ScreensNumbers DEF OpenWorld, ScreensBase, RendererOK
  <2>4. QED
    BY <2>1, <2>2, <2>3
<1>12. QED
  BY <1>1, <1>2, <1>3, <1>4, <1>5, <1>6, <1>7, <1>8, <1>9, <1>10, <1>11, ScreensNextIs
  DEF MenuMoves

LEMMA GuiKept ==
  ASSUME ScreensBase, ScreensNext
  PROVE  GuiOK'
<1>0. GuiOK /\ Window' = Window /\ Request' = Request /\ visits \in 0..Visits
  BY DEF ScreensBase, RendererOK, Window, Request
<1>1. CASE UNCHANGED <<windows, shown, requests>>
  BY <1>0, <1>1 DEF GuiOK
<1>2. CASE UpdateWindows
  <2>1. windows' \subseteq Window /\ requests' = <<>> /\ shown' = shown
    BY <1>2 DEF UpdateWindows, Requested
  <2>2. QED
    BY <1>0, <2>1 DEF GuiOK
<1>3. CASE Destroyed
  <2>1. world \in Renderers
    BY <1>3, AliveIs DEF Destroyed, ScreensBase, StagesAgree, RendererOK
  <2>2. requests' \in Seq(Request) /\ UNCHANGED <<windows, shown>>
    BY <1>0, <1>3, <2>1, RemovalsAre DEF Destroyed
  <2>3. QED
    BY <1>0, <2>2 DEF GuiOK
<1>4. CASE \E multi \in BOOLEAN : OpenWorld(multi)
  <2>1. PICK multi \in BOOLEAN : OpenWorld(multi)
    BY <1>4
  <2>2. requests' \in Seq(Request) /\ shown' \subseteq Window /\ windows' = windows
    BY <1>0, <2>1, AdditionsAre DEF OpenWorld
  <2>3. QED
    BY <1>0, <2>2 DEF GuiOK
<1>5. CASE /\ windows' = windows /\ shown' \subseteq Window /\ world \in Renderers
           /\ \/ requests' = requests
              \/ \E k \in {"pause", "prefs"} :
                   requests' = Append(requests, [add |-> TRUE, window |-> <<k, world.visit>>])
  <2>1. requests' \in Seq(Request)
    <3>1. CASE requests' = requests
      BY <1>0, <3>1 DEF GuiOK
    <3>2. CASE \E k \in {"pause", "prefs"} :
                   requests' = Append(requests, [add |-> TRUE, window |-> <<k, world.visit>>])
      <4>1. PICK k \in {"pause", "prefs"} :
                   requests' = Append(requests, [add |-> TRUE, window |-> <<k, world.visit>>])
        BY <3>2
      <4>2. k \in Kinds /\ world.visit \in 1..Visits
        BY <1>5, RendererIs DEF Kinds
      <4>3. [add |-> TRUE, window |-> <<k, world.visit>>] \in Request
        BY <4>2, WindowIs
      <4>4. QED
        BY <1>0, <4>1, <4>3 DEF GuiOK
    <3>3. QED
      BY <1>5, <3>1, <3>2
  <2>2. QED
    BY <1>0, <1>5, <2>1 DEF GuiOK
<1>6. QED
  BY <1>1, <1>2, <1>3, <1>4, <1>5, GuiMoves

(* When the requests are done, the windows that are left have their owner.  *)
LEMMA OwnersKept ==
  ASSUME ScreensBase, WindowsHaveOwners, ScreensNext
  PROVE  WindowsHaveOwners'
<1>0. /\ GuiOK /\ visits \in 0..Visits /\ world \in Renderers \cup {NoRenderer} /\ StagesAgree
      /\ Window' = Window
      /\ requests \in Seq(Request) /\ windows \in SUBSET Window
  BY DEF ScreensBase, RendererOK, Window, GuiOK
<1>1. /\ \A w \in After(windows, requests) : w[1] # "prefs" =>
            Alive /\ w[2] = world.visit /\ (w[1] = "chat" => world.multi)
      /\ (phase = "clicks" => requests = <<>>)
  BY RequestedIs DEF WindowsHaveOwners
<1>2. Requested' = After(windows', requests')
  BY <1>0 DEF Requested, After
<1>3. SUFFICES /\ \A w \in After(windows', requests') : w[1] # "prefs" =>
                    /\ world'.visit # 0 /\ w[2] = world'.visit
                    /\ (w[1] = "chat" => world'.multi)
               /\ (phase' = "clicks" => requests' = <<>>)
  BY <1>2 DEF WindowsHaveOwners, Alive
<1>4. CASE UNCHANGED <<windows, shown, requests>> /\ ~UpdateWindows /\ ~Destroyed
            /\ ~(\E multi \in BOOLEAN : OpenWorld(multi))
  <2>1. \/ UNCHANGED <<world, visits>>
        \/ /\ world \in Renderers /\ world' \in Renderers
           /\ world'.visit = world.visit /\ world'.multi = world.multi
    BY <1>4, RendererMoves
  <2>2. world'.visit = world.visit /\ (Alive => world'.multi = world.multi)
    BY <2>1
  <2>3. phase' = "clicks" => phase = "clicks"
    <3>1. CASE Looks
      BY <1>4, <3>1 DEF Looks, EndEvents, UpdateStages, StagesDone, NoClick, BeginInvalid,
         Take, Finish, Resize, Preferences, PauseClick, ClosePrefs, Click, Input
    <3>2. CASE MenuMoves
      BY <3>2 DEF MenuMoves, Escape, OpenMenu, ToggleBar, Input, ReturnToGame, PauseClick, Click
    <3>3. CASE Begin \/ Drawn \/ EndFrame
      BY <3>3 DEF Begin, Drawn, EndFrame
    <3>4. CASE CloseWindow \/ MoveKey \/ LoseSource \/ ChangePrefs
      BY <3>4 DEF CloseWindow, MoveKey, LoseSource, ChangePrefs, Input, Click
    <3>5. CASE \E quit \in BOOLEAN : LeaveWorld(quit)
      BY <3>5 DEF LeaveWorld, PauseClick, Click
    <3>6. QED
      BY <1>4, <3>1, <3>2, <3>3, <3>4, <3>5, ScreensStepIs
  <2>4. After(windows', requests') = After(windows, requests)
    BY <1>4
  <2>5. QED
    BY <1>1, <1>4, <2>2, <2>3, <2>4 DEF Alive
<1>5. CASE /\ windows' = windows /\ world \in Renderers /\ world' \in Renderers
           /\ world'.visit = world.visit /\ world'.multi = world.multi /\ phase' # "clicks"
           /\ \/ requests' = requests
              \/ \E k \in {"pause", "prefs"} :
                   requests' = Append(requests, [add |-> TRUE, window |-> <<k, world.visit>>])
  <2>1. Alive
    BY <1>0, <1>5, AliveIs
  <2>2. CASE requests' = requests
    BY <1>1, <1>5, <2>1, <2>2 DEF Alive
  <2>3. CASE \E k \in {"pause", "prefs"} :
                   requests' = Append(requests, [add |-> TRUE, window |-> <<k, world.visit>>])
    <3>1. PICK k \in {"pause", "prefs"} :
                   requests' = Append(requests, [add |-> TRUE, window |-> <<k, world.visit>>])
      BY <2>3
    <3>2. k \in Kinds /\ k # "chat" /\ world.visit \in 1..Visits
      BY <1>5, RendererIs DEF Kinds
    <3> DEFINE r == [add |-> TRUE, window |-> <<k, world.visit>>]
    <3>3. r \in Request /\ r.window = <<k, world.visit>>
      BY <3>2, WindowIs
    <3> HIDE DEF r
    <3>4. \A w \in Window : w \in After(windows, Append(requests, r)) =>
            w = <<k, world.visit>> \/ w \in After(windows, requests)
      BY <1>0, <3>3, AfterAppend
    <3>5. \A w \in After(windows, Append(requests, r)) : w \in Window
      BY DEF After
    <3>6. requests' = Append(requests, r)
      BY <3>1 DEF r
    <3>7. ASSUME NEW w \in After(windows, Append(requests, r)), w[1] # "prefs"
          PROVE  w[2] = world.visit /\ (w[1] = "chat" => world.multi)
      <4>1. w = <<k, world.visit>> \/ w \in After(windows, requests)
        BY <3>4, <3>5
      <4>2. CASE w = <<k, world.visit>>
        BY <3>2, <4>2
      <4>3. CASE w \in After(windows, requests)
        BY <1>1, <3>7, <4>3
      <4>4. QED
        BY <4>1, <4>2, <4>3
    <3>8. QED
      BY <1>5, <2>1, <3>6, <3>7 DEF Alive
  <2>4. QED
    BY <1>5, <2>2, <2>3
<1>6. CASE UpdateWindows
  <2>1. windows' = After(windows, requests) /\ requests' = <<>> /\ world' = world
    BY <1>6, RequestedIs DEF UpdateWindows
  <2>2. After(windows, requests) \in SUBSET Window
    BY DEF After
  <2>3. After(windows', requests') = After(windows, requests)
    BY <2>1, <2>2, AfterEmpty
  <2>4. QED
    BY <1>1, <2>1, <2>3 DEF Alive
<1>7. CASE Destroyed
  <2>1. world \in Renderers /\ windows' = windows /\ requests' = requests \o Removals
        /\ phase' # "clicks"
    BY <1>7, AliveIs DEF Destroyed, ScreensBase, StagesAgree, RendererOK
  <2>2. ASSUME NEW w \in After(windows, requests \o Removals), w[1] # "prefs" PROVE FALSE
    <3>1. /\ w \in After(windows, requests)
          /\ w # <<"pause", world.visit>> /\ w # <<"inventory", world.visit>>
          /\ (world.multi => w # <<"chat", world.visit>>)
      BY <1>0, <2>1, RemovalsAre
    <3>2. w \in Window /\ w[2] = world.visit /\ (w[1] = "chat" => world.multi)
      BY <1>1, <2>2, <3>1 DEF After
    <3>3. w = <<w[1], w[2]>> /\ w[1] \in Kinds
      BY <3>2 DEF Window
    <3>4. w[1] \in {"pause", "inventory", "chat"}
      BY <2>2, <3>3 DEF Kinds
    <3>5. QED
      BY <3>1, <3>2, <3>3, <3>4
  <2>3. QED
    BY <2>1, <2>2
<1>8. CASE \E multi \in BOOLEAN : OpenWorld(multi)
  <2>1. PICK multi \in BOOLEAN : OpenWorld(multi)
    BY <1>8
  <2>2. /\ world'.visit = visits' /\ world'.multi = multi
        /\ visits' \in 1..Visits
    BY <1>0, <2>1, OpenWorldIs DEF ScreensBase, LoopOK
  <2>3. \A w \in After(windows, requests') :
          \/ w \in After(windows, requests)
          \/ w = <<"inventory", visits'>>
          \/ multi /\ w = <<"chat", visits'>>
    BY <1>0, <2>1, AdditionsAre
  <2>4. windows' = windows /\ phase' = "begin" /\ ~Alive
    BY <2>1 DEF OpenWorld
  <2>5. ASSUME NEW w \in After(windows, requests'), w[1] # "prefs"
        PROVE  w[2] = visits' /\ (w[1] = "chat" => multi)
    <3>1. w \notin After(windows, requests)
      BY <1>1, <2>4, <2>5
    <3>2. w = <<"inventory", visits'>> \/ (multi /\ w = <<"chat", visits'>>)
      BY <2>3, <3>1
    <3>3. QED
      BY <3>2
  <2>6. visits' # 0
    BY <2>2, ScreensNumbers
  <2>7. QED
    BY <2>2, <2>4, <2>5, <2>6
<1>9. QED
  BY <1>4, <1>5, <1>6, <1>7, <1>8, GuiMoves

(* The windows that are drawn. *)
LEMMA DrawnAreOwned ==
  ASSUME ScreensBase, WindowsHaveOwners
  PROVE  DrawnWindowsHaveOwners
<1>1. windows \in SUBSET Window
  BY DEF ScreensBase, GuiOK
<1>2. phase = "clicks" => Requested = windows
  <2>1. After(windows, <<>>) = windows
    BY <1>1, AfterEmpty
  <2>2. QED
    BY <2>1, RequestedIs DEF WindowsHaveOwners
<1>3. QED
  BY <1>2 DEF WindowsHaveOwners, DrawnWindowsHaveOwners

-----------------------------------------------------------------------------
(* The stages.                                                              *)

LEMMA StagesKept ==
  ASSUME ScreensBase, ScreensNext
  PROVE  StagesAgree'
<1>0. /\ world \in Renderers \cup {NoRenderer} /\ visits \in 0..Visits /\ StagesAgree
      /\ phase \in {"events", "stages", "windows", "clicks", "begin", "draw", "end",
                    "joining", "closing", "over"}
      /\ stage \in {"title", "world"} /\ running \in BOOLEAN
  BY DEF ScreensBase, RendererOK, LoopOK
<1> DEFINE Agree(c, a, o, p) ==
             /\ c \in {<<>>, <<"title">>, <<"world">>}
             /\ c = <<"title">> =>
                  o /\ p \in {"draw", "end", "events", "stages", "closing", "over"}
             /\ c = <<"world">> =>
                  ~o /\ p \in {"begin", "draw", "end", "events", "stages", "closing", "over"}
             /\ p = "joining" => ~o /\ c = <<>> /\ a
             /\ p = "closing" => a
             /\ p = "over" => ~a
             /\ p # "over" /\ (o \/ c = <<"world">>) => a
             /\ a => o \/ c = <<"world">> \/ p = "joining"
<1>1. Agree(changes, Alive, OnStage, phase) /\ (Alive => world.visit = visits)
  BY <1>0, Zenon DEF StagesAgree
<1>2. SUFFICES Agree(changes', Alive', OnStage', phase') /\ (Alive' => world'.visit = visits')
  BY Zenon DEF StagesAgree, Alive
<1>3. <<"title">> # <<>> /\ <<"world">> # <<>> /\ <<"title">> # <<"world">>
  <2>1. Len(<<"title">>) = 1 /\ Len(<<>>) = 0 /\ Len(<<"world">>) = 1
        /\ <<"title">>[1] = "title" /\ <<"world">>[1] = "world"
    OBVIOUS
  <2>2. QED
    BY <2>1
<1>4. CASE UNCHANGED <<changes, stage, phase>> /\ world'.visit = world.visit
           /\ visits' = visits
  BY <1>1, <1>4 DEF Alive, OnStage
<1>5. CASE EndEvents \/ StagesDone \/ UpdateWindows \/ NoClick \/ Drawn
  <2>1. /\ UNCHANGED <<changes, stage, visits>> /\ world'.visit = world.visit
    <3>1. CASE Drawn
      BY <1>0, <3>1, DrawnIs DEF Drawn, windowVars, ScreensBase, LoopOK
    <3>2. CASE ~Drawn
      BY <1>5, <3>2 DEF EndEvents, StagesDone, UpdateWindows, NoClick, windowVars
    <3>3. QED
      BY <3>1, <3>2
  <2>2. \/ phase = "events" /\ phase' = "stages"
        \/ phase = "stages" /\ changes = <<>> /\ phase' = "windows"
        \/ phase = "windows" /\ phase' = "clicks"
        \/ phase = "clicks" /\ phase' = "begin"
        \/ phase = "draw" /\ phase' = "end"
    BY <1>5 DEF EndEvents, StagesDone, UpdateWindows, NoClick, Drawn
  <2>3. QED
    BY <1>1, <1>3, <2>1, <2>2 DEF Alive, OnStage
<1>6. CASE UpdateStages
  <2>1. /\ phase = "stages" /\ changes \in {<<"title">>, <<"world">>}
        /\ changes' = <<>> /\ UNCHANGED <<world, visits>>
        /\ (changes = <<"title">> => stage' = "title")
        /\ (changes = <<"world">> => stage' = "world")
        /\ (OnStage => phase' = "joining") /\ (~OnStage => phase' = phase)
    BY <1>1, <1>6, ChangesAre DEF UpdateStages
  <2>2. QED
    BY <1>1, <1>3, <2>1 DEF Alive, OnStage
<1>7. CASE Destroyed
  <2>1. /\ UNCHANGED <<changes, stage>> /\ phase \in {"joining", "closing"} /\ ~Alive'
        /\ phase' = IF phase = "closing" THEN "over" ELSE "stages"
    BY <1>7 DEF Destroyed, windowVars, NoRenderer, Alive
  <2>2. QED
    BY <1>1, <1>3, <2>1 DEF OnStage
<1>8. CASE BeginInvalid \/ Begin
  <2>1. phase = "begin" /\ phase' = "draw" /\ UNCHANGED <<stage, visits>>
    BY <1>8 DEF BeginInvalid, Begin
  <2>2. /\ world'.visit = world.visit
        /\ changes' = changes \/ (OnStage /\ changes' = Append(changes, "title"))
    <3>1. CASE BeginInvalid
      BY <3>1 DEF BeginInvalid
    <3>2. CASE Begin
      BY <1>0, <3>2, BeginIs
    <3>3. QED
      BY <1>8, <3>1, <3>2
  <2>3. OnStage => changes = <<>>
    BY <1>1, <2>1
  <2>4. changes' = changes \/ (OnStage /\ changes = <<>> /\ changes' = <<"title">>)
    BY <2>2, <2>3, ChangesAre
  <2>5. QED
    BY <1>1, <1>3, <2>1, <2>2, <2>4 DEF Alive, OnStage
<1>9. CASE EndFrame
  <2>1. /\ phase = "end" /\ UNCHANGED <<changes, stage, visits>>
        /\ phase' \in {"events", "closing", "over"}
        /\ (phase' = "closing" => Alive) /\ (phase' = "over" => ~Alive)
    BY <1>9 DEF EndFrame
  <2>2. world'.visit = world.visit
    BY <1>0, <1>9, EndFrameIs DEF ScreensBase, LoopOK
  <2>3. QED
    BY <1>1, <1>3, <2>1, <2>2 DEF Alive, OnStage
<1>10. CASE Take \/ Finish \/ LoseSource \/ CloseWindow \/ Resize \/ MoveKey
  <2>1. UNCHANGED <<changes, stage, phase, visits>>
    BY <1>10 DEF Take, Finish, LoseSource, CloseWindow, Resize, MoveKey, Input, windowVars
  <2>2. world'.visit = world.visit
    BY <1>0, <1>10, LoseSourceIs, CloseWindowIs, MoveKeyIs
    DEF Take, Finish, Resize, Alike
  <2>3. QED
    BY <1>4, <2>1, <2>2
<1>11. CASE MenuMoves
  <2>1. OnStage /\ phase # "over"
    BY <1>11 DEF MenuMoves, Escape, OpenMenu, ToggleBar, ReturnToGame, PauseClick, Click, Input
  <2>2. world \in Renderers
    BY <1>0, <2>1, OnStageIs
  <2>3. /\ UNCHANGED <<changes, stage, visits>> /\ world'.visit = world.visit
        /\ phase' = phase \/ (phase = "clicks" /\ phase' = "begin")
    BY <1>11, <2>2, MenuMoveIs DEF SameWorld
  <2>4. QED
    BY <1>1, <1>3, <2>3 DEF Alive, OnStage
<1>12. CASE Preferences \/ ChangePrefs \/ ClosePrefs
  <2>1. /\ UNCHANGED <<changes, stage, visits>> /\ phase = "clicks" /\ phase' = "begin"
    BY <1>12 DEF Preferences, PauseClick, ChangePrefs, ClosePrefs, Click, windowVars
  <2>2. world'.visit = world.visit
    BY <1>0, <1>12, ChangePrefsIs DEF Preferences, ClosePrefs
  <2>3. QED
    BY <1>1, <1>3, <2>1, <2>2 DEF Alive, OnStage
<1>13. CASE \E quit \in BOOLEAN : LeaveWorld(quit)
  <2>1. PICK quit \in BOOLEAN : LeaveWorld(quit)
    BY <1>13
  <2>2. /\ UNCHANGED <<changes, stage, visits>> /\ phase = "clicks" /\ phase' = "begin"
    BY <2>1 DEF LeaveWorld, PauseClick, Click, windowVars
  <2>3. world'.visit = world.visit
    BY <1>0, <2>1, LeaveWorldIs
  <2>4. QED
    BY <1>1, <1>3, <2>2, <2>3 DEF Alive, OnStage
<1>14. CASE \E multi \in BOOLEAN : OpenWorld(multi)
  <2>1. PICK multi \in BOOLEAN : OpenWorld(multi)
    BY <1>14
  <2>2. /\ phase = "clicks" /\ phase' = "begin" /\ ~OnStage /\ ~Alive
        /\ changes' = Append(changes, "world") /\ stage' = stage
    BY <2>1 DEF OpenWorld, OnStage
  <2>3. changes' = <<"world">>
    BY <1>1, <2>2, ChangesAre
  <2>4. world'.visit = visits' /\ visits' \in 1..Visits
    BY <1>0, <2>1, OpenWorldIs DEF ScreensBase, LoopOK
  <2>5. Alive'
    BY <2>4, ScreensNumbers DEF Alive
  <2>6. QED
    BY <1>1, <1>3, <2>2, <2>3, <2>4, <2>5 DEF OnStage
<1>15. QED
  BY <1>5, <1>6, <1>7, <1>8, <1>9, <1>10, <1>11, <1>12, <1>13, <1>14, ScreensNextIs

LEMMA BaseKept ==
  ASSUME ScreensBase, ScreensNext
  PROVE  ScreensBase'
BY LoopKept, RendererKept, GuiKept, PicturesKept, StagesKept DEF ScreensBase

-----------------------------------------------------------------------------
(* The worker and its pictures.                                             *)

Leaving == phase \in {"joining", "closing"}

(* What becomes of the queue in a step. *)
LEMMA QueueMoves ==
  ASSUME ScreensBase, ScreensNext
  PROVE  \/ /\ UNCHANGED <<workerRun, pics, doing, pictures>> /\ (Leaving' <=> Leaving)
            /\ world'.visit = world.visit /\ ~(\E quit \in BOOLEAN : LeaveWorld(quit))
         \/ /\ UNCHANGED <<workerRun, doing, pictures>> /\ ~Leaving /\ ~Leaving'
            /\ world \in Renderers /\ world'.visit = world.visit
            /\ \E p \in Save : p.visit = world.visit /\ pics' = Append(pics, p)
         \/ /\ UNCHANGED <<doing, pictures>> /\ Alive /\ ~Leaving /\ Leaving'
            /\ world'.visit = world.visit
            /\ workerRun' = FALSE /\ pics' = Append(pics, Poke)
         \/ Destroyed \/ Take \/ Finish
         \/ \E multi \in BOOLEAN : OpenWorld(multi)
<1>0. /\ world \in Renderers \cup {NoRenderer} /\ visits \in 0..Visits /\ StagesAgree
      /\ running \in BOOLEAN /\ saved \in BOOLEAN /\ viewport \in Sizes
  BY DEF ScreensBase, RendererOK, LoopOK
<1> DEFINE Steady == UNCHANGED <<workerRun, pics, doing, pictures>>
<1>a. CASE Steady /\ world'.visit = world.visit /\ (Leaving' <=> Leaving)
           /\ ~(\E quit \in BOOLEAN : LeaveWorld(quit))
  BY <1>a
<1>1. CASE EndEvents \/ StagesDone \/ UpdateWindows \/ NoClick \/ BeginInvalid
  <2>1. Steady /\ world' = world /\ (Leaving' <=> Leaving)
    BY <1>1 DEF EndEvents, StagesDone, UpdateWindows, NoClick, BeginInvalid, picVars, ghosts,
       Leaving
  <2>2. ~(\E quit \in BOOLEAN : LeaveWorld(quit))
    <3>1. ASSUME NEW quit \in BOOLEAN, LeaveWorld(quit) PROVE FALSE
      BY <2>1, <3>1, <1>0, LeaveWorldIs
    <3>2. QED
      BY <3>1
  <2>3. QED
    BY <2>1, <2>2
<1>2. CASE UpdateStages
  <2>1. CASE OnStage
    <3>1. /\ UNCHANGED <<doing, world, pictures>> /\ ~Leaving /\ Leaving'
          /\ workerRun' = FALSE /\ pics' = Append(pics, Poke)
      BY <1>2, <2>1 DEF UpdateStages, Leaving
    <3>2. phase # "over"
      BY <1>2 DEF UpdateStages
    <3>3. Alive
      BY <1>0, <2>1, <3>2, OnStageIs
    <3>4. QED
      BY <3>1, <3>3
  <2>2. CASE ~OnStage
    <3>1. Steady /\ world' = world /\ (Leaving' <=> Leaving)
      BY <1>2, <2>2 DEF UpdateStages, Leaving
    <3>2. ~(\E quit \in BOOLEAN : LeaveWorld(quit))
      BY <2>2 DEF LeaveWorld, PauseClick
    <3>3. QED
      BY <3>1, <3>2
  <2>3. QED
    BY <2>1, <2>2
<1>3. CASE Begin
  <2>1. Steady /\ ~Leaving /\ ~Leaving'
    BY <1>3 DEF Begin, picVars, ghosts, Leaving
  <2>2. world'.visit = world.visit
    BY <1>0, <1>3, BeginIs
  <2>3. ~(\E quit \in BOOLEAN : LeaveWorld(quit))
    BY <1>3 DEF Begin, LeaveWorld, PauseClick, Click
  <2>4. QED
    BY <2>1, <2>2, <2>3
<1>4. CASE Drawn
  <2>1. UNCHANGED <<workerRun, doing, pictures>> /\ ~Leaving /\ ~Leaving'
    BY <1>4 DEF Drawn, ghosts, Leaving
  <2>2. ~(\E quit \in BOOLEAN : LeaveWorld(quit))
    BY <1>4 DEF Drawn, LeaveWorld, PauseClick, Click
  <2>3. \/ pics' = pics /\ world'.visit = world.visit
        \/ /\ world \in Renderers /\ world'.visit = world.visit
           /\ \E p \in Save : p.visit = world.visit /\ pics' = Append(pics, p)
    BY <1>0, <1>4, DrawnIs
  <2>4. QED
    BY <2>1, <2>2, <2>3
<1>5. CASE EndFrame
  <2>1. UNCHANGED <<doing, pictures>> /\ ~Leaving
        /\ \/ phase' \in {"events", "over"} /\ UNCHANGED <<workerRun, pics>>
           \/ /\ phase' = "closing" /\ workerRun' = FALSE /\ pics' = Append(pics, Poke) /\ Alive
    BY <1>5 DEF EndFrame, Leaving
  <2>2. ~(\E quit \in BOOLEAN : LeaveWorld(quit))
    BY <1>5 DEF EndFrame, LeaveWorld, PauseClick, Click
  <2>3. world'.visit = world.visit
    BY <1>0, <1>5, EndFrameIs
  <2>4. QED
    BY <2>1, <2>2, <2>3 DEF Leaving
<1>6. CASE CloseWindow \/ Resize \/ MoveKey \/ LoseSource
  <2>1. Steady /\ (Leaving' <=> Leaving)
    BY <1>6 DEF CloseWindow, Resize, MoveKey, LoseSource, Input, picVars, ghosts, Leaving
  <2>2. world'.visit = world.visit
    BY <1>0, <1>6, LoseSourceIs, CloseWindowIs, MoveKeyIs DEF Resize, Alike
  <2>3. ~(\E quit \in BOOLEAN : LeaveWorld(quit))
    <3>1. ASSUME NEW quit \in BOOLEAN, LeaveWorld(quit) PROVE FALSE
      <4>1. phase = "clicks" /\ phase' = "begin"
        BY <3>1 DEF LeaveWorld, PauseClick, Click
      <4>2. QED
        BY <1>6, <4>1 DEF CloseWindow, Resize, MoveKey, LoseSource, Input
    <3>2. QED
      BY <3>1
  <2>4. QED
    BY <2>1, <2>2, <2>3
<1>7. CASE MenuMoves
  <2>1. OnStage /\ phase # "over"
    BY <1>7 DEF MenuMoves, Escape, OpenMenu, ToggleBar, ReturnToGame, PauseClick, Click, Input
  <2>2. world \in Renderers
    BY <1>0, <2>1, OnStageIs
  <2>3. /\ Steady /\ world'.visit = world.visit /\ ~Leaving /\ ~Leaving'
        /\ world' \in Renderers /\ world'.exit = world.exit
    BY <1>7, <2>2, MenuMoveIs DEF SameWorld, picVars, ghosts, Leaving
  <2>4. ~(\E quit \in BOOLEAN : LeaveWorld(quit))
    <3>1. ASSUME NEW quit \in BOOLEAN, LeaveWorld(quit) PROVE FALSE
      BY <1>0, <2>3, <3>1, LeaveWorldIs
    <3>2. QED
      BY <3>1
  <2>5. QED
    BY <2>3, <2>4
<1>8. CASE Preferences \/ ChangePrefs \/ ClosePrefs
  <2>1. Steady /\ ~Leaving /\ ~Leaving'
    BY <1>8 DEF Preferences, PauseClick, ChangePrefs, ClosePrefs, Click, picVars, ghosts, Leaving
  <2>2. world'.visit = world.visit /\ world'.exit = world.exit
    BY <1>0, <1>8, ChangePrefsIs DEF Preferences, ClosePrefs
  <2>3. ~(\E quit \in BOOLEAN : LeaveWorld(quit))
    <3>1. ASSUME NEW quit \in BOOLEAN, LeaveWorld(quit) PROVE FALSE
      BY <1>0, <2>2, <3>1, LeaveWorldIs
    <3>2. QED
      BY <3>1
  <2>4. QED
    BY <2>1, <2>2, <2>3
<1>9. CASE \E quit \in BOOLEAN : LeaveWorld(quit)
  <2>1. PICK quit \in BOOLEAN : LeaveWorld(quit)
    BY <1>9
  <2>2. world \in Renderers /\ world'.visit = world.visit
    BY <1>0, <2>1, LeaveWorldIs
  <2>3. UNCHANGED <<workerRun, doing, pictures>> /\ ~Leaving /\ ~Leaving'
    BY <2>1 DEF LeaveWorld, PauseClick, Click, ghosts, Leaving
  <2> DEFINE p == [visit |-> world.visit, data |-> world.shot, size |-> viewport]
  <2>4. p \in Save /\ p.visit = world.visit
    BY <1>0, <2>2, RendererIs DEF Save
  <2>5. pics' = Append(pics, p)
    BY <2>1 DEF LeaveWorld, Queued
  <2> HIDE DEF p
  <2>6. QED
    BY <2>2, <2>3, <2>4, <2>5
<1>10. QED
  BY <1>1, <1>2, <1>3, <1>4, <1>5, <1>6, <1>7, <1>8, <1>9, ScreensNextIs

LEMMA SaverKept ==
  ASSUME ScreensBase, WorkerAgrees, ScreensNext
  PROVE  WorkerAgrees'
<1> DEFINE P == Save \cup {Poke}
           Agree(a, l, r, d, q, v) ==
             /\ a /\ ~l => r /\ d \notin {Poke, Ended} /\ \A i \in DOMAIN q : q[i] # Poke
             /\ l => ~r
             /\ ~a => d = Ended
             /\ d \in Save => d.visit = v
             /\ \A i \in DOMAIN q : q[i] # Poke => q[i].visit = v
<1>0. /\ world \in Renderers \cup {NoRenderer} /\ visits \in 0..Visits /\ StagesAgree
      /\ pics \in Seq(P) /\ doing \in P \cup {Waiting, Ended} /\ workerRun \in BOOLEAN
      /\ Save' = Save
  BY DEF ScreensBase, RendererOK, PicturesOK, Save
<1>1. Agree(Alive, Leaving, workerRun, doing, pics, world.visit)
  BY DEF WorkerAgrees, Leaving
<1>2. SUFFICES Agree(Alive', Leaving', workerRun', doing', pics', world'.visit)
  BY <1>0 DEF WorkerAgrees, Leaving
<1>3. \A p \in P : /\ DOMAIN Append(pics, p) = 1..(Len(pics) + 1) /\ DOMAIN pics = 1..Len(pics)
                   /\ Append(pics, p)[Len(pics) + 1] = p
                   /\ \A i \in DOMAIN pics : Append(pics, p)[i] = pics[i]
                   /\ \A i \in DOMAIN Append(pics, p) : i \in DOMAIN pics \/ i = Len(pics) + 1
  BY <1>0
<1>4. CASE /\ UNCHANGED <<workerRun, pics, doing, pictures>> /\ (Leaving' <=> Leaving)
           /\ world'.visit = world.visit
  BY <1>1, <1>4 DEF Alive
<1>5. CASE /\ UNCHANGED <<workerRun, doing, pictures>> /\ ~Leaving /\ ~Leaving'
           /\ world \in Renderers /\ world'.visit = world.visit
           /\ \E p \in Save : p.visit = world.visit /\ pics' = Append(pics, p)
  <2>1. PICK p \in Save : p.visit = world.visit /\ pics' = Append(pics, p)
    BY <1>5
  <2>2. p \in P /\ p # Poke
    BY Items
  <2>3. \A i \in DOMAIN pics' :
          (i \in DOMAIN pics /\ pics'[i] = pics[i]) \/ pics'[i] = p
    BY <1>3, <2>1, <2>2
  <2>4. QED
    BY <1>1, <1>5, <2>1, <2>2, <2>3 DEF Alive
<1>6. CASE /\ doing' = doing /\ Alive /\ ~Leaving /\ Leaving'
           /\ world'.visit = world.visit
           /\ workerRun' = FALSE /\ pics' = Append(pics, Poke)
  <2>1. \A i \in DOMAIN pics' :
          (i \in DOMAIN pics /\ pics'[i] = pics[i]) \/ pics'[i] = Poke
    BY <1>3, <1>6
  <2>2. QED
    BY <1>1, <1>6, <2>1 DEF Alive
<1>7. CASE Destroyed
  <2>1. doing' = Ended /\ pics' = <<>> /\ ~Alive' /\ ~Leaving'
    BY <1>7 DEF Destroyed, NoRenderer, Alive, Leaving
  <2>2. QED
    BY <2>1, Items
<1>8. CASE Take
  <2>1. /\ doing = Waiting /\ pics # <<>> /\ doing' = Head(pics) /\ pics' = Tail(pics)
        /\ UNCHANGED <<world, workerRun>> /\ (Leaving' <=> Leaving)
    BY <1>8 DEF Take, Leaving
  <2>2. /\ Head(pics) = pics[1] /\ 1 \in DOMAIN pics /\ Head(pics) \in P
        /\ \A i \in DOMAIN Tail(pics) : i + 1 \in DOMAIN pics /\ Tail(pics)[i] = pics[i + 1]
    BY <1>0, <2>1
  <2>3. Alive
    BY <1>1, <2>1, Items
  <2>4. \A i \in DOMAIN pics' : \E j \in DOMAIN pics : pics'[i] = pics[j]
    BY <2>1, <2>2
  <2>5. doing' = pics[1] /\ 1 \in DOMAIN pics /\ doing' \in P
    BY <2>1, <2>2
  <2>6. doing' # Ended /\ (doing' # Poke <=> doing' \in Save)
    BY <2>5, Items
  <2>7. Alive' = Alive /\ world'.visit = world.visit
    BY <2>1 DEF Alive
  <2>8. QED
    BY <1>1, <2>1, <2>3, <2>4, <2>5, <2>6, <2>7
<1>9. CASE Finish
  <2>1. /\ doing \notin {Waiting, Ended} /\ doing' = IF workerRun THEN Waiting ELSE Ended
        /\ UNCHANGED <<world, workerRun, pics>> /\ (Leaving' <=> Leaving)
    BY <1>9 DEF Finish, Leaving
  <2>2. Alive /\ Alive'
    BY <1>1, <2>1 DEF Alive
  <2>3. QED
    BY <1>1, <2>1, <2>2, Items
<1>10. CASE \E multi \in BOOLEAN : OpenWorld(multi)
  <2>1. PICK multi \in BOOLEAN : OpenWorld(multi)
    BY <1>10
  <2>2. /\ workerRun' = TRUE /\ pics' = <<>> /\ doing' = Waiting /\ ~Leaving'
    BY <2>1 DEF OpenWorld, Leaving
  <2>3. world'.visit = visits' /\ visits' \in 1..Visits
    BY <1>0, <2>1, OpenWorldIs DEF ScreensBase, LoopOK
  <2>4. Alive'
    BY <2>3, ScreensNumbers DEF Alive
  <2>5. QED
    BY <2>2, <2>4, Items
<1>11. QED
  BY <1>4, <1>5, <1>6, <1>7, <1>8, <1>9, <1>10, QueueMoves

LEMMA ExcusedGrows ==
  ASSUME ScreensNext
  PROVE  excused \subseteq excused' /\ pictures \subseteq pictures'
<1>1. CASE Looks
  BY <1>1 DEF Looks, EndEvents, UpdateStages, StagesDone, UpdateWindows, NoClick, BeginInvalid,
     Take, Finish, Resize, Input, Preferences, ClosePrefs, ghosts
<1>2. CASE MenuMoves
  BY <1>2 DEF MenuMoves, Escape, OpenMenu, ToggleBar, ReturnToGame, Input, ghosts
<1>3. CASE Destroyed \/ Begin \/ Drawn \/ EndFrame
  BY <1>3 DEF Destroyed, Begin, Drawn, EndFrame, ghosts
<1>4. CASE CloseWindow \/ MoveKey \/ LoseSource \/ ChangePrefs
  BY <1>4 DEF CloseWindow, MoveKey, LoseSource, ChangePrefs, Input, ghosts
<1>5. CASE \E quit \in BOOLEAN : LeaveWorld(quit)
  BY <1>5 DEF LeaveWorld, ghosts
<1>6. CASE \E multi \in BOOLEAN : OpenWorld(multi)
  BY <1>6 DEF OpenWorld, ghosts
<1>7. QED
  BY <1>1, <1>2, <1>3, <1>4, <1>5, <1>6, ScreensStepIs

(* A picture appended for the renderer is one that will be saved.           *)
LEMMA AppendedIsPictured ==
  ASSUME ScreensBase, WorkerAgrees, Alive, ~Leaving, doing' = doing,
         NEW p \in Save, pics' = Append(pics, p)
  PROVE  Pictured'
<1> DEFINE P == Save \cup {Poke}
<1>1. /\ pics \in Seq(P) /\ doing \in P \cup {Waiting, Ended} /\ Save' = Save
      /\ doing \notin {Poke, Ended} /\ \A i \in DOMAIN pics : pics[i] # Poke
  BY DEF ScreensBase, PicturesOK, WorkerAgrees, Leaving, Save
<1>2. doing \in Save \/ doing = Waiting
  BY <1>1
<1>3. p # Poke
  BY Items
<1>4. /\ pics' # <<>>
      /\ Head(pics') = IF pics = <<>> THEN p ELSE pics[1]
      /\ (pics # <<>> => 1 \in DOMAIN pics)
  BY <1>1
<1>5. Head(pics') # Poke
  BY <1>1, <1>3, <1>4
<1>6. QED
  BY <1>1, <1>2, <1>4, <1>5 DEF Pictured

(* What is saved, or about to be, stays so while the renderer is there.     *)
LEMMA PicturedKept ==
  ASSUME ScreensBase, WorkerAgrees, ScreensNext, Alive, Pictured, ~Destroyed
  PROVE  Pictured' /\ world'.visit = world.visit
<1> DEFINE P == Save \cup {Poke}
<1>0. /\ pics \in Seq(P) /\ doing \in P \cup {Waiting, Ended} /\ Save' = Save
      /\ world \in Renderers \cup {NoRenderer}
      /\ pictures \subseteq pictures'
  BY ExcusedGrows DEF ScreensBase, PicturesOK, Save, RendererOK
<1>1. CASE UNCHANGED <<workerRun, pics, doing, pictures>> /\ world'.visit = world.visit
  BY <1>0, <1>1 DEF Pictured
<1>2. CASE /\ UNCHANGED <<workerRun, doing, pictures>> /\ ~Leaving /\ ~Leaving'
           /\ world \in Renderers /\ world'.visit = world.visit
           /\ \E p \in Save : p.visit = world.visit /\ pics' = Append(pics, p)
  <2>1. PICK p \in Save : p.visit = world.visit /\ pics' = Append(pics, p)
    BY <1>2
  <2>2. QED
    BY <1>2, <2>1, AppendedIsPictured
<1>3. CASE /\ UNCHANGED <<doing, pictures>> /\ Alive /\ ~Leaving /\ Leaving'
           /\ world'.visit = world.visit
           /\ workerRun' = FALSE /\ pics' = Append(pics, Poke)
  <2>1. pics # <<>> => pics' # <<>> /\ Head(pics') = Head(pics)
    BY <1>0, <1>3
  <2>2. QED
    BY <1>0, <1>3, <2>1 DEF Pictured
<1>4. CASE Take
  <2>1. /\ doing = Waiting /\ pics # <<>> /\ doing' = Head(pics)
        /\ UNCHANGED <<world, pictures>>
    BY <1>4 DEF Take, ghosts
  <2>2. Head(pics) \in P /\ Waiting \notin Save
    BY <1>0, <2>1, Items
  <2>3. QED
    BY <1>0, <2>1, <2>2 DEF Pictured
<1>5. CASE Finish
  <2>1. /\ doing \notin {Waiting, Ended} /\ UNCHANGED world
        /\ pictures' = IF doing = Poke THEN pictures ELSE pictures \cup {doing.visit}
    BY <1>5 DEF Finish
  <2>2. doing \in Save => doing # Poke /\ doing.visit = world.visit
    BY Items DEF WorkerAgrees
  <2>3. world.visit \in pictures'
    BY <2>1, <2>2 DEF Pictured
  <2>4. QED
    BY <2>1, <2>3 DEF Pictured
<1>6. ~(\E multi \in BOOLEAN : OpenWorld(multi))
  BY DEF OpenWorld
<1>7. QED
  BY <1>1, <1>2, <1>3, <1>4, <1>5, <1>6, QueueMoves

LEMMA MayLeaveKept ==
  ASSUME ScreensBase, WorkerAgrees, ScreensNext, Alive, MayLeave, ~Destroyed
  PROVE  MayLeave'
<1>1. CASE Pictured
  BY <1>1, PicturedKept DEF MayLeave
<1>2. CASE world.visit \in excused
  <2>1. world'.visit = world.visit
    <3>1. ~(\E multi \in BOOLEAN : OpenWorld(multi))
      BY DEF OpenWorld
    <3>2. QED
      BY <3>1, RendererMoves
  <2>2. QED
    BY <1>2, <2>1, ExcusedGrows DEF MayLeave
<1>3. QED
  BY <1>1, <1>2 DEF MayLeave

(* Each world that is gone has its picture, or is excused. *)
LEMMA LeavingSavesKept ==
  ASSUME ScreensBase, WorkerAgrees, PictureComes, LeavingSaves, ScreensNext
  PROVE  LeavingSaves'
<1>0. world \in Renderers \cup {NoRenderer} /\ visits \in 0..Visits
  BY DEF ScreensBase, RendererOK
<1>1. pictures \cup excused \subseteq pictures' \cup excused'
  BY ExcusedGrows
<1>2. CASE world'.visit = world.visit /\ visits' = visits
  BY <1>1, <1>2 DEF LeavingSaves
<1>3. CASE Destroyed
  <2>1. /\ phase \in {"joining", "closing"} /\ doing = Ended /\ visits' = visits
    BY <1>3, RendererMoves DEF Destroyed, OpenWorld
  <2>2. Alive
    BY <2>1 DEF ScreensBase, StagesAgree
  <2>3. MayLeave
    BY <2>1, <2>2 DEF PictureComes
  <2>4. world.visit \in pictures \cup excused
    BY <2>1, <2>3, Items DEF MayLeave, Pictured
  <2>5. \A v \in 1..visits : v \in pictures \cup excused
    BY <2>4 DEF LeavingSaves
  <2>6. QED
    BY <1>1, <2>1, <2>5 DEF LeavingSaves
<1>4. CASE \E multi \in BOOLEAN : OpenWorld(multi)
  <2>1. PICK multi \in BOOLEAN : OpenWorld(multi)
    BY <1>4
  <2>2. ~Alive /\ visits' = visits + 1
    BY <2>1 DEF OpenWorld
  <2>3. world'.visit = visits'
    BY <1>0, <2>1, OpenWorldIs DEF ScreensBase, LoopOK
  <2>4. \A v \in 1..visits : v \in pictures \cup excused
    BY <1>0, <2>2 DEF LeavingSaves, Alive
  <2>5. QED
    BY <1>0, <1>1, <2>2, <2>3, <2>4 DEF LeavingSaves
<1>5. QED
  BY <1>2, <1>3, <1>4, RendererMoves

(* How a world comes to be left ... *)
LEMMA TurnsToLeave ==
  ASSUME ScreensBase, ScreensNext, Alive', changes' = <<"title">> \/ Leaving'
  PROVE  \/ Alive /\ (changes = <<"title">> \/ Leaving)
         \/ BeginInvalid
         \/ Begin /\ OnStage /\ world.exit # 0
         \/ EndFrame /\ Alive /\ ~running
<1>0. /\ StagesAgree /\ LoopOK /\ world \in Renderers \cup {NoRenderer}
  BY DEF ScreensBase, RendererOK
<1>1. <<"title">> # <<>> /\ <<"world">> # <<>> /\ <<"title">> # <<"world">>
  <2>1. Len(<<"title">>) = 1 /\ Len(<<>>) = 0 /\ Len(<<"world">>) = 1
        /\ <<"title">>[1] = "title" /\ <<"world">>[1] = "world"
    OBVIOUS
  <2>2. QED
    BY <2>1
<1>2. CASE Destroyed
  <2>1. Alive /\ changes' = changes /\ (Leaving \/ Leaving')
    BY <1>0, <1>2 DEF Destroyed, windowVars, StagesAgree, Leaving
  <2>2. Leaving
    BY <1>2 DEF Destroyed, Leaving
  <2>3. QED
    BY <2>1, <2>2
<1>3. changes = <<"title">> \/ Leaving => Alive \/ phase = "over"
  BY <1>0 DEF StagesAgree, Leaving
<1>4. CASE phase = "over"
  <2>1. Take \/ Finish \/ LoseSource
    BY <1>4, ScreensNextIs DEF EndEvents, UpdateStages, StagesDone, Destroyed, UpdateWindows,
       NoClick, BeginInvalid, Begin, Drawn, EndFrame, CloseWindow, Resize, MoveKey, MenuMoves,
       Escape, OpenMenu, ToggleBar, ReturnToGame, Preferences, ChangePrefs, ClosePrefs,
       LeaveWorld, OpenWorld, PauseClick, Click, Input
  <2>2. ~Alive /\ ~LoseSource
    BY <1>0, <1>4 DEF StagesAgree, LoseSource
  <2>3. world' = world
    BY <2>1, <2>2 DEF Take, Finish
  <2>4. QED
    BY <2>2, <2>3 DEF Alive
<1>5. CASE changes = <<"title">> \/ Leaving
  BY <1>3, <1>4, <1>5
<1>6. CASE phase # "over" /\ ~(changes = <<"title">> \/ Leaving)
  <2>1. CASE UpdateStages
    <3>1. OnStage => changes = <<>>
      BY <1>0, <1>6 DEF StagesAgree
    <3>2. changes' = <<>> /\ ~Leaving'
      BY <1>6, <2>1, <3>1, ChangesAre DEF UpdateStages, Leaving
    <3>3. QED
      BY <1>1, <3>2
  <2>2. CASE Begin
    <3>1. changes' = changes \/ (OnStage /\ world.exit # 0)
      BY <1>0, <2>2, BeginIs DEF LoopOK
    <3>2. ~Leaving'
      BY <2>2 DEF Begin, Leaving
    <3>3. QED
      BY <1>6, <2>2, <3>1, <3>2
  <2>3. CASE EndFrame
    <3>1. changes' = changes /\ (Leaving' => Alive /\ ~running)
      BY <2>3 DEF EndFrame, Leaving
    <3>2. QED
      BY <1>6, <2>3, <3>1
  <2>4. CASE \E multi \in BOOLEAN : OpenWorld(multi)
    <3>1. changes' = Append(changes, "world") /\ ~Leaving' /\ ~OnStage /\ ~Alive
      BY <2>4 DEF OpenWorld, Leaving, OnStage
    <3>2. changes = <<>>
      BY <1>0, <1>6, <3>1 DEF StagesAgree
    <3>3. QED
      BY <1>1, <3>1, <3>2, ChangesAre
  <2>5. CASE EndEvents \/ StagesDone \/ UpdateWindows \/ NoClick \/ Drawn
    <3>1. changes' = changes /\ ~Leaving'
      BY <2>5 DEF EndEvents, StagesDone, UpdateWindows, NoClick, Drawn, windowVars, Leaving
    <3>2. QED
      BY <1>6, <3>1
  <2>6. CASE Take \/ Finish \/ CloseWindow \/ Resize \/ MoveKey \/ LoseSource
    <3>1. changes' = changes /\ (Leaving' <=> Leaving)
      BY <2>6 DEF Take, Finish, CloseWindow, Resize, MoveKey, LoseSource, Input, windowVars, Leaving
    <3>2. QED
      BY <1>6, <3>1
  <2>7. CASE MenuMoves \/ Preferences \/ ChangePrefs \/ ClosePrefs
    <3>1. changes' = changes /\ (Leaving' <=> Leaving)
      BY <2>7 DEF MenuMoves, Escape, OpenMenu, ToggleBar, ReturnToGame, Preferences, ChangePrefs,
         ClosePrefs, PauseClick, Click, Input, windowVars, Leaving
    <3>2. QED
      BY <1>6, <3>1
  <2>8. CASE \E quit \in BOOLEAN : LeaveWorld(quit)
    <3>1. changes' = changes /\ ~Leaving'
      BY <2>8 DEF LeaveWorld, PauseClick, Click, windowVars, Leaving
    <3>2. QED
      BY <1>6, <3>1
  <2>9. QED
    BY <1>2, <2>1, <2>2, <2>3, <2>4, <2>5, <2>6, <2>7, <2>8, ScreensNextIs
<1>7. QED
  BY <1>4, <1>5, <1>6

(* ... and how the loop comes to end with a world on stage.                 *)
Early == phase \in {"events", "stages", "windows", "clicks", "begin", "draw"}
Asked == world.shoot /\ world.isQuitting /\ Early

LEMMA TurnsToEnd ==
  ASSUME ScreensBase, ScreensNext, Alive', OnStage', ~running',
         MayLeave \/ Asked \/ running \/ ~OnStage
  PROVE  \/ Alive /\ MayLeave /\ ~Destroyed
         \/ Asked'
         \/ UpdateStages /\ Alive /\ ~running /\ Head(changes) = "world"
         \/ Begin /\ OnStage /\ world.exit # 0
         \/ Drawn /\ Alive /\ OnStage /\ world.shoot /\ world.isQuitting
<1>0. /\ StagesAgree /\ LoopOK /\ world \in Renderers \cup {NoRenderer} /\ saved \in BOOLEAN
      /\ running \in BOOLEAN /\ viewport \in Sizes
  BY DEF ScreensBase, RendererOK, LoopOK
<1>1. ~Destroyed
  BY DEF Destroyed, NoRenderer, Alive
<1>2. CASE \E multi \in BOOLEAN : OpenWorld(multi)
  BY <1>2 DEF OpenWorld, OnStage
<1>3. CASE UpdateStages
  <2>1. stage' = Head(changes) /\ running' = running /\ world' = world
    BY <1>3 DEF UpdateStages
  <2>2. QED
    BY <1>3, <2>1 DEF OnStage, Alive
<1>4. CASE Begin
  <2>1. OnStage /\ phase' = "draw" /\ phase = "begin"
    BY <1>4 DEF Begin, OnStage
  <2>2. CASE world.exit # 0
    BY <1>4, <2>1, <2>2
  <2>3. CASE world.exit = 0
    <3>1. /\ running' = running /\ world'.shoot = world.shoot
          /\ world'.isQuitting = world.isQuitting /\ world \in Renderers
      BY <1>0, <1>4, <2>1, <2>3, BeginIs
    <3>2. MayLeave \/ Asked
      BY <2>1, <3>1
    <3>3. Asked => Asked'
      BY <2>1, <3>1 DEF Asked, Early
    <3>4. Alive
      BY <1>0, <3>1, AliveIs
    <3>5. QED
      BY <1>1, <3>2, <3>3, <3>4
  <2>4. QED
    BY <2>2, <2>3
<1>5. CASE CloseWindow
  <2>1. OnStage /\ phase' = "events"
    BY <1>5 DEF CloseWindow, Input, OnStage
  <2>2. world'.shoot = TRUE /\ world'.isQuitting = TRUE
    BY <1>0, <1>5, <2>1, CloseWindowIs
  <2>3. QED
    BY <2>1, <2>2 DEF Asked, Early
<1>6. CASE MenuMoves
  <2>1. OnStage /\ phase \in {"events", "clicks"} /\ phase' \in {"events", "begin"}
        /\ running' = running
    BY <1>6 DEF MenuMoves, Escape, OpenMenu, ToggleBar, ReturnToGame, PauseClick, Click, Input
  <2>2. world \in Renderers /\ Alive
    BY <1>0, <2>1, OnStageIs
  <2>3. (world.shoot => world'.shoot) /\ world'.isQuitting = world.isQuitting
    BY <1>6, <2>2, MenuMoveIs DEF SameWorld
  <2>4. QED
    BY <1>1, <2>1, <2>2, <2>3 DEF Asked, Early
<1>7. CASE Drawn
  <2>1. OnStage /\ phase = "draw" /\ running' = running
    BY <1>7 DEF Drawn, OnStage, windowVars
  <2>2. Alive
    BY <1>0, <2>1, OnStageIs
  <2>3. MayLeave \/ Asked
    BY <2>1
  <2>4. QED
    BY <1>1, <1>7, <2>1, <2>2, <2>3 DEF Asked
<1>8. CASE EndFrame
  <2>1. OnStage /\ phase = "end" /\ running' = running
    BY <1>8 DEF EndFrame, OnStage
  <2>2. Alive
    BY <1>0, <2>1, OnStageIs
  <2>3. ~Asked
    BY <2>1 DEF Asked, Early
  <2>4. QED
    BY <1>1, <2>1, <2>2, <2>3
<1> DEFINE Same == /\ OnStage /\ running' = running /\ phase # "over" /\ (Early => Early')
                   /\ world'.shoot = world.shoot /\ world'.isQuitting = world.isQuitting
<1>9. CASE Same
  <2>1. Alive
    BY <1>0, <1>9, OnStageIs
  <2>2. QED
    BY <1>1, <1>9, <2>1 DEF Asked
<1>10. phase = "over" => ~Alive /\ ~LoseSource /\ world.visit = 0
  BY <1>0 DEF StagesAgree, LoseSource, Alive
<1>11. CASE Take \/ Finish
  <2>1. UNCHANGED <<world, stage, running, phase>>
    BY <1>11 DEF Take, Finish, windowVars
  <2>2. QED
    BY <1>9, <1>10, <2>1 DEF OnStage, Alive, Early
<1>12. CASE LoseSource \/ MoveKey
  <2>1. /\ UNCHANGED <<stage, running, phase>> /\ phase # "over"
    BY <1>10, <1>12 DEF LoseSource, MoveKey, Input, windowVars
  <2>2. world'.shoot = world.shoot /\ world'.isQuitting = world.isQuitting
    BY <1>0, <1>12, LoseSourceIs, MoveKeyIs DEF Alike
  <2>3. QED
    BY <1>9, <2>1, <2>2 DEF OnStage, Early
<1>13. CASE EndEvents \/ StagesDone \/ UpdateWindows \/ NoClick \/ BeginInvalid \/ Resize
  <2>1. /\ UNCHANGED <<world, stage, running>> /\ phase # "over" /\ Early'
    BY <1>13 DEF EndEvents, StagesDone, UpdateWindows, NoClick, BeginInvalid, Resize, Input,
       windowVars, Early
  <2>2. QED
    BY <1>9, <2>1 DEF OnStage
<1>14. CASE Preferences \/ ChangePrefs \/ ClosePrefs
  <2>1. /\ UNCHANGED <<stage, running>> /\ phase # "over" /\ Early'
    BY <1>14 DEF Preferences, ChangePrefs, ClosePrefs, PauseClick, Click, windowVars, Early
  <2>2. world'.shoot = world.shoot /\ world'.isQuitting = world.isQuitting
    BY <1>0, <1>14, ChangePrefsIs DEF Preferences, ClosePrefs
  <2>3. QED
    BY <1>9, <2>1, <2>2 DEF OnStage
<1>15. CASE \E quit \in BOOLEAN : LeaveWorld(quit)
  <2>1. PICK quit \in BOOLEAN : LeaveWorld(quit)
    BY <1>15
  <2>2. /\ UNCHANGED <<stage, running>> /\ phase # "over" /\ Early'
    BY <2>1 DEF LeaveWorld, PauseClick, Click, windowVars, Early
  <2>3. world'.shoot = world.shoot /\ world'.isQuitting = world.isQuitting
    BY <1>0, <2>1, LeaveWorldIs
  <2>4. QED
    BY <1>9, <2>2, <2>3 DEF OnStage
<1>16. QED
  BY <1>1, <1>2, <1>3, <1>4, <1>5, <1>6, <1>7, <1>8, <1>11, <1>12, <1>13, <1>14, <1>15,
     ScreensNextIs

LEMMA PictureComesKept ==
  ASSUME ScreensBase, WorkerAgrees, PictureComes, ScreensNext
  PROVE  PictureComes'
<1>0. /\ StagesAgree /\ LoopOK /\ world \in Renderers \cup {NoRenderer} /\ saved \in BOOLEAN
      /\ running \in BOOLEAN /\ viewport \in Sizes /\ visits \in 0..Visits
  BY DEF ScreensBase, RendererOK, LoopOK
<1>1. /\ (Alive /\ world.exit # 0 => Pictured)
      /\ (Alive /\ (changes = <<"title">> \/ Leaving) => MayLeave)
      /\ (Alive /\ OnStage /\ ~running => MayLeave \/ Asked)
  BY DEF PictureComes, Leaving, Asked, Early
<1>2. ASSUME Alive', world'.exit # 0 PROVE Pictured'
  <2>1. CASE Alive /\ world.exit # 0 /\ ~Destroyed
    BY <1>1, <2>1, PicturedKept
  <2>2. CASE \E quit \in BOOLEAN : LeaveWorld(quit)
    <3>1. PICK quit \in BOOLEAN : LeaveWorld(quit)
      BY <2>2
    <3>2. world \in Renderers /\ phase = "clicks" /\ phase' = "begin"
      BY <1>0, <3>1, LeaveWorldIs DEF LeaveWorld, PauseClick, Click
    <3>3. Alive /\ ~Leaving /\ doing' = doing
      BY <1>0, <3>1, <3>2, AliveIs DEF LeaveWorld, Leaving
    <3> DEFINE p == [visit |-> world.visit, data |-> world.shot, size |-> viewport]
    <3>4. p \in Save
      BY <1>0, <3>2, RendererIs DEF Save
    <3>5. pics' = Append(pics, p)
      BY <3>1 DEF LeaveWorld, Queued
    <3> HIDE DEF p
    <3>6. QED
      BY <3>3, <3>4, <3>5, AppendedIsPictured
  <2>3. ~Destroyed
    BY <1>2 DEF Destroyed, NoRenderer, Alive
  <2>4. \/ UNCHANGED world
        \/ /\ world \in Renderers
           /\ (world.exit = 0 => world'.exit = 0 \/ \E quit \in BOOLEAN : LeaveWorld(quit))
        \/ world'.exit = 0
    BY <2>3, RendererMoves
  <2>5. CASE UNCHANGED world
    BY <1>2, <2>1, <2>3, <2>5 DEF Alive
  <2>6. CASE /\ world \in Renderers
             /\ (world.exit = 0 => world'.exit = 0 \/ \E quit \in BOOLEAN : LeaveWorld(quit))
    BY <1>0, <1>2, <2>1, <2>2, <2>3, <2>6, AliveIs
  <2>7. QED
    BY <1>2, <2>4, <2>5, <2>6
<1>3. ASSUME Alive', changes' = <<"title">> \/ Leaving' PROVE MayLeave'
  <2>1. ~Destroyed
    BY <1>3 DEF Destroyed, NoRenderer, Alive
  <2>2. CASE Alive /\ (changes = <<"title">> \/ Leaving)
    BY <1>1, <2>1, <2>2, MayLeaveKept
  <2>3. CASE BeginInvalid
    BY <2>3 DEF BeginInvalid, MayLeave
  <2>4. CASE Begin /\ OnStage /\ world.exit # 0
    <3>1. Alive
      BY <1>0, <2>4, OnStageIs DEF Begin
    <3>2. QED
      BY <1>1, <2>1, <2>4, <3>1, PicturedKept DEF MayLeave
  <2>5. CASE EndFrame /\ Alive /\ ~running
    <3>1. CASE OnStage
      <4>1. ~Asked
        BY <2>5 DEF Asked, Early, EndFrame
      <4>2. QED
        BY <1>1, <2>1, <2>5, <3>1, <4>1, MayLeaveKept
    <3>2. CASE ~OnStage
      <4>1. phase' \in {"events", "closing", "over"} /\ changes' = changes /\ world' = world
        BY <2>5, <3>2 DEF EndFrame
      <4>2. changes # <<"title">>
        BY <1>0, <3>2 DEF StagesAgree
      <4>3. phase' = "closing"
        BY <1>3, <4>1, <4>2 DEF Leaving
      <4>4. world.visit \in excused'
        BY <2>5, <3>2, <4>3 DEF EndFrame
      <4>5. QED
        BY <4>1, <4>4 DEF MayLeave
    <3>3. QED
      BY <3>1, <3>2
  <2>6. QED
    BY <1>3, <2>2, <2>3, <2>4, <2>5, TurnsToLeave
<1>4. ASSUME Alive', OnStage', ~running' PROVE MayLeave' \/ Asked'
  <2>1. MayLeave \/ Asked \/ running \/ ~OnStage
    <3>1. OnStage => Alive \/ phase = "over"
      BY <1>0 DEF StagesAgree
    <3>2. CASE phase = "over"
      <4>1. ~Alive /\ ~LoseSource
        BY <1>0, <3>2 DEF StagesAgree, LoseSource
      <4>2. Take \/ Finish
        BY <3>2, <4>1, ScreensNextIs DEF EndEvents, UpdateStages, StagesDone, Destroyed,
           UpdateWindows, NoClick, BeginInvalid, Begin, Drawn, EndFrame, CloseWindow, Resize,
           MoveKey, MenuMoves, Escape, OpenMenu, ToggleBar, ReturnToGame, Preferences,
           ChangePrefs, ClosePrefs, LeaveWorld, OpenWorld, PauseClick, Click, Input
      <4>3. world' = world
        BY <4>2 DEF Take, Finish
      <4>4. QED
        BY <1>4, <4>1, <4>3 DEF Alive
    <3>3. QED
      BY <1>1, <3>1, <3>2
  <2>2. CASE Alive /\ MayLeave /\ ~Destroyed
    BY <2>2, MayLeaveKept
  <2>3. CASE UpdateStages /\ Alive /\ ~running /\ Head(changes) = "world"
    BY <2>3 DEF UpdateStages, MayLeave
  <2>4. CASE Begin /\ OnStage /\ world.exit # 0
    <3>1. Alive /\ ~Destroyed
      BY <1>0, <2>4, OnStageIs DEF Begin, Destroyed
    <3>2. QED
      BY <1>1, <2>4, <3>1, PicturedKept DEF MayLeave
  <2>5. CASE Drawn /\ Alive /\ OnStage /\ world.shoot /\ world.isQuitting
    <3>1. PICK p \in Save : p.visit = world.visit /\ pics' = Append(pics, p)
      BY <1>0, <2>5, DrawnIs
    <3>2. ~Leaving /\ doing' = doing
      BY <2>5 DEF Drawn, Leaving
    <3>3. QED
      BY <2>5, <3>1, <3>2, AppendedIsPictured DEF MayLeave
  <2>6. QED
    BY <1>4, <2>1, <2>2, <2>3, <2>4, <2>5, TurnsToEnd
<1>5. QED
  BY <1>2, <1>3, <1>4 DEF PictureComes, Leaving, Asked, Early

-----------------------------------------------------------------------------
(* The preferences.                                                         *)

LEMMA PrefsKept ==
  ASSUME ScreensBase, PrefsComeIn, ScreensNext
  PROVE  PrefsComeIn'
<1>0. /\ StagesAgree /\ LoopOK /\ world \in Renderers \cup {NoRenderer} /\ saved \in BOOLEAN
      /\ running \in BOOLEAN /\ viewport \in Sizes /\ visits \in 0..Visits /\ bar \in BOOLEAN
  BY DEF ScreensBase, RendererOK, LoopOK
<1> DEFINE Late == phase \in {"begin", "draw", "end"}
<1>1. Alive => world.loaded = saved \/ (world.reload /\ OnStage /\ Late)
  BY DEF PrefsComeIn
<1>2. SUFFICES ASSUME Alive'
               PROVE  world'.loaded = saved' \/ (world'.reload /\ OnStage' /\ Late')
  BY DEF PrefsComeIn
<1>3. ~Destroyed
  BY <1>2 DEF Destroyed, NoRenderer, Alive
<1>4. phase = "over" => ~Alive
  BY <1>0 DEF StagesAgree
<1> DEFINE Same == /\ Alive /\ saved' = saved /\ world'.loaded = world.loaded
                   /\ world'.reload = world.reload
                   /\ (OnStage /\ Late => OnStage' /\ Late')
<1>5. CASE Same
  BY <1>1, <1>5
<1>6. CASE EndEvents \/ UpdateStages \/ StagesDone \/ UpdateWindows \/ NoClick
  BY <1>1, <1>2, <1>6
  DEF EndEvents, UpdateStages, StagesDone, UpdateWindows, NoClick, guiVars, Alive
<1>7. CASE BeginInvalid \/ Take \/ Finish \/ Resize
  <2>1. /\ UNCHANGED <<world, saved, stage>> /\ (Late => Late')
    BY <1>7 DEF BeginInvalid, Take, Finish, Resize, Input, guiVars, windowVars
  <2>2. QED
    BY <1>2, <1>5, <2>1 DEF Alive, OnStage
<1>8. CASE Begin
  <2>1. /\ UNCHANGED <<saved, stage>> /\ Late'
    BY <1>8 DEF Begin, guiVars
  <2>2. world'.visit = world.visit
    BY <1>0, <1>8, BeginIs
  <2>3. world'.loaded = world.loaded /\ world'.reload = world.reload
    BY <1>0, <1>8, BeginIs
  <2>4. QED
    BY <1>2, <1>5, <2>1, <2>2, <2>3 DEF Alive, OnStage
<1>9. CASE Drawn
  <2>1. /\ UNCHANGED <<saved, stage>> /\ Late'
    BY <1>9 DEF Drawn, guiVars, windowVars
  <2>2. world'.visit = world.visit
    BY <1>0, <1>9, DrawnIs
  <2>3. world'.loaded = world.loaded /\ world'.reload = world.reload
    BY <1>0, <1>9, DrawnIs
  <2>4. QED
    BY <1>2, <1>5, <2>1, <2>2, <2>3 DEF Alive, OnStage
<1>10. CASE EndFrame
  <2>1. saved' = saved
    BY <1>10 DEF EndFrame, guiVars
  <2>2. CASE OnStage
    <3>1. /\ world'.visit = world.visit
          /\ world'.loaded = IF world.reload THEN saved ELSE world.loaded
      BY <1>0, <1>10, <2>2, EndFrameIs
    <3>2. QED
      BY <1>1, <1>2, <2>1, <3>1 DEF Alive
  <2>3. CASE ~OnStage
    <3>1. world' = world
      BY <1>0, <1>10, <2>3, EndFrameIs
    <3>2. QED
      BY <1>1, <1>2, <2>1, <2>3, <3>1 DEF Alive
  <2>4. QED
    BY <2>2, <2>3
<1>11. CASE CloseWindow \/ MoveKey \/ LoseSource
  <2>1. /\ UNCHANGED <<saved, stage, phase>>
    BY <1>11 DEF CloseWindow, MoveKey, LoseSource, Input, guiVars, windowVars
  <2>2. /\ world'.visit = world.visit /\ world'.loaded = world.loaded
        /\ world'.reload = world.reload
    BY <1>0, <1>11, CloseWindowIs, MoveKeyIs, LoseSourceIs DEF Alike
  <2>3. QED
    BY <1>2, <1>5, <2>1, <2>2 DEF Alive, OnStage
<1>12. CASE MenuMoves
  <2>1. OnStage /\ phase # "over"
    BY <1>12 DEF MenuMoves, Escape, OpenMenu, ToggleBar, ReturnToGame, PauseClick, Click, Input
  <2>2. world \in Renderers /\ Alive
    BY <1>0, <2>1, OnStageIs
  <2>3. /\ UNCHANGED <<saved, stage>> /\ world'.loaded = world.loaded
        /\ world'.reload = world.reload /\ phase \in {"events", "clicks"}
    BY <1>12, <2>2, MenuMoveIs DEF SameWorld
  <2>4. QED
    BY <1>5, <2>2, <2>3
<1>13. CASE Preferences \/ ClosePrefs
  BY <1>1, <1>2, <1>13 DEF Preferences, PauseClick, ClosePrefs, Click, Alive
<1>14. CASE ChangePrefs
  <2>1. OnStage' /\ Late' /\ world'.reload = TRUE
    BY <1>0, <1>14, ChangePrefsIs DEF ChangePrefs, Click, OnStage, windowVars
  <2>2. QED
    BY <2>1
<1>15. CASE \E quit \in BOOLEAN : LeaveWorld(quit)
  <2>1. PICK quit \in BOOLEAN : LeaveWorld(quit)
    BY <1>15
  <2>2. /\ world'.visit = world.visit /\ world'.loaded = world.loaded
        /\ world'.reload = world.reload
    BY <1>0, <2>1, LeaveWorldIs
  <2>3. saved' = saved /\ phase = "clicks"
    BY <2>1 DEF LeaveWorld, PauseClick, Click, guiVars
  <2>4. QED
    BY <1>2, <1>5, <2>2, <2>3 DEF Alive
<1>16. CASE \E multi \in BOOLEAN : OpenWorld(multi)
  <2>1. PICK multi \in BOOLEAN : OpenWorld(multi)
    BY <1>16
  <2>2. saved' = saved
    BY <2>1 DEF OpenWorld
  <2>3. QED
    BY <1>0, <2>1, <2>2, OpenWorldIs
<1>17. QED
  BY <1>3, <1>6, <1>7, <1>8, <1>9, <1>10, <1>11, <1>12, <1>13, <1>14, <1>15, <1>16, ScreensNextIs

-----------------------------------------------------------------------------
(* The menus and the cursor.                                                *)

(* The renderer w counts one for the menu that is open and b for the bar.   *)
Fit(w, b) ==
  /\ \/ w.open = {} /\ w.count = b
     \/ \E menu \in Menus : w.open = {menu} /\ w.count = 1 + b
  /\ (w.count = 0 => w.accepts = TRUE)
  /\ (w.count # 0 => w.accepts = FALSE)

Bars == IF bar THEN 1 ELSE 0

LEMMA BarsAre == Bars \in {0, 1} /\ (bar => Bars = 1) /\ (~bar => Bars = 0)
BY DEF Bars

LEMMA Remainders ==
  /\ (0 + 1) % Width = 1 /\ (1 + 1) % Width = 2
  /\ (1 + Width - 1) % Width = 0 /\ (2 + Width - 1) % Width = 1
<1>1. Width \in Nat /\ Width > 3
  BY ScreensNumbers
<1>2. 1 % Width = 1 /\ 2 % Width = 2
  BY <1>1
<1>3. (1 + Width - 1) % Width = 0
  BY <1>1
<1>4. (2 + Width - 1) % Width = 1
  BY <1>1
<1>5. QED
  BY <1>2, <1>3, <1>4

LEMMA AcceptsIs ==
  ASSUME NEW w \in Renderers
  PROVE  w.accepts = (w.count = 0) <=> /\ (w.count = 0 => w.accepts = TRUE)
                                      /\ (w.count # 0 => w.accepts = FALSE)
<1>1. w.accepts \in BOOLEAN
  BY RendererIs
<1>2. CASE w.accepts = TRUE
  <2>1. CASE w.count = 0
    BY <1>2, <2>1
  <2>2. CASE w.count # 0
    BY <1>2, <2>2
  <2>3. QED
    BY <2>1, <2>2
<1>3. CASE w.accepts = FALSE
  <2>1. CASE w.count = 0
    BY <1>3, <2>1
  <2>2. CASE w.count # 0
    BY <1>3, <2>2
  <2>3. QED
    BY <2>1, <2>2
<1>4. QED
  BY <1>1, <1>2, <1>3

LEMMA OpenFits ==
  ASSUME NEW w \in Renderers, NEW r \in Renderers, NEW b \in {0, 1}, Fit(w, b), w.count = 0,
         NEW menu \in Menus, r.open = w.open \cup {menu},
         r.count = (w.count + 1) % Width, r.accepts = IF r.count = 1 THEN FALSE ELSE w.accepts
  PROVE  Fit(r, b)
<1>1. w.open = {} /\ b = 0
  BY DEF Fit
<1>2. r.open = {menu} /\ r.count = 1 /\ r.accepts = FALSE
  BY <1>1, Remainders
<1>3. QED
  BY <1>1, <1>2 DEF Fit

LEMMA CloseFits ==
  ASSUME NEW w \in Renderers, NEW r \in Renderers, NEW b \in {0, 1}, Fit(w, b),
         r.open = {}, w.open # {},
         r.count = (w.count + Width - 1) % Width,
         r.accepts = IF r.count = 0 THEN TRUE ELSE w.accepts
  PROVE  Fit(r, b)
<1>1. w.count = 1 + b /\ w.accepts = FALSE
  BY DEF Fit
<1>2. r.count = b
  <2>1. CASE b = 0
    BY <1>1, <2>1, Remainders
  <2>2. CASE b = 1
    <3>1. w.count = 2
      BY <1>1, <2>2
    <3>2. QED
      BY <2>2, <3>1, Remainders
  <2>3. QED
    BY <2>1, <2>2
<1>3. r.accepts = (r.count = 0)
  BY <1>1, <1>2
<1>4. QED
  BY <1>2, <1>3 DEF Fit

LEMMA SingleOpen ==
  ASSUME NEW w \in Renderers, NEW b \in {0, 1}, Fit(w, b), NEW menu \in w.open
  PROVE  w.open = {menu}
BY DEF Fit

LEMMA EscapeFits ==
  ASSUME NEW w \in Renderers, NEW b \in {0, 1}, Fit(w, b)
  PROVE  Fit(EscapeOthers(EscapeMenu(w)), b)
<1>1. /\ EscapeMenu(w) \in Renderers
      /\ \/ "pause" \in w.open /\ EscapeMenu(w) = ClosePause(w)
         \/ "pause" \notin w.open /\ w.count = 0 /\ EscapeMenu(w) = OpenPause(w)
         \/ EscapeMenu(w) = w
  BY EscapeMenuIs
<1>2. Fit(EscapeMenu(w), b)
  <2>1. CASE "pause" \in w.open /\ EscapeMenu(w) = ClosePause(w)
    <3>1. w.open = {"pause"}
      BY <2>1, SingleOpen
    <3> DEFINE r == ClosePause(w)
    <3>2. /\ r \in Renderers /\ r.open = w.open \ {"pause"}
          /\ r.count = (w.count + Width - 1) % Width
          /\ r.accepts = IF r.count = 0 THEN TRUE ELSE w.accepts
      BY ClosePauseIs
    <3> HIDE DEF r
    <3>3. r.open = {} /\ w.open # {}
      BY <3>1, <3>2
    <3>4. Fit(r, b)
      BY <3>2, <3>3, CloseFits
    <3>5. QED
      BY <2>1, <3>4 DEF r
  <2>2. CASE w.count = 0 /\ EscapeMenu(w) = OpenPause(w)
    <3> DEFINE r == OpenPause(w)
    <3>1. /\ r \in Renderers /\ r.open = w.open \cup {"pause"}
          /\ r.count = (w.count + 1) % Width
          /\ r.accepts = IF r.count = 1 THEN FALSE ELSE w.accepts
      BY OpenPauseIs
    <3> HIDE DEF r
    <3>2. "pause" \in Menus
      BY DEF Menus
    <3>3. Fit(r, b)
      BY <2>2, <3>1, <3>2, OpenFits
    <3>4. QED
      BY <2>2, <3>3 DEF r
  <2>3. QED
    BY <1>1, <2>1, <2>2
<1> DEFINE m == EscapeMenu(w)
           mine == IF "inventory" \in m.open THEN {"inventory"} ELSE m.open \cap {"chat"}
           r == EscapeOthers(m)
<1>3. m \in Renderers /\ Fit(m, b)
  BY <1>1, <1>2
<1> HIDE DEF m
<1>4. /\ r \in Renderers
      /\ \/ /\ mine # {} /\ m.count # 0 /\ r.open = m.open \ mine
            /\ r.count = (m.count + Width - 1) % Width
            /\ r.accepts = IF r.count = 0 THEN TRUE ELSE m.accepts
         \/ r = m
  <2>1. m \in Renderers
    BY <1>3
  <2>2. QED
    BY <2>1, EscapeOthersIs
<1>5. CASE r = m
  BY <1>3, <1>5 DEF m
<1>6. CASE /\ mine # {} /\ m.count # 0 /\ r.open = m.open \ mine
           /\ r.count = (m.count + Width - 1) % Width
           /\ r.accepts = IF r.count = 0 THEN TRUE ELSE m.accepts
  <2>1. mine \subseteq m.open
    OBVIOUS
  <2>2. PICK x \in mine : TRUE
    BY <1>6
  <2>3. x \in m.open
    BY <2>1, <2>2
  <2>4. m.open = {x}
    BY <1>3, <2>3, SingleOpen
  <2>5. r.open = {} /\ m.open # {}
    BY <1>6, <2>2, <2>4
  <2> HIDE DEF r, mine
  <2>6. Fit(r, b)
    BY <1>3, <1>4, <1>6, <2>5, CloseFits
  <2>7. QED
    BY <2>6 DEF r, m
<1>7. QED
  BY <1>4, <1>5, <1>6

(* Every menu keeps the count right. *)
LEMMA MenusFit ==
  ASSUME ScreensBase, MenuMoves, Fit(world, Bars), ReturnToGame => "pause" \in world.open
  PROVE  Fit(world', Bars')
<1>0. /\ world \in Renderers \cup {NoRenderer} /\ StagesAgree /\ bar \in BOOLEAN
  BY DEF ScreensBase, RendererOK, LoopOK
<1>1. OnStage /\ phase # "over"
  BY DEF MenuMoves, Escape, OpenMenu, ToggleBar, ReturnToGame, PauseClick, Click, Input
<1>2. world \in Renderers
  BY <1>0, <1>1, OnStageIs
<1>3. Bars \in {0, 1}
  BY BarsAre
<1>4. CASE Escape
  <2>1. world' = EscapeOthers(EscapeMenu(world)) /\ bar' = bar
    BY <1>4 DEF Escape
  <2>2. Bars' = Bars
    BY <2>1 DEF Bars
  <2>3. Fit(EscapeOthers(EscapeMenu(world)), Bars)
    BY <1>2, <1>3, EscapeFits
  <2>4. QED
    BY <2>1, <2>2, <2>3
<1>5. CASE \E menu \in {"inventory", "chat"} : OpenMenu(menu)
  <2>1. PICK menu \in {"inventory", "chat"} : OpenMenu(menu)
    BY <1>5
  <2> DEFINE v == [world EXCEPT !.open = world.open \cup {menu}]
  <2>2. world.open \cup {menu} \in SUBSET Menus /\ menu \in Menus
    BY <1>2, RendererIs DEF Menus
  <2>3. /\ v \in Renderers /\ v.open = world.open \cup {menu} /\ v.count = world.count
        /\ v.accepts = world.accepts
    BY <1>2, <2>2, OpenIsRenderer
  <2>4. world' = Increment(v) /\ world.count = 0 /\ bar' = bar
    BY <2>1 DEF OpenMenu
  <2> HIDE DEF v
  <2>5. /\ world' \in Renderers /\ world'.open = v.open /\ world'.count = (v.count + 1) % Width
        /\ world'.accepts = IF world'.count = 1 THEN FALSE ELSE v.accepts
    <3>1. v \in Renderers
      BY <2>3
    <3>2. QED
      BY <2>4, <3>1, IncrementIs
  <2>6. Fit(world', Bars)
    BY <1>2, <1>3, <2>2, <2>3, <2>4, <2>5, OpenFits
  <2>7. Bars' = Bars
    BY <2>4 DEF Bars
  <2>8. QED
    BY <2>6, <2>7
<1>6. CASE ToggleBar /\ ~bar
  <2>1. world' = Increment(world) /\ bar' = TRUE
    BY <1>6 DEF ToggleBar
  <2>2. /\ world' \in Renderers
        /\ world'.open = world.open /\ world'.count = (world.count + 1) % Width
        /\ world'.accepts = IF world'.count = 1 THEN FALSE ELSE world.accepts
    BY <1>2, <2>1, IncrementIs
  <2>3. Bars = 0 /\ Bars' = 1
    BY <1>6, <2>1 DEF Bars
  <2>4. CASE world.open = {} /\ world.count = 0
    <3>1. world.accepts = TRUE /\ world'.count = 1
      BY <2>2, <2>4, <1>2, Remainders DEF Fit
    <3>2. QED
      BY <2>2, <2>3, <2>4, <3>1, <1>2 DEF Fit
  <2>5. CASE (\E menu \in Menus : world.open = {menu}) /\ world.count = 1
    <3>1. world.accepts = FALSE /\ world'.count = 2
      BY <2>2, <2>5, <1>2, Remainders DEF Fit
    <3>2. QED
      BY <2>2, <2>3, <2>5, <3>1, <1>2 DEF Fit
  <2>6. Fit(world, 0)
    BY <2>3
  <2>7. (world.open = {} /\ world.count = 0)
        \/ ((\E menu \in Menus : world.open = {menu}) /\ world.count = 1)
    BY <2>6 DEF Fit
  <2>8. QED
    BY <2>4, <2>5, <2>7
<1>7. CASE ToggleBar /\ bar
  <2>1. world' = Decrement(world) /\ bar' = FALSE
    BY <1>7 DEF ToggleBar
  <2>2. /\ world' \in Renderers
        /\ world'.open = world.open /\ world'.count = (world.count + Width - 1) % Width
        /\ world'.accepts = IF world'.count = 0 THEN TRUE ELSE world.accepts
    BY <1>2, <2>1, DecrementIs
  <2>3. Bars = 1 /\ Bars' = 0
    BY <1>7, <2>1 DEF Bars
  <2>4. CASE world.open = {} /\ world.count = 1
    <3>1. world'.count = 0 /\ world'.accepts = TRUE
      BY <2>2, <2>4, Remainders
    <3>2. QED
      BY <2>2, <2>3, <2>4, <3>1, <1>2 DEF Fit
  <2>5. CASE (\E menu \in Menus : world.open = {menu}) /\ world.count = 2
    <3>1. world.accepts = FALSE /\ world'.count = 1
      BY <2>2, <2>5, <1>2, Remainders DEF Fit
    <3>2. QED
      BY <2>2, <2>3, <2>5, <3>1, <1>2 DEF Fit
  <2>6. Fit(world, 1)
    BY <2>3
  <2>7. (world.open = {} /\ world.count = 1)
        \/ ((\E menu \in Menus : world.open = {menu}) /\ world.count = 2)
    BY <2>6 DEF Fit
  <2>8. QED
    BY <2>4, <2>5, <2>7
<1>8. CASE ReturnToGame
  <2>1. world' = ClosePause(world) /\ bar' = bar /\ "pause" \in world.open
    BY <1>8 DEF ReturnToGame
  <2>2. /\ world' \in Renderers /\ world'.open = world.open \ {"pause"}
        /\ world'.count = (world.count + Width - 1) % Width
        /\ world'.accepts = IF world'.count = 0 THEN TRUE ELSE world.accepts
    BY <1>2, <2>1, ClosePauseIs
  <2>3. world.open = {"pause"}
    BY <1>2, <1>3, <2>1, SingleOpen
  <2>4. world'.open = {} /\ world.open # {}
    BY <2>2, <2>3
  <2>5. Fit(world', Bars)
    BY <1>2, <1>3, <2>2, <2>4, CloseFits
  <2>6. Bars' = Bars
    BY <2>1 DEF Bars
  <2>7. QED
    BY <2>5, <2>6
<1>9. QED
  BY <1>0, <1>4, <1>5, <1>6, <1>7, <1>8 DEF MenuMoves

(* The menus as far as the cursor is concerned, in a world that was opened  *)
(* without the menu bar.                                                    *)
CursorAgrees ==
  Alive /\ ~world.bar =>
    /\ Fit(world, Bars)
    /\ OnStage => captured = world.accepts
    /\ changes = <<"world">> => world.open = {} /\ ~bar

PauseAgrees ==
  /\ Alive => (<<"pause", world.visit>> \in shown <=> "pause" \in world.open)
  /\ \A w \in shown : w[2] <= visits

LEMMA MenusAgreeIs ==
  ASSUME world \in Renderers \cup {NoRenderer}
  PROVE  MenusAgree <=> CursorAgrees /\ PauseAgrees
<1>1. Alive => (world.accepts = (world.count = 0) <=>
                  /\ (world.count = 0 => world.accepts = TRUE)
                  /\ (world.count # 0 => world.accepts = FALSE))
  BY AliveIs, AcceptsIs
<1>2. Alive => (Counts /\ world.accepts = (world.count = 0) <=> Fit(world, Bars))
  BY <1>1 DEF Counts, Fit, Bars
<1>3. QED
  BY <1>2, Zenon DEF MenusAgree, CursorAgrees, PauseAgrees

(* The steps that change nothing of the menus. *)
LEMMA CursorStays ==
  ASSUME CursorAgrees,
         world'.visit = world.visit, world'.bar = world.bar, world'.open = world.open,
         world'.count = world.count, world'.accepts = world.accepts,
         UNCHANGED <<bar, captured, stage>>, changes' = changes \/ changes' # <<"world">>
  PROVE  CursorAgrees'
BY DEF CursorAgrees, Alive, OnStage, Fit, Bars, Menus

LEMMA CursorKept ==
  ASSUME ScreensBase, CursorAgrees, PauseAgrees, ScreensNext
  PROVE  CursorAgrees'
<1>0. /\ StagesAgree /\ LoopOK /\ world \in Renderers \cup {NoRenderer} /\ saved \in BOOLEAN
      /\ running \in BOOLEAN /\ viewport \in Sizes /\ visits \in 0..Visits /\ bar \in BOOLEAN
  BY DEF ScreensBase, RendererOK, LoopOK
<1>1. <<"title">> # <<>> /\ <<"world">> # <<>> /\ <<"title">> # <<"world">>
  <2>1. Len(<<"title">>) = 1 /\ Len(<<>>) = 0 /\ Len(<<"world">>) = 1
        /\ <<"title">>[1] = "title" /\ <<"world">>[1] = "world"
    OBVIOUS
  <2>2. QED
    BY <2>1
<1>2. CASE EndEvents \/ StagesDone \/ UpdateWindows \/ NoClick \/ Take \/ Finish
  <2>1. UNCHANGED <<world, bar, captured, stage, changes>>
    BY <1>2 DEF EndEvents, StagesDone, UpdateWindows, NoClick, Take, Finish, windowVars
  <2>2. QED
    BY <2>1, CursorStays
<1>3. CASE Resize \/ Preferences \/ ClosePrefs
  <2>1. UNCHANGED <<world, bar, captured, stage, changes>>
    BY <1>3 DEF Resize, Preferences, PauseClick, ClosePrefs, Click, Input, windowVars
  <2>2. QED
    BY <2>1, CursorStays
<1>4. CASE Destroyed
  <2>1. ~Alive'
    BY <1>4 DEF Destroyed, NoRenderer, Alive
  <2>2. QED
    BY <2>1 DEF CursorAgrees
<1>5. CASE UpdateStages
  <2>1. /\ UNCHANGED <<world, bar>> /\ changes' = <<>>
        /\ stage' = Head(changes) /\ captured' = (Head(changes) = "world")
        /\ changes = <<Head(changes)>>
    BY <1>5, ChangesAre DEF UpdateStages
  <2>2. CASE Head(changes) = "world"
    <3>1. Alive /\ ~world.bar => world.open = {} /\ ~bar /\ Fit(world, Bars)
      BY <2>1, <2>2 DEF CursorAgrees
    <3>2. Alive /\ ~world.bar => world.accepts = TRUE
      BY <3>1 DEF Fit, Bars
    <3>3. captured' = TRUE
      BY <2>1, <2>2
    <3>4. Alive' /\ ~world'.bar => captured' = world'.accepts /\ Fit(world', Bars')
      BY <2>1, <3>1, <3>2, <3>3 DEF Alive, Bars
    <3>5. QED
      BY <1>1, <2>1, <3>4 DEF CursorAgrees
  <2>3. CASE Head(changes) # "world"
    <3>1. ~OnStage' /\ changes' # <<"world">>
      BY <1>1, <2>1, <2>3 DEF OnStage
    <3>2. Alive' /\ ~world'.bar => Fit(world', Bars')
      BY <2>1 DEF CursorAgrees, Alive, Bars
    <3>3. QED
      BY <3>1, <3>2 DEF CursorAgrees
  <2>4. QED
    BY <2>2, <2>3
<1>6. CASE BeginInvalid
  <2>1. /\ UNCHANGED <<world, bar, captured, stage>> /\ changes' = Append(changes, "title")
        /\ OnStage /\ phase = "begin"
    BY <1>6 DEF BeginInvalid
  <2>2. changes = <<>>
    BY <1>0, <2>1 DEF StagesAgree
  <2>3. changes' # <<"world">>
    BY <1>1, <2>1, <2>2, ChangesAre
  <2>4. QED
    BY <2>1, <2>3, CursorStays
<1>7. CASE Begin
  <2>1. UNCHANGED <<bar, captured, stage>> /\ phase = "begin"
    BY <1>7 DEF Begin
  <2>2. CASE ~OnStage
    <3>1. UNCHANGED <<world, changes>>
      BY <1>7, <2>2 DEF Begin
    <3>2. QED
      BY <2>1, <3>1, CursorStays
  <2>3. CASE OnStage
    <3>1. /\ world'.visit = world.visit /\ world'.bar = world.bar /\ world'.open = world.open
          /\ world'.count = world.count /\ world'.accepts = world.accepts
          /\ changes' = changes \/ changes' = Append(changes, "title")
      BY <1>0, <1>7, <2>3, BeginIs
    <3>2. changes = <<>>
      BY <1>0, <2>1, <2>3 DEF StagesAgree
    <3>3. changes' # <<"world">>
      BY <1>1, <3>1, <3>2, ChangesAre
    <3>4. QED
      BY <2>1, <3>1, <3>3, CursorStays
  <2>4. QED
    BY <2>2, <2>3
<1>8. CASE Drawn
  <2>1. UNCHANGED <<bar, captured, stage, changes>>
    BY <1>8 DEF Drawn, windowVars
  <2>2. /\ world'.visit = world.visit /\ world'.bar = world.bar /\ world'.open = world.open
        /\ world'.count = world.count /\ world'.accepts = world.accepts
    BY <1>0, <1>8, DrawnIs
  <2>3. QED
    BY <2>1, <2>2, CursorStays
<1>9. CASE EndFrame
  <2>1. UNCHANGED <<bar, captured, stage, changes>>
    BY <1>9 DEF EndFrame
  <2>2. /\ world'.visit = world.visit /\ world'.bar = world.bar /\ world'.open = world.open
        /\ world'.count = world.count /\ world'.accepts = world.accepts
    BY <1>0, <1>9, EndFrameIs
  <2>3. QED
    BY <2>1, <2>2, CursorStays
<1>10. CASE CloseWindow \/ MoveKey \/ LoseSource \/ ChangePrefs
  <2>1. UNCHANGED <<bar, captured, stage, changes>>
    BY <1>10 DEF CloseWindow, MoveKey, LoseSource, ChangePrefs, Input, windowVars
  <2>2. /\ world'.visit = world.visit /\ world'.bar = world.bar /\ world'.open = world.open
        /\ world'.count = world.count /\ world'.accepts = world.accepts
    BY <1>0, <1>10, CloseWindowIs, MoveKeyIs, LoseSourceIs, ChangePrefsIs DEF Alike
  <2>3. QED
    BY <2>1, <2>2, CursorStays
<1>11. CASE \E quit \in BOOLEAN : LeaveWorld(quit)
  <2>1. PICK quit \in BOOLEAN : LeaveWorld(quit)
    BY <1>11
  <2>2. UNCHANGED <<bar, captured, stage, changes>>
    BY <2>1 DEF LeaveWorld, windowVars
  <2>3. /\ world'.visit = world.visit /\ world'.bar = world.bar /\ world'.open = world.open
        /\ world'.count = world.count /\ world'.accepts = world.accepts
    BY <1>0, <2>1, LeaveWorldIs
  <2>4. QED
    BY <2>2, <2>3, CursorStays
<1>12. CASE \E multi \in BOOLEAN : OpenWorld(multi)
  <2>1. PICK multi \in BOOLEAN : OpenWorld(multi)
    BY <1>12
  <2>2. /\ world'.open = {} /\ world'.count = 0 /\ world'.accepts = TRUE /\ world'.bar = bar
        /\ bar' = bar /\ ~OnStage'
    BY <1>0, <2>1, OpenWorldIs DEF OpenWorld, OnStage
  <2>3. ~world'.bar => ~bar' /\ Bars' = 0
    BY <2>2 DEF Bars
  <2>4. ~world'.bar => Fit(world', Bars')
    BY <2>2, <2>3 DEF Fit
  <2>5. QED
    BY <2>2, <2>3, <2>4 DEF CursorAgrees
<1>13. CASE MenuMoves
  <2>1. OnStage /\ phase # "over" /\ Mouse(world')
    BY <1>13 DEF MenuMoves, Escape, OpenMenu, ToggleBar, ReturnToGame, PauseClick, Click, Input
  <2>2. world \in Renderers /\ Alive
    BY <1>0, <2>1, OnStageIs
  <2>3. world' \in Renderers /\ UNCHANGED <<stage, changes>>
        /\ world'.visit = world.visit /\ world'.bar = world.bar
    BY <1>13, <2>2, MenuMoveIs DEF SameWorld
  <2>4. ReturnToGame => "pause" \in world.open
    BY <2>2 DEF ReturnToGame, PauseClick, PauseAgrees
  <2>5. Alive /\ ~world.bar => Fit(world', Bars')
    BY <1>13, <2>4, MenusFit DEF CursorAgrees
  <2>6. changes' # <<"world">>
    BY <1>0, <2>1, <2>3 DEF StagesAgree
  <2>7. ASSUME ~world.bar PROVE captured' = world'.accepts
    <3>1. captured = world.accepts
      BY <2>1, <2>2, <2>7 DEF CursorAgrees
    <3>2. CASE world'.accepts = world.accepts
      BY <2>1, <3>1, <3>2 DEF Mouse
    <3>3. CASE world'.accepts # world.accepts
      BY <2>1, <3>3 DEF Mouse
    <3>4. QED
      BY <3>2, <3>3
  <2>8. QED
    BY <2>2, <2>3, <2>5, <2>6, <2>7 DEF CursorAgrees
<1>14. QED
  BY <1>2, <1>3, <1>4, <1>5, <1>6, <1>7, <1>8, <1>9, <1>10, <1>11, <1>12, <1>13, ScreensNextIs

(* The pause menu is shown exactly when it is open. *)
LEMMA PauseStays ==
  ASSUME PauseAgrees, world'.visit = world.visit, world'.open = world.open, visits' = visits,
         shown' = shown
  PROVE  PauseAgrees'
BY DEF PauseAgrees, Alive

LEMMA PauseKept ==
  ASSUME ScreensBase, PauseAgrees, ScreensNext
  PROVE  PauseAgrees'
<1>0. /\ StagesAgree /\ LoopOK /\ world \in Renderers \cup {NoRenderer} /\ saved \in BOOLEAN
      /\ running \in BOOLEAN /\ viewport \in Sizes /\ visits \in 0..Visits /\ bar \in BOOLEAN
      /\ GuiOK
  BY DEF ScreensBase, RendererOK, LoopOK
<1>1. Alive => world.visit = visits
  BY <1>0 DEF StagesAgree
<1>2. CASE EndEvents \/ StagesDone \/ UpdateStages \/ UpdateWindows \/ NoClick \/ BeginInvalid
  <2>1. UNCHANGED <<world, visits, shown>>
    BY <1>2 DEF EndEvents, StagesDone, UpdateStages, UpdateWindows, NoClick, BeginInvalid, guiVars
  <2>2. QED
    BY <2>1, PauseStays
<1>3. CASE Resize \/ Take \/ Finish
  <2>1. UNCHANGED <<world, visits, shown>>
    BY <1>3 DEF Resize, Take, Finish, Input, guiVars
  <2>2. QED
    BY <2>1, PauseStays
<1>4. CASE Begin \/ Drawn \/ EndFrame
  <2>1. UNCHANGED <<visits, shown>>
    BY <1>4 DEF Begin, Drawn, EndFrame, guiVars
  <2>2. world'.visit = world.visit /\ world'.open = world.open
    BY <1>0, <1>4, BeginIs, DrawnIs, EndFrameIs
  <2>3. QED
    BY <2>1, <2>2, PauseStays
<1>5. CASE CloseWindow \/ MoveKey \/ LoseSource \/ ChangePrefs
  <2>1. UNCHANGED <<visits, shown>>
    BY <1>5 DEF CloseWindow, MoveKey, LoseSource, ChangePrefs, Input, guiVars
  <2>2. world'.visit = world.visit /\ world'.open = world.open
    BY <1>0, <1>5, CloseWindowIs, MoveKeyIs, LoseSourceIs, ChangePrefsIs DEF Alike
  <2>3. QED
    BY <2>1, <2>2, PauseStays
<1>6. CASE \E quit \in BOOLEAN : LeaveWorld(quit)
  <2>1. PICK quit \in BOOLEAN : LeaveWorld(quit)
    BY <1>6
  <2>2. UNCHANGED <<visits, shown>>
    BY <2>1 DEF LeaveWorld, guiVars
  <2>3. world'.visit = world.visit /\ world'.open = world.open
    BY <1>0, <2>1, LeaveWorldIs
  <2>4. QED
    BY <2>2, <2>3, PauseStays
<1>7. CASE Destroyed
  <2>1. ~Alive' /\ UNCHANGED <<visits, shown>>
    BY <1>7 DEF Destroyed, NoRenderer, Alive
  <2>2. QED
    BY <2>1 DEF PauseAgrees
<1>8. CASE \E multi \in BOOLEAN : OpenWorld(multi)
  <2>1. PICK multi \in BOOLEAN : OpenWorld(multi)
    BY <1>8
  <2>2. /\ world'.visit = visits' /\ world'.open = {} /\ visits' = visits + 1
    BY <1>0, <2>1, OpenWorldIs
  <2>3. \A w \in shown' : w \in shown \/ w = <<"inventory", visits'>> \/ w = <<"chat", visits'>>
    BY <1>0, <2>1, AdditionsAre
  <2>4. \A w \in shown : w[2] <= visits
    BY DEF PauseAgrees
  <2>5. visits \in Nat /\ visits' \in Nat
    BY <1>0, <2>2, ScreensNumbers
  <2>6. <<"pause", visits'>> \notin shown'
    <3>1. ASSUME <<"pause", visits'>> \in shown PROVE FALSE
      <4>1. <<"pause", visits'>>[2] <= visits
        BY <2>4, <3>1
      <4>2. QED
        BY <2>2, <2>5, <4>1
    <3>2. QED
      BY <2>3, <3>1
  <2>7. \A w \in shown' : w[2] <= visits'
    <3>1. ASSUME NEW w \in shown' PROVE w[2] <= visits'
      <4>1. CASE w \in shown
        <5>1. w[2] <= visits /\ w[2] \in Nat
          BY <1>0, <2>4, <4>1, ScreensNumbers DEF GuiOK, Window
        <5>2. QED
          BY <2>2, <2>5, <5>1
      <4>2. CASE w = <<"inventory", visits'>> \/ w = <<"chat", visits'>>
        BY <2>5, <4>2
      <4>3. QED
        BY <2>3, <3>1, <4>1, <4>2
    <3>2. QED
      BY <3>1
  <2>8. QED
    BY <2>2, <2>6, <2>7 DEF PauseAgrees
<1> DEFINE mine == <<"pause", world.visit>>
           window == <<"prefs", world.visit>>
<1>9. ASSUME world \in Renderers, world'.visit = world.visit, visits' = visits,
             \A w \in shown' : w \in shown \/ w[2] = world.visit,
             mine \in shown' <=> "pause" \in world'.open
      PROVE  PauseAgrees'
  <2>1. Alive
    BY <1>0, <1>9, AliveIs
  <2>2. visits \in Nat /\ world.visit = visits
    BY <1>0, <1>1, <2>1, ScreensNumbers
  <2>3. \A w \in shown' : w[2] <= visits'
    BY <1>9, <2>2 DEF PauseAgrees
  <2>4. QED
    BY <1>9, <2>3 DEF PauseAgrees
<1>10. Alive => (mine \in shown <=> "pause" \in world.open)
  BY DEF PauseAgrees
<1>11. CASE Preferences \/ ClosePrefs
  <2>1. /\ OnStage /\ phase # "over" /\ UNCHANGED <<world, visits>>
        /\ shown' = shown \cup {window} \/ shown' = shown \ {window}
    BY <1>11 DEF Preferences, PauseClick, ClosePrefs, Click
  <2>2. world \in Renderers /\ Alive
    BY <1>0, <2>1, OnStageIs
  <2>3. mine # window /\ window[2] = world.visit
    OBVIOUS
  <2>4. mine \in shown' <=> mine \in shown
    BY <2>1, <2>3
  <2>5. \A w \in shown' : w \in shown \/ w[2] = world.visit
    BY <2>1, <2>3
  <2>6. QED
    BY <1>9, <1>10, <2>1, <2>2, <2>4, <2>5
<1>12. CASE MenuMoves
  <2>1. OnStage /\ phase # "over"
    BY <1>12 DEF MenuMoves, Escape, OpenMenu, ToggleBar, ReturnToGame, PauseClick, Click, Input
  <2>2. world \in Renderers /\ Alive
    BY <1>0, <2>1, OnStageIs
  <2>3. world'.visit = world.visit /\ visits' = visits
    BY <1>12, <2>2, MenuMoveIs DEF SameWorld
  <2>4. ASSUME NEW w \in Renderers, w.visit = world.visit, PauseShown(w)
        PROVE  /\ mine \in shown' <=> "pause" \in w.open
               /\ \A x \in shown' : x \in shown \/ x[2] = world.visit
    <3>1. shown' = IF "pause" \in w.open THEN shown \cup {mine} ELSE shown \ {mine, window}
      BY <1>0, <2>4, PauseShownIs
    <3>2. QED
      BY <3>1
  <2>5. CASE Escape
    <3> DEFINE m == EscapeMenu(world)
    <3>1. m \in Renderers /\ m.visit = world.visit
      BY <2>2, EscapeMenuIs DEF SameWorld
    <3>2. world' = EscapeOthers(m)
      BY <2>5 DEF Escape
    <3>3. IF m.open # world.open THEN PauseShown(m) ELSE UNCHANGED <<shown, requests>>
      BY <2>5 DEF Escape
    <3> HIDE DEF m
    <3>4. "pause" \in world'.open <=> "pause" \in m.open
      BY <3>1, <3>2, EscapeOthersIs
    <3>5. CASE m.open # world.open
      BY <1>9, <2>2, <2>3, <2>4, <3>1, <3>3, <3>4, <3>5
    <3>6. CASE m.open = world.open
      BY <1>9, <1>10, <2>2, <2>3, <3>3, <3>4, <3>6
    <3>7. QED
      BY <3>5, <3>6
  <2>6. CASE \E menu \in {"inventory", "chat"} : OpenMenu(menu)
    <3>1. PICK menu \in {"inventory", "chat"} : OpenMenu(menu)
      BY <2>6
    <3> DEFINE v == [world EXCEPT !.open = world.open \cup {menu}]
    <3>2. world.open \cup {menu} \in SUBSET Menus
      BY <2>2, RendererIs DEF Menus
    <3>3. v \in Renderers /\ v.open = world.open \cup {menu}
      BY <2>2, <3>2, OpenIsRenderer
    <3>4. world' = Increment(v) /\ shown' = shown
      BY <3>1 DEF OpenMenu
    <3> HIDE DEF v
    <3>5. world'.open = v.open
      <4>1. v \in Renderers
        BY <3>3
      <4>2. QED
        BY <3>4, <4>1, IncrementIs
    <3>6. "pause" \in world'.open <=> "pause" \in world.open
      BY <3>3, <3>5
    <3>7. QED
      BY <1>9, <1>10, <2>2, <2>3, <3>4, <3>6
  <2>7. CASE ToggleBar
    <3>1. (world' = Increment(world) \/ world' = Decrement(world)) /\ shown' = shown
      BY <2>7 DEF ToggleBar
    <3>2. world'.open = world.open
      BY <2>2, <3>1, IncrementIs, DecrementIs
    <3>3. QED
      BY <2>3, <3>1, <3>2, PauseStays
  <2>8. CASE ReturnToGame
    <3>1. world' = ClosePause(world) /\ PauseShown(world')
      BY <2>8 DEF ReturnToGame
    <3> DEFINE r == ClosePause(world)
    <3>2. r \in Renderers /\ r.visit = world.visit
      BY <2>2, ClosePauseIs DEF SameWorld
    <3>3. PauseShown(r) /\ world' = r
      BY <3>1
    <3> HIDE DEF r
    <3>4. QED
      BY <1>9, <2>2, <2>3, <2>4, <3>2, <3>3
  <2>9. QED
    BY <1>12, <2>5, <2>6, <2>7, <2>8 DEF MenuMoves
<1>13. QED
  BY <1>2, <1>3, <1>4, <1>5, <1>6, <1>7, <1>8, <1>11, <1>12, ScreensNextIs

-----------------------------------------------------------------------------
(* All of it.                                                               *)

LEMMA ScreensInitIs == ScreensInit => ScreensIInv
<1> SUFFICES ASSUME ScreensInit PROVE ScreensIInv
  OBVIOUS
<1>1. ~Alive /\ ~OnStage /\ changes = <<>>
  BY DEF ScreensInit, NoRenderer, Alive, OnStage
<1>2. <<"title">> # <<>> /\ <<"world">> # <<>>
  OBVIOUS
<1>3. 0 \in 0..Visits
  BY ScreensNumbers
<1>4. LoopOK
  <2>1. 0 \in 0..QuitFrames
    BY ScreensNumbers
  <2>2. QED
    BY <2>1 DEF ScreensInit, LoopOK
<1>5. RendererOK /\ PicturesOK
  <2>1. RendererOK
    BY <1>3 DEF ScreensInit, RendererOK
  <2>2. PicturesOK
    <3>1. workerRun = FALSE /\ pics = <<>> /\ doing = Ended
      BY DEF ScreensInit
    <3>2. <<>> \in Seq(Save \cup {Poke})
      OBVIOUS
    <3>3. QED
      BY <3>1, <3>2 DEF PicturesOK
  <2>3. QED
    BY <2>1, <2>2
<1>6. GuiOK
  BY DEF ScreensInit, GuiOK
<1>7. StagesAgree
  BY <1>1, <1>2 DEF ScreensInit, StagesAgree
<1>8. ScreensBase
  BY <1>4, <1>5, <1>6, <1>7 DEF ScreensBase
<1>9. WorkerAgrees
  BY <1>1, Items DEF ScreensInit, WorkerAgrees
<1>10. PictureComes /\ PrefsComeIn
  BY <1>1 DEF PictureComes, PrefsComeIn
<1>11. LeavingSaves
  BY DEF ScreensInit, LeavingSaves
<1>12. MenusAgree
  BY <1>1 DEF ScreensInit, MenusAgree
<1>13. WindowsHaveOwners
  <2>1. Requested = {}
    <3>1. windows = {} /\ requests = <<>>
      BY DEF ScreensInit
    <3>2. After({}, <<>>) = {}
      BY AfterEmpty
    <3>3. QED
      BY <3>1, <3>2, RequestedIs
  <2>2. QED
    BY <2>1 DEF ScreensInit, WindowsHaveOwners
<1>14. QED
  BY <1>8, <1>9, <1>10, <1>11, <1>12, <1>13, ScreensIInvIs

LEMMA ScreensStutters ==
  ASSUME ScreensIInv, UNCHANGED screensVars
  PROVE  ScreensIInv'
<1>1. UNCHANGED <<running, quitFrames, stage, changes, captured, bar, viewport, phase, windows,
                  shown, requests, saved, world, workerRun, pics, doing, visits, inputs,
                  pictures, excused>>
  BY DEF screensVars, windowVars, guiVars, picVars, ghosts
<1>2. ScreensTypeOK' /\ ScreensShape' /\ StagesAgree'
  BY <1>1 DEF ScreensIInv, ScreensTypeOK, ScreensShape, StagesAgree, Alive, OnStage
<1>3. WorkerAgrees' /\ PictureComes' /\ LeavingSaves' /\ PrefsComeIn'
  BY <1>1 DEF ScreensIInv, WorkerAgrees, PictureComes, LeavingSaves, PrefsComeIn, MayLeave,
     Pictured, Alive, OnStage
<1>4. MenusAgree' /\ WindowsHaveOwners'
  BY <1>1 DEF ScreensIInv, MenusAgree, Counts, WindowsHaveOwners, Requested, Alive, OnStage
<1>5. QED
  BY <1>2, <1>3, <1>4 DEF ScreensIInv

LEMMA ScreensKept ==
  ASSUME ScreensIInv, ScreensNext
  PROVE  ScreensIInv'
<1>1. /\ ScreensBase /\ WorkerAgrees /\ PictureComes
      /\ LeavingSaves /\ PrefsComeIn /\ MenusAgree /\ WindowsHaveOwners
  BY ScreensIInvIs
<1>2. ScreensBase'
  BY <1>1, BaseKept
<1>3. WorkerAgrees' /\ PictureComes'
  BY <1>1, SaverKept, PictureComesKept
<1>4. LeavingSaves' /\ PrefsComeIn' /\ WindowsHaveOwners'
  BY <1>1, LeavingSavesKept, PrefsKept, OwnersKept
<1>5. world \in Renderers \cup {NoRenderer}
  BY <1>1 DEF ScreensBase, RendererOK
<1>6. (world \in Renderers \cup {NoRenderer})'
  BY <1>2 DEF ScreensBase, RendererOK
<1>7. CursorAgrees /\ PauseAgrees
  BY <1>1, <1>5, MenusAgreeIs
<1>8. CursorAgrees' /\ PauseAgrees'
  BY <1>1, <1>7, CursorKept, PauseKept
<1>9. (world \in Renderers \cup {NoRenderer} => (MenusAgree <=> CursorAgrees /\ PauseAgrees))'
  BY MenusAgreeIs, PTL
<1>10. MenusAgree'
  BY <1>6, <1>8, <1>9
<1>11. (ScreensIInv <=>
          /\ ScreensBase /\ WorkerAgrees /\ PictureComes
          /\ LeavingSaves /\ PrefsComeIn /\ MenusAgree /\ WindowsHaveOwners)'
  BY ScreensIInvIs, PTL
<1>12. QED
  BY <1>2, <1>3, <1>4, <1>10, <1>11

(* One menu at most, and the cursor for it. *)
LEMMA OneMenuIs ==
  ASSUME ScreensBase, CursorAgrees
  PROVE  OneMenu
<1>1. SUFFICES ASSUME OnStage, Alive, ~world.bar
               PROVE  /\ Cardinality(world.open) <= 1
                      /\ world.count = Cardinality(world.open) + (IF bar THEN 1 ELSE 0)
                      /\ captured = (world.count = 0) /\ world.accepts = captured
  BY DEF OneMenu
<1>2. world \in Renderers
  BY <1>1, AliveIs DEF ScreensBase, RendererOK
<1>3. Fit(world, Bars) /\ captured = world.accepts
  BY <1>1 DEF CursorAgrees
<1>4. Bars \in {0, 1} /\ Bars = IF bar THEN 1 ELSE 0
  BY BarsAre DEF Bars
<1>5. world.accepts = (world.count = 0)
  BY <1>2, <1>3, AcceptsIs DEF Fit
<1>6. CASE world.open = {} /\ world.count = Bars
  <2>1. Cardinality(world.open) = 0
    BY <1>6, FS_EmptySet
  <2>2. QED
    BY <1>3, <1>4, <1>5, <1>6, <2>1
<1>7. CASE (\E menu \in Menus : world.open = {menu}) /\ world.count = 1 + Bars
  <2>1. Cardinality(world.open) = 1
    BY <1>7, FS_Singleton
  <2>2. QED
    BY <1>3, <1>4, <1>5, <1>7, <2>1
<1>8. QED
  BY <1>3, <1>6, <1>7 DEF Fit

LEMMA ScreensIInvImplies == ScreensIInv => ScreensInv
<1> SUFFICES ASSUME ScreensIInv PROVE ScreensInv
  OBVIOUS
<1>1. /\ ScreensBase /\ LeavingSaves /\ PrefsComeIn /\ MenusAgree /\ WindowsHaveOwners
      /\ ScreensTypeOK
  BY ScreensIInvIs DEF ScreensIInv
<1>2. CursorAgrees
  BY <1>1, MenusAgreeIs DEF ScreensBase, RendererOK
<1>3. PrefsAreLoaded
  BY <1>1 DEF PrefsAreLoaded, PrefsComeIn, ScreensBase, StagesAgree
<1>4. QED
  BY <1>1, <1>2, <1>3, OneMenuIs, DrawnAreOwned DEF ScreensInv

(* The menus, the windows and the pictures of the worlds belong to the      *)
(* world on stage, in every behaviour: one menu is open at most and the     *)
(* cursor is there for it, no window is drawn whose renderer is gone, and a *)
(* world that was left has its picture.                                     *)
THEOREM ScreensSafe == ScreensSpec => []ScreensInv
<1>1. ScreensIInv /\ [ScreensNext]_screensVars => ScreensIInv'
  BY ScreensKept, ScreensStutters
<1>2. QED
  BY <1>1, ScreensInitIs, ScreensIInvImplies, PTL DEF ScreensSpec

=============================================================================
