------------------------------ MODULE Joining -------------------------------
(***************************************************************************)
(* The dialog from which a player joins a server                           *)
(* (src/gui/title/ServerSelector) and the keys it registers for him        *)
(* (src/web/AuthManager).  The dialog is drawn by the interface's thread,  *)
(* a worker thread talks to the web service and dials servers; the two     *)
(* share the fields below without a lock.  Keys are numbers, in the order  *)
(* they were made; 0 is no key.                                            *)
(***************************************************************************)
EXTENDS Naturals, Sequences, FiniteSets, SequencesExt

CONSTANTS Host, MaxKeys, MaxConnects, Nobody

ASSUME JoiningAssumption ==
    /\ MaxKeys \in Nat \ {0} /\ MaxConnects \in Nat
    /\ IsFiniteSet(Host) /\ Nobody \notin Host /\ {"register", "stop"} \cap Host = {}

VARIABLES
    authKeys, signer,       \* AuthManager: the key data, and `key` that signs
    stored,                 \* the key data in the preferences
    service,                \* the key the web service has for the player
    made,                   \* keys made so far
    selector,               \* "none", "up", "closing": the window and its thread
    showing, needsKeypairGen, closeRegisterModal, showLoader, errorShown,
    hurried,                \* history: keys were made though some were or were being registered
    told,                   \* history: the dialog said that the key is registered
    pending, joiner, workHost,
    isConnecting, modalOpen, connHost, connStage,
    stageOf,                \* history: the host that connStage tells of
    overtaken,              \* history: a request was made while another was under way
    connects, connectedWorld, wantsOpenWorld, entered,
    servers, selectedServer,
    picked                  \* history: the host in the row that was clicked

authVars == <<authKeys, signer, stored, service, made>>
formVars == <<showing, needsKeypairGen, closeRegisterModal, showLoader, errorShown,
              hurried, told>>
workVars == <<pending, joiner, workHost>>
connVars == <<isConnecting, modalOpen, connHost, connStage, stageOf, overtaken, connects>>
openVars == <<connectedWorld, wantsOpenWorld, entered>>
hostVars == <<servers, selectedServer, picked>>
joiningVars == <<authVars, selector, formVars, workVars, connVars, openVars, hostVars>>

WorkItem == {"register", "stop"} \cup Host

JoiningTypeOK ==
    /\ {authKeys, signer, stored, service, made} \subseteq 0..MaxKeys
    /\ selector \in {"none", "up", "closing"}
    /\ closeRegisterModal \in 0..2
    /\ joiner \in {"none", "idle", "register", "save", "dial", "auth", "made", "undefined"}
    /\ pending \in Seq(WorkItem) /\ workHost \in Host \cup {Nobody}
    /\ connStage \in {"Idle", "Dialing", "Authenticating", "LoadingChunks", "Connected", "Error"}
    /\ connHost \in Host \cup {Nobody} /\ stageOf \in Host \cup {Nobody}
    /\ modalOpen => isConnecting
    /\ wantsOpenWorld => connectedWorld \in Host
    /\ servers \in Seq(Host) /\ selectedServer \in Nat

NoRequest ==
    /\ pending = <<>> /\ workHost = Nobody
    /\ isConnecting = FALSE /\ modalOpen = FALSE /\ connHost = Nobody
    /\ connStage = "Idle" /\ stageOf = Nobody /\ overtaken = FALSE
    /\ connectedWorld = Nobody /\ wantsOpenWorld = FALSE

(* The program starts: loadKeys takes the keys, if any, from the preferences,
   and there was a web service before there was this program.                *)
JoiningInit ==
    /\ stored \in {0, 1} /\ made = stored /\ authKeys = stored /\ signer = stored
    /\ service = stored
    /\ selector = "none" /\ joiner = "none"
    /\ showing = FALSE /\ needsKeypairGen = FALSE /\ closeRegisterModal = 0
    /\ showLoader = FALSE /\ errorShown = FALSE /\ hurried = FALSE /\ told = FALSE
    /\ NoRequest /\ connects = 0 /\ entered = Nobody
    /\ servers \in {<<>>, SetToSeq(Host)} /\ selectedServer = 0 /\ picked = Nobody

-----------------------------------------------------------------------------
(* The interface's thread. *)

ListUsable == showing /\ ~needsKeypairGen /\ ~modalOpen /\ selector = "up"
KeysUsable == showing /\ needsKeypairGen /\ ~errorShown /\ selector = "up"

(* "Multi Player": the selector is made with its thread if there is none;
   clear and loadRecents reset the form, but not showLoader or a request.    *)
MultiPlayer ==
    /\ ~showing /\ selector \in {"none", "up"}
    /\ selector' = "up" /\ showing' = TRUE
    /\ needsKeypairGen' = (authKeys = 0)
    /\ closeRegisterModal' = 0 /\ selectedServer' = 0 /\ picked' = Nobody
    /\ IF selector = "none"
       THEN /\ joiner' = "idle" /\ pending' = <<>> /\ workHost' = Nobody
            /\ isConnecting' = FALSE /\ modalOpen' = FALSE /\ connHost' = Nobody
            /\ connStage' = "Idle" /\ stageOf' = Nobody /\ overtaken' = FALSE
            /\ connectedWorld' = Nobody /\ wantsOpenWorld' = FALSE
            /\ showLoader' = FALSE /\ errorShown' = FALSE
       ELSE UNCHANGED <<workVars, isConnecting, modalOpen, connHost, connStage, stageOf,
                        overtaken, connectedWorld, wantsOpenWorld, showLoader, errorShown>>
    /\ UNCHANGED <<authVars, hurried, told, connects, entered, servers>>

(* "Generate Keys", which stays while keys are registered.  generateKeys
   replaces the signing key only where there was one.                        *)
GenerateKeys ==
    /\ KeysUsable /\ made < MaxKeys
    /\ made' = made + 1 /\ authKeys' = made'
    /\ signer' = IF signer # 0 THEN made' ELSE signer
    /\ pending' = Append(pending, "register") /\ showLoader' = TRUE
    /\ hurried' = (hurried \/ stored # 0 \/ joiner \in {"register", "save"}
                         \/ Contains(pending, "register"))
    /\ UNCHANGED <<stored, service, selector, showing, needsKeypairGen, closeRegisterModal,
                   errorShown, told, joiner, workHost, connVars, openVars, hostVars>>

(* The same without a display name: an error, and the keys are left alone.
   What the worker had to say about a registration is overwritten.           *)
GenerateUnnamed ==
    /\ KeysUsable
    /\ closeRegisterModal' = 0 /\ showLoader' = FALSE /\ errorShown' = TRUE
    /\ UNCHANGED <<authVars, selector, showing, needsKeypairGen, hurried, told, workVars,
                   connVars, openVars, hostVars>>

CancelKeys ==
    /\ KeysUsable /\ ~showLoader
    /\ closeRegisterModal' = 0 /\ showing' = FALSE
    /\ UNCHANGED <<authVars, selector, needsKeypairGen, showLoader, errorShown, hurried,
                   told, workVars, connVars, openVars, hostVars>>

(* The dialog is drawn with an answer of the worker: a success closes it, an
   error forgets the keys, in memory only.                                   *)
DrawKeypairModal ==
    /\ showing /\ needsKeypairGen /\ selector = "up" /\ closeRegisterModal # 0
    /\ showLoader' = FALSE /\ closeRegisterModal' = 0
    /\ IF closeRegisterModal = 1
       THEN needsKeypairGen' = FALSE /\ told' = TRUE /\ UNCHANGED <<authKeys, errorShown>>
       ELSE authKeys' = 0 /\ errorShown' = TRUE /\ UNCHANGED <<needsKeypairGen, told>>
    /\ UNCHANGED <<signer, stored, service, made, selector, showing, hurried, workVars,
                   connVars, openVars, hostVars>>

DismissError ==
    /\ errorShown /\ showing /\ needsKeypairGen /\ selector = "up"
    /\ errorShown' = FALSE /\ closeRegisterModal' = 0
    /\ UNCHANGED <<authVars, selector, showing, needsKeypairGen, showLoader, hurried, told,
                   workVars, connVars, openVars, hostVars>>

CloseList ==
  /\ ListUsable /\ showing' = FALSE
  /\ UNCHANGED <<authVars, selector, needsKeypairGen, closeRegisterModal, showLoader,
                 errorShown, hurried, told, workVars, connVars, openVars, hostVars>>

(* A row is clicked. *)
SelectServer(i) ==
    /\ ListUsable
    /\ selectedServer' = i /\ picked' = servers[i]
    /\ UNCHANGED <<authVars, selector, formVars, workVars, connVars, openVars, servers>>

(* "Add Server": the new entry has the latest time and saveRecents sorts. *)
AddServer(h) ==
    /\ ListUsable /\ h \notin Range(servers)
    /\ servers' = <<h>> \o servers
    /\ UNCHANGED <<authVars, selector, formVars, workVars, connVars, openVars,
                   selectedServer, picked>>

(* Mutant: the selection stays. *)
RemoveSelectedOnly ==
    /\ ListUsable /\ selectedServer > 0
    /\ servers' = RemoveAt(servers, selectedServer)
    /\ UNCHANGED <<authVars, selector, formVars, workVars, connVars, openVars,
                   selectedServer, picked>>

RemoveServer ==
  /\ ListUsable /\ selectedServer > 0
  /\ servers' = RemoveAt(servers, selectedServer)
  /\ selectedServer' = 0 /\ picked' = Nobody
  /\ UNCHANGED <<authVars, selector, formVars, workVars, connVars, openVars>>

Busy == workHost # Nobody \/ \E k \in DOMAIN pending : pending[k] \in Host

(* connect: the request is queued and the popup opened; from a double click in
   the table the popup gets another identity, and the modal is never drawn.
   The entry becomes the newest and saveRecents sorts the list.              *)
Connect(i, inTable) ==
    LET h == servers[i] IN
    /\ ListUsable /\ connects < MaxConnects
    /\ pending' = Append(pending, h)
    /\ connHost' = h /\ connStage' = "Dialing" /\ stageOf' = h /\ isConnecting' = TRUE
    /\ modalOpen' = ~inTable
    /\ overtaken' = (overtaken \/ Busy) /\ connects' = connects + 1
    /\ servers' = <<h>> \o RemoveAt(servers, i)
    /\ UNCHANGED <<authVars, selector, formVars, joiner, workHost, openVars, selectedServer,
                   picked>>

ConnectSelected == selectedServer > 0 /\ Connect(selectedServer, FALSE)
DoubleClick(i) == selectedServer = i /\ Connect(i, TRUE)

(* "Abort" and the "Dismiss" of an error only close the modal. *)
CloseConnecting ==
    /\ modalOpen /\ selector = "up"
    /\ modalOpen' = FALSE /\ isConnecting' = FALSE
    /\ UNCHANGED <<authVars, selector, formVars, workVars, connHost, connStage, stageOf,
                   overtaken, connects, openVars, hostVars>>

(* startOfFrame: the world is read, then the flag is reset. *)
SelectorFrame ==
     /\ selector = "up" /\ wantsOpenWorld /\ entered = Nobody
     /\ entered' = connectedWorld
     /\ UNCHANGED <<authVars, selector, formVars, workVars, connVars, connectedWorld,
                    wantsOpenWorld, hostVars>>

(* Mutant: the thread is told by the flag only. *)
BeginCloseQuietly ==
    /\ selector = "up"
    /\ selector' = "closing" /\ showing' = FALSE /\ wantsOpenWorld' = FALSE
    /\ UNCHANGED <<authVars, needsKeypairGen, closeRegisterModal, showLoader, errorShown,
                   hurried, told, workVars, connVars, connectedWorld, entered, hostVars>>

(* openWorld replaced the title screen: it is destroyed at the next frame, or
   when a local world is opened or the program ends.                         *)
BeginClose ==
    /\ selector = "up"
    /\ selector' = "closing" /\ showing' = FALSE /\ wantsOpenWorld' = FALSE
    /\ pending' = Append(pending, "stop")
    /\ UNCHANGED <<authVars, needsKeypairGen, closeRegisterModal, showLoader, errorShown,
                   hurried, told, joiner, workHost, connVars, connectedWorld, entered, hostVars>>

(* ~ServerSelector: the thread has been joined. *)
JoinWorker ==
    /\ selector = "closing" /\ joiner = "none"
    /\ selector' = "none" /\ entered' = Nobody
    /\ UNCHANGED <<authVars, formVars, workVars, connVars, connectedWorld, wantsOpenWorld,
                   hostVars>>

-----------------------------------------------------------------------------
(* The worker. *)

(* An item is done with: workerRun is looked at before the next is awaited. *)
Idle == IF selector = "closing" THEN "none" ELSE "idle"

TakeWork ==
    /\ joiner = "idle" /\ pending # <<>>
    /\ pending' = Tail(pending)
    /\ LET item == Head(pending) IN
          /\ joiner' = CASE item = "stop" -> Idle
                         [] item = "register" -> "register"
                         [] OTHER -> "dial"
          /\ workHost' = IF item \in Host THEN item ELSE Nobody
    /\ UNCHANGED <<authVars, selector, formVars, connVars, openVars, hostVars>>

(* restRegisterKeys: without key data its result is undefined.  The service
   takes the key or not, and the answer may not arrive.                      *)
RegisterKey ==
    /\ joiner = "register"
    /\ IF authKeys = 0
       THEN joiner' = "undefined" /\ UNCHANGED <<service, closeRegisterModal>>
       ELSE \/ service' = authKeys /\ joiner' = "save" /\ UNCHANGED closeRegisterModal
            \/ /\ service' \in {service, authKeys}
               /\ joiner' = Idle /\ closeRegisterModal' = 2
    /\ UNCHANGED <<authKeys, signer, stored, made, selector, showing, needsKeypairGen,
                   showLoader, errorShown, hurried, told, pending, workHost, connVars,
                   openVars, hostVars>>

(* registerAuthKeys saves the keys that are there by now. *)
SaveKeys ==
    /\ joiner = "save"
    /\ stored' = authKeys
    /\ joiner' = Idle /\ closeRegisterModal' = 1
    /\ UNCHANGED <<authKeys, signer, service, made, selector, showing, needsKeypairGen,
                   showLoader, errorShown, hurried, told, pending, workHost, connVars,
                   openVars, hostVars>>

(* The constructor of the connection, and what authenticate may throw. *)
ConnectFails ==
    /\ joiner = "dial" \/ (joiner = "auth" /\ signer # 0)
    /\ connStage' = "Error" /\ stageOf' = workHost
    /\ joiner' = Idle /\ workHost' = Nobody
    /\ UNCHANGED <<authVars, selector, formVars, pending, isConnecting, modalOpen, connHost,
                   overtaken, connects, openVars, hostVars>>

Dialled ==
    /\ joiner = "dial"
    /\ joiner' = "auth" /\ connStage' = "Authenticating" /\ stageOf' = workHost
    /\ UNCHANGED <<authVars, selector, formVars, pending, workHost, isConnecting, modalOpen,
                   connHost, overtaken, connects, openVars, hostVars>>

(* authenticate returns; without a key to sign with it does not. *)
SourceMade ==
    /\ joiner = "auth" /\ signer # 0
    /\ connectedWorld' = workHost /\ joiner' = "made"
    /\ connStage' = "Connected" /\ stageOf' = workHost
    /\ UNCHANGED <<authVars, selector, formVars, pending, workHost, isConnecting, modalOpen,
                   connHost, overtaken, connects, wantsOpenWorld, entered, hostVars>>

(* A third of a second later. *)
WantOpen ==
    /\ joiner = "made"
    /\ wantsOpenWorld' = TRUE /\ joiner' = Idle /\ workHost' = Nobody
    /\ UNCHANGED <<authVars, selector, formVars, pending, connVars, connectedWorld, entered,
                   hostVars>>

(* The program ends in any state and is started again. *)
Restart ==
    /\ authKeys' = stored /\ signer' = stored
    /\ selector' = "none" /\ joiner' = "none" /\ showing' = FALSE
    /\ needsKeypairGen' = FALSE /\ closeRegisterModal' = 0
    /\ showLoader' = FALSE /\ errorShown' = FALSE
    /\ pending' = <<>> /\ workHost' = Nobody /\ isConnecting' = FALSE /\ modalOpen' = FALSE
    /\ connHost' = Nobody /\ connStage' = "Idle" /\ stageOf' = Nobody /\ overtaken' = FALSE
    /\ connectedWorld' = Nobody /\ wantsOpenWorld' = FALSE /\ entered' = Nobody
    /\ selectedServer' = 0 /\ picked' = Nobody
    /\ UNCHANGED <<stored, service, made, hurried, told, connects, servers>>

DialogSteps ==
    \/ MultiPlayer \/ GenerateKeys \/ GenerateUnnamed \/ CancelKeys \/ DrawKeypairModal
    \/ DismissError \/ CloseList \/ RemoveServer \/ ConnectSelected \/ CloseConnecting
    \/ SelectorFrame \/ BeginClose \/ JoinWorker
    \/ \E i \in DOMAIN servers : SelectServer(i) \/ DoubleClick(i)
    \/ \E h \in Host : AddServer(h)
WorkerSteps ==
    TakeWork \/ RegisterKey \/ SaveKeys \/ ConnectFails \/ Dialled \/ SourceMade \/ WantOpen

JoiningNext == DialogSteps \/ WorkerSteps \/ Restart

(* The worker goes on, its network calls end, and the destructor's join does. *)
JoiningFairness == WF_joiningVars(WorkerSteps) /\ WF_joiningVars(JoinWorker)

JoiningSpec == JoiningInit /\ [][JoiningNext]_joiningVars /\ JoiningFairness

-----------------------------------------------------------------------------
(* What is selected exists: "Connect" and "Remove Selected" index the list
   without a check, and the list is sorted, added to and cut meanwhile.      *)
SelectedExists == selectedServer > 0 => selectedServer \in DOMAIN servers

(* The keys that the preferences hold, with which the player will sign after
   a restart, are those that the service has for him, unless new ones were
   made during or after a registration.                                      *)
KeysAgree == ~hurried /\ stored # 0 => stored = service

(* The stage or error in the modal is that of the host it names, unless a
   request was made while an earlier one was under way.                      *)
StageIsOfHost == modalOpen /\ ~overtaken => stageOf = connHost

(* The destructor ends: it joins a worker that may be anywhere in a request.
   It does not where the worker is in authenticate without a key to sign.    *)
SelectorCloses ==
    []<>(selector = "closing" => joiner = "undefined" \/ (joiner = "auth" /\ signer = 0))

(* Refuted: what the dialog says, "The keypair was successfully registered. You may
   now connect to multi player servers."                                     *)
RegisteredMayConnect == told /\ joiner = "auth" => signer # 0

(* Refuted: what the tooltip says, "Deletes the selected server from the list".            *)
RemoveDeletesSelected ==
    [][\A h \in Range(servers) : h \notin Range(servers') => h = picked]_joiningVars

(* The list, the keys and the dialogs of the server selector agree with its
   worker. *)
JoiningInv ==
    JoiningTypeOK /\ SelectedExists /\ KeysAgree /\ StageIsOfHost
=============================================================================
