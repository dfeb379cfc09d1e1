----------------------------- MODULE MCSessions -----------------------------
(***************************************************************************)
(* The sessions of the server with its clients, for TLC: the connections   *)
(* and threads of the listener, logins, requests for what is saved, and chunks *)
(* that are on their way.  They share no variable: a behaviour is one of the *)
(* part that was chosen at the start.                                      *)
(***************************************************************************)
EXTENDS Listener, Login, Requests, Transfer, TLC

CONSTANTS c1, c2, ann, bob, p1,
          Parts           \* those that a run is about

VARIABLE part

partVars == <<part, listenerVars, loginVars, requestsVars, transferVars>>

TwoOrOne == {(c1 :> ann) @@ (c2 :> p) : p \in {ann, bob}}
OneSlice == (p1 :> 1)
Gets == (c1 :> 2) @@ (c2 :> 1)

(* The parts that were not chosen are at one of their initial states. *)
SessionsInit ==
    /\ part \in Parts
    /\ ListenerInit
    /\ LoginInit
    /\ RequestsInit
    /\ TransferInit
    /\ part = "login" \/ ((\A p \in Player : keyDb[p] = NoOne) /\ owner[c2] = ann)

SessionsNext ==
    /\ UNCHANGED part
    /\ \/ /\ part = "listener" /\ ListenerNext
          /\ UNCHANGED <<loginVars, requestsVars, transferVars>>
       \/ /\ part = "login" /\ LoginNext
          /\ UNCHANGED <<listenerVars, requestsVars, transferVars>>
       \/ /\ part = "requests" /\ RequestsNext
          /\ UNCHANGED <<listenerVars, loginVars, transferVars>>
       \/ /\ part = "transfer" /\ TransferNext
          /\ UNCHANGED <<listenerVars, loginVars, requestsVars>>

(* What the parts assume of the threads that they are about. *)
SessionsFairness ==
    /\ WF_listenerVars(part = "listener" /\ System)
    /\ \A c \in Client : WF_loginVars(part = "login" /\ LoginSteps(c))
    /\ WF_requestsVars(part = "requests" /\ PoolThread)
    /\ WF_requestsVars(part = "requests" /\ Serve)
    /\ WF_requestsVars(part = "requests" /\ ReceivedKey)
    /\ WF_requestsVars(part = "requests" /\ CloseSource)
    /\ \A c \in Getter : WF_transferVars(part = "transfer" /\ ConnectionThread(c))
    /\ \A c \in Getter : WF_transferVars(part = "transfer" /\ ClientPool(c))
    /\ WF_transferVars(part = "transfer" /\ \E l \in loads : LoadStep(l))

SessionsSpec == SessionsInit /\ [][SessionsNext]_partVars /\ SessionsFairness

-----------------------------------------------------------------------------
(* Whatever is asked for is answered, and what was started ends: the server *)
(* after SIGINT, a login, a call of a thread that waits, a chunk that a      *)
(* client asked for.  And what a player set last is what a get returns.      *)
SessionsSettle ==
    ShutdownEnds /\ LoginSettles /\ GetsReturn /\ ReadsOwnWrites /\ ChunksArrive
=============================================================================
