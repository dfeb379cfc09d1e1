------------------------------ MODULE Requests ------------------------------
(***************************************************************************)
(* Player and world info of a remote world.  A caller of RemoteSource      *)
(* (src/world/RemoteSource.cpp) has a thread of the source's pool send the *)
(* request and wait for the answer, which the connection's worker brings   *)
(* to the handlers src/net/handlers/PlayerInfo and WorldInfo; the server   *)
(* answers in server/net/handlers/PlayerInfo and WorldInfo.  Each player   *)
(* info key has one caller (position, inventory or time); values are the   *)
(* numbers of a key's writes.  The key that is world info is read only,    *)
(* is pushed once to the client's cache, and its caller waits two seconds. *)
(***************************************************************************)
EXTENDS Naturals, Sequences, FiniteSets, SequencesExt

CONSTANTS PlayerKey, WorldKey, Threads, MaxCalls

ASSUME RequestsAssumption ==
    /\ Threads \in Nat \ {0} /\ MaxCalls \in Nat /\ PlayerKey \cap WorldKey = {}
    /\ IsFiniteSet(WorldKey)

Key == PlayerKey \cup WorldKey

VARIABLES
    call,           \* by key, what its caller waits for: "none", "get", "set"
    calls,          \* calls so far, for the bound
    lastSet,        \* by key, the last value the caller set
    got,            \* by key, what the last get returned
    queue, running, \* the source's pool: items that wait, items threads are at
    phase,          \* "open", "cleanup" (its destructor joins the pool), "closed"
    requests,       \* keys with a promise in the handlers
    cached,         \* keys in the cache of world info
    linkUp,         \* the connection's worker runs
    asks, answers,
    stored,         \* by key, the server's value
    late            \* history: a promise was satisfied that nobody waited for

requestsVars == <<call, calls, lastSet, got, queue, running, phase, requests, cached, linkUp,
                  asks, answers, stored, late>>

Work == [op : {"get", "set"}, key : Key, value : Nat]
Parcel == [op : {"get", "set", "reply"}, key : Key, value : Nat]

RequestsTypeOK ==
    /\ call \in [Key -> {"none", "get", "set"}]
    /\ queue \in Seq(Work)
    /\ running \subseteq Work /\ Cardinality(running) <= Threads
    /\ phase \in {"open", "cleanup", "closed"}
    /\ asks \in Seq(Parcel) /\ answers \in Seq(Parcel)
    /\ requests \subseteq {w.key : w \in running} /\ cached \subseteq WorldKey
    /\ \A k \in Key : stored[k] <= lastSet[k]

Item(op, k, v) == [op |-> op, key |-> k, value |-> v]

(* authStateChanged pushed the world's id. *)
RequestsInit ==
    /\ call = [k \in Key |-> "none"] /\ calls = 0
    /\ lastSet = [k \in Key |-> 0] /\ got = lastSet /\ stored = lastSet
    /\ queue = <<>> /\ running = {} /\ phase = "open"
    /\ requests = {} /\ cached = {} /\ linkUp = TRUE
    /\ asks = <<>> /\ answers = SetToSeq({Item("reply", k, 0) : k \in WorldKey})
    /\ late = FALSE

-----------------------------------------------------------------------------
(* Callers. *)

GetInfo(k) ==
    /\ phase = "open" /\ call[k] = "none" /\ calls < MaxCalls
    /\ call' = [call EXCEPT ![k] = "get"] /\ calls' = calls + 1
    /\ queue' = Append(queue, Item("get", k, 0))
    /\ UNCHANGED <<lastSet, got, running, phase, requests, cached, linkUp, asks, answers,
                   stored, late>>

SetInfo(k) ==
    /\ phase = "open" /\ call[k] = "none" /\ calls < MaxCalls
    /\ call' = [call EXCEPT ![k] = "set"] /\ calls' = calls + 1
    /\ lastSet' = [lastSet EXCEPT ![k] = @ + 1]
    /\ queue' = Append(queue, Item("set", k, lastSet[k] + 1))
    /\ UNCHANGED <<got, running, phase, requests, cached, linkUp, asks, answers, stored,
                   late>>

(* The two seconds are over; the promise goes with the caller's frame. *)
GiveUp(k) ==
    /\ k \in WorldKey /\ call[k] = "get"
    /\ call' = [call EXCEPT ![k] = "none"]
    /\ UNCHANGED <<calls, lastSet, got, queue, running, phase, requests, cached, linkUp,
                   asks, answers, stored, late>>

Ends(k) == call' = [call EXCEPT ![k] = "none"]

-----------------------------------------------------------------------------
(* A thread of the pool. *)

Write(op, k, v) == asks' = IF linkUp THEN Append(asks, Item(op, k, v)) ELSE asks

(* The next item is taken: a get leaves a promise and the request, unless the
   value is in the cache, or throws where a promise for the key is waited for;
   a set is ready to be written.                                             *)
Take ==
    /\ queue # <<>> /\ Cardinality(running) < Threads /\ phase # "closed"
    /\ LET w == Head(queue) IN
         /\ queue' = Tail(queue)
         /\ IF w.op = "set" THEN /\ running' = running \cup {w}
                                 /\ UNCHANGED <<call, asks, late, requests>>
            ELSE IF w.key \in cached \cup requests
            THEN /\ Ends(w.key) /\ late' = (late \/ call[w.key] # "get")
                 /\ UNCHANGED <<running, asks, requests>>
            ELSE /\ running' = running \cup {w} /\ requests' = requests \cup {w.key}
                 /\ Write("get", w.key, 0)
                 /\ UNCHANGED <<call, late>>
    /\ UNCHANGED <<calls, lastSet, got, phase, cached, linkUp, answers, stored>>

WriteSet(w) ==
    /\ w \in running /\ w.op = "set"
    /\ running' = running \ {w}
    /\ Write("set", w.key, w.value)
    /\ call' = [call EXCEPT ![w.key] = IF @ = "set" THEN "none" ELSE @]
    /\ UNCHANGED <<calls, lastSet, got, queue, phase, requests, cached, linkUp, answers,
                   stored, late>>

-----------------------------------------------------------------------------
(* The server's thread of the connection, and the connection's worker. *)

(* handleGet waits for the world's answer, handleSet for the world's write. *)
Serve ==
    /\ linkUp /\ asks # <<>>
    /\ asks' = Tail(asks)
    /\ LET m == Head(asks) IN
         IF m.op = "get"
         THEN /\ answers' = Append(answers, Item("reply", m.key, stored[m.key]))
              /\ UNCHANGED stored
         ELSE stored' = [stored EXCEPT ![m.key] = m.value] /\ UNCHANGED answers
    /\ UNCHANGED <<call, calls, lastSet, got, queue, running, phase, requests, cached, linkUp,
                   late>>

(* receivedKey: the thread that waits for the promise goes on, and its caller
   with it.  World info may come without having been asked for.              *)
ReceivedKey ==
    /\ linkUp /\ answers # <<>>
    /\ LET m == Head(answers) IN
         /\ answers' = Tail(answers)
         /\ cached' = IF m.key \in WorldKey THEN cached \cup {m.key} ELSE cached
         /\ IF m.key \in requests
            THEN /\ requests' = requests \ {m.key}
                 /\ running' = running \ {Item("get", m.key, 0)}
                 /\ late' = (late \/ call[m.key] # "get")
                 /\ got' = [got EXCEPT ![m.key] = m.value] /\ Ends(m.key)
            ELSE UNCHANGED <<requests, running, late, got, call>>
    /\ UNCHANGED <<calls, lastSet, queue, phase, linkUp, asks, stored>>

(* The connection breaks; "TODO: notify whatever handlers we've got". *)
Break ==
    /\ linkUp /\ linkUp' = FALSE /\ asks' = <<>> /\ answers' = <<>>
    /\ UNCHANGED <<call, calls, lastSet, got, queue, running, phase, requests, cached, stored,
                   late>>

(* ~RemoteSource: the pool is stopped first, then the connection closed. *)
Cleanup ==
    /\ phase = "open" /\ phase' = "cleanup"
    /\ UNCHANGED <<call, calls, lastSet, got, queue, running, requests, cached, linkUp,
                   asks, answers, stored, late>>

(* Mutant: the threads are not joined. *)
CloseAtOnce ==
    /\ phase = "cleanup"
    /\ phase' = "closed" /\ linkUp' = FALSE /\ queue' = <<>>
    /\ asks' = <<>> /\ answers' = <<>>
    /\ UNCHANGED <<call, calls, lastSet, got, running, requests, cached, stored, late>>

CloseSource ==
    /\ phase = "cleanup" /\ running = {}
    /\ phase' = "closed" /\ linkUp' = FALSE /\ queue' = <<>>
    /\ asks' = <<>> /\ answers' = <<>>
    /\ UNCHANGED <<call, calls, lastSet, got, running, requests, cached, stored, late>>

PoolThread == Take \/ \E w \in running : WriteSet(w)

RequestsNext ==
    \/ \E k \in Key : GetInfo(k) \/ GiveUp(k)
    \/ \E k \in PlayerKey : SetInfo(k)
    \/ PoolThread \/ Serve \/ ReceivedKey \/ Break \/ Cleanup \/ CloseSource

(* The pool's threads, the server and the connection's worker go on. *)
RequestsFairness ==
    /\ WF_requestsVars(PoolThread) /\ WF_requestsVars(Serve) /\ WF_requestsVars(ReceivedKey)
    /\ WF_requestsVars(CloseSource)

RequestsSpec == RequestsInit /\ [][RequestsNext]_requestsVars /\ RequestsFairness

-----------------------------------------------------------------------------
Under(k) ==
    \/ \E w \in running \cup ToSet(queue) : w.op = "set" /\ w.key = k
    \/ \E i \in DOMAIN asks : asks[i].op = "set" /\ asks[i].key = k

(* Of what is set for a key, by threads of a pool of two, the last stays. *)
LastSetStays ==
    \A k \in PlayerKey : linkUp /\ phase = "open" /\ ~Under(k) => stored[k] = lastSet[k]

(* A player info get that returns gives what the player set last. *)
ReadsOwnWrites ==
    [][\A k \in PlayerKey :
        call[k] = "get" /\ call'[k] = "none" => got'[k] = lastSet[k]]_requestsVars

(* The source is gone only when no thread of its pool waits for an answer. *)
NobodyIsLeft == phase = "closed" => running = {} /\ requests = {}

(* A get returns, as long as the connection and the source last. *)
GetsReturn == \A k \in Key : []<>(call[k] = "get" => ~linkUp \/ phase # "open")

(* Refuted: the destructor's comment, "Shuts down all of the worker threads and ensures
   the server connection is closed."                                         *)
SourceCloses == phase = "cleanup" ~> phase = "closed"

(* Refuted: a promise is satisfied while its owner waits. *)
NoLatePromise == ~late

(* What is stored for a player is what was set last, and nobody waits for a
   source that is gone. *)
RequestsInv ==
    RequestsTypeOK /\ LastSetStays /\ NobodyIsLeft
=============================================================================
