------------------------------ MODULE Chatting ------------------------------
(***************************************************************************)
(* Chat, and who is on the server: server/net/handlers/Chat has one thread *)
(* that tells all clients of messages, of players who join and of those    *)
(* who leave; Auth::getConnectedUsers lists who is there.  At the client   *)
(* the connection's worker calls back to src/chat/Manager and Window,      *)
(* while the main thread makes the chat and waits for the list.            *)
(***************************************************************************)
EXTENDS Naturals, Sequences, FiniteSets

CONSTANTS
    Person,         \* players; each connects once
    MaxMessages,    \* bound: messages that are sent
    MaxPending,     \* bound: a message is sent while fewer items are queued
    Nobody

ASSUME ChattingAssumption == MaxMessages \in Nat /\ MaxPending \in Nat /\ Nobody \notin Person

VARIABLES
    (* server *)
    present,        \* by player: "out", "in" (authenticated), "told", "leaving", "left"
    broadcastQueue,
    listing,        \* by player, the list its thread has made, or {Nobody}
    (* from server to client *)
    inbox,
    (* client *)
    chat,           \* "none", "asked", "listed" (the future is ready), "open"
    received,       \* the list that came
    info, scrollback,
    dropped,        \* who made the worker throw, or Nobody
    (* history *)
    sentMessages,
    audience,       \* by message, whose chat was there when it was queued
    presentAtStart  \* by player, who was there when its chat was made

chatServerVars == <<present, broadcastQueue, listing>>
chatClientVars == <<chat, received, info, scrollback, dropped>>
chatHistory == <<sentMessages, audience, presentAtStart>>
chattingVars == <<chatServerVars, inbox, chatClientVars, chatHistory>>

Item == [kind : {"message", "joined", "left"}, who : Person, n : 0..MaxMessages,
         names : {{}}]
Listed == [kind : {"list"}, who : {Nobody}, n : {0}, names : SUBSET Person]

ChattingTypeOK ==
    /\ present \in [Person -> {"out", "in", "told", "leaving", "left"}]
    /\ broadcastQueue \in Seq(Item)
    /\ listing \in [Person -> (SUBSET Person) \cup {{Nobody}}]
    /\ inbox \in [Person -> Seq(Item \cup Listed)]
    /\ chat \in [Person -> {"none", "asked", "listed", "open"}]
    /\ received \in [Person -> SUBSET Person] /\ info \in [Person -> SUBSET Person]
    /\ scrollback \in [Person -> Seq(1..MaxMessages)]
    /\ dropped \in [Person -> Person \cup {Nobody}]
    /\ sentMessages \in 0..MaxMessages

ChattingInit ==
    /\ present = [p \in Person |-> "out"] /\ broadcastQueue = <<>>
    /\ listing = [p \in Person |-> {Nobody}]
    /\ inbox = [p \in Person |-> <<>>]
    /\ chat = [p \in Person |-> "none"]
    /\ received = [p \in Person |-> {}] /\ info = [p \in Person |-> {}]
    /\ scrollback = [p \in Person |-> <<>>] /\ dropped = [p \in Person |-> Nobody]
    /\ sentMessages = 0 /\ audience = [n \in 1..MaxMessages |-> {}]
    /\ presentAtStart = [p \in Person |-> {}]

NewItem(k, p, n) == [kind |-> k, who |-> p, n |-> n, names |-> {}]
Here(p) == present[p] \in {"in", "told", "leaving"}     \* getClientId has a value
Works(p) == present[p] \in {"in", "told"} /\ dropped[p] = Nobody

-----------------------------------------------------------------------------
(* The server's threads for the clients. *)

Join(p) ==
    /\ present[p] = "out"
    /\ present' = [present EXCEPT ![p] = "in"]
    /\ UNCHANGED <<broadcastQueue, listing, inbox, chatClientVars, chatHistory>>

(* Mutant: nobody is told. *)
PlayerJoinedQuietly(p) ==
    /\ present[p] = "in"
    /\ present' = [present EXCEPT ![p] = "told"]
    /\ UNCHANGED <<broadcastQueue, listing, inbox, chatClientVars, chatHistory>>

PlayerJoined(p) ==
    /\ present[p] = "in"
    /\ broadcastQueue' = Append(broadcastQueue, NewItem("joined", p, 0))
    /\ present' = [present EXCEPT ![p] = "told"]
    /\ UNCHANGED <<listing, inbox, chatClientVars, chatHistory>>

PlayerMessage(p) ==
    /\ present[p] = "told" /\ chat[p] = "open" /\ dropped[p] = Nobody
    /\ sentMessages < MaxMessages /\ Len(broadcastQueue) < MaxPending
    /\ sentMessages' = sentMessages + 1
    /\ broadcastQueue' = Append(broadcastQueue, NewItem("message", p, sentMessages'))
    /\ audience' = [audience EXCEPT ![sentMessages'] = {q \in Person : Here(q) /\ chat[q] # "none"}]
    /\ UNCHANGED <<present, listing, inbox, chatClientVars, presentAtStart>>

(* getConnectedUsers: the list is made under the listener's lock, and sent
   after that.                                                               *)
ListUsers(p) ==
    /\ present[p] = "told" /\ chat[p] = "asked" /\ listing[p] = {Nobody}
    /\ ~\E i \in DOMAIN inbox[p] : inbox[p][i].kind = "list"
    /\ listing' = [listing EXCEPT ![p] = {q \in Person : Here(q)}]
    /\ UNCHANGED <<present, broadcastQueue, inbox, chatClientVars, chatHistory>>

SendList(p) ==
    /\ present[p] = "told" /\ listing[p] # {Nobody}
    /\ inbox' = [inbox EXCEPT ![p] =
            Append(@, [kind |-> "list", who |-> Nobody, n |-> 0, names |-> listing[p]])]
    /\ listing' = [listing EXCEPT ![p] = {Nobody}]
    /\ UNCHANGED <<present, broadcastQueue, chatClientVars, chatHistory>>

(* The connection has ended, by the player's wish or as the worker threw: the
   others are told first, then the client is removed.                        *)
PlayerLeft(p) ==
    /\ present[p] = "told" /\ listing[p] = {Nobody}
    /\ broadcastQueue' = Append(broadcastQueue, NewItem("left", p, 0))
    /\ present' = [present EXCEPT ![p] = "leaving"]
    /\ UNCHANGED <<listing, inbox, chatClientVars, chatHistory>>

Removed(p) ==
    /\ present[p] = "leaving"
    /\ present' = [present EXCEPT ![p] = "left"]
    /\ inbox' = [inbox EXCEPT ![p] = <<>>]
    /\ UNCHANGED <<broadcastQueue, listing, chatClientVars, chatHistory>>

-----------------------------------------------------------------------------
(* The broadcaster: the first item goes to all who are authenticated; what is
   written to a client that has closed is lost.                              *)

BroadcasterMain ==
    /\ broadcastQueue # <<>>
    /\ broadcastQueue' = Tail(broadcastQueue)
    /\ inbox' = [p \in Person |-> IF Here(p) /\ dropped[p] = Nobody
                              THEN Append(inbox[p], Head(broadcastQueue))
                              ELSE inbox[p]]
    /\ UNCHANGED <<present, listing, chatClientVars, chatHistory>>

-----------------------------------------------------------------------------
(* The client.  The manager registers its callback and asks for the list; the
   main thread is blocked until the list is there.                           *)

MakeChat(p) ==
    /\ Works(p) /\ chat[p] = "none"
    /\ chat' = [chat EXCEPT ![p] = "asked"]
    /\ presentAtStart' = [presentAtStart EXCEPT ![p] = {q \in Person : present[q] # "out"}]
    /\ UNCHANGED <<chatServerVars, inbox, received, info, scrollback, dropped,
                   sentMessages, audience>>

InsertPlayers(p) ==
    /\ chat[p] = "listed"
    /\ chat' = [chat EXCEPT ![p] = "open"]
    /\ info' = [info EXCEPT ![p] = @ \cup received[p]]
    /\ received' = [received EXCEPT ![p] = {}]
    /\ UNCHANGED <<chatServerVars, inbox, scrollback, dropped, chatHistory>>

(* The worker handles a packet.  Without a callback nothing happens; a player
   who left has to be known, or at() throws and the worker ends.             *)
Receive(p) ==
    /\ Works(p) /\ inbox[p] # <<>>
    /\ inbox' = [inbox EXCEPT ![p] = Tail(@)]
    /\ UNCHANGED <<chatServerVars, chatHistory>>

ConnectedReply(p) ==
    /\ Receive(p)
    /\ Head(inbox[p]).kind = "list"
    /\ received' = [received EXCEPT ![p] = Head(inbox[p]).names]
    /\ chat' = [chat EXCEPT ![p] = "listed"]
    /\ UNCHANGED <<info, scrollback, dropped>>

ChatEvent(p) ==
    /\ Receive(p)
    /\ LET m == Head(inbox[p]) IN
        \/ /\ m.kind # "list" /\ chat[p] = "none"
           /\ UNCHANGED <<info, scrollback, dropped>>
        \/ /\ m.kind = "message" /\ chat[p] # "none"
           /\ scrollback' = [scrollback EXCEPT ![p] = Append(@, m.n)]
           /\ UNCHANGED <<info, dropped>>
        \/ /\ m.kind = "joined" /\ chat[p] # "none"
           /\ info' = [info EXCEPT ![p] = @ \cup {m.who}]
           /\ UNCHANGED <<scrollback, dropped>>
        \/ /\ m.kind = "left" /\ chat[p] # "none"
           /\ dropped' = IF m.who \in info[p] THEN dropped ELSE [dropped EXCEPT ![p] = m.who]
           /\ UNCHANGED <<info, scrollback>>
    /\ UNCHANGED <<chat, received>>

ChattingNext ==
    \/ BroadcasterMain
    \/ \E p \in Person :
        \/ Join(p) \/ PlayerJoined(p) \/ PlayerMessage(p) \/ ListUsers(p) \/ SendList(p)
        \/ PlayerLeft(p) \/ Removed(p)
        \/ MakeChat(p) \/ InsertPlayers(p) \/ ConnectedReply(p) \/ ChatEvent(p)

ChattingSpec == ChattingInit /\ [][ChattingNext]_chattingVars

-----------------------------------------------------------------------------
(* All players see the messages in one order, and none of them twice. *)
OneOrder ==
    \A p \in Person : \A i, j \in DOMAIN scrollback[p] :
        i < j => scrollback[p][i] < scrollback[p][j]

(* The list and the news of those who join leave no gap: when all is delivered,
   a player with an open chat knows everyone who is there. *)
EveryoneIsKnown ==
    \A p \in Person :
        /\ Works(p) /\ chat[p] = "open" /\ inbox[p] = <<>> /\ broadcastQueue = <<>>
        => \A q \in Person : present[q] = "told" => q \in info[p]

(* A client is dropped by the news of one who left (Window.cpp:178 throws)
   only if that player had joined before its chat was made: the news of one who
   came later never overtakes that of his coming. *)
DroppedByEarlierOnly ==
    \A p \in Person : dropped[p] # Nobody => dropped[p] \in presentAtStart[p] \ {p}

(* A message comes to everyone who had a chat when it was sent and stays: there
   is no time between the making of the chat and the list when it is lost. *)
MessagesArrive ==
    \A p \in Person : Works(p) /\ inbox[p] = <<>> /\ broadcastQueue = <<>> =>
        \A n \in 1..MaxMessages : p \in audience[n] =>
            \E i \in DOMAIN scrollback[p] : scrollback[p][i] = n

(* Players share one chat: its messages, their order and the list of who is there. *)
ChattingInv ==
    ChattingTypeOK /\ OneOrder /\ EveryoneIsKnown /\ DroppedByEarlierOnly /\ MessagesArrive
=============================================================================
