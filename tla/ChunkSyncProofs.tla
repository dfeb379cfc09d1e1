--------------------------- MODULE ChunkSyncProofs ---------------------------
(***************************************************************************)
(* Theorems about ChunkSync, for any number of clients, slices, changes    *)
(* and loads.                                                              *)
(***************************************************************************)
EXTENDS ChunkSync, SequenceTheorems, WellFoundedInduction, TLAPS

-----------------------------------------------------------------------------
(* Packets and their queues *)

LEMMA PacketFields ==
  ASSUME NEW p \in Packet
  PROVE  /\ p.type \in {"slice", "delta", "report"} =>
               p.s \in Slice /\ p.v \in Value
         /\ p.type \in {"slice", "done", "delta", "get", "stop", "report"}
  BY DEF Packet

LEMMA PacketMade ==
  ASSUME NEW s \in Slice, NEW v \in Value
  PROVE  /\ \A t \in {"slice", "delta", "report"} : Msg(t, s, v) \in Packet
         /\ \A t \in {"done", "get", "stop"} : Msg(t, None, None) \in Packet
  BY DEF Packet, Msg

LEMMA RequestMade ==
  \A t \in {"done", "get", "stop"} : Msg(t, None, None) \in Packet
  BY DEF Packet, Msg

(* A queue of one client changes to a queue. *)
LEMMA QueueUpdated ==
  ASSUME NEW q \in [Client -> Seq(Packet)], NEW c \in Client,
         NEW r \in Seq(Packet)
  PROVE  [q EXCEPT ![c] = r] \in [Client -> Seq(Packet)]
  OBVIOUS

LEMMA QueueTail ==
  ASSUME NEW q \in Seq(Packet), q # <<>>
  PROVE  /\ Head(q) \in Packet
         /\ Tail(q) \in Seq(Packet)
  OBVIOUS

LEMMA QueueAppend ==
  ASSUME NEW q \in Seq(Packet), NEW p \in Packet
  PROVE  Append(q, p) \in Seq(Packet)
  OBVIOUS

-----------------------------------------------------------------------------
(* Type correctness *)

LEMMA TypeInit == Init => TypeOK
  BY ChunkSyncAssumption
  DEF Init, TypeOK, NoParts, Value, Reason

LEMMA TypeClose ==
  ASSUME TypeOK, NEW c \in Client, NEW why \in Reason, Close(c, why)
  PROVE  /\ up' \in [Client -> Seq(Packet)]
         /\ down' \in [Client -> Seq(Packet)]
         /\ ended' \in [Client -> Reason \cup {None}]
<1>1. <<>> \in Seq(Packet)
  OBVIOUS
<1>2. QED
  BY <1>1 DEF TypeOK, Close

LEMMA TypeGame ==
  ASSUME TypeOK, NEW c \in Client,
         Get(c) \/ (\E s \in Slice : Edit(c, s)) \/ Prune(c) \/ Deregister(c)
  PROVE  TypeOK'
<1>1. CASE Get(c)
  <2>1. up' \in [Client -> Seq(Packet)]
    BY <1>1, RequestMade, QueueAppend, QueueUpdated DEF Get, TypeOK
  <2>2. gets' \in [Client -> 0..MaxGets]
    BY <1>1, ChunkSyncAssumption DEF Get, TypeOK
  <2>3. /\ loader' \in [Client -> {"out", "loading", "loaded"}]
        /\ parts' \in [Client -> [Slice -> Value \cup {None}]]
        /\ suppressed' \in [Client -> SUBSET Slice]
    BY <1>1 DEF Get, TypeOK, NoParts
  <2>4. QED
    BY <1>1, <2>1, <2>2, <2>3 DEF Get, TypeOK, server, applying
<1>2. CASE \E s \in Slice : Edit(c, s)
  <2>1. PICK s \in Slice : Edit(c, s)
    BY <1>2
  <2>2. edits' \in 0..MaxEdits /\ edits + 1 \in Value
    BY <2>1, ChunkSyncAssumption DEF Edit, TypeOK, Value
  <2>3. mem' \in [Client -> [Slice -> Value \cup {None}]]
    BY <2>1, <2>2 DEF Edit, TypeOK
  <2>4. CASE c \in inhibit
    <3>1. /\ suppressed' = [suppressed EXCEPT ![c] = @ \cup {s}]
          /\ up' = up
      BY <2>1, <2>4 DEF Edit
    <3>2. suppressed' \in [Client -> SUBSET Slice]
      BY <3>1 DEF TypeOK
    <3>3. QED
      BY <2>1, <2>2, <2>3, <3>1, <3>2 DEF Edit, TypeOK, server, applying
  <2>5. CASE c \notin inhibit
    <3>1. /\ up' = [up EXCEPT ![c] = Append(@, Msg("report", s, edits + 1))]
          /\ suppressed' = suppressed
      BY <2>1, <2>5 DEF Edit
    <3>2. Msg("report", s, edits + 1) \in Packet
      BY <2>2, PacketMade
    <3>3. up' \in [Client -> Seq(Packet)]
      BY <3>1, <3>2, QueueAppend, QueueUpdated DEF TypeOK
    <3>4. QED
      BY <2>1, <2>2, <2>3, <3>1, <3>3 DEF Edit, TypeOK, server, applying
  <2>6. QED
    BY <2>4, <2>5
<1>3. CASE Prune(c)
  <2>1. /\ loader' \in [Client -> {"out", "loading", "loaded"}]
        /\ mem' \in [Client -> [Slice -> Value \cup {None}]]
        /\ stale' \subseteq Client
    BY <1>3 DEF Prune, TypeOK, NoParts
  <2>2. QED
    BY <1>3, <2>1 DEF Prune, TypeOK, server, applying, history
<1>4. CASE Deregister(c)
  <2>1. up' \in [Client -> Seq(Packet)]
    BY <1>4, RequestMade, QueueAppend, QueueUpdated DEF Deregister, TypeOK
  <2>2. stale' \subseteq Client /\ registered' \subseteq Client
    BY <1>4 DEF Deregister, TypeOK
  <2>3. QED
    BY <1>4, <2>1, <2>2 DEF Deregister, TypeOK, server, applying, history
<1>5. QED
  BY <1>1, <1>2, <1>3, <1>4

LEMMA TypeConnection ==
  ASSUME TypeOK, NEW c \in Client,
         Receive(c) \/ ApplyDelta(c) \/ EndDelta(c)
  PROVE  TypeOK'
<1>1. CASE Receive(c)
  <2>1. Head(down[c]) \in Packet /\ down' \in [Client -> Seq(Packet)]
    BY <1>1, QueueTail, QueueUpdated DEF Receive, TypeOK
  <2>2. CASE Head(down[c]).type \in {"slice", "done"}
    <3>1. /\ pool' = [pool EXCEPT ![c] = @ \cup {Head(down[c])}]
          /\ UNCHANGED applying
      BY <1>1, <2>2 DEF Receive
    <3>2. pool' \in [Client -> SUBSET Packet]
      BY <2>1, <3>1 DEF TypeOK
    <3>3. QED
      BY <1>1, <2>1, <3>1, <3>2 DEF Receive, TypeOK, server, applying, history
  <2>3. CASE Head(down[c]).type = "delta"
    <3>1. /\ net' = [net EXCEPT ![c] = "begin"]
          /\ delta' = [delta EXCEPT ![c] = Head(down[c])]
          /\ inhibit' = inhibit \cup {c}
          /\ UNCHANGED pool
      BY <1>1, <2>3 DEF Receive
    <3>2. Head(down[c]) \in Delta
      BY <2>1, <2>3 DEF Delta
    <3>3. /\ net' \in [Client -> {"idle", "begin", "end"}]
          /\ delta' \in [Client -> Delta \cup {None}]
          /\ inhibit' \subseteq Client
          /\ \A d \in Client : /\ net'[d] = "idle" <=> d \notin inhibit'
                               /\ net'[d] # "idle" => delta'[d] \in Delta
      BY <3>1, <3>2 DEF TypeOK
    <3>4. QED
      BY <1>1, <2>1, <3>1, <3>3 DEF Receive, TypeOK, server, history
  <2>4. QED
    BY <1>1, <2>2, <2>3 DEF Receive
<1>2. CASE ApplyDelta(c)
  <2>1. delta[c].s \in Slice /\ delta[c].v \in Value
    BY <1>2, PacketFields DEF ApplyDelta, TypeOK, Delta
  <2>2. /\ up' \in [Client -> Seq(Packet)]
        /\ down' \in [Client -> Seq(Packet)]
        /\ ended' \in [Client -> Reason \cup {None}]
    BY <1>2, TypeClose DEF ApplyDelta, TypeOK, Reason
  <2>3. mem' \in [Client -> [Slice -> Value \cup {None}]]
    <3>1. CASE c \notin registered
      BY <1>2, <3>1 DEF ApplyDelta, TypeOK
    <3>2. CASE c \in registered
      <4>1. mem' = [mem EXCEPT ![c][delta[c].s] =
                      IF loader[c] = "loaded" THEN delta[c].v ELSE @]
        BY <1>2, <3>2 DEF ApplyDelta
      <4>2. QED
        BY <2>1, <4>1 DEF TypeOK
    <3>3. QED
      BY <3>1, <3>2
  <2>4. /\ net' \in [Client -> {"idle", "begin", "end"}]
        /\ \A d \in Client : /\ net'[d] = "idle" <=> d \notin inhibit
                             /\ net'[d] # "idle" => delta[d] \in Delta
    <3>1. /\ net[c] = "begin" /\ UNCHANGED <<delta, inhibit>>
          /\ net' = net \/ net' = [net EXCEPT ![c] = "end"]
      BY <1>2 DEF ApplyDelta
    <3>2. QED
      BY <3>1 DEF TypeOK
  <2>5. QED
    BY <1>2, <2>2, <2>3, <2>4 DEF ApplyDelta, TypeOK, server, history
<1>3. CASE EndDelta(c)
  <2>1. /\ net' \in [Client -> {"idle", "begin", "end"}]
        /\ delta' \in [Client -> Delta \cup {None}]
        /\ inhibit' \subseteq Client
        /\ \A d \in Client : /\ net'[d] = "idle" <=> d \notin inhibit'
                             /\ net'[d] # "idle" => delta'[d] \in Delta
    BY <1>3 DEF EndDelta, TypeOK
  <2>2. QED
    BY <1>3, <2>1 DEF EndDelta, TypeOK, server, game, history
<1>4. QED
  BY <1>1, <1>2, <1>3

LEMMA TypePool ==
  ASSUME TypeOK, NEW c \in Client, UnpackSlice(c) \/ Finish(c)
  PROVE  TypeOK'
<1>1. CASE UnpackSlice(c)
  <2>1. PICK m \in pool[c] :
          /\ m.type = "slice"
          /\ parts' = [parts EXCEPT ![c][m.s] = m.v]
          /\ pool' = [pool EXCEPT ![c] = @ \ {m}]
    BY <1>1 DEF UnpackSlice
  <2>2. m.s \in Slice /\ m.v \in Value
    BY <2>1, PacketFields DEF TypeOK
  <2>3. parts' \in [Client -> [Slice -> Value \cup {None}]]
    BY <2>1, <2>2 DEF TypeOK
  <2>4. pool' \in [Client -> SUBSET Packet]
    BY <2>1 DEF TypeOK
  <2>5. QED
    BY <1>1, <2>3, <2>4 DEF UnpackSlice, TypeOK, server, applying, history
<1>2. CASE Finish(c)
  <2>1. pool' \in [Client -> SUBSET Packet]
    BY <1>2 DEF Finish, TypeOK
  <2>2. /\ loader' \in [Client -> {"out", "loading", "loaded"}]
        /\ mem' \in [Client -> [Slice -> Value \cup {None}]]
        /\ parts' \in [Client -> [Slice -> Value \cup {None}]]
        /\ registered' \subseteq Client
    BY <1>2 DEF Finish, TypeOK, NoParts
  <2>3. QED
    BY <1>2, <2>1, <2>2 DEF Finish, TypeOK, server, applying, history
<1>3. QED
  BY <1>1, <1>2

LEMMA TypeServer ==
  ASSUME TypeOK, NEW c \in Client,
         HandleGet(c) \/ HandleStop(c) \/ HandleReport(c) \/ Broadcast(c)
  PROVE  TypeOK'
<1>1. CASE HandleGet(c)
  <2>1. up' \in [Client -> Seq(Packet)]
    BY <1>1, QueueTail, QueueUpdated DEF HandleGet, Arrives, TypeOK
  <2>2. /\ dupes' \subseteq Client
        /\ send' \in [Client -> {"idle", "slices", "observe", "erase"}]
        /\ toRead' \in [Client -> SUBSET Slice]
    <3>1. CASE c \in dupes
      BY <1>1, <3>1 DEF HandleGet, TypeOK
    <3>2. CASE c \notin dupes
      <4>1. /\ dupes' = dupes \cup {c}
            /\ send' = [send EXCEPT ![c] = "slices"]
            /\ toRead' = [toRead EXCEPT ![c] = Slice]
        BY <1>1, <3>2 DEF HandleGet
      <4>2. QED
        BY <4>1 DEF TypeOK
    <3>3. QED
      BY <3>1, <3>2
  <2>3. QED
    BY <1>1, <2>1, <2>2 DEF HandleGet, TypeOK, game, applying, history
<1>2. CASE HandleStop(c)
  <2>1. up' \in [Client -> Seq(Packet)]
    BY <1>2, QueueTail, QueueUpdated DEF HandleStop, Arrives, TypeOK
  <2>2. observers' \subseteq Client
    BY <1>2 DEF HandleStop, TypeOK
  <2>3. QED
    BY <1>2, <2>1, <2>2 DEF HandleStop, TypeOK, game, applying, history
<1>3. CASE HandleReport(c)
  <2>1. up[c] \in Seq(Packet) /\ up[c] # <<>> /\ Head(up[c]).type = "report"
    BY <1>3 DEF HandleReport, Arrives, TypeOK
  <2>2. Head(up[c]).s \in Slice /\ Head(up[c]).v \in Value
    BY <2>1, QueueTail, PacketFields
  <2>3. CASE c \notin observers
    <3>1. /\ up' \in [Client -> Seq(Packet)]
          /\ down' \in [Client -> Seq(Packet)]
          /\ ended' \in [Client -> Reason \cup {None}]
      BY <1>3, <2>3, TypeClose DEF HandleReport, Reason
    <3>2. QED
      BY <1>3, <2>3, <3>1 DEF HandleReport, TypeOK, game, applying, history
  <2>4. CASE c \in observers
    <3>1. /\ block' = [block EXCEPT ![Head(up[c]).s] = Head(up[c]).v]
          /\ change' = [change EXCEPT ![c] =
                           <<Head(up[c]).s, Head(up[c]).v>>]
          /\ up' = [up EXCEPT ![c] = Tail(@)]
          /\ UNCHANGED <<down, ended>>
      BY <1>3, <2>4 DEF HandleReport
    <3>2. up' \in [Client -> Seq(Packet)]
      BY <2>1, <3>1, QueueTail, QueueUpdated DEF TypeOK
    <3>3. /\ block' \in [Slice -> Value]
          /\ change' \in [Client -> {None} \cup (Slice \X Value)]
      BY <2>2, <3>1 DEF TypeOK
    <3>4. QED
      BY <1>3, <3>1, <3>2, <3>3
      DEF HandleReport, TypeOK, game, applying, history
  <2>5. QED
    BY <2>3, <2>4
<1>4. CASE Broadcast(c)
  <2>1. change[c][1] \in Slice /\ change[c][2] \in Value
    BY <1>4 DEF Broadcast, TypeOK
  <2>2. Msg("delta", change[c][1], change[c][2]) \in Packet
    BY <2>1, PacketMade
  <2>3. down' \in [Client -> Seq(Packet)]
    BY <1>4, <2>2, QueueAppend DEF Broadcast, TypeOK
  <2>4. change' \in [Client -> {None} \cup (Slice \X Value)]
    BY <1>4 DEF Broadcast, TypeOK
  <2>5. QED
    BY <1>4, <2>3, <2>4 DEF Broadcast, TypeOK, game, applying, history
<1>5. QED
  BY <1>1, <1>2, <1>3, <1>4

LEMMA TypeSender ==
  ASSUME TypeOK, NEW c \in Client,
         \/ \E s \in Slice : ReadSlice(c, s)
         \/ WriteSlice(c)
         \/ SendCompletion(c)
  PROVE  TypeOK'
<1>1. CASE \E s \in Slice : ReadSlice(c, s)
  <2>1. PICK s \in Slice : ReadSlice(c, s)
    BY <1>1
  <2>2. <<s, block[s]>> \in Slice \X Value
    BY DEF TypeOK
  <2>3. /\ toRead' \in [Client -> SUBSET Slice]
        /\ toWrite' \in [Client -> SUBSET (Slice \X Value)]
    BY <2>1, <2>2 DEF ReadSlice, TypeOK
  <2>4. QED
    BY <2>1, <2>3 DEF ReadSlice, TypeOK, game, applying, history
<1>2. CASE WriteSlice(c)
  <2>1. PICK w \in toWrite[c] :
          /\ toWrite' = [toWrite EXCEPT ![c] = @ \ {w}]
          /\ down' = [down EXCEPT ![c] = Append(@, Msg("slice", w[1], w[2]))]
    BY <1>2 DEF WriteSlice
  <2>2. w[1] \in Slice /\ w[2] \in Value
    BY DEF TypeOK
  <2>3. Msg("slice", w[1], w[2]) \in Packet
    BY <2>2, PacketMade
  <2>4. down' \in [Client -> Seq(Packet)]
    BY <2>1, <2>3, QueueAppend, QueueUpdated DEF TypeOK
  <2>5. toWrite' \in [Client -> SUBSET (Slice \X Value)]
    BY <2>1 DEF TypeOK
  <2>6. QED
    BY <1>2, <2>4, <2>5 DEF WriteSlice, TypeOK, game, applying, history
<1>3. CASE SendCompletion(c)
  <2>1. down' \in [Client -> Seq(Packet)]
    <3>1. Append(down[c], Msg("done", None, None)) \in Seq(Packet)
      BY RequestMade, QueueAppend DEF TypeOK
    <3>2. \/ down' = [down EXCEPT ![c] = Append(@, Msg("done", None, None))]
          \/ down' = down
      BY <1>3 DEF SendCompletion
    <3>3. down \in [Client -> Seq(Packet)]
      BY DEF TypeOK
    <3>4. [down EXCEPT ![c] = Append(@, Msg("done", None, None))]
            \in [Client -> Seq(Packet)]
      BY <3>1, <3>3
    <3>5. QED
      BY <3>2, <3>3, <3>4
  <2>2. /\ send' \in [Client -> {"idle", "slices", "observe", "erase"}]
        /\ observers' \subseteq Client
        /\ dupes' \subseteq Client
    BY <1>3 DEF SendCompletion, TypeOK
  <2>3. QED
    BY <1>3, <2>1, <2>2 DEF SendCompletion, TypeOK, game, applying, history
<1>4. QED
  BY <1>1, <1>2, <1>3

LEMMA TypeNext == TypeOK /\ [Next]_vars => TypeOK'
<1> SUFFICES ASSUME TypeOK, [Next]_vars
             PROVE  TypeOK'
  OBVIOUS
<1>1. CASE Next
  BY <1>1, TypeGame, TypeConnection, TypePool, TypeServer, TypeSender DEF Next
<1>2. CASE UNCHANGED vars
  BY <1>2 DEF TypeOK, vars, server, game, applying, history
<1>3. QED
  BY <1>1, <1>2

(* Every variable of the server, the connections and the clients keeps its *)
(* type; the connection's thread has a change to apply exactly while it    *)
(* inhibits reports (BlockChange::updateChunks).                           *)
THEOREM TypeCorrect == Spec => []TypeOK
  BY TypeInit, TypeNext, PTL DEF Spec

-----------------------------------------------------------------------------
(* The game has whole chunks only *)

LEMMA WholeNext ==
  TypeOK /\ LoadedIsWhole /\ [Next]_vars => LoadedIsWhole'
<1> SUFFICES ASSUME TypeOK, LoadedIsWhole, [Next]_vars,
                    NEW c \in Client, loader'[c] = "loaded",
                    NEW s \in Slice
             PROVE  mem'[c][s] # None
  BY DEF LoadedIsWhole
(* Most steps leave the game's chunks alone. *)
<1>1. CASE loader' = loader /\ mem' = mem
  BY <1>1 DEF LoadedIsWhole
<1>2. ASSUME NEW d \in Client, Get(d)
      PROVE  mem'[c][s] # None
  BY <1>2 DEF Get, TypeOK, LoadedIsWhole
<1>3. ASSUME NEW d \in Client, NEW t \in Slice, Edit(d, t)
      PROVE  mem'[c][s] # None
  <2>1. edits + 1 \in Value
    BY <1>3, ChunkSyncAssumption DEF Edit, TypeOK, Value
  <2>2. QED
    BY <1>3, <2>1, ChunkSyncAssumption DEF Edit, TypeOK, LoadedIsWhole
<1>4. ASSUME NEW d \in Client, Prune(d)
      PROVE  mem'[c][s] # None
  BY <1>4 DEF Prune, TypeOK, LoadedIsWhole
<1>5. ASSUME NEW d \in Client, ApplyDelta(d)
      PROVE  mem'[c][s] # None
  <2>1. delta[d].s \in Slice /\ delta[d].v \in Value
    BY <1>5, PacketFields DEF ApplyDelta, TypeOK, Delta
  <2>2. loader[c] = "loaded" /\ mem[c][s] # None
    BY <1>5 DEF ApplyDelta, LoadedIsWhole
  <2>3. CASE d \notin registered
    BY <1>5, <2>2, <2>3 DEF ApplyDelta
  <2>4. CASE d \in registered
    <3>1. mem' = [mem EXCEPT ![d][delta[d].s] =
                    IF loader[d] = "loaded" THEN delta[d].v ELSE @]
      BY <1>5, <2>4 DEF ApplyDelta
    <3>2. QED
      BY <2>1, <2>2, <3>1, ChunkSyncAssumption DEF TypeOK
  <2>5. QED
    BY <2>3, <2>4
<1>6. ASSUME NEW d \in Client, Finish(d)
      PROVE  mem'[c][s] # None
  BY <1>6 DEF Finish, TypeOK, LoadedIsWhole
<1>7. CASE UNCHANGED vars
  BY <1>1, <1>7 DEF vars, game
<1>8. CASE Next
  <2>1. PICK d \in Client :
          \/ Get(d) \/ (\E t \in Slice : Edit(d, t)) \/ Prune(d)
          \/ ApplyDelta(d) \/ Finish(d)
          \/ loader' = loader /\ mem' = mem
    BY <1>8
    DEF Next, Deregister, Receive, EndDelta, UnpackSlice, HandleGet,
        HandleStop, HandleReport, Broadcast, ReadSlice, WriteSlice,
        SendCompletion, game
  <2>2. QED
    BY <2>1, <1>1, <1>2, <1>3, <1>4, <1>5, <1>6
<1>9. QED
  BY <1>7, <1>8

(* A chunk that the game has been given never lacks a slice, whatever the  *)
(* order in which slices and the completion are received and unpacked, and *)
(* whatever changes are applied to it (ChunkLoader, handleCompletion).     *)
THEOREM ChunksAreWhole == Spec => []LoadedIsWhole
<1>1. Init => LoadedIsWhole
  BY DEF Init, LoadedIsWhole
<1>2. QED
  BY <1>1, WholeNext, TypeCorrect, PTL DEF Spec
-----------------------------------------------------------------------------
(* Who changes a block sees it, and so do those who look on: the inductive *)
(* invariant behind EditsAreSeen.                                          *)

(* Sets of packets, and what a queue q has of such a set K.                *)
Gets == {p \in Packet : p.type = "get"}
Reports == {p \in Packet : p.type = "report"}
Dones == {p \in Packet : p.type = "done"}
Slices(s) == {p \in Packet : p.type = "slice" /\ p.s = s}

Has(q, K) == \E i \in DOMAIN q : q[i] \in K
Once(q, K) == \A i, j \in DOMAIN q : q[i] \in K /\ q[j] \in K => i = j

(* A request comes after each report, ...                                  *)
ReportsFirst(q) ==
    \A i \in DOMAIN q : q[i] \in Reports =>
        \E j \in DOMAIN q : j > i /\ q[j] \in Gets

(* ... a change before the completion.                                     *)
ChangeFirst(q) ==
    \E i \in DOMAIN q : /\ q[i] \in Delta
                        /\ \A j \in DOMAIN q : j < i => q[j] \notin Dones

(* Only editors of a block report it, and others hear of it.  The server   *)
(* has the change that an editor's thread is about to tell.                *)
Foreign(c) == {p \in Reports : c \notin Editors[p.s]}
Own(c) == {p \in Delta : Editors[p.s] \subseteq {c}}

OnlyEditors(c) ==
    /\ ~Has(up[c], Foreign(c))
    /\ ~Has(down[c], Own(c))
    /\ net[c] = "begin" => delta[c] \notin Own(c)
    /\ change[c] # None =>
          /\ c \in Editors[change[c][1]]
          /\ Editors[change[c][1]] = {c} => block[change[c][1]] = change[c][2]

(* A client's request is on its way, being served, or served.              *)
Asked(c) == Has(up[c], Gets)
Completed(c) == Has(down[c], Dones) \/ pool[c] \cap Dones # {}
Read(c, s) == \E v \in Value : <<s, v>> \in toWrite[c]
Coming(c, s) == Has(down[c], Slices(s))
Pooled(c, s) == pool[c] \cap Slices(s) # {}
Served(c) == \/ send[c] = "slices"
             \/ Completed(c)
             \/ \E s \in Slice : Coming(c, s) \/ Pooled(c, s)

OneRequest(c) ==
    /\ Once(up[c], Gets)
    /\ loader[c] = "loading" => ReportsFirst(up[c])
    /\ Asked(c) => loader[c] = "loading" /\ parts[c] = NoParts
    /\ parts[c] # NoParts => loader[c] = "loading"
    /\ Served(c) => loader[c] = "loading" /\ ~Asked(c)
    /\ toRead[c] # {} \/ toWrite[c] # {} => send[c] = "slices"
    /\ send[c] = "slices" => ~Completed(c)
    /\ Once(down[c], Dones)
    /\ Has(down[c], Dones) => pool[c] \cap Dones = {}

(* A slice is at one stage of its way, once.                               *)
OnItsWay(c, s) ==
    /\ s \in toRead[c] => ~Read(c, s)
    /\ s \in toRead[c] \/ Read(c, s) => ~Coming(c, s)
    /\ s \in toRead[c] \/ Read(c, s) \/ Coming(c, s) => ~Pooled(c, s)
    /\ s \in toRead[c] \/ Read(c, s) \/ Coming(c, s) \/ Pooled(c, s)
          => parts[c][s] = None
    /\ \A v, w \in Value :
          <<s, v>> \in toWrite[c] /\ <<s, w>> \in toWrite[c] => v = w
    /\ Once(down[c], Slices(s))
    /\ \A m, n \in pool[c] \cap Slices(s) : m = n

(* The first time, the chunk is registered from its completion until it is *)
(* unloaded.                                                               *)
FirstLoad(c) ==
    /\ gets[c] = 0 => loader[c] = "out" /\ c \notin registered /\ c \notin stale
    /\ gets[c] = 1 /\ loader[c] = "loading" =>
          c \notin registered /\ c \notin stale
    /\ gets[c] = 1 /\ loader[c] = "loaded" => c \in registered /\ c \notin stale

(* The connection will end, as a change comes before the chunk.            *)
Doomed(c) ==
    /\ loader[c] = "loading"
    /\ pool[c] \cap Dones = {}
    /\ net[c] = "begin" \/ ChangeFirst(down[c])

(* A block has the value v on its way to the client, or there.             *)
Carries(c, s, v) ==
    \/ <<s, v>> \in toWrite[c]
    \/ Has(down[c], {Msg("slice", s, v)})
    \/ Msg("slice", s, v) \in pool[c]
    \/ loader[c] = "loading" /\ parts[c][s] = v
    \/ loader[c] = "loaded" /\ mem[c][s] = v

(* What it will be when the changes on their way are applied.              *)
Changed(c, s, v) ==
    LastOf(down[c], "delta", s,
           IF net[c] = "begin" /\ delta[c].s = s THEN delta[c].v ELSE v)

SoleEditor(s) == \A d, e \in Editors[s] : d = e
Pending(s) == \E d \in Client : change[d] # None /\ change[d][1] = s

OnlookersHear(c, s) ==
    /\ gets[c] = 1 /\ ~Doomed(c)
    /\ c \notin Editors[s] /\ SoleEditor(s) /\ ~Pending(s)
    => \A v \in Value : Carries(c, s, v) => Changed(c, s, v) = block[s]

EditorsKeep(c, s) ==
    /\ Editors[s] = {c}
    /\ loader[c] = "loaded" => s \notin suppressed[c]
    => \A v \in Value : Carries(c, s, v) => v = Told(c, s)

(* All of this, for one client; what is on its way, while it is connected.  *)
Follows(c) ==
    /\ OnlyEditors(c)
    /\ FirstLoad(c)
    /\ Connected(c) =>
          /\ OneRequest(c)
          /\ \A s \in Slice : /\ OnItsWay(c, s)
                              /\ OnlookersHear(c, s)
                              /\ EditorsKeep(c, s)

SeenInv == TypeOK /\ LoadedIsWhole /\ \A c \in Client : Follows(c)
-----------------------------------------------------------------------------
(* What a queue has after a packet came or went *)

LEMMA AppendAt ==
  ASSUME NEW q \in Seq(Packet), NEW p \in Packet
  PROVE  /\ Append(q, p) \in Seq(Packet)
         /\ DOMAIN q = 1..Len(q) /\ Len(q) \in Nat
         /\ DOMAIN Append(q, p) = 1..(Len(q) + 1)
         /\ \A i \in DOMAIN q : Append(q, p)[i] = q[i]
         /\ Append(q, p)[Len(q) + 1] = p
  OBVIOUS

LEMMA TailAt ==
  ASSUME NEW q \in Seq(Packet), q # <<>>
  PROVE  /\ Tail(q) \in Seq(Packet)
         /\ Len(q) \in Nat /\ Len(q) > 0
         /\ DOMAIN q = 1..Len(q)
         /\ DOMAIN Tail(q) = 1..(Len(q) - 1)
         /\ \A i \in DOMAIN Tail(q) : i + 1 \in DOMAIN q /\ Tail(q)[i] = q[i + 1]
         /\ \A i \in DOMAIN q : i # 1 =>
               i - 1 \in DOMAIN Tail(q) /\ Tail(q)[i - 1] = q[i]
         /\ 1 \in DOMAIN q /\ Head(q) = q[1] /\ Head(q) \in Packet
<1>1. /\ Tail(q) \in Seq(Packet) /\ Len(q) \in Nat /\ Len(q) > 0
      /\ DOMAIN q = 1..Len(q) /\ Len(Tail(q)) = Len(q) - 1
      /\ DOMAIN Tail(q) = 1..(Len(q) - 1)
      /\ \A i \in 1..(Len(q) - 1) : Tail(q)[i] = q[i + 1]
      /\ Head(q) = q[1] /\ q[1] \in Packet
  OBVIOUS
<1>2. QED
  BY <1>1

LEMMA EmptyHas ==
  ASSUME NEW K
  PROVE  ~Has(<<>>, K) /\ Once(<<>>, K)
  BY DEF Has, Once

LEMMA AppendHas ==
  ASSUME NEW q \in Seq(Packet), NEW p \in Packet, NEW K
  PROVE  /\ p \in K => Has(Append(q, p), K)
         /\ Has(q, K) => Has(Append(q, p), K)
         /\ p \notin K /\ ~Has(q, K) => ~Has(Append(q, p), K)
         /\ Once(q, K) /\ (p \in K => ~Has(q, K)) => Once(Append(q, p), K)
<1> DEFINE r == Append(q, p)
<1>1. /\ DOMAIN q = 1..Len(q) /\ Len(q) \in Nat
      /\ DOMAIN r = 1..(Len(q) + 1)
      /\ \A i \in DOMAIN q : r[i] = q[i]
      /\ r[Len(q) + 1] = p
  BY AppendAt
<1> HIDE DEF r
<1>2. \A i \in DOMAIN r : i \in DOMAIN q \/ i = Len(q) + 1
  BY <1>1
<1>3. Len(q) + 1 \in DOMAIN r /\ \A i \in DOMAIN q : i \in DOMAIN r
  BY <1>1
<1>4. p \in K => Has(r, K)
  BY <1>1, <1>3 DEF Has
<1>5. Has(q, K) => Has(r, K)
  BY <1>1, <1>3 DEF Has
<1>6. p \notin K /\ ~Has(q, K) => ~Has(r, K)
  BY <1>1, <1>2 DEF Has
<1>7. Once(q, K) /\ (p \in K => ~Has(q, K)) => Once(r, K)
  BY <1>1, <1>2 DEF Has, Once
<1>8. QED
  BY <1>4, <1>5, <1>6, <1>7 DEF r

LEMMA TailHas ==
  ASSUME NEW q \in Seq(Packet), q # <<>>, NEW K
  PROVE  /\ Head(q) \in K => Has(q, K)
         /\ Has(Tail(q), K) => Has(q, K)
         /\ Head(q) \notin K /\ ~Has(Tail(q), K) => ~Has(q, K)
         /\ Once(q, K) => Once(Tail(q), K)
         /\ Once(q, K) /\ Head(q) \in K => ~Has(Tail(q), K)
<1> DEFINE r == Tail(q)
<1>1. /\ \A i \in DOMAIN r : i + 1 \in DOMAIN q /\ r[i] = q[i + 1]
      /\ \A i \in DOMAIN q : i # 1 => i - 1 \in DOMAIN r /\ r[i - 1] = q[i]
      /\ 1 \in DOMAIN q /\ Head(q) = q[1]
      /\ \A i \in DOMAIN r : i \in Nat /\ i > 0
  BY TailAt
<1> HIDE DEF r
<1>2. Head(q) \in K => Has(q, K)
  BY <1>1 DEF Has
<1>3. Has(r, K) => Has(q, K)
  BY <1>1 DEF Has
<1>4. Head(q) \notin K /\ ~Has(r, K) => ~Has(q, K)
  BY <1>1 DEF Has
<1>5. Once(q, K) => Once(r, K)
  <2> SUFFICES ASSUME Once(q, K), NEW i \in DOMAIN r, NEW j \in DOMAIN r,
                      r[i] \in K, r[j] \in K
               PROVE  i = j
    BY DEF Once
  <2>1. i + 1 = j + 1
    BY <1>1 DEF Once
  <2>2. QED
    BY <1>1, <2>1
<1>6. Once(q, K) /\ Head(q) \in K => ~Has(r, K)
  <2> SUFFICES ASSUME Once(q, K), Head(q) \in K, NEW i \in DOMAIN r, r[i] \in K
               PROVE  FALSE
    BY DEF Has
  <2>1. i + 1 = 1
    BY <1>1 DEF Once
  <2>2. QED
    BY <1>1, <2>1
<1>7. QED
  BY <1>2, <1>3, <1>4, <1>5, <1>6 DEF r

LEMMA AppendReportsFirst ==
  ASSUME NEW q \in Seq(Packet), NEW p \in Packet
  PROVE  /\ p \in Gets => ReportsFirst(Append(q, p))
         /\ ReportsFirst(q) /\ p \notin Reports => ReportsFirst(Append(q, p))
<1> DEFINE r == Append(q, p)
<1>1. /\ DOMAIN q = 1..Len(q) /\ Len(q) \in Nat
      /\ DOMAIN r = 1..(Len(q) + 1)
      /\ \A i \in DOMAIN q : r[i] = q[i]
      /\ r[Len(q) + 1] = p
  BY AppendAt
<1> HIDE DEF r
<1>2. \A i \in DOMAIN r : i # Len(q) + 1 => i \in DOMAIN q /\ Len(q) + 1 > i
  BY <1>1
<1>3. Len(q) + 1 \in DOMAIN r /\ \A i \in DOMAIN q : i \in DOMAIN r
  BY <1>1
<1>4. Gets \cap Reports = {}
  BY DEF Gets, Reports
<1>5. p \in Gets => ReportsFirst(r)
  BY <1>1, <1>2, <1>3, <1>4 DEF ReportsFirst
<1>6. ReportsFirst(q) /\ p \notin Reports => ReportsFirst(r)
  BY <1>1, <1>2, <1>3 DEF ReportsFirst
<1>7. QED
  BY <1>5, <1>6 DEF r

LEMMA TailReportsFirst ==
  ASSUME NEW q \in Seq(Packet), q # <<>>, ReportsFirst(q)
  PROVE  ReportsFirst(Tail(q))
<1> DEFINE r == Tail(q)
<1>1. /\ \A i \in DOMAIN r : i + 1 \in DOMAIN q /\ r[i] = q[i + 1]
      /\ \A i \in DOMAIN q : i # 1 => i - 1 \in DOMAIN r /\ r[i - 1] = q[i]
      /\ \A i \in DOMAIN q : i \in Nat
      /\ \A i \in DOMAIN r : i \in Nat /\ i > 0
  BY TailAt
<1> HIDE DEF r
<1> SUFFICES ASSUME NEW i \in DOMAIN r, r[i] \in Reports
             PROVE  \E j \in DOMAIN r : j > i /\ r[j] \in Gets
  BY DEF ReportsFirst, r
<1>2. PICK j \in DOMAIN q : j > i + 1 /\ q[j] \in Gets
  BY <1>1 DEF ReportsFirst
<1>3. j - 1 \in DOMAIN r /\ r[j - 1] \in Gets /\ j - 1 > i
  BY <1>1, <1>2
<1>4. QED
  BY <1>3

LEMMA NoReports ==
  ASSUME NEW q, ReportsFirst(q), ~Has(q, Gets)
  PROVE  ~Has(q, Reports)
  BY DEF ReportsFirst, Has

LEMMA AppendChangeFirst ==
  ASSUME NEW q \in Seq(Packet), NEW p \in Packet
  PROVE  /\ ChangeFirst(q) => ChangeFirst(Append(q, p))
         /\ p \in Delta /\ ~Has(q, Dones) => ChangeFirst(Append(q, p))
<1> DEFINE r == Append(q, p)
<1>1. /\ DOMAIN q = 1..Len(q) /\ Len(q) \in Nat
      /\ DOMAIN r = 1..(Len(q) + 1)
      /\ \A i \in DOMAIN q : r[i] = q[i]
      /\ r[Len(q) + 1] = p
  BY AppendAt
<1> HIDE DEF r
<1>2. \A i \in DOMAIN r : i \in DOMAIN q \/ (i = Len(q) + 1 /\ \A k \in DOMAIN q : k < i)
  BY <1>1
<1>3. Len(q) + 1 \in DOMAIN r /\ \A i \in DOMAIN q : i \in DOMAIN r
  BY <1>1
<1>4. ChangeFirst(q) => ChangeFirst(r)
  <2> SUFFICES ASSUME NEW i \in DOMAIN q, q[i] \in Delta,
                      \A j \in DOMAIN q : j < i => q[j] \notin Dones
               PROVE  ChangeFirst(r)
    BY DEF ChangeFirst
  <2>1. ASSUME NEW j \in DOMAIN r, j < i PROVE r[j] \notin Dones
    <3>1. j \in DOMAIN q
      BY <1>1, <2>1
    <3>2. QED
      BY <1>1, <2>1, <3>1
  <2>2. QED
    BY <1>1, <1>3, <2>1 DEF ChangeFirst
<1>5. p \in Delta /\ ~Has(q, Dones) => ChangeFirst(r)
  <2> SUFFICES ASSUME p \in Delta, ~Has(q, Dones) PROVE ChangeFirst(r)
    OBVIOUS
  <2>1. ASSUME NEW j \in DOMAIN r, j < Len(q) + 1 PROVE r[j] \notin Dones
    <3>1. j \in DOMAIN q
      BY <1>1, <2>1
    <3>2. QED
      BY <1>1, <3>1 DEF Has
  <2>2. QED
    BY <1>1, <1>3, <2>1 DEF ChangeFirst
<1>6. QED
  BY <1>4, <1>5 DEF r

LEMMA TailChangeFirst ==
  ASSUME NEW q \in Seq(Packet), q # <<>>
  PROVE  /\ Head(q) \in Delta => ChangeFirst(q)
         /\ Head(q) \notin Dones /\ ChangeFirst(Tail(q)) => ChangeFirst(q)
         /\ Head(q) \notin Delta /\ ChangeFirst(q) => ChangeFirst(Tail(q))
<1> DEFINE r == Tail(q)
<1>1. /\ \A i \in DOMAIN r : i + 1 \in DOMAIN q /\ r[i] = q[i + 1]
      /\ \A i \in DOMAIN q : i # 1 => i - 1 \in DOMAIN r /\ r[i - 1] = q[i]
      /\ \A i \in DOMAIN q : i \in Nat /\ i >= 1
      /\ \A i \in DOMAIN r : i \in Nat /\ i > 0
      /\ 1 \in DOMAIN q /\ Head(q) = q[1]
  BY TailAt
<1> HIDE DEF r
<1>2. Head(q) \in Delta => ChangeFirst(q)
  BY <1>1 DEF ChangeFirst
<1>3. ASSUME Head(q) \notin Dones, ChangeFirst(r) PROVE ChangeFirst(q)
  <2>1. PICK i \in DOMAIN r : /\ r[i] \in Delta
                              /\ \A j \in DOMAIN r : j < i => r[j] \notin Dones
    BY <1>3 DEF ChangeFirst
  <2>2. ASSUME NEW j \in DOMAIN q, j < i + 1 PROVE q[j] \notin Dones
    <3>1. CASE j = 1
      BY <1>1, <1>3, <3>1
    <3>2. CASE j # 1
      BY <1>1, <2>1, <2>2, <3>2
    <3>3. QED
      BY <3>1, <3>2
  <2>3. QED
    BY <1>1, <2>1, <2>2 DEF ChangeFirst
<1>4. ASSUME Head(q) \notin Delta, ChangeFirst(q) PROVE ChangeFirst(r)
  <2>1. PICK i \in DOMAIN q : /\ q[i] \in Delta
                              /\ \A j \in DOMAIN q : j < i => q[j] \notin Dones
    BY <1>4 DEF ChangeFirst
  <2>2. i # 1
    BY <1>1, <1>4, <2>1
  <2>3. ASSUME NEW j \in DOMAIN r, j < i - 1 PROVE r[j] \notin Dones
    BY <1>1, <2>1, <2>3
  <2>4. QED
    BY <1>1, <2>1, <2>2, <2>3 DEF ChangeFirst
<1>5. QED
  BY <1>2, <1>3, <1>4 DEF r
-----------------------------------------------------------------------------
(* The last packet of a kind *)

LEMMA Least ==
    ASSUME NEW S \in SUBSET Nat, S # {}
    PROVE  \E x \in S : \A y \in S : x <= y
<1> DEFINE R == OpToRel(<, Nat)
<1>1. IsWellFoundedOn(R, Nat)
  BY NatLessThanWellFounded
<1>2. \A x, y \in Nat : x < y => <<x, y>> \in R
  BY DEF OpToRel
<1> HIDE DEF R
<1>3. PICK x \in S : \A y \in S : ~(<<y, x>> \in R)
  BY <1>1, WFMin
<1>4. ASSUME NEW y \in S PROVE x <= y
  <2>1. x \in Nat /\ y \in Nat /\ ~(<<y, x>> \in R)
    BY <1>3
  <2>2. ~(y < x)
    BY <1>2, <2>1
  <2>3. QED
    BY <2>1, <2>2
<1>5. QED
  BY <1>4

LEMMA Greatest ==
    ASSUME NEW N \in Nat, NEW S \in SUBSET (1..N), S # {}
    PROVE  \E x \in S : \A y \in S : y <= x
<1> DEFINE T == {n \in Nat : N - n \in S}
<1>1. T \in SUBSET Nat /\ T # {}
  <2>1. PICK s \in S : TRUE
    OBVIOUS
  <2>2. N - s \in Nat /\ N - (N - s) = s
    BY <2>1
  <2>3. QED
    BY <2>1, <2>2
<1>2. PICK n \in T : \A m \in T : n <= m
  BY <1>1, Least
<1>3. N - n \in S
  OBVIOUS
<1>4. ASSUME NEW y \in S PROVE y <= N - n
  <2>1. N - y \in T
    BY DEF T
  <2>2. n <= N - y
    BY <1>2, <2>1
  <2>3. QED
    BY <1>3, <2>2
<1>5. QED
  BY <1>3, <1>4

At(q, t, s) == {i \in DOMAIN q : q[i].type = t /\ q[i].s = s}

LEMMA LastIs ==
  ASSUME NEW q \in Seq(Packet), NEW t, NEW s, NEW v
  PROVE  /\ At(q, t, s) = {} => LastOf(q, t, s, v) = v
         /\ \A i \in At(q, t, s) : (\A j \in At(q, t, s) : j <= i) =>
               LastOf(q, t, s, v) = q[i].v
<1>1. ASSUME NEW i \in At(q, t, s), \A j \in At(q, t, s) : j <= i
      PROVE  (CHOOSE k \in At(q, t, s) : \A j \in At(q, t, s) : j <= k) = i
  <2>1. \A k \in At(q, t, s) : k \in Nat
    BY DEF At
  <2>2. \A k \in At(q, t, s) : (\A j \in At(q, t, s) : j <= k) => k = i
    BY <1>1, <2>1
  <2>3. QED
    BY <1>1, <2>2
<1>2. QED
  BY <1>1 DEF LastOf, At

LEMMA HasLast ==
  ASSUME NEW q \in Seq(Packet), NEW t, NEW s, At(q, t, s) # {}
  PROVE  \E i \in At(q, t, s) : \A j \in At(q, t, s) : j <= i
<1>1. Len(q) \in Nat /\ At(q, t, s) \in SUBSET (1..Len(q))
  BY DEF At
<1>2. QED
  BY <1>1, Greatest

LEMMA LastAppend ==
  ASSUME NEW q \in Seq(Packet), NEW p \in Packet, NEW t, NEW s, NEW v
  PROVE  /\ p.type = t /\ p.s = s => LastOf(Append(q, p), t, s, v) = p.v
         /\ ~(p.type = t /\ p.s = s) =>
               LastOf(Append(q, p), t, s, v) = LastOf(q, t, s, v)
<1> DEFINE r == Append(q, p)
<1>1. /\ r \in Seq(Packet)
      /\ DOMAIN q = 1..Len(q) /\ Len(q) \in Nat
      /\ DOMAIN r = 1..(Len(q) + 1)
      /\ \A i \in DOMAIN q : r[i] = q[i]
      /\ r[Len(q) + 1] = p
  BY AppendAt
<1> HIDE DEF r
<1>2. ASSUME p.type = t, p.s = s PROVE LastOf(r, t, s, v) = p.v
  <2>1. Len(q) + 1 \in At(r, t, s)
    BY <1>1, <1>2 DEF At
  <2>2. \A j \in At(r, t, s) : j <= Len(q) + 1
    BY <1>1 DEF At
  <2>3. LastOf(r, t, s, v) = r[Len(q) + 1].v
    BY <1>1, <2>1, <2>2, LastIs
  <2>4. QED
    BY <1>1, <2>3
<1>3. ASSUME ~(p.type = t /\ p.s = s) PROVE LastOf(r, t, s, v) = LastOf(q, t, s, v)
  <2>1. At(r, t, s) = At(q, t, s)
    <3>1. \A i \in DOMAIN r : i \in DOMAIN q \/ i = Len(q) + 1
      BY <1>1
    <3>2. \A i \in DOMAIN q : i \in DOMAIN r
      BY <1>1
    <3>3. QED
      BY <1>1, <1>3, <3>1, <3>2 DEF At
  <2>2. CASE At(q, t, s) = {}
    BY <1>1, <2>1, <2>2, LastIs
  <2>3. CASE At(q, t, s) # {}
    <3>1. PICK i \in At(q, t, s) : \A j \in At(q, t, s) : j <= i
      BY <2>3, HasLast
    <3>2. LastOf(q, t, s, v) = q[i].v
      BY <3>1, LastIs
    <3>3. LastOf(r, t, s, v) = r[i].v
      BY <1>1, <2>1, <3>1, LastIs
    <3>4. r[i] = q[i]
      BY <1>1, <3>1 DEF At
    <3>5. QED
      BY <3>2, <3>3, <3>4
  <2>4. QED
    BY <2>2, <2>3
<1>4. QED
  BY <1>2, <1>3 DEF r

LEMMA LastTail ==
  ASSUME NEW q \in Seq(Packet), q # <<>>, NEW t, NEW s, NEW v
  PROVE  /\ Head(q).type = t /\ Head(q).s = s =>
               LastOf(q, t, s, v) = LastOf(Tail(q), t, s, Head(q).v)
         /\ ~(Head(q).type = t /\ Head(q).s = s) =>
               LastOf(q, t, s, v) = LastOf(Tail(q), t, s, v)
<1> DEFINE r == Tail(q)
<1>1. /\ r \in Seq(Packet)
      /\ \A i \in DOMAIN r : i + 1 \in DOMAIN q /\ r[i] = q[i + 1]
      /\ \A i \in DOMAIN q : i # 1 => i - 1 \in DOMAIN r /\ r[i - 1] = q[i]
      /\ \A i \in DOMAIN q : i \in Nat /\ i >= 1
      /\ \A i \in DOMAIN r : i \in Nat /\ i > 0
      /\ 1 \in DOMAIN q /\ Head(q) = q[1]
  BY TailAt
<1> HIDE DEF r
(* A packet in the rest is one further on in the queue. *)
<1>2. \A i \in At(r, t, s) : i + 1 \in At(q, t, s)
  BY <1>1 DEF At
<1>3. \A i \in At(q, t, s) : i # 1 => i - 1 \in At(r, t, s)
  BY <1>1 DEF At
<1>4. ASSUME NEW w, At(r, t, s) # {}
      PROVE  LastOf(q, t, s, v) = LastOf(r, t, s, w)
  <2>1. PICK i \in At(r, t, s) : \A j \in At(r, t, s) : j <= i
    BY <1>1, <1>4, HasLast
  <2>2. LastOf(r, t, s, w) = r[i].v
    BY <1>1, <2>1, LastIs
  <2>3. \A j \in At(q, t, s) : j <= i + 1
    <3> SUFFICES ASSUME NEW j \in At(q, t, s) PROVE j <= i + 1
      OBVIOUS
    <3>1. i \in Nat /\ i > 0 /\ j \in Nat
      BY <1>1 DEF At
    <3>2. CASE j = 1
      BY <3>1, <3>2
    <3>3. CASE j # 1
      <4>1. j - 1 <= i
        BY <1>3, <2>1, <3>3
      <4>2. QED
        BY <3>1, <4>1
    <3>4. QED
      BY <3>2, <3>3
  <2>4. LastOf(q, t, s, v) = q[i + 1].v
    BY <1>2, <2>3, LastIs
  <2>5. r[i] = q[i + 1]
    BY <1>1 DEF At
  <2>6. QED
    BY <2>2, <2>4, <2>5
<1>5. CASE At(r, t, s) # {}
  BY <1>4, <1>5 DEF r
<1>6. CASE At(r, t, s) = {}
  <2>1. \A w : LastOf(r, t, s, w) = w
    BY <1>1, <1>6, LastIs
  <2>2. ASSUME Head(q).type = t, Head(q).s = s PROVE LastOf(q, t, s, v) = Head(q).v
    <3>1. 1 \in At(q, t, s)
      BY <1>1, <2>2 DEF At
    <3>2. \A j \in At(q, t, s) : j <= 1
      BY <1>3, <1>6
    <3>3. QED
      BY <1>1, <3>1, <3>2, LastIs
  <2>3. ASSUME ~(Head(q).type = t /\ Head(q).s = s) PROVE LastOf(q, t, s, v) = v
    <3>1. At(q, t, s) = {}
      BY <1>1, <1>3, <1>6, <2>3 DEF At
    <3>2. QED
      BY <3>1, LastIs
  <2>4. QED
    BY <2>1, <2>2, <2>3 DEF r
<1>7. QED
  BY <1>5, <1>6

LEMMA LastOfNone ==
  ASSUME NEW q \in Seq(Packet), NEW t, NEW s, NEW v,
         \A i \in DOMAIN q : ~(q[i].type = t /\ q[i].s = s)
  PROVE  LastOf(q, t, s, v) = v
<1>1. At(q, t, s) = {}
  BY DEF At
<1>2. QED
  BY <1>1, LastIs
-----------------------------------------------------------------------------
(* What a step keeps *)

LEMMA NoneNames == None \notin Value /\ None \notin Reason /\ None \notin Slice \X Value
  BY ChunkSyncAssumption, NoneAssumption

LEMMA NoneCarried ==
  ASSUME NEW c \in Client, OneRequest(c), loader[c] # "loading", TypeOK
  PROVE  /\ toRead[c] = {} /\ toWrite[c] = {} /\ send[c] # "slices"
         /\ ~Asked(c) /\ ~Completed(c) /\ ~Served(c) /\ parts[c] = NoParts
         /\ \A s \in Slice : ~Coming(c, s) /\ ~Pooled(c, s) /\ ~Read(c, s)
         /\ \A s \in Slice, v \in Value :
               /\ ~Has(down[c], {Msg("slice", s, v)})
               /\ Msg("slice", s, v) \notin pool[c]
<1>1. /\ ~Asked(c) /\ ~Served(c) /\ parts[c] = NoParts
  BY DEF OneRequest
<1>2. send[c] # "slices" /\ ~Completed(c)
      /\ \A s \in Slice : ~Coming(c, s) /\ ~Pooled(c, s)
  BY <1>1 DEF Served
<1>3. toRead[c] = {} /\ toWrite[c] = {}
  BY <1>2 DEF OneRequest
<1>4. \A s \in Slice, v \in Value : Msg("slice", s, v) \in Slices(s)
  BY PacketMade DEF Slices, Msg
<1>5. \A s \in Slice, v \in Value : /\ ~Has(down[c], {Msg("slice", s, v)})
                                    /\ Msg("slice", s, v) \notin pool[c]
  BY <1>2, <1>4 DEF Coming, Pooled, Has
<1>6. \A s \in Slice : ~Read(c, s)
  BY <1>3 DEF Read
<1>7. QED
  BY <1>1, <1>2, <1>3, <1>5, <1>6

LEMMA WayKept ==
  ASSUME NEW c \in Client, NEW s \in Slice, OnItsWay(c, s),
         UNCHANGED <<toRead[c], toWrite[c], down[c], pool[c], parts[c]>>
  PROVE  OnItsWay(c, s)'
  BY DEF OnItsWay, Read, Coming, Pooled

LEMMA RequestKept ==
  ASSUME NEW c \in Client, OneRequest(c),
         UNCHANGED <<up[c], down[c], send[c], toRead[c], toWrite[c], loader[c],
                     parts[c], pool[c]>>
  PROVE  OneRequest(c)'
  BY DEF OneRequest, Asked, Completed, Served, Coming, Pooled

LEMMA HearKept ==
  ASSUME NEW c \in Client, NEW s \in Slice, OnlookersHear(c, s),
         UNCHANGED <<down[c], toWrite[c], loader[c], parts[c], pool[c],
                     mem[c][s], net[c], delta[c], gets[c]>>,
         block'[s] = block[s], Pending(s) => Pending(s)'
  PROVE  OnlookersHear(c, s)'
<1>1. Doomed(c) => Doomed(c)'
  BY DEF Doomed
<1>2. \A v \in Value : Carries(c, s, v)' => Carries(c, s, v)
  BY DEF Carries
<1>3. \A v \in Value : Changed(c, s, v)' = Changed(c, s, v)
  BY DEF Changed
<1>4. QED
  BY <1>1, <1>2, <1>3 DEF OnlookersHear

LEMMA KeepKept ==
  ASSUME NEW c \in Client, NEW s \in Slice, EditorsKeep(c, s),
         UNCHANGED <<up[c], down[c], toWrite[c], loader[c], parts[c], pool[c],
                     mem[c][s], suppressed[c]>>,
         block'[s] = block[s]
  PROVE  EditorsKeep(c, s)'
<1>1. \A v \in Value : Carries(c, s, v)' => Carries(c, s, v)
  BY DEF Carries
<1>2. Told(c, s)' = Told(c, s)
  BY DEF Told
<1>3. QED
  BY <1>1, <1>2 DEF EditorsKeep

(* A step of client c leaves the others alone. *)
Elsewhere(c) ==
  /\ \A d \in Client \ {c} :
       /\ UNCHANGED <<up[d], down[d], ended[d], send[d], toRead[d], toWrite[d],
                      loader[d], parts[d], pool[d], mem[d], net[d], delta[d],
                      gets[d], suppressed[d]>>
       /\ d \in registered' <=> d \in registered
       /\ d \in stale' <=> d \in stale
  /\ UNCHANGED <<block, change>>

LEMMA OthersFollow ==
  ASSUME SeenInv, NEW c \in Client, Elsewhere(c), NEW d \in Client \ {c}
  PROVE  Follows(d)'
<1>1. OnlyEditors(d)'
  BY DEF SeenInv, Follows, OnlyEditors, Elsewhere
<1>2. FirstLoad(d)'
  BY DEF SeenInv, Follows, FirstLoad, Elsewhere
<1>3. ASSUME Connected(d)'
      PROVE  /\ OneRequest(d)'
             /\ \A s \in Slice : /\ OnItsWay(d, s)'
                                 /\ OnlookersHear(d, s)'
                                 /\ EditorsKeep(d, s)'
  <2>1. /\ OneRequest(d)
        /\ \A s \in Slice : /\ OnItsWay(d, s)
                            /\ OnlookersHear(d, s)
                            /\ EditorsKeep(d, s)
    BY <1>3 DEF SeenInv, Follows, Connected, Elsewhere
  <2>2. \A s : Pending(s) => Pending(s)'
    BY DEF Pending, Elsewhere
  <2>3. OneRequest(d)'
    BY <2>1, RequestKept DEF Elsewhere
  <2>4. ASSUME NEW s \in Slice
        PROVE  OnItsWay(d, s)' /\ OnlookersHear(d, s)' /\ EditorsKeep(d, s)'
    BY <2>1, <2>2, WayKept, HearKept, KeepKept DEF Elsewhere
  <2>5. QED
    BY <2>3, <2>4
<1>4. QED
  BY <1>1, <1>2, <1>3 DEF Follows

(* So it is enough to show what the step does for c. *)
LEMMA StepOf ==
  ASSUME SeenInv, NEW c \in Client, Elsewhere(c), Follows(c)'
  PROVE  \A d \in Client : Follows(d)'
  BY OthersFollow
-----------------------------------------------------------------------------
(* The first state, and one lemma for each action *)

LEMMA SeenInit == Init => SeenInv
<1> SUFFICES ASSUME Init PROVE SeenInv
  OBVIOUS
<1>1. TypeOK /\ LoadedIsWhole
  BY TypeInit DEF Init, LoadedIsWhole
<1> SUFFICES ASSUME NEW c \in Client PROVE Follows(c)
  BY <1>1 DEF SeenInv
<1>2. /\ up[c] = <<>> /\ down[c] = <<>> /\ net[c] = "idle" /\ change[c] = None
      /\ pool[c] = {} /\ toRead[c] = {} /\ toWrite[c] = {} /\ send[c] = "idle"
      /\ loader[c] = "out" /\ parts[c] = NoParts /\ gets[c] = 0
      /\ registered = {} /\ stale = {}
  BY DEF Init
<1>3. \A K : ~Has(<<>>, K) /\ Once(<<>>, K)
  BY EmptyHas
<1>4. OnlyEditors(c) /\ FirstLoad(c)
  BY <1>2, <1>3 DEF OnlyEditors, FirstLoad
<1>5. ~Asked(c) /\ ~Completed(c)
      /\ \A s \in Slice : ~Read(c, s) /\ ~Coming(c, s) /\ ~Pooled(c, s)
  BY <1>2, <1>3 DEF Asked, Completed, Read, Coming, Pooled
<1>6. OneRequest(c)
  BY <1>2, <1>3, <1>5 DEF OneRequest, Served
<1>7. \A s \in Slice : OnItsWay(c, s)
  BY <1>2, <1>3, <1>5 DEF OnItsWay
<1>8. \A s \in Slice, v \in Value : ~Carries(c, s, v)
  BY <1>2, <1>3 DEF Carries
<1>9. QED
  BY <1>4, <1>6, <1>7, <1>8 DEF Follows, OnlookersHear, EditorsKeep

LEMMA PacketKinds ==
  ASSUME NEW p \in Packet
  PROVE  /\ p \in Gets <=> p.type = "get"
         /\ p \in Reports <=> p.type = "report"
         /\ p \in Dones <=> p.type = "done"
         /\ p \in Delta <=> p.type = "delta"
         /\ \A s \in Slice : p \in Slices(s) <=> p.type = "slice" /\ p.s = s
         /\ \A c : p \in Foreign(c) => p.type = "report"
         /\ \A c : p \in Own(c) => p.type = "delta"
         /\ \A s \in Slice, v \in Value :
               p = Msg("slice", s, v) <=> p.type = "slice" /\ p.s = s /\ p.v = v
<1>1. ASSUME NEW s \in Slice, NEW v \in Value, p.type = "slice", p.s = s, p.v = v
      PROVE  p = Msg("slice", s, v)
  BY <1>1 DEF Packet, Msg
<1>2. \A s \in Slice, v \in Value : p = Msg("slice", s, v) =>
         p.type = "slice" /\ p.s = s /\ p.v = v
  BY DEF Msg
<1>3. QED
  BY <1>1, <1>2 DEF Gets, Reports, Dones, Delta, Slices, Foreign, Own

LEMMA MsgFields ==
  ASSUME NEW t, NEW s, NEW v
  PROVE  Msg(t, s, v).type = t /\ Msg(t, s, v).s = s /\ Msg(t, s, v).v = v
  BY DEF Msg

(* The parts of the invariant that concern a client. *)
LEMMA FollowsFacts ==
  ASSUME SeenInv, NEW c \in Client, Connected(c)
  PROVE  /\ TypeOK /\ OnlyEditors(c) /\ FirstLoad(c) /\ OneRequest(c)
         /\ \A s \in Slice : /\ OnItsWay(c, s)
                             /\ OnlookersHear(c, s)
                             /\ EditorsKeep(c, s)
         /\ up[c] \in Seq(Packet) /\ down[c] \in Seq(Packet)
         /\ pool[c] \subseteq Packet
  BY DEF SeenInv, Follows, TypeOK

LEMMA SeenGet ==
  ASSUME SeenInv, NEW c \in Client, Get(c)
  PROVE  \A d \in Client : Follows(d)'
<1> DEFINE p == Msg("get", None, None)
<1>1. /\ Connected(c) /\ loader[c] = "out"
      /\ loader'[c] = "loading" /\ parts'[c] = NoParts
      /\ up'[c] = Append(up[c], p) /\ gets'[c] = gets[c] + 1
      /\ UNCHANGED <<down[c], ended[c], send[c], toRead[c], toWrite[c], pool[c],
                     net[c], delta[c], registered, stale, change, block>>
      /\ gets[c] \in Nat
  BY DEF Get, SeenInv, TypeOK, Connected, server, applying
<1>2. Elsewhere(c)
  BY DEF Elsewhere, Get, SeenInv, TypeOK, server, applying
<1>3. p \in Packet /\ p \in Gets /\ p \notin Reports /\ \A d : p \notin Foreign(d)
  BY RequestMade, PacketKinds, MsgFields
<1> HIDE DEF p
<1>4. /\ TypeOK /\ OnlyEditors(c) /\ FirstLoad(c) /\ OneRequest(c)
      /\ \A s \in Slice : OnItsWay(c, s)
      /\ up[c] \in Seq(Packet)
  BY <1>1, FollowsFacts
<1>5. /\ toRead[c] = {} /\ toWrite[c] = {} /\ ~Served(c) /\ ~Asked(c)
      /\ \A s \in Slice : ~Coming(c, s) /\ ~Pooled(c, s)
      /\ \A s \in Slice, v \in Value :
               /\ ~Has(down[c], {Msg("slice", s, v)})
               /\ Msg("slice", s, v) \notin pool[c]
  BY <1>1, <1>4, NoneCarried
<1>6. OnlyEditors(c)'
  BY <1>1, <1>3, <1>4, AppendHas DEF OnlyEditors
<1>7. FirstLoad(c)'
  BY <1>1, <1>4 DEF FirstLoad
<1>8. OneRequest(c)'
  <2>1. Once(up'[c], Gets) /\ ReportsFirst(up'[c])
    BY <1>1, <1>3, <1>4, <1>5, AppendHas, AppendReportsFirst DEF OneRequest, Asked
  <2>2. ~Served(c)'
    BY <1>1, <1>5 DEF Served, Completed, Coming, Pooled
  <2>3. /\ Once(down'[c], Dones)
        /\ Has(down'[c], Dones) => pool'[c] \cap Dones = {}
    BY <1>1, <1>4 DEF OneRequest
  <2>4. send'[c] # "slices" /\ toRead'[c] = {} /\ toWrite'[c] = {}
    BY <1>1, <1>5 DEF Served
  <2>5. QED
    BY <1>1, <2>1, <2>2, <2>3, <2>4 DEF OneRequest
<1>9. ASSUME NEW s \in Slice PROVE OnItsWay(c, s)'
  <2>1. /\ s \notin toRead'[c] /\ ~Read(c, s)' /\ ~Coming(c, s)' /\ ~Pooled(c, s)'
    BY <1>1, <1>5 DEF Read, Coming, Pooled
  <2>2. Once(down'[c], Slices(s)) /\ toWrite'[c] = {}
    BY <1>1, <1>4, <1>5 DEF OnItsWay
  <2>3. QED
    BY <2>1, <2>2 DEF OnItsWay, Pooled
<1>10. ASSUME NEW s \in Slice, NEW v \in Value PROVE ~Carries(c, s, v)'
  BY <1>1, <1>5, NoneNames DEF Carries, NoParts
<1>11. Follows(c)'
  BY <1>6, <1>7, <1>8, <1>9, <1>10 DEF Follows, OnlookersHear, EditorsKeep
<1>12. QED
  BY <1>2, <1>11, StepOf

LEMMA SeenEdit ==
  ASSUME SeenInv, NEW c \in Client, NEW t \in Slice, Edit(c, t)
  PROVE  \A d \in Client : Follows(d)'
<1> DEFINE p == Msg("report", t, edits + 1)
<1>1. /\ Connected(c) /\ loader[c] = "loaded" /\ c \in Editors[t]
      /\ edits + 1 \in Value
      /\ mem'[c][t] = edits + 1
      /\ \A s \in Slice : s # t => mem'[c][s] = mem[c][s]
      /\ \/ up'[c] = up[c] /\ suppressed'[c] = suppressed[c] \cup {t}
         \/ up'[c] = Append(up[c], p) /\ suppressed'[c] = suppressed[c]
      /\ UNCHANGED <<down[c], ended[c], send[c], toRead[c], toWrite[c], pool[c],
                     net[c], delta[c], registered, stale, change, block,
                     loader[c], parts[c], gets[c]>>
  BY ChunkSyncAssumption
     DEF Edit, SeenInv, TypeOK, Connected, server, applying, Value
<1>2. Elsewhere(c)
  BY DEF Elsewhere, Edit, SeenInv, TypeOK, server, applying
<1>3. /\ p \in Packet /\ p.type = "report" /\ p.s = t /\ p.v = edits + 1
      /\ p \notin Gets /\ p \notin Foreign(c)
  <2>1. p \in Packet
    BY <1>1, PacketMade
  <2>2. p.type = "report" /\ p.s = t /\ p.v = edits + 1
    BY MsgFields
  <2>3. QED
    BY <1>1, <2>1, <2>2 DEF Gets, Foreign
<1> HIDE DEF p
<1>4. /\ TypeOK /\ OnlyEditors(c) /\ FirstLoad(c) /\ OneRequest(c)
      /\ \A s \in Slice : /\ OnItsWay(c, s)
                          /\ OnlookersHear(c, s)
                          /\ EditorsKeep(c, s)
      /\ up[c] \in Seq(Packet)
  BY <1>1, FollowsFacts
<1>5. /\ toWrite[c] = {} /\ ~Served(c) /\ ~Asked(c) /\ parts[c] = NoParts
      /\ \A s \in Slice, v \in Value :
               /\ ~Has(down[c], {Msg("slice", s, v)})
               /\ Msg("slice", s, v) \notin pool[c]
  BY <1>1, <1>4, NoneCarried
<1>6. OnlyEditors(c)'
  <2>1. ~Has(up[c], Foreign(c))
    BY <1>4 DEF OnlyEditors
  <2>2. ~Has(Append(up[c], p), Foreign(c))
    BY <1>3, <1>4, <2>1, AppendHas
  <2>3. ~Has(up'[c], Foreign(c))
    BY <1>1, <2>1, <2>2
  <2>4. QED
    BY <1>1, <1>4, <2>3 DEF OnlyEditors
<1>7. FirstLoad(c)'
  BY <1>1, <1>4 DEF FirstLoad
<1>8. OneRequest(c)'
  <2>a. Once(up[c], Gets) /\ ~Has(up[c], Gets)
    BY <1>4, <1>5 DEF OneRequest, Asked
  <2>b. /\ ~Has(Append(up[c], p), Gets)
        /\ Once(Append(up[c], p), Gets)
    BY <1>3, <1>4, <2>a, AppendHas
  <2>1. Once(up'[c], Gets) /\ ~Has(up'[c], Gets)
    BY <1>1, <2>a, <2>b
  <2>2. ~Served(c)' /\ ~Asked(c)'
    BY <1>1, <1>5, <2>1 DEF Served, Completed, Coming, Pooled, Asked
  <2>3. QED
    BY <1>1, <1>4, <1>5, <2>1, <2>2 DEF OneRequest, Completed
<1>9. ASSUME NEW s \in Slice PROVE OnItsWay(c, s)'
  BY <1>1, <1>4, WayKept
<1>10. ASSUME NEW s \in Slice PROVE OnlookersHear(c, s)'
  <2>1. CASE s = t
    BY <1>1, <2>1 DEF OnlookersHear
  <2>2. CASE s # t
    <3>1. Pending(s) => Pending(s)'
      BY <1>1 DEF Pending
    <3>2. QED
      BY <1>1, <1>4, <2>2, <3>1, HearKept
  <2>3. QED
    BY <2>1, <2>2
<1>11. ASSUME NEW s \in Slice PROVE EditorsKeep(c, s)'
  <2>1. \A v \in Value : Carries(c, s, v)' => mem'[c][s] = v
    BY <1>1, <1>5 DEF Carries
  <2>2. CASE s = t
    <3>1. CASE up'[c] = up[c] /\ suppressed'[c] = suppressed[c] \cup {t}
      BY <1>1, <2>2, <3>1 DEF EditorsKeep
    <3>2. CASE up'[c] = Append(up[c], p)
      <4>1. Told(c, s)' = edits + 1
        BY <1>3, <1>4, <2>2, <3>2, LastAppend DEF Told
      <4>2. QED
        BY <1>1, <2>1, <2>2, <4>1 DEF EditorsKeep
    <3>3. QED
      BY <1>1, <3>1, <3>2
  <2>3. CASE s # t
    <3>1. Told(c, s)' = Told(c, s)
      <4>1. LastOf(Append(up[c], p), "report", s, block[s])
              = LastOf(up[c], "report", s, block[s])
        BY <1>3, <1>4, <2>3, LastAppend
      <4>2. QED
        BY <1>1, <4>1 DEF Told
    <3>2. \A v \in Value : Carries(c, s, v)' => Carries(c, s, v)
      BY <1>1, <2>1, <2>3 DEF Carries
    <3>3. s \in suppressed[c] => s \in suppressed'[c]
      BY <1>1
    <3>4. QED
      BY <1>1, <1>4, <3>1, <3>2, <3>3 DEF EditorsKeep
  <2>4. QED
    BY <2>2, <2>3
<1>12. Follows(c)'
  BY <1>6, <1>7, <1>8, <1>9, <1>10, <1>11 DEF Follows
<1>13. QED
  BY <1>2, <1>12, StepOf

LEMMA SeenPrune ==
  ASSUME SeenInv, NEW c \in Client, Prune(c)
  PROVE  \A d \in Client : Follows(d)'
<1>1. /\ Connected(c) /\ loader[c] = "loaded" /\ loader'[c] = "out"
      /\ UNCHANGED <<up[c], down[c], ended[c], send[c], toRead[c], toWrite[c],
                     pool[c], net[c], delta[c], registered, change, block,
                     parts[c], gets[c], suppressed[c]>>
  BY DEF Prune, SeenInv, TypeOK, Connected, server, applying, history
<1>2. Elsewhere(c)
  BY DEF Elsewhere, Prune, SeenInv, TypeOK, server, applying, history
<1>3. /\ TypeOK /\ OnlyEditors(c) /\ FirstLoad(c) /\ OneRequest(c)
      /\ \A s \in Slice : OnItsWay(c, s)
  BY <1>1, FollowsFacts
<1>4. /\ toWrite[c] = {} /\ ~Served(c) /\ ~Asked(c) /\ parts[c] = NoParts
      /\ \A s \in Slice, v \in Value :
               /\ ~Has(down[c], {Msg("slice", s, v)})
               /\ Msg("slice", s, v) \notin pool[c]
  BY <1>1, <1>3, NoneCarried
<1>5. OnlyEditors(c)'
  BY <1>1, <1>3 DEF OnlyEditors
<1>6. FirstLoad(c)'
  BY <1>1, <1>3 DEF FirstLoad
<1>7. OneRequest(c)'
  BY <1>1, <1>3, <1>4 DEF OneRequest, Asked, Completed, Served, Coming, Pooled
<1>8. ASSUME NEW s \in Slice PROVE OnItsWay(c, s)'
  BY <1>1, <1>3, WayKept
<1>9. ASSUME NEW s \in Slice, NEW v \in Value PROVE ~Carries(c, s, v)'
  BY <1>1, <1>4 DEF Carries
<1>10. Follows(c)'
  BY <1>5, <1>6, <1>7, <1>8, <1>9 DEF Follows, OnlookersHear, EditorsKeep
<1>11. QED
  BY <1>2, <1>10, StepOf

LEMMA SeenDeregister ==
  ASSUME SeenInv, NEW c \in Client, Deregister(c)
  PROVE  \A d \in Client : Follows(d)'
<1> DEFINE p == Msg("stop", None, None)
<1>1. /\ Connected(c) /\ c \in stale /\ c \notin stale' /\ c \notin registered'
      /\ up'[c] = Append(up[c], p)
      /\ UNCHANGED <<down[c], ended[c], send[c], toRead[c], toWrite[c], pool[c],
                     net[c], delta[c], change, block, loader[c], parts[c],
                     gets[c], suppressed[c], mem[c]>>
  BY DEF Deregister, SeenInv, TypeOK, Connected, server, applying, history
<1>2. Elsewhere(c)
  BY DEF Elsewhere, Deregister, SeenInv, TypeOK, server, applying, history
<1>3. /\ p \in Packet /\ p.type = "stop" /\ p \notin Gets /\ p \notin Reports
      /\ p \notin Foreign(c)
  BY RequestMade, PacketKinds, MsgFields
<1> HIDE DEF p
<1>4. /\ TypeOK /\ OnlyEditors(c) /\ FirstLoad(c) /\ OneRequest(c)
      /\ \A s \in Slice : /\ OnItsWay(c, s)
                          /\ OnlookersHear(c, s)
                          /\ EditorsKeep(c, s)
      /\ up[c] \in Seq(Packet)
  BY <1>1, FollowsFacts
<1>5. OnlyEditors(c)'
  <2>1. ~Has(up[c], Foreign(c))
    BY <1>4 DEF OnlyEditors
  <2>2. ~Has(Append(up[c], p), Foreign(c))
    BY <1>3, <1>4, <2>1, AppendHas
  <2>3. ~Has(up'[c], Foreign(c))
    BY <1>1, <2>1, <2>2
  <2>4. QED
    BY <1>1, <1>4, <2>3 DEF OnlyEditors
<1>6. FirstLoad(c)'
  BY <1>1, <1>4 DEF FirstLoad
<1>7. OneRequest(c)'
  <2>1. /\ Once(up'[c], Gets)
        /\ ReportsFirst(up[c]) => ReportsFirst(up'[c])
        /\ Asked(c)' => Asked(c)
    BY <1>1, <1>3, <1>4, AppendHas, AppendReportsFirst DEF OneRequest, Asked
  <2>2. (Completed(c)' => Completed(c)) /\ (Served(c)' => Served(c))
    BY <1>1 DEF Completed, Served, Coming, Pooled
  <2>3. QED
    BY <1>1, <1>4, <2>1, <2>2 DEF OneRequest
<1>8. ASSUME NEW s \in Slice
      PROVE  OnItsWay(c, s)' /\ OnlookersHear(c, s)' /\ EditorsKeep(c, s)'
  <2>1. OnItsWay(c, s)'
    BY <1>1, <1>4, WayKept
  <2>2. Pending(s) => Pending(s)'
    BY <1>1 DEF Pending
  <2>3. OnlookersHear(c, s)'
    BY <1>1, <1>4, <2>2, HearKept
  <2>4. Told(c, s)' = Told(c, s)
    BY <1>1, <1>3, <1>4, LastAppend DEF Told
  <2>5. \A v \in Value : Carries(c, s, v)' => Carries(c, s, v)
    BY <1>1 DEF Carries
  <2>6. QED
    BY <1>1, <1>4, <2>1, <2>3, <2>4, <2>5 DEF EditorsKeep
<1>9. Follows(c)'
  BY <1>5, <1>6, <1>7, <1>8 DEF Follows
<1>10. QED
  BY <1>2, <1>9, StepOf

LEMMA SeenEndDelta ==
  ASSUME SeenInv, NEW c \in Client, EndDelta(c)
  PROVE  \A d \in Client : Follows(d)'
<1>1. /\ Connected(c) /\ net[c] = "end" /\ net'[c] = "idle"
      /\ UNCHANGED <<up[c], down[c], ended[c], send[c], toRead[c], toWrite[c],
                     pool[c], registered, stale, change, block, loader[c],
                     parts[c], gets[c], suppressed[c], mem[c]>>
  BY DEF EndDelta, SeenInv, TypeOK, Connected, server, game, history
<1>2. Elsewhere(c)
  BY DEF Elsewhere, EndDelta, SeenInv, TypeOK, server, game, history
<1>3. /\ TypeOK /\ OnlyEditors(c) /\ FirstLoad(c) /\ OneRequest(c)
      /\ \A s \in Slice : /\ OnItsWay(c, s)
                          /\ OnlookersHear(c, s)
                          /\ EditorsKeep(c, s)
  BY <1>1, FollowsFacts
<1>4. OnlyEditors(c)'
  BY <1>1, <1>3 DEF OnlyEditors
<1>5. FirstLoad(c)'
  BY <1>1, <1>3 DEF FirstLoad
<1>6. OneRequest(c)'
  BY <1>1, <1>3, RequestKept
<1>7. ASSUME NEW s \in Slice
      PROVE  OnItsWay(c, s)' /\ OnlookersHear(c, s)' /\ EditorsKeep(c, s)'
  <2>1. OnItsWay(c, s)'
    BY <1>1, <1>3, WayKept
  <2>2. Pending(s) => Pending(s)'
    BY <1>1 DEF Pending
  <2>3. \A v \in Value : /\ Carries(c, s, v)' => Carries(c, s, v)
                         /\ Changed(c, s, v)' = Changed(c, s, v)
    BY <1>1 DEF Carries, Changed
  <2>4. Doomed(c) => Doomed(c)'
    BY <1>1 DEF Doomed
  <2>5. OnlookersHear(c, s)'
    BY <1>1, <1>3, <2>2, <2>3, <2>4 DEF OnlookersHear
  <2>6. EditorsKeep(c, s)'
    BY <1>1, <1>3, KeepKept
  <2>7. QED
    BY <2>1, <2>5, <2>6
<1>8. Follows(c)'
  BY <1>4, <1>5, <1>6, <1>7 DEF Follows
<1>9. QED
  BY <1>2, <1>8, StepOf

LEMMA SeenStop ==
  ASSUME SeenInv, NEW c \in Client, HandleStop(c)
  PROVE  \A d \in Client : Follows(d)'
<1>1. /\ Connected(c) /\ up[c] # <<>> /\ Head(up[c]).type = "stop"
      /\ up'[c] = Tail(up[c])
      /\ UNCHANGED <<down[c], ended[c], send[c], toRead[c], toWrite[c], pool[c],
                     net[c], delta[c], registered, stale, change, block,
                     loader[c], parts[c], gets[c], suppressed[c], mem[c]>>
  BY DEF HandleStop, Arrives, SeenInv, TypeOK, Connected, game, applying, history
<1>2. Elsewhere(c)
  BY DEF Elsewhere, HandleStop, SeenInv, TypeOK, game, applying, history
<1>3. /\ TypeOK /\ OnlyEditors(c) /\ FirstLoad(c) /\ OneRequest(c)
      /\ \A s \in Slice : /\ OnItsWay(c, s)
                          /\ OnlookersHear(c, s)
                          /\ EditorsKeep(c, s)
      /\ up[c] \in Seq(Packet)
  BY <1>1, FollowsFacts
<1>4. OnlyEditors(c)'
  <2>1. ~Has(up'[c], Foreign(c))
    BY <1>1, <1>3, TailHas DEF OnlyEditors
  <2>2. QED
    BY <1>1, <1>3, <2>1 DEF OnlyEditors
<1>5. FirstLoad(c)'
  BY <1>1, <1>3 DEF FirstLoad
<1>6. OneRequest(c)'
  <2>1. /\ Once(up'[c], Gets)
        /\ ReportsFirst(up[c]) => ReportsFirst(up'[c])
        /\ Asked(c)' => Asked(c)
    BY <1>1, <1>3, TailHas, TailReportsFirst DEF OneRequest, Asked
  <2>2. (Completed(c)' => Completed(c)) /\ (Served(c)' => Served(c))
    BY <1>1 DEF Completed, Served, Coming, Pooled
  <2>3. QED
    BY <1>1, <1>3, <2>1, <2>2 DEF OneRequest
<1>7. ASSUME NEW s \in Slice
      PROVE  OnItsWay(c, s)' /\ OnlookersHear(c, s)' /\ EditorsKeep(c, s)'
  <2>1. OnItsWay(c, s)'
    BY <1>1, <1>3, WayKept
  <2>2. Pending(s) => Pending(s)'
    BY <1>1 DEF Pending
  <2>3. OnlookersHear(c, s)'
    BY <1>1, <1>3, <2>2, HearKept
  <2>4. Told(c, s)' = Told(c, s)
    BY <1>1, <1>3, LastTail DEF Told
  <2>5. \A v \in Value : Carries(c, s, v)' => Carries(c, s, v)
    BY <1>1 DEF Carries
  <2>6. QED
    BY <1>1, <1>3, <2>1, <2>3, <2>4, <2>5 DEF EditorsKeep
<1>8. Follows(c)'
  BY <1>4, <1>5, <1>6, <1>7 DEF Follows
<1>9. QED
  BY <1>2, <1>8, StepOf

(* Nothing comes before the packet at the head. *)
LEMMA HeadDone ==
  ASSUME NEW q \in Seq(Packet), q # <<>>, Head(q) \in Dones
  PROVE  ~ChangeFirst(q)
<1>1. /\ 1 \in DOMAIN q /\ Head(q) = q[1]
      /\ \A i \in DOMAIN q : i \in Nat /\ i >= 1
  BY TailAt
<1>2. Dones \cap Delta = {}
  BY DEF Dones, Delta
<1>3. QED
  BY <1>1, <1>2 DEF ChangeFirst

LEMMA NoDeltas ==
  ASSUME NEW q, ~ChangeFirst(q), ~Has(q, Dones)
  PROVE  ~Has(q, Delta)
  BY DEF ChangeFirst, Has

(* A slice or the completion is given to the pool. *)
LEMMA SeenPooled ==
  ASSUME SeenInv, NEW c \in Client, Receive(c),
         Head(down[c]).type \in {"slice", "done"}
  PROVE  \A d \in Client : Follows(d)'
<1> DEFINE p == Head(down[c])
<1>0. /\ Connected(c) /\ net[c] = "idle" /\ down[c] # <<>>
      /\ down' = [down EXCEPT ![c] = Tail(@)]
      /\ pool' = [pool EXCEPT ![c] = @ \cup {p}]
      /\ UNCHANGED <<server, up, ended, loader, parts, mem, registered, stale,
                     history, applying>>
  BY DEF Receive
<1>1. /\ Connected(c) /\ net[c] = "idle" /\ down[c] # <<>>
      /\ down'[c] = Tail(down[c]) /\ pool'[c] = pool[c] \cup {p}
      /\ UNCHANGED <<up[c], ended[c], send[c], toRead[c], toWrite[c], net[c],
                     delta[c], registered, stale, change, block, loader[c],
                     parts[c], gets[c], suppressed[c], mem[c]>>
  BY <1>0 DEF SeenInv, TypeOK, Connected, server, applying, history
<1>2. Elsewhere(c)
  BY <1>0 DEF Elsewhere, SeenInv, TypeOK, server, applying, history
<1>3. /\ TypeOK /\ OnlyEditors(c) /\ FirstLoad(c) /\ OneRequest(c)
      /\ \A s \in Slice : /\ OnItsWay(c, s)
                          /\ OnlookersHear(c, s)
                          /\ EditorsKeep(c, s)
      /\ down[c] \in Seq(Packet)
  BY <1>1, FollowsFacts
<1>4. /\ p \in Packet /\ p \notin Delta
      /\ \/ p \in Dones /\ \A s \in Slice : p \notin Slices(s)
         \/ p \notin Dones
  BY <1>1, <1>3, QueueTail, PacketKinds
<1> HIDE DEF p
<1>5. \A K : /\ Has(Tail(down[c]), K) => Has(down[c], K)
             /\ p \in K => Has(down[c], K)
             /\ p \in K /\ Once(down[c], K) => ~Has(Tail(down[c]), K)
             /\ Once(down[c], K) => Once(Tail(down[c]), K)
  BY <1>1, <1>3, TailHas DEF p
<1>6. OnlyEditors(c)'
  BY <1>1, <1>3, <1>5 DEF OnlyEditors
<1>7. FirstLoad(c)'
  BY <1>1, <1>3 DEF FirstLoad
<1>8. OneRequest(c)'
  <2>1. Completed(c)' => Completed(c)
    BY <1>1, <1>5 DEF Completed
  <2>2. \A s \in Slice : Coming(c, s)' \/ Pooled(c, s)' => Coming(c, s) \/ Pooled(c, s)
    BY <1>1, <1>5 DEF Coming, Pooled
  <2>3. Served(c)' => Served(c)
    BY <1>1, <2>1, <2>2 DEF Served
  <2>4. Once(down'[c], Dones)
    BY <1>1, <1>3, <1>5 DEF OneRequest
  <2>5. Has(down'[c], Dones) => pool'[c] \cap Dones = {}
    BY <1>1, <1>3, <1>5 DEF OneRequest
  <2>6. QED
    BY <1>1, <1>3, <2>1, <2>3, <2>4, <2>5 DEF OneRequest, Asked
<1>9. ASSUME NEW s \in Slice, NEW v \in Value, Carries(c, s, v)'
      PROVE  Carries(c, s, v)
  BY <1>1, <1>5, <1>9 DEF Carries
<1>10. ASSUME NEW s \in Slice
       PROVE  OnItsWay(c, s)' /\ OnlookersHear(c, s)' /\ EditorsKeep(c, s)'
  <2>1. OnItsWay(c, s)
    BY <1>3
  <2>2. /\ Coming(c, s)' => Coming(c, s) /\ p \notin Slices(s)
        /\ Pooled(c, s)' => Pooled(c, s) \/ Coming(c, s)
        /\ p \in Slices(s) => Coming(c, s)
    BY <1>1, <1>5, <2>1 DEF Coming, Pooled, OnItsWay
  <2>3. /\ Once(down'[c], Slices(s))
        /\ \A m, n \in pool'[c] \cap Slices(s) : m = n
    BY <1>1, <1>5, <2>1, <2>2 DEF OnItsWay, Pooled
  <2>4. Coming(c, s)' => ~Pooled(c, s)'
    BY <1>1, <2>1, <2>2 DEF OnItsWay, Pooled
  <2>5. OnItsWay(c, s)'
    BY <1>1, <2>1, <2>2, <2>3, <2>4 DEF OnItsWay, Read
  <2>6. Doomed(c) => Doomed(c)'
    <3> SUFFICES ASSUME Doomed(c) PROVE Doomed(c)'
      OBVIOUS
    <3>1. ChangeFirst(down[c]) /\ p \notin Dones
      BY <1>1, <1>3, HeadDone DEF Doomed, p
    <3>2. ChangeFirst(Tail(down[c]))
      BY <1>1, <1>3, <1>4, <3>1, TailChangeFirst DEF p
    <3>3. QED
      BY <1>1, <3>1, <3>2 DEF Doomed
  <2>7. \A v \in Value : Changed(c, s, v)' = Changed(c, s, v)
    <3>1. p.type # "delta"
      BY <1>4 DEF Delta
    <3>2. \A v : LastOf(down[c], "delta", s, v) = LastOf(Tail(down[c]), "delta", s, v)
      BY <1>1, <1>3, <3>1, LastTail DEF p
    <3>3. QED
      BY <1>1, <3>2 DEF Changed
  <2>8. Pending(s) => Pending(s)'
    BY <1>1 DEF Pending
  <2>9. OnlookersHear(c, s)'
    BY <1>1, <1>3, <1>9, <2>6, <2>7, <2>8 DEF OnlookersHear
  <2>10. EditorsKeep(c, s)'
    BY <1>1, <1>3, <1>9 DEF EditorsKeep, Told
  <2>11. QED
    BY <2>5, <2>9, <2>10
<1>11. Follows(c)'
  BY <1>6, <1>7, <1>8, <1>10 DEF Follows
<1>12. QED
  BY <1>2, <1>11, StepOf

(* The thread of the connection takes a change. *)
LEMMA SeenTaken ==
  ASSUME SeenInv, NEW c \in Client, Receive(c), Head(down[c]).type = "delta"
  PROVE  \A d \in Client : Follows(d)'
<1> DEFINE p == Head(down[c])
<1>1. /\ Connected(c) /\ net[c] = "idle" /\ down[c] # <<>>
      /\ down'[c] = Tail(down[c]) /\ net'[c] = "begin" /\ delta'[c] = p
      /\ UNCHANGED <<up[c], ended[c], send[c], toRead[c], toWrite[c], pool[c],
                     registered, stale, change, block, loader[c],
                     parts[c], gets[c], suppressed[c], mem[c]>>
  BY DEF Receive, SeenInv, TypeOK, Connected, server, history
<1>2. Elsewhere(c)
  BY DEF Elsewhere, Receive, SeenInv, TypeOK, server, history
<1>3. /\ TypeOK /\ OnlyEditors(c) /\ FirstLoad(c) /\ OneRequest(c)
      /\ \A s \in Slice : /\ OnItsWay(c, s)
                          /\ OnlookersHear(c, s)
                          /\ EditorsKeep(c, s)
      /\ down[c] \in Seq(Packet)
  BY <1>1, FollowsFacts
<1>4. p.type = "delta"
  OBVIOUS
<1> HIDE DEF p
<1>5. \A K : /\ Has(Tail(down[c]), K) => Has(down[c], K)
             /\ p \in K => Has(down[c], K)
             /\ Once(down[c], K) => Once(Tail(down[c]), K)
  BY <1>1, <1>3, TailHas DEF p
<1>6. OnlyEditors(c)'
  BY <1>1, <1>3, <1>5 DEF OnlyEditors
<1>7. FirstLoad(c)'
  BY <1>1, <1>3 DEF FirstLoad
<1>8. OneRequest(c)'
  <2>1. /\ Completed(c)' => Completed(c)
        /\ Served(c)' => Served(c)
    BY <1>1, <1>5 DEF Completed, Served, Coming, Pooled
  <2>2. /\ Once(down'[c], Dones)
        /\ Has(down'[c], Dones) => pool'[c] \cap Dones = {}
    BY <1>1, <1>3, <1>5 DEF OneRequest
  <2>3. QED
    BY <1>1, <1>3, <2>1, <2>2 DEF OneRequest, Asked
<1>9. ASSUME NEW s \in Slice, NEW v \in Value, Carries(c, s, v)'
      PROVE  Carries(c, s, v)
  BY <1>1, <1>5, <1>9 DEF Carries
<1>10. ASSUME NEW s \in Slice
       PROVE  OnItsWay(c, s)' /\ OnlookersHear(c, s)' /\ EditorsKeep(c, s)'
  <2>1. OnItsWay(c, s)'
    <3>1. OnItsWay(c, s) /\ (Coming(c, s)' => Coming(c, s)) /\ (Pooled(c, s)' <=> Pooled(c, s))
      BY <1>1, <1>3, <1>5 DEF Coming, Pooled
    <3>2. Once(down'[c], Slices(s))
      BY <1>1, <1>5, <3>1 DEF OnItsWay
    <3>3. QED
      BY <1>1, <3>1, <3>2 DEF OnItsWay, Read
  <2>2. Doomed(c) => Doomed(c)'
    BY <1>1 DEF Doomed
  <2>3. \A v \in Value : Changed(c, s, v)' = Changed(c, s, v)
    <3>1. CASE p.s = s
      <4>1. \A v : LastOf(down[c], "delta", s, v) = LastOf(Tail(down[c]), "delta", s, p.v)
        BY <1>1, <1>3, <1>4, <3>1, LastTail DEF p
      <4>2. QED
        BY <1>1, <3>1, <4>1 DEF Changed
    <3>2. CASE p.s # s
      <4>1. \A v : LastOf(down[c], "delta", s, v) = LastOf(Tail(down[c]), "delta", s, v)
        BY <1>1, <1>3, <3>2, LastTail DEF p
      <4>2. QED
        BY <1>1, <3>2, <4>1 DEF Changed
    <3>3. QED
      BY <3>1, <3>2
  <2>4. Pending(s) => Pending(s)'
    BY <1>1 DEF Pending
  <2>5. OnlookersHear(c, s)'
    BY <1>1, <1>3, <1>9, <2>2, <2>3, <2>4 DEF OnlookersHear
  <2>6. EditorsKeep(c, s)'
    BY <1>1, <1>3, <1>9 DEF EditorsKeep, Told
  <2>7. QED
    BY <2>1, <2>5, <2>6
<1>11. Follows(c)'
  BY <1>6, <1>7, <1>8, <1>10 DEF Follows
<1>12. QED
  BY <1>2, <1>11, StepOf

LEMMA SeenUnpack ==
  ASSUME SeenInv, NEW c \in Client, UnpackSlice(c)
  PROVE  \A d \in Client : Follows(d)'
<1>1. PICK m \in pool[c] : /\ m.type = "slice"
                           /\ parts' = [parts EXCEPT ![c][m.s] = m.v]
                           /\ pool' = [pool EXCEPT ![c] = @ \ {m}]
  BY DEF UnpackSlice
<1>2. /\ Connected(c) /\ loader[c] = "loading"
      /\ pool'[c] = pool[c] \ {m}
      /\ UNCHANGED <<up[c], down[c], ended[c], send[c], toRead[c], toWrite[c],
                     net[c], delta[c], registered, stale, change, block,
                     loader[c], gets[c], suppressed[c], mem[c]>>
  BY <1>1 DEF UnpackSlice, SeenInv, TypeOK, Connected, server, applying, history
<1>3. Elsewhere(c)
  BY <1>1 DEF Elsewhere, UnpackSlice, SeenInv, TypeOK, server, applying, history
<1>4. /\ TypeOK /\ OnlyEditors(c) /\ FirstLoad(c) /\ OneRequest(c)
      /\ \A s \in Slice : /\ OnItsWay(c, s)
                          /\ OnlookersHear(c, s)
                          /\ EditorsKeep(c, s)
      /\ m \in Packet
  BY <1>2, FollowsFacts
<1>5. /\ m.s \in Slice /\ m.v \in Value
      /\ \A s \in Slice : m \in Slices(s) <=> s = m.s
      /\ m = Msg("slice", m.s, m.v)
  BY <1>1, <1>4, PacketKinds, PacketFields
<1>6. /\ parts'[c][m.s] = m.v
      /\ \A s \in Slice : s # m.s => parts'[c][s] = parts[c][s]
  BY <1>1, <1>5 DEF SeenInv, TypeOK
<1>7. /\ Pooled(c, m.s) /\ Served(c) /\ ~Asked(c)
      /\ m.s \notin toRead[c] /\ ~Read(c, m.s) /\ ~Coming(c, m.s)
      /\ pool'[c] \cap Slices(m.s) = {}
  BY <1>2, <1>4, <1>5 DEF Pooled, Served, OneRequest, OnItsWay
<1>8. OnlyEditors(c)'
  BY <1>2, <1>4 DEF OnlyEditors
<1>9. FirstLoad(c)'
  BY <1>2, <1>4 DEF FirstLoad
<1>10. OneRequest(c)'
  <2>1. /\ Completed(c)' => Completed(c)
        /\ Has(down'[c], Dones) => pool'[c] \cap Dones = {}
    BY <1>2, <1>4 DEF Completed, OneRequest
  <2>2. QED
    BY <1>2, <1>4, <1>7, <2>1 DEF OneRequest, Asked
<1>11. ASSUME NEW s \in Slice, NEW v \in Value, Carries(c, s, v)'
       PROVE  Carries(c, s, v)
  BY <1>2, <1>5, <1>6, <1>11 DEF Carries
<1>12. ASSUME NEW s \in Slice
       PROVE  OnItsWay(c, s)' /\ OnlookersHear(c, s)' /\ EditorsKeep(c, s)'
  <2>1. OnItsWay(c, s)'
    <3>1. CASE s = m.s
      <4>1. s \notin toRead'[c] /\ ~Read(c, s)' /\ ~Coming(c, s)' /\ ~Pooled(c, s)'
        BY <1>2, <1>7, <3>1 DEF Read, Coming, Pooled
      <4>2. Once(down'[c], Slices(s)) /\ \A n, k \in pool'[c] \cap Slices(s) : n = k
        BY <1>2, <1>4, <1>7, <3>1 DEF OnItsWay
      <4>3. \A v, w \in Value :
               <<s, v>> \in toWrite'[c] /\ <<s, w>> \in toWrite'[c] => v = w
        BY <1>2, <1>4 DEF OnItsWay
      <4>4. QED
        BY <4>1, <4>2, <4>3 DEF OnItsWay
    <3>2. CASE s # m.s
      BY <1>2, <1>4, <1>6, <3>2 DEF OnItsWay, Read, Coming, Pooled
    <3>3. QED
      BY <3>1, <3>2
  <2>2. Doomed(c) => Doomed(c)'
    BY <1>2 DEF Doomed
  <2>3. \A v \in Value : Changed(c, s, v)' = Changed(c, s, v)
    BY <1>2 DEF Changed
  <2>4. Pending(s) => Pending(s)'
    BY <1>2 DEF Pending
  <2>5. OnlookersHear(c, s)'
    BY <1>2, <1>4, <1>11, <2>2, <2>3, <2>4 DEF OnlookersHear
  <2>6. EditorsKeep(c, s)'
    BY <1>2, <1>4, <1>11 DEF EditorsKeep, Told
  <2>7. QED
    BY <2>1, <2>5, <2>6
<1>13. Follows(c)'
  BY <1>8, <1>9, <1>10, <1>12 DEF Follows
<1>14. QED
  BY <1>3, <1>13, StepOf

(* When all parts are there, nothing of the chunk is on its way. *)
LEMMA SeenFinish ==
  ASSUME SeenInv, NEW c \in Client, Finish(c)
  PROVE  \A d \in Client : Follows(d)'
<1>1. PICK m \in pool[c] : /\ m.type = "done"
                           /\ pool' = [pool EXCEPT ![c] = @ \ {m}]
  BY DEF Finish
<1>2. /\ Connected(c) /\ loader[c] = "loading" /\ loader'[c] = "loaded"
      /\ \A s \in Slice : parts[c][s] # None
      /\ pool'[c] = pool[c] \ {m}
      /\ mem'[c] = parts[c] /\ parts'[c] = NoParts /\ c \in registered'
      /\ UNCHANGED <<up[c], down[c], ended[c], send[c], toRead[c], toWrite[c],
                     net[c], delta[c], stale, change, block, gets[c],
                     suppressed[c]>>
  BY <1>1 DEF Finish, SeenInv, TypeOK, Connected, server, applying, history
<1>3. Elsewhere(c)
  BY <1>1 DEF Elsewhere, Finish, SeenInv, TypeOK, server, applying, history
<1>4. /\ TypeOK /\ OnlyEditors(c) /\ FirstLoad(c) /\ OneRequest(c)
      /\ \A s \in Slice : /\ OnItsWay(c, s)
                          /\ OnlookersHear(c, s)
                          /\ EditorsKeep(c, s)
      /\ m \in Packet /\ pool[c] \subseteq Packet
      /\ toWrite[c] \subseteq Slice \X Value /\ toRead[c] \subseteq Slice
  <2>1. toWrite[c] \subseteq Slice \X Value /\ toRead[c] \subseteq Slice
    BY DEF SeenInv, TypeOK
  <2>2. QED
    BY <1>2, <2>1, FollowsFacts
<1>5. m \in Dones /\ Completed(c) /\ ~Has(down[c], Dones)
  BY <1>1, <1>4, PacketKinds DEF Completed, OneRequest
<1>6. Served(c) /\ send[c] # "slices" /\ ~Asked(c)
  BY <1>4, <1>5 DEF Served, OneRequest
<1>7. toRead[c] = {} /\ toWrite[c] = {}
  BY <1>4, <1>6 DEF OneRequest
<1>8. \A s \in Slice : ~Coming(c, s) /\ ~Pooled(c, s)
  BY <1>2, <1>4 DEF OnItsWay
<1>9. pool'[c] \cap Dones = {}
  <2>1. \A n \in Dones : n = m
    BY <1>5 DEF Dones, Packet
  <2>2. QED
    BY <1>2, <2>1
<1>10. /\ ~Completed(c)' /\ ~Asked(c)' /\ ~Served(c)'
       /\ \A s \in Slice : ~Coming(c, s)' /\ ~Pooled(c, s)' /\ ~Read(c, s)'
  BY <1>2, <1>5, <1>6, <1>7, <1>8, <1>9
     DEF Completed, Asked, Served, Coming, Pooled, Read
<1>11. OnlyEditors(c)'
  BY <1>2, <1>4 DEF OnlyEditors
<1>12. FirstLoad(c)'
  BY <1>2, <1>4 DEF FirstLoad
<1>13. OneRequest(c)'
  BY <1>2, <1>4, <1>7, <1>9, <1>10 DEF OneRequest
<1>14. ASSUME NEW s \in Slice, NEW v \in Value, Carries(c, s, v)'
       PROVE  Carries(c, s, v)
  <2>1. /\ ~Has(down[c], {Msg("slice", s, v)})
        /\ Msg("slice", s, v) \notin pool[c]
    <3>1. Msg("slice", s, v) \in Slices(s)
      BY PacketMade DEF Slices, Msg
    <3>2. QED
      BY <1>8, <3>1 DEF Coming, Pooled, Has
  <2>2. QED
    BY <1>2, <1>7, <1>14, <2>1 DEF Carries
<1>15. ASSUME NEW s \in Slice
       PROVE  OnItsWay(c, s)' /\ OnlookersHear(c, s)' /\ EditorsKeep(c, s)'
  <2>1. OnItsWay(c, s)'
    BY <1>2, <1>4, <1>7, <1>10 DEF OnItsWay, Pooled
  <2>2. ~Doomed(c)
    BY <1>5 DEF Doomed
  <2>3. \A v \in Value : Changed(c, s, v)' = Changed(c, s, v)
    BY <1>2 DEF Changed
  <2>4. Pending(s) => Pending(s)'
    BY <1>2 DEF Pending
  <2>5. OnlookersHear(c, s)'
    BY <1>2, <1>4, <1>14, <2>2, <2>3, <2>4 DEF OnlookersHear
  <2>6. EditorsKeep(c, s)'
    BY <1>2, <1>4, <1>14 DEF EditorsKeep, Told
  <2>7. QED
    BY <2>1, <2>5, <2>6
<1>16. Follows(c)'
  BY <1>11, <1>12, <1>13, <1>15 DEF Follows
<1>17. QED
  BY <1>3, <1>16, StepOf

LEMMA SeenHandleGet ==
  ASSUME SeenInv, NEW c \in Client, HandleGet(c)
  PROVE  \A d \in Client : Follows(d)'
<1>1. /\ Connected(c) /\ up[c] # <<>> /\ Head(up[c]).type = "get"
      /\ up'[c] = Tail(up[c])
      /\ \/ send'[c] = send[c] /\ toRead'[c] = toRead[c]
         \/ send'[c] = "slices" /\ toRead'[c] = Slice
      /\ UNCHANGED <<down[c], ended[c], toWrite[c], pool[c], net[c], delta[c],
                     registered, stale, change, block, loader[c], parts[c],
                     gets[c], suppressed[c], mem[c]>>
  BY DEF HandleGet, Arrives, SeenInv, TypeOK, Connected, game, applying, history
<1>2. Elsewhere(c)
  BY DEF Elsewhere, HandleGet, SeenInv, TypeOK, game, applying, history
<1>3. /\ TypeOK /\ OnlyEditors(c) /\ FirstLoad(c) /\ OneRequest(c)
      /\ \A s \in Slice : /\ OnItsWay(c, s)
                          /\ OnlookersHear(c, s)
                          /\ EditorsKeep(c, s)
      /\ up[c] \in Seq(Packet)
  BY <1>1, FollowsFacts
<1>4. Head(up[c]) \in Gets
  BY <1>1, <1>3, QueueTail, PacketKinds
<1>5. Asked(c) /\ ~Asked(c)'
  BY <1>1, <1>3, <1>4, TailHas DEF Asked, OneRequest
<1>6. loader[c] = "loading" /\ parts[c] = NoParts /\ ~Served(c)
  BY <1>3, <1>5 DEF OneRequest
<1>7. /\ toRead[c] = {} /\ toWrite[c] = {} /\ ~Completed(c)
      /\ \A s \in Slice : ~Coming(c, s) /\ ~Pooled(c, s) /\ ~Read(c, s)
  BY <1>3, <1>6 DEF OneRequest, Served, Read
<1>8. /\ ~Completed(c)'
      /\ \A s \in Slice : ~Coming(c, s)' /\ ~Pooled(c, s)' /\ ~Read(c, s)'
  BY <1>1, <1>7 DEF Completed, Coming, Pooled, Read
<1>9. OnlyEditors(c)'
  <2>1. ~Has(up'[c], Foreign(c))
    BY <1>1, <1>3, TailHas DEF OnlyEditors
  <2>2. QED
    BY <1>1, <1>3, <2>1 DEF OnlyEditors
<1>10. FirstLoad(c)'
  BY <1>1, <1>3 DEF FirstLoad
<1>11. OneRequest(c)'
  <2>1. Once(up'[c], Gets) /\ ReportsFirst(up'[c])
    BY <1>1, <1>3, <1>6, TailHas, TailReportsFirst DEF OneRequest
  <2>2. /\ Once(down'[c], Dones)
        /\ Has(down'[c], Dones) => pool'[c] \cap Dones = {}
    BY <1>1, <1>3 DEF OneRequest
  <2>3. toRead'[c] # {} \/ toWrite'[c] # {} => send'[c] = "slices"
    BY <1>1, <1>7
  <2>4. QED
    BY <1>1, <1>5, <1>6, <1>8, <2>1, <2>2, <2>3 DEF OneRequest
<1>12. ASSUME NEW s \in Slice
       PROVE  OnItsWay(c, s)' /\ OnlookersHear(c, s)' /\ EditorsKeep(c, s)'
  <2>1. OnItsWay(c, s)'
    <3>1. parts'[c][s] = None
      BY <1>1, <1>6 DEF NoParts
    <3>2. Once(down'[c], Slices(s)) /\ toWrite'[c] = {}
      BY <1>1, <1>3, <1>7 DEF OnItsWay
    <3>3. QED
      BY <1>8, <3>1, <3>2 DEF OnItsWay, Pooled
  <2>2. Pending(s) => Pending(s)'
    BY <1>1 DEF Pending
  <2>3. OnlookersHear(c, s)'
    BY <1>1, <1>3, <2>2, HearKept
  <2>4. Told(c, s)' = Told(c, s)
    BY <1>1, <1>3, LastTail DEF Told
  <2>5. \A v \in Value : Carries(c, s, v)' => Carries(c, s, v)
    BY <1>1 DEF Carries
  <2>6. QED
    BY <1>1, <1>3, <2>1, <2>3, <2>4, <2>5 DEF EditorsKeep
<1>13. Follows(c)'
  BY <1>9, <1>10, <1>11, <1>12 DEF Follows
<1>14. QED
  BY <1>2, <1>13, StepOf

(* A connection that ends loses what is on its way. *)
LEMMA SeenClose ==
  ASSUME SeenInv, NEW c \in Client, NEW why \in Reason, Close(c, why),
         UNCHANGED <<block, send, toRead, toWrite, change, game, applying,
                     history>>
  PROVE  \A d \in Client : Follows(d)'
<1>1. up'[c] = <<>> /\ down'[c] = <<>> /\ ~Connected(c)'
  BY NoneNames DEF Close, SeenInv, TypeOK, Connected
<1>2. Elsewhere(c)
  BY DEF Elsewhere, Close, SeenInv, TypeOK, game, applying, history
<1>3. OnlyEditors(c) /\ FirstLoad(c)
  BY DEF SeenInv, Follows
<1>4. OnlyEditors(c)'
  BY <1>1, <1>3, EmptyHas DEF OnlyEditors, applying
<1>5. FirstLoad(c)'
  BY <1>3 DEF FirstLoad, game, history
<1>6. Follows(c)'
  BY <1>1, <1>4, <1>5 DEF Follows
<1>7. QED
  BY <1>2, <1>6, StepOf

(* A client that has the chunk for the first time is registered for its    *)
(* changes, so one that applies a change is not loading it.                *)
LEMMA SeenApply ==
  ASSUME SeenInv, NEW c \in Client, ApplyDelta(c)
  PROVE  \A d \in Client : Follows(d)'
<1>1. CASE c \notin registered
  <2>1. /\ Close(c, "delta for a chunk that is not loaded")
        /\ UNCHANGED <<block, send, toRead, toWrite, change, game, applying,
                       history>>
    BY <1>1 DEF ApplyDelta, server, game, applying
  <2>2. QED
    BY <2>1, SeenClose DEF Reason
<1>2. CASE c \in registered
  <2> DEFINE t == delta[c].s
  <2>1. /\ Connected(c) /\ net[c] = "begin" /\ net'[c] = "end"
        /\ loader[c] = "loaded" => mem'[c][t] = delta[c].v
        /\ \A s \in Slice : s # t => mem'[c][s] = mem[c][s]
        /\ UNCHANGED <<up[c], down[c], ended[c], send[c], toRead[c], toWrite[c],
                       pool[c], delta[c], registered, stale, change, block,
                       loader[c], parts[c], gets[c], suppressed[c]>>
    <3>1. t \in Slice
      BY PacketFields DEF ApplyDelta, SeenInv, TypeOK, Delta
    <3>2. mem' = [mem EXCEPT ![c][t] = IF loader[c] = "loaded" THEN delta[c].v ELSE @]
      BY <1>2 DEF ApplyDelta
    <3>3. /\ loader[c] = "loaded" => mem'[c][t] = delta[c].v
          /\ \A s \in Slice : s # t => mem'[c][s] = mem[c][s]
      BY <3>1, <3>2 DEF SeenInv, TypeOK
    <3>4. QED
      BY <1>2, <3>3 DEF ApplyDelta, SeenInv, TypeOK, Connected, server, history
  <2>2. Elsewhere(c)
    BY <1>2 DEF Elsewhere, ApplyDelta, SeenInv, TypeOK, server, history
  <2>3. /\ TypeOK /\ OnlyEditors(c) /\ FirstLoad(c) /\ OneRequest(c)
        /\ \A s \in Slice : /\ OnItsWay(c, s)
                            /\ OnlookersHear(c, s)
                            /\ EditorsKeep(c, s)
    BY <2>1, FollowsFacts
  <2>4. delta[c] \in Delta /\ delta[c] \notin Own(c)
    BY <2>1, <2>3 DEF TypeOK, OnlyEditors
  <2> HIDE DEF t
  <2>5. OnlyEditors(c)'
    BY <2>1, <2>3 DEF OnlyEditors
  <2>6. FirstLoad(c)'
    BY <2>1, <2>3 DEF FirstLoad
  <2>7. OneRequest(c)'
    BY <2>1, <2>3, RequestKept
  <2>8. ASSUME NEW s \in Slice PROVE OnItsWay(c, s)'
    BY <2>1, <2>3, WayKept
  <2>9. ASSUME NEW s \in Slice PROVE OnlookersHear(c, s)'
    <3>1. CASE gets[c] # 1
      BY <2>1, <3>1 DEF OnlookersHear
    <3>2. CASE gets[c] = 1
      <4>1. loader[c] # "loading" /\ ~Doomed(c)
        BY <1>2, <2>3, <3>2 DEF FirstLoad, Doomed
      <4>2. /\ toWrite[c] = {}
            /\ \A v \in Value : /\ ~Has(down[c], {Msg("slice", s, v)})
                                /\ Msg("slice", s, v) \notin pool[c]
        BY <2>3, <4>1, NoneCarried
      <4>3. \A v \in Value : Carries(c, s, v)' =>
               loader[c] = "loaded" /\ mem'[c][s] = v
        BY <2>1, <4>1, <4>2 DEF Carries
      <4>4. Pending(s) => Pending(s)'
        BY <2>1 DEF Pending
      <4>5. CASE s # t
        <5>1. \A v \in Value : Changed(c, s, v)' = Changed(c, s, v)
          BY <2>1, <4>5 DEF Changed, t
        <5>2. \A v \in Value : Carries(c, s, v)' => Carries(c, s, v)
          BY <2>1, <4>3, <4>5 DEF Carries
        <5>3. QED
          BY <2>1, <2>3, <4>1, <4>4, <5>1, <5>2 DEF OnlookersHear
      <4>6. CASE s = t
        <5>1. loader[c] = "loaded" => mem[c][s] \in Value /\ Carries(c, s, mem[c][s])
          BY DEF SeenInv, TypeOK, LoadedIsWhole, Carries
        <5>2. \A v \in Value : Carries(c, s, v)' =>
                 Changed(c, s, v)' = Changed(c, s, mem[c][s])
          BY <2>1, <4>3, <4>6 DEF Changed, t
        <5>3. QED
          BY <2>1, <2>3, <4>1, <4>3, <4>4, <5>1, <5>2 DEF OnlookersHear
      <4>7. QED
        BY <4>5, <4>6
    <3>3. QED
      BY <3>1, <3>2
  <2>10. ASSUME NEW s \in Slice PROVE EditorsKeep(c, s)'
    <3>1. CASE s = t
      <4>1. Editors[s] # {c}
        BY <2>4, <3>1 DEF Own, t
      <4>2. QED
        BY <4>1 DEF EditorsKeep
    <3>2. CASE s # t
      BY <2>1, <2>3, <3>2, KeepKept
    <3>3. QED
      BY <3>1, <3>2
  <2>11. Follows(c)'
    BY <2>5, <2>6, <2>7, <2>8, <2>9, <2>10 DEF Follows
  <2>12. QED
    BY <2>2, <2>11, StepOf
<1>3. QED
  BY <1>1, <1>2

(* The block is the one that the client's thread reports; only an editor's *)
(* does.                                                                   *)
LEMMA SeenReport ==
  ASSUME SeenInv, NEW c \in Client, HandleReport(c)
  PROVE  \A d \in Client : Follows(d)'
<1>1. CASE c \notin observers
  <2>1. /\ Close(c, "report for a chunk that is not observed")
        /\ UNCHANGED <<block, send, toRead, toWrite, change, game, applying,
                       history>>
    BY <1>1 DEF HandleReport
  <2>2. QED
    BY <2>1, SeenClose DEF Reason
<1>2. CASE c \in observers
  <2> DEFINE p == Head(up[c])
  <2>1. /\ Connected(c) /\ change[c] = None /\ up[c] # <<>> /\ p.type = "report"
        /\ block' = [block EXCEPT ![p.s] = p.v]
        /\ change' = [change EXCEPT ![c] = <<p.s, p.v>>]
        /\ up' = [up EXCEPT ![c] = Tail(@)]
        /\ UNCHANGED <<down, ended, send, toRead, toWrite, loader, parts, pool,
                       mem, registered, stale, net, delta, gets, suppressed>>
    BY <1>2 DEF HandleReport, Arrives, game, applying, history
  <2>2. /\ up[c] \in Seq(Packet) /\ OnlyEditors(c)
        /\ block \in [Slice -> Value] /\ up \in [Client -> Seq(Packet)]
        /\ change \in [Client -> {None} \cup (Slice \X Value)]
    BY DEF SeenInv, TypeOK, Follows
  <2>3. p \in Packet /\ p \in Reports /\ p.s \in Slice /\ p.v \in Value
    <3>1. p \in Packet
      BY <2>1, <2>2, QueueTail
    <3>2. QED
      BY <2>1, <3>1, PacketFields DEF Reports
  <2>4. c \in Editors[p.s]
    <3>1. p \notin Foreign(c)
      BY <2>1, <2>2, TailHas DEF OnlyEditors
    <3>2. QED
      BY <2>3, <3>1 DEF Foreign
  <2> HIDE DEF p
  <2>5. /\ up'[c] = Tail(up[c]) /\ \A d \in Client \ {c} : up'[d] = up[d]
        /\ block'[p.s] = p.v
        /\ \A s \in Slice : s # p.s => block'[s] = block[s]
        /\ change'[c] = <<p.s, p.v>>
        /\ \A d \in Client \ {c} : change'[d] = change[d]
    BY <2>1, <2>2, <2>3
  <2>6. /\ change'[c][1] = p.s /\ change'[c][2] = p.v
        /\ change'[c] # None
    BY <2>3, <2>5, NoneNames
  <2> SUFFICES ASSUME NEW d \in Client PROVE Follows(d)'
    OBVIOUS
  <2>7. OnlyEditors(d) /\ FirstLoad(d)
    BY DEF SeenInv, Follows
  <2>8. OnlyEditors(d)'
    <3>1. CASE d = c
      <4>1. ~Has(up'[c], Foreign(c))
        BY <2>1, <2>2, <2>5, TailHas DEF OnlyEditors
      <4>2. QED
        BY <2>1, <2>4, <2>5, <2>6, <2>7, <3>1, <4>1 DEF OnlyEditors
    <3>2. CASE d # c
      <4>1. ASSUME change[d] # None, Editors[change[d][1]] = {d}
            PROVE  block'[change[d][1]] = block[change[d][1]]
        <5>1. change[d][1] # p.s
          BY <2>4, <3>2, <4>1
        <5>2. change[d][1] \in Slice
          BY <2>2, <4>1
        <5>3. QED
          BY <2>5, <5>1, <5>2
      <4>2. QED
        BY <2>1, <2>5, <2>7, <3>2, <4>1 DEF OnlyEditors
    <3>3. QED
      BY <3>1, <3>2
  <2>9. FirstLoad(d)'
    BY <2>1, <2>7 DEF FirstLoad
  <2>10. ASSUME Connected(d)'
         PROVE  /\ OneRequest(d)'
                /\ \A s \in Slice : /\ OnItsWay(d, s)'
                                    /\ OnlookersHear(d, s)'
                                    /\ EditorsKeep(d, s)'
    <3>1. /\ OneRequest(d)
          /\ \A s \in Slice : /\ OnItsWay(d, s)
                              /\ OnlookersHear(d, s)
                              /\ EditorsKeep(d, s)
      BY <2>1, <2>10 DEF SeenInv, Follows, Connected
    <3>2. OneRequest(d)'
      <4>1. CASE d = c
        <5>1. /\ Once(up'[c], Gets)
              /\ ReportsFirst(up[c]) => ReportsFirst(up'[c])
              /\ Asked(c)' => Asked(c)
          BY <2>1, <2>2, <2>5, <3>1, <4>1, TailHas, TailReportsFirst
             DEF OneRequest, Asked
        <5>2. (Completed(c)' => Completed(c)) /\ (Served(c)' => Served(c))
          BY <2>1 DEF Completed, Served, Coming, Pooled
        <5>3. QED
          BY <2>1, <3>1, <4>1, <5>1, <5>2 DEF OneRequest
      <4>2. CASE d # c
        BY <2>1, <2>5, <3>1, <4>2, RequestKept
      <4>3. QED
        BY <4>1, <4>2
    <3>3. ASSUME NEW s \in Slice
          PROVE  OnItsWay(d, s)' /\ OnlookersHear(d, s)' /\ EditorsKeep(d, s)'
      <4>1. OnItsWay(d, s)'
        BY <2>1, <3>1, WayKept
      <4>2. OnlookersHear(d, s)'
        <5>1. CASE s = p.s
          BY <2>6, <5>1 DEF OnlookersHear, Pending
        <5>2. CASE s # p.s
          <6>1. Pending(s) => Pending(s)'
            BY <2>1, <2>5 DEF Pending
          <6>2. QED
            BY <2>1, <2>5, <3>1, <5>2, <6>1, HearKept
        <5>3. QED
          BY <5>1, <5>2
      <4>3. EditorsKeep(d, s)'
        <5>1. \A v \in Value : Carries(d, s, v)' => Carries(d, s, v)
          BY <2>1 DEF Carries
        <5>2. CASE d = c
          <6>1. Told(c, s)' = Told(c, s)
            <7>1. CASE s = p.s
              <8>1. LastOf(up[c], "report", s, block[s])
                      = LastOf(Tail(up[c]), "report", s, p.v)
                BY <2>1, <2>2, <7>1, LastTail DEF p
              <8>2. QED
                BY <2>5, <7>1, <8>1 DEF Told
            <7>2. CASE s # p.s
              <8>1. LastOf(up[c], "report", s, block[s])
                      = LastOf(Tail(up[c]), "report", s, block[s])
                BY <2>1, <2>2, <7>2, LastTail DEF p
              <8>2. QED
                BY <2>5, <7>2, <8>1 DEF Told
            <7>3. QED
              BY <7>1, <7>2
          <6>2. QED
            BY <2>1, <3>1, <5>1, <5>2, <6>1 DEF EditorsKeep
        <5>3. CASE d # c
          <6>1. CASE s = p.s
            BY <2>4, <5>3, <6>1 DEF EditorsKeep
          <6>2. CASE s # p.s
            BY <2>1, <2>5, <3>1, <5>3, <6>2, KeepKept
          <6>3. QED
            BY <6>1, <6>2
        <5>4. QED
          BY <5>2, <5>3
      <4>4. QED
        BY <4>1, <4>2, <4>3
    <3>4. QED
      BY <3>2, <3>3
  <2>11. QED
    BY <2>8, <2>9, <2>10 DEF Follows
<1>3. QED
  BY <1>1, <1>2

(* All others hear of the change, which is the block's value if nobody     *)
(* else changes that block.                                                *)
LEMMA SeenBroadcast ==
  ASSUME SeenInv, NEW c \in Client, Broadcast(c)
  PROVE  \A d \in Client : Follows(d)'
<1> DEFINE t == change[c][1]
           p == Msg("delta", t, change[c][2])
<1>1. /\ change[c] # None /\ change'[c] = None
      /\ \A d \in Client \ {c} : change'[d] = change[d]
      /\ \A d \in Client : down'[d] = IF d = c \/ ~Connected(d) THEN down[d]
                                      ELSE Append(down[d], p)
      /\ UNCHANGED <<block, up, ended, send, toRead, toWrite, loader, parts,
                     pool, mem, registered, stale, net, delta, gets, suppressed>>
  BY DEF Broadcast, SeenInv, TypeOK, game, applying, history
<1>2. /\ OnlyEditors(c) /\ t \in Slice /\ change[c][2] \in Value
      /\ p \in Packet /\ p.type = "delta" /\ p.s = t /\ p.v = change[c][2]
  <2>1. OnlyEditors(c) /\ t \in Slice /\ change[c][2] \in Value
    BY <1>1 DEF SeenInv, TypeOK, Follows
  <2>2. p \in Packet
    BY <2>1, PacketMade
  <2>3. QED
    BY <2>1, <2>2, MsgFields
<1>3. /\ c \in Editors[t]
      /\ Editors[t] = {c} => block[t] = p.v
  BY <1>1, <1>2 DEF OnlyEditors
<1> HIDE DEF p, t
<1> SUFFICES ASSUME NEW d \in Client PROVE Follows(d)'
  OBVIOUS
<1>4. /\ OnlyEditors(d) /\ FirstLoad(d)
      /\ down[d] \in Seq(Packet)
      /\ d # c /\ Connected(d) => down'[d] = Append(down[d], p)
      /\ d = c \/ ~Connected(d) => down'[d] = down[d]
  BY <1>1 DEF SeenInv, TypeOK, Follows
<1>5. p \in Delta /\ p \notin Dones /\ \A s : p \notin Slices(s)
  BY <1>2 DEF Delta, Dones, Slices
<1>6. ASSUME NEW K, p \notin K
      PROVE  /\ Has(down'[d], K) => Has(down[d], K)
             /\ Once(down[d], K) => Once(down'[d], K)
  BY <1>2, <1>4, <1>6, AppendHas
<1>a. ASSUME NEW s, NEW v
      PROVE  /\ t = s => LastOf(Append(down[d], p), "delta", s, v) = p.v
             /\ t # s => LastOf(Append(down[d], p), "delta", s, v)
                           = LastOf(down[d], "delta", s, v)
  BY <1>2, <1>4, LastAppend
<1>7. OnlyEditors(d)'
  <2>1. ~Has(down'[d], Own(d))
    <3>1. CASE d = c
      BY <1>4, <3>1 DEF OnlyEditors
    <3>2. CASE d # c
      <4>1. p \notin Own(d)
        BY <1>2, <1>3, <3>2 DEF Own
      <4>2. QED
        BY <1>4, <1>6, <4>1 DEF OnlyEditors
    <3>3. QED
      BY <3>1, <3>2
  <2>2. change'[d] = None \/ change'[d] = change[d]
    BY <1>1
  <2>3. QED
    BY <1>1, <1>4, <2>1, <2>2 DEF OnlyEditors
<1>8. FirstLoad(d)'
  BY <1>1, <1>4 DEF FirstLoad
<1>9. ASSUME Connected(d)'
      PROVE  /\ OneRequest(d)'
             /\ \A s \in Slice : /\ OnItsWay(d, s)'
                                 /\ OnlookersHear(d, s)'
                                 /\ EditorsKeep(d, s)'
  <2>1. /\ Connected(d) /\ OneRequest(d)
        /\ \A s \in Slice : /\ OnItsWay(d, s)
                            /\ OnlookersHear(d, s)
                            /\ EditorsKeep(d, s)
    BY <1>1, <1>9 DEF SeenInv, Follows, Connected
  <2>2. /\ Has(down'[d], Dones) => Has(down[d], Dones)
        /\ \A s \in Slice : Coming(d, s)' => Coming(d, s)
    BY <1>5, <1>6 DEF Coming
  <2>3. OneRequest(d)'
    <3>1. (Completed(d)' => Completed(d)) /\ (Asked(d)' <=> Asked(d))
      BY <1>1, <2>2 DEF Completed, Asked
    <3>2. Served(d)' => Served(d)
      BY <1>1, <2>2, <3>1 DEF Served, Pooled
    <3>3. Once(down'[d], Dones)
      BY <1>5, <1>6, <2>1 DEF OneRequest
    <3>4. QED
      BY <1>1, <2>1, <2>2, <3>1, <3>2, <3>3 DEF OneRequest
  <2>4. ASSUME NEW s \in Slice
        PROVE  OnItsWay(d, s)' /\ OnlookersHear(d, s)' /\ EditorsKeep(d, s)'
    <3>1. OnItsWay(d, s)'
      <4>1. Once(down'[d], Slices(s))
        BY <1>5, <1>6, <2>1 DEF OnItsWay
      <4>2. (Read(d, s)' <=> Read(d, s)) /\ (Pooled(d, s)' <=> Pooled(d, s))
        BY <1>1 DEF Read, Pooled
      <4>3. QED
        BY <1>1, <2>1, <2>2, <4>1, <4>2 DEF OnItsWay
    <3>2. \A v \in Value : Carries(d, s, v)' => Carries(d, s, v)
      <4>1. ASSUME NEW v \in Value PROVE p \notin {Msg("slice", s, v)}
        BY <1>2, MsgFields
      <4>2. \A v \in Value : Has(down'[d], {Msg("slice", s, v)}) =>
                             Has(down[d], {Msg("slice", s, v)})
        BY <1>6, <4>1
      <4>3. QED
        BY <1>1, <4>2 DEF Carries
    <3>3. OnlookersHear(d, s)'
      <4>1. CASE s = t /\ ~(d \notin Editors[s] /\ SoleEditor(s))
        BY <4>1 DEF OnlookersHear
      <4>2. CASE s = t /\ d \notin Editors[s] /\ SoleEditor(s)
        <5>1. d # c /\ Editors[s] = {c}
          BY <1>3, <4>2 DEF SoleEditor
        <5>2. \A v : Changed(d, s, v)' = p.v
          <6>1. down'[d] = Append(down[d], p)
            BY <1>4, <2>1, <5>1
          <6>2. \A v : LastOf(down'[d], "delta", s, v) = p.v
            BY <1>a, <4>2, <6>1
          <6>3. QED
            BY <6>2 DEF Changed
        <5>3. block'[s] = p.v
          BY <1>1, <1>3, <4>2, <5>1
        <5>4. QED
          BY <5>2, <5>3 DEF OnlookersHear
      <4>3. CASE s # t
        <5>1. Pending(s) => Pending(s)'
          BY <1>1, <4>3 DEF Pending, t
        <5>2. Doomed(d) => Doomed(d)'
          <6>1. ChangeFirst(down[d]) => ChangeFirst(down'[d])
            BY <1>2, <1>4, AppendChangeFirst
          <6>2. QED
            BY <1>1, <6>1 DEF Doomed
        <5>3. \A v : Changed(d, s, v)' = Changed(d, s, v)
          <6>1. \A v : LastOf(down'[d], "delta", s, v) = LastOf(down[d], "delta", s, v)
            BY <1>4, <1>a, <4>3
          <6>2. QED
            BY <1>1, <6>1 DEF Changed
        <5>4. QED
          BY <1>1, <2>1, <3>2, <5>1, <5>2, <5>3 DEF OnlookersHear
      <4>4. QED
        BY <4>1, <4>2, <4>3
    <3>4. EditorsKeep(d, s)'
      BY <1>1, <2>1, <3>2 DEF EditorsKeep, Told
    <3>5. QED
      BY <3>1, <3>3, <3>4
  <2>5. QED
    BY <2>3, <2>4
<1>10. QED
  BY <1>7, <1>8, <1>9 DEF Follows

(* A slice is read after the reports before the request for it, and no     *)
(* change is on its way to a client that has yet to get the completion,    *)
(* unless it ends the connection.                                          *)
LEMMA SeenRead ==
  ASSUME SeenInv, NEW c \in Client, NEW t \in Slice, ReadSlice(c, t)
  PROVE  \A d \in Client : Follows(d)'
<1>1. /\ Connected(c) /\ t \in toRead[c]
      /\ toRead'[c] = toRead[c] \ {t}
      /\ toWrite'[c] = toWrite[c] \cup {<<t, block[t]>>}
      /\ UNCHANGED <<up[c], down[c], ended[c], send[c], pool[c], net[c],
                     delta[c], registered, stale, change, block, loader[c],
                     parts[c], gets[c], suppressed[c], mem[c]>>
      /\ block[t] \in Value /\ toWrite[c] \subseteq Slice \X Value
  BY DEF ReadSlice, SeenInv, TypeOK, Connected, game, applying, history
<1>2. Elsewhere(c)
  BY DEF Elsewhere, ReadSlice, SeenInv, TypeOK, game, applying, history
<1>3. /\ TypeOK /\ OnlyEditors(c) /\ FirstLoad(c) /\ OneRequest(c)
      /\ \A s \in Slice : /\ OnItsWay(c, s)
                          /\ OnlookersHear(c, s)
                          /\ EditorsKeep(c, s)
      /\ up[c] \in Seq(Packet) /\ down[c] \in Seq(Packet)
  BY <1>1, FollowsFacts
<1>4. send[c] = "slices" /\ ~Completed(c) /\ Served(c)
      /\ loader[c] = "loading" /\ ~Asked(c) /\ ReportsFirst(up[c])
  BY <1>1, <1>3 DEF OneRequest, Served
<1>5. ~Read(c, t) /\ ~Coming(c, t) /\ ~Pooled(c, t) /\ parts[c][t] = None
  BY <1>1, <1>3 DEF OnItsWay
<1>6. /\ \A s \in Slice, v \in Value : <<s, v>> \in toWrite'[c] <=>
            <<s, v>> \in toWrite[c] \/ (s = t /\ v = block[t])
      /\ \A s \in Slice : s # t => (Read(c, s)' <=> Read(c, s))
      /\ \A s \in Slice : /\ Coming(c, s)' <=> Coming(c, s)
                          /\ Pooled(c, s)' <=> Pooled(c, s)
  BY <1>1 DEF Read, Coming, Pooled
<1>7. OnlyEditors(c)'
  BY <1>1, <1>3 DEF OnlyEditors
<1>8. FirstLoad(c)'
  BY <1>1, <1>3 DEF FirstLoad
<1>9. OneRequest(c)'
  <2>1. (Completed(c)' <=> Completed(c)) /\ (Asked(c)' <=> Asked(c))
    BY <1>1 DEF Completed, Asked
  <2>2. QED
    BY <1>1, <1>3, <1>4, <2>1 DEF OneRequest
<1>10. ASSUME NEW s \in Slice
       PROVE  OnItsWay(c, s)' /\ OnlookersHear(c, s)' /\ EditorsKeep(c, s)'
  <2>1. CASE s = t
    <3>1. s \notin toRead'[c] /\ ~Coming(c, s)' /\ ~Pooled(c, s)'
          /\ parts'[c][s] = None
      BY <1>1, <1>5, <1>6, <2>1
    <3>2. \A v \in Value : <<s, v>> \in toWrite'[c] => v = block[s]
      BY <1>5, <1>6, <2>1 DEF Read
    <3>3. OnItsWay(c, s)'
      <4>1. Once(down'[c], Slices(s))
        BY <1>1, <1>3 DEF OnItsWay
      <4>2. \A m, n \in pool'[c] \cap Slices(s) : m = n
        BY <3>1 DEF Pooled
      <4>3. QED
        BY <3>1, <3>2, <4>1, <4>2 DEF OnItsWay
    <3>4. \A v \in Value : Carries(c, s, v)' => v = block[s]
      <4>1. \A v \in Value : /\ ~Has(down[c], {Msg("slice", s, v)})
                             /\ Msg("slice", s, v) \notin pool[c]
        <5>1. \A v \in Value : Msg("slice", s, v) \in Slices(s)
          BY PacketMade DEF Slices, Msg
        <5>2. QED
          BY <1>5, <2>1, <5>1 DEF Coming, Pooled, Has
      <4>2. QED
        BY <1>1, <1>4, <3>1, <3>2, <4>1, NoneNames DEF Carries
    <3>5. OnlookersHear(c, s)'
      <4> SUFFICES ASSUME ~Doomed(c)' PROVE \A v \in Value : Changed(c, s, v)' = v
        BY <1>1, <3>4 DEF OnlookersHear
      <4>1. pool'[c] \cap Dones = {} /\ ~Has(down'[c], Dones)
        BY <1>1, <1>4 DEF Completed
      <4>2. net'[c] # "begin" /\ ~ChangeFirst(down'[c])
        BY <1>1, <1>4, <4>1 DEF Doomed
      <4>3. \A i \in DOMAIN down'[c] : ~(down'[c][i].type = "delta" /\ down'[c][i].s = s)
        <5>1. ~Has(down'[c], Delta)
          BY <4>1, <4>2, NoDeltas
        <5>2. \A i \in DOMAIN down'[c] : down'[c][i] \in Packet
          BY <1>1, <1>3
        <5>3. QED
          BY <5>1, <5>2 DEF Has, Delta
      <4>4. \A v : LastOf(down'[c], "delta", s, v) = v
        BY <1>1, <1>3, <4>3, LastOfNone
      <4>5. QED
        BY <4>2, <4>4 DEF Changed
    <3>6. EditorsKeep(c, s)'
      <4>1. \A i \in DOMAIN up'[c] : ~(up'[c][i].type = "report" /\ up'[c][i].s = s)
        <5>1. ~Has(up'[c], Reports)
          BY <1>1, <1>4, NoReports DEF Asked
        <5>2. \A i \in DOMAIN up'[c] : up'[c][i] \in Packet
          BY <1>1, <1>3
        <5>3. QED
          BY <5>1, <5>2 DEF Has, Reports
      <4>2. Told(c, s)' = block[s]
        BY <1>1, <1>3, <4>1, LastOfNone DEF Told
      <4>3. QED
        BY <3>4, <4>2 DEF EditorsKeep
    <3>7. QED
      BY <3>3, <3>5, <3>6
  <2>2. CASE s # t
    <3>1. \A v \in Value : Carries(c, s, v)' => Carries(c, s, v)
      BY <1>1, <1>6, <2>2 DEF Carries
    <3>2. OnItsWay(c, s)'
      BY <1>1, <1>3, <1>6, <2>2 DEF OnItsWay
    <3>3. Doomed(c) => Doomed(c)'
      BY <1>1 DEF Doomed
    <3>4. Pending(s) => Pending(s)'
      BY <1>1 DEF Pending
    <3>5. OnlookersHear(c, s)'
      <4>1. \A v \in Value : Changed(c, s, v)' = Changed(c, s, v)
        BY <1>1 DEF Changed
      <4>2. QED
        BY <1>1, <1>3, <3>1, <3>3, <3>4, <4>1 DEF OnlookersHear
    <3>6. EditorsKeep(c, s)'
      BY <1>1, <1>3, <3>1 DEF EditorsKeep, Told
    <3>7. QED
      BY <3>2, <3>5, <3>6
  <2>3. QED
    BY <2>1, <2>2
<1>11. Follows(c)'
  BY <1>7, <1>8, <1>9, <1>10 DEF Follows
<1>12. QED
  BY <1>2, <1>11, StepOf

LEMMA SeenWrite ==
  ASSUME SeenInv, NEW c \in Client, WriteSlice(c)
  PROVE  \A d \in Client : Follows(d)'
<1>1. PICK w \in toWrite[c] :
         /\ toWrite' = [toWrite EXCEPT ![c] = @ \ {w}]
         /\ down' = [down EXCEPT ![c] = Append(@, Msg("slice", w[1], w[2]))]
  BY DEF WriteSlice
<1> DEFINE t == w[1]
           p == Msg("slice", t, w[2])
<1>2. /\ Connected(c)
      /\ toWrite'[c] = toWrite[c] \ {w} /\ down'[c] = Append(down[c], p)
      /\ UNCHANGED <<up[c], ended[c], send[c], toRead[c], pool[c], net[c],
                     delta[c], registered, stale, change, block, loader[c],
                     parts[c], gets[c], suppressed[c], mem[c]>>
      /\ w \in Slice \X Value
  BY <1>1 DEF WriteSlice, SeenInv, TypeOK, Connected, game, applying, history
<1>3. Elsewhere(c)
  BY <1>1 DEF Elsewhere, WriteSlice, SeenInv, TypeOK, game, applying, history
<1>4. /\ t \in Slice /\ w[2] \in Value /\ w = <<t, w[2]>>
      /\ p \in Packet /\ p.type = "slice" /\ p.s = t /\ p.v = w[2]
  <2>1. t \in Slice /\ w[2] \in Value /\ w = <<t, w[2]>>
    BY <1>2
  <2>2. QED
    BY <2>1, PacketMade, MsgFields
<1>5. /\ p \notin Dones /\ p \notin Own(c)
      /\ \A s : p \in Slices(s) <=> s = t
      /\ \A s \in Slice, v \in Value : p = Msg("slice", s, v) => s = t /\ v = w[2]
  <2>1. p \notin Dones /\ p \notin Own(c) /\ \A s : p \in Slices(s) <=> s = t
    BY <1>4 DEF Dones, Own, Delta, Slices
  <2>2. QED
    BY <1>4, <2>1, MsgFields
<1> HIDE DEF p, t
<1>6. /\ TypeOK /\ OnlyEditors(c) /\ FirstLoad(c) /\ OneRequest(c)
      /\ \A s \in Slice : /\ OnItsWay(c, s)
                          /\ OnlookersHear(c, s)
                          /\ EditorsKeep(c, s)
      /\ down[c] \in Seq(Packet)
  BY <1>2, FollowsFacts
<1>7. ASSUME NEW K, p \notin K
      PROVE  /\ Has(down'[c], K) => Has(down[c], K)
             /\ Once(down[c], K) => Once(down'[c], K)
  BY <1>2, <1>4, <1>6, <1>7, AppendHas
<1>8. send[c] = "slices" /\ ~Completed(c) /\ Served(c)
      /\ loader[c] = "loading" /\ ~Asked(c)
  BY <1>6 DEF OneRequest, Served
<1>9. /\ Read(c, t) /\ t \notin toRead[c] /\ ~Coming(c, t) /\ ~Pooled(c, t)
      /\ parts[c][t] = None
  <2>1. Read(c, t)
    BY <1>4 DEF Read
  <2>2. QED
    BY <1>4, <1>6, <2>1 DEF OnItsWay
<1>10. OnlyEditors(c)'
  <2>1. ~Has(down'[c], Own(c))
    BY <1>5, <1>6, <1>7 DEF OnlyEditors
  <2>2. QED
    BY <1>2, <1>6, <2>1 DEF OnlyEditors
<1>11. FirstLoad(c)'
  BY <1>2, <1>6 DEF FirstLoad
<1>12. OneRequest(c)'
  <2>1. /\ Completed(c)' => Completed(c)
        /\ Once(down'[c], Dones) /\ ~Has(down'[c], Dones)
    BY <1>2, <1>5, <1>6, <1>7, <1>8 DEF Completed, OneRequest
  <2>2. Asked(c)' <=> Asked(c)
    BY <1>2 DEF Asked
  <2>3. QED
    BY <1>2, <1>6, <1>8, <2>1, <2>2 DEF OneRequest
<1>13. ASSUME NEW s \in Slice, NEW v \in Value, Carries(c, s, v)'
       PROVE  Carries(c, s, v)
  <2>1. CASE Has(down'[c], {Msg("slice", s, v)})
    <3>1. CASE p = Msg("slice", s, v)
      BY <1>4, <1>5, <3>1 DEF Carries
    <3>2. CASE p # Msg("slice", s, v)
      BY <1>7, <2>1, <3>2 DEF Carries
    <3>3. QED
      BY <3>1, <3>2
  <2>2. CASE ~Has(down'[c], {Msg("slice", s, v)})
    BY <1>2, <1>13, <2>2 DEF Carries
  <2>3. QED
    BY <2>1, <2>2
<1>14. ASSUME NEW s \in Slice
       PROVE  OnItsWay(c, s)' /\ OnlookersHear(c, s)' /\ EditorsKeep(c, s)'
  <2>1. OnItsWay(c, s)'
    <3>1. \A v, x \in Value :
             <<s, v>> \in toWrite'[c] /\ <<s, x>> \in toWrite'[c] => v = x
      BY <1>2, <1>6 DEF OnItsWay
    <3>2. Read(c, s)' => Read(c, s)
      BY <1>2 DEF Read
    <3>3. Pooled(c, s)' <=> Pooled(c, s)
      BY <1>2 DEF Pooled
    <3>4. CASE s = t
      <4>1. ~Read(c, s)'
        <5>1. ASSUME NEW v \in Value, <<s, v>> \in toWrite'[c] PROVE FALSE
          <6>1. <<s, v>> \in toWrite[c] /\ <<s, v>> # w
            BY <1>2, <5>1
          <6>2. v = w[2]
            BY <1>4, <1>6, <3>4, <6>1 DEF OnItsWay
          <6>3. QED
            BY <1>4, <3>4, <6>1, <6>2
        <5>2. QED
          BY <5>1 DEF Read
      <4>2. Once(down'[c], Slices(s))
        BY <1>2, <1>4, <1>6, <1>9, <3>4, AppendHas DEF OnItsWay, Coming
      <4>3. s \notin toRead'[c] /\ ~Pooled(c, s)' /\ parts'[c][s] = None
        BY <1>2, <1>9, <3>3, <3>4
      <4>4. QED
        BY <3>1, <4>1, <4>2, <4>3 DEF OnItsWay, Pooled
    <3>5. CASE s # t
      <4>1. (Coming(c, s)' => Coming(c, s)) /\ Once(down'[c], Slices(s))
        BY <1>5, <1>6, <1>7, <3>5 DEF OnItsWay, Coming
      <4>2. QED
        BY <1>2, <1>6, <3>1, <3>2, <3>3, <4>1 DEF OnItsWay
    <3>6. QED
      BY <3>4, <3>5
  <2>2. Doomed(c) => Doomed(c)'
    <3>1. ChangeFirst(down[c]) => ChangeFirst(down'[c])
      BY <1>2, <1>4, <1>6, AppendChangeFirst
    <3>2. QED
      BY <1>2, <3>1 DEF Doomed
  <2>3. \A v \in Value : Changed(c, s, v)' = Changed(c, s, v)
    <3>1. \A v : LastOf(down'[c], "delta", s, v) = LastOf(down[c], "delta", s, v)
      BY <1>2, <1>4, <1>6, LastAppend
    <3>2. QED
      BY <1>2, <3>1 DEF Changed
  <2>4. Pending(s) => Pending(s)'
    BY <1>2 DEF Pending
  <2>5. OnlookersHear(c, s)'
    BY <1>2, <1>6, <1>13, <2>2, <2>3, <2>4 DEF OnlookersHear
  <2>6. EditorsKeep(c, s)'
    BY <1>2, <1>6, <1>13 DEF EditorsKeep, Told
  <2>7. QED
    BY <2>1, <2>5, <2>6
<1>15. Follows(c)'
  BY <1>10, <1>11, <1>12, <1>14 DEF Follows
<1>16. QED
  BY <1>3, <1>15, StepOf

LEMMA SeenCompletion ==
  ASSUME SeenInv, NEW c \in Client, SendCompletion(c)
  PROVE  \A d \in Client : Follows(d)'
<1> DEFINE p == Msg("done", None, None)
<1>1. /\ Connected(c) /\ send'[c] # "slices"
      /\ \/ /\ send[c] = "slices" /\ toRead[c] = {} /\ toWrite[c] = {}
            /\ down'[c] = Append(down[c], p)
         \/ send[c] # "slices" /\ down'[c] = down[c]
      /\ UNCHANGED <<up[c], ended[c], toRead[c], toWrite[c], pool[c], net[c],
                     delta[c], registered, stale, change, block, loader[c],
                     parts[c], gets[c], suppressed[c], mem[c]>>
  BY DEF SendCompletion, SeenInv, TypeOK, Connected, game, applying, history
<1>2. Elsewhere(c)
  BY DEF Elsewhere, SendCompletion, SeenInv, TypeOK, game, applying, history
<1>3. /\ TypeOK /\ OnlyEditors(c) /\ FirstLoad(c) /\ OneRequest(c)
      /\ \A s \in Slice : /\ OnItsWay(c, s)
                          /\ OnlookersHear(c, s)
                          /\ EditorsKeep(c, s)
      /\ down[c] \in Seq(Packet)
  BY <1>1, FollowsFacts
<1>4. p \in Packet /\ p.type = "done"
  BY RequestMade, MsgFields
<1>5. /\ p \in Dones /\ p \notin Own(c)
      /\ \A s : p \notin Slices(s)
      /\ \A s \in Slice, v \in Value : p # Msg("slice", s, v)
  BY <1>4, MsgFields DEF Dones, Own, Delta, Slices
<1> HIDE DEF p
<1>6. ASSUME NEW K, p \notin K
      PROVE  /\ Has(down'[c], K) => Has(down[c], K)
             /\ Once(down[c], K) => Once(down'[c], K)
  BY <1>1, <1>3, <1>4, <1>6, AppendHas
<1>7. OnlyEditors(c)'
  <2>1. ~Has(down'[c], Own(c))
    BY <1>3, <1>5, <1>6 DEF OnlyEditors
  <2>2. QED
    BY <1>1, <1>3, <2>1 DEF OnlyEditors
<1>8. FirstLoad(c)'
  BY <1>1, <1>3 DEF FirstLoad
<1>9. \A s \in Slice : /\ Coming(c, s)' => Coming(c, s)
                       /\ Pooled(c, s)' <=> Pooled(c, s)
                       /\ Read(c, s)' <=> Read(c, s)
  BY <1>1, <1>5, <1>6 DEF Coming, Pooled, Read
<1>10. OneRequest(c)'
  <2>1. Asked(c)' <=> Asked(c)
    BY <1>1 DEF Asked
  <2>2. CASE send[c] = "slices"
    <3>1. /\ down'[c] = Append(down[c], p) /\ ~Completed(c)
          /\ loader[c] = "loading" /\ ~Asked(c)
      BY <1>1, <1>3, <2>2 DEF OneRequest, Served
    <3>2. ~Has(down[c], Dones) /\ pool[c] \cap Dones = {}
      BY <3>1 DEF Completed
    <3>3. Once(down'[c], Dones)
      BY <1>3, <1>4, <3>1, <3>2, AppendHas DEF OneRequest
    <3>4. QED
      BY <1>1, <1>3, <2>1, <2>2, <3>1, <3>2, <3>3 DEF OneRequest
  <2>3. CASE send[c] # "slices"
    <3>1. Completed(c)' <=> Completed(c)
      BY <1>1, <2>3 DEF Completed
    <3>2. Served(c)' => Served(c)
      BY <1>1, <1>9, <3>1 DEF Served
    <3>3. QED
      BY <1>1, <1>3, <2>1, <2>3, <3>1, <3>2 DEF OneRequest
  <2>4. QED
    BY <2>2, <2>3
<1>11. ASSUME NEW s \in Slice, NEW v \in Value, Carries(c, s, v)'
       PROVE  Carries(c, s, v)
  <2>1. p \notin {Msg("slice", s, v)}
    BY <1>5
  <2>2. Has(down'[c], {Msg("slice", s, v)}) => Has(down[c], {Msg("slice", s, v)})
    BY <1>6, <2>1
  <2>3. QED
    BY <1>1, <1>11, <2>2 DEF Carries
<1>12. ASSUME NEW s \in Slice
       PROVE  OnItsWay(c, s)' /\ OnlookersHear(c, s)' /\ EditorsKeep(c, s)'
  <2>1. OnItsWay(c, s)'
    <3>1. Once(down'[c], Slices(s))
      BY <1>3, <1>5, <1>6 DEF OnItsWay
    <3>2. QED
      BY <1>1, <1>3, <1>9, <3>1 DEF OnItsWay
  <2>2. Doomed(c) => Doomed(c)'
    <3>1. ChangeFirst(down[c]) => ChangeFirst(down'[c])
      BY <1>1, <1>3, <1>4, AppendChangeFirst
    <3>2. QED
      BY <1>1, <3>1 DEF Doomed
  <2>3. \A v \in Value : Changed(c, s, v)' = Changed(c, s, v)
    <3>1. \A v : LastOf(down'[c], "delta", s, v) = LastOf(down[c], "delta", s, v)
      <4>1. \A v : LastOf(Append(down[c], p), "delta", s, v) = LastOf(down[c], "delta", s, v)
        BY <1>3, <1>4, LastAppend
      <4>2. QED
        BY <1>1, <4>1
    <3>2. QED
      BY <1>1, <3>1 DEF Changed
  <2>4. Pending(s) => Pending(s)'
    BY <1>1 DEF Pending
  <2>5. OnlookersHear(c, s)'
    BY <1>1, <1>3, <1>11, <2>2, <2>3, <2>4 DEF OnlookersHear
  <2>6. EditorsKeep(c, s)'
    BY <1>1, <1>3, <1>11 DEF EditorsKeep, Told
  <2>7. QED
    BY <2>1, <2>5, <2>6
<1>13. Follows(c)'
  BY <1>7, <1>8, <1>10, <1>12 DEF Follows
<1>14. QED
  BY <1>2, <1>13, StepOf

-----------------------------------------------------------------------------
(* The theorem *)

LEMMA SeenStutter ==
  ASSUME SeenInv, UNCHANGED vars
  PROVE  \A d \in Client : Follows(d)'
<1> SUFFICES ASSUME NEW c \in Client PROVE Follows(c)'
  OBVIOUS
<1>1. Elsewhere(c)
  BY DEF Elsewhere, vars, server, game, applying, history
<1>2. UNCHANGED <<up, down, ended, send, toRead, toWrite, loader, parts, pool,
                  mem, net, delta, gets, suppressed, registered, stale, block,
                  change>>
  BY DEF vars, server, game, applying, history
<1>3. Follows(c)
  BY DEF SeenInv
<1>4. OnlyEditors(c)' /\ FirstLoad(c)'
  BY <1>2, <1>3 DEF Follows, OnlyEditors, FirstLoad
<1>5. ASSUME Connected(c)'
      PROVE  /\ OneRequest(c)'
             /\ \A s \in Slice : /\ OnItsWay(c, s)'
                                 /\ OnlookersHear(c, s)'
                                 /\ EditorsKeep(c, s)'
  <2>1. /\ OneRequest(c)
        /\ \A s \in Slice : /\ OnItsWay(c, s)
                            /\ OnlookersHear(c, s)
                            /\ EditorsKeep(c, s)
    BY <1>2, <1>3, <1>5 DEF Follows, Connected
  <2>2. \A s : Pending(s) => Pending(s)'
    BY <1>2 DEF Pending
  <2>3. OneRequest(c)'
    BY <1>2, <2>1, RequestKept
  <2>4. ASSUME NEW s \in Slice
        PROVE  OnItsWay(c, s)' /\ OnlookersHear(c, s)' /\ EditorsKeep(c, s)'
    BY <1>2, <2>1, <2>2, WayKept, HearKept, KeepKept
  <2>5. QED
    BY <2>3, <2>4
<1>6. QED
  BY <1>4, <1>5 DEF Follows

LEMMA SeenNext == SeenInv /\ [Next]_vars => SeenInv'
<1> SUFFICES ASSUME SeenInv, [Next]_vars PROVE SeenInv'
  OBVIOUS
<1>1. TypeOK' /\ LoadedIsWhole'
  BY TypeNext, WholeNext DEF SeenInv
<1>2. CASE Next
  <2>1. PICK c \in Client :
          \/ Get(c) \/ (\E s \in Slice : Edit(c, s)) \/ Prune(c)
          \/ Deregister(c) \/ Receive(c) \/ ApplyDelta(c) \/ EndDelta(c)
          \/ UnpackSlice(c) \/ Finish(c) \/ HandleGet(c) \/ HandleStop(c)
          \/ HandleReport(c) \/ Broadcast(c)
          \/ (\E s \in Slice : ReadSlice(c, s)) \/ WriteSlice(c)
          \/ SendCompletion(c)
    BY <1>2 DEF Next
  <2>2. Receive(c) => Head(down[c]).type \in {"slice", "done"} \/ Head(down[c]).type = "delta"
    BY DEF Receive
  <2>3. \A d \in Client : Follows(d)'
    BY <2>1, <2>2, SeenGet, SeenEdit, SeenPrune, SeenDeregister, SeenPooled,
       SeenTaken, SeenApply, SeenEndDelta, SeenUnpack, SeenFinish,
       SeenHandleGet, SeenStop, SeenReport, SeenBroadcast, SeenRead, SeenWrite,
       SeenCompletion
  <2>4. QED
    BY <1>1, <2>3 DEF SeenInv
<1>3. CASE UNCHANGED vars
  BY <1>1, <1>3, SeenStutter DEF SeenInv
<1>4. QED
  BY <1>2, <1>3

LEMMA SeenEnough == SeenInv => EditsAreSeen
<1> SUFFICES ASSUME SeenInv PROVE EditsAreSeen
  OBVIOUS
<1>1. ASSUME NEW c \in Client, NEW s \in Slice, Playing(c)
      PROVE  /\ mem[c][s] \in Value /\ Carries(c, s, mem[c][s]) /\ ~Doomed(c)
             /\ OnlookersHear(c, s) /\ EditorsKeep(c, s)
  <2>1. mem[c][s] \in Value
    BY <1>1 DEF SeenInv, TypeOK, LoadedIsWhole, Playing
  <2>2. Carries(c, s, mem[c][s]) /\ ~Doomed(c)
    BY <1>1 DEF Carries, Doomed, Playing
  <2>3. QED
    BY <1>1, <2>1, <2>2, FollowsFacts DEF Playing
<1>2. OnlookersAgree
  <2> SUFFICES ASSUME NEW c \in Client, NEW s \in Slice, Playing(c), gets[c] = 1,
                      c \notin Editors[s],
                      \A d, e \in Editors[s] : d = e,
                      \A d \in Client : change[d] = None \/ change[d][1] # s
               PROVE  Heard(c, s) = block[s]
    BY DEF OnlookersAgree
  <2>1. SoleEditor(s) /\ ~Pending(s)
    BY DEF SoleEditor, Pending
  <2>2. Changed(c, s, mem[c][s]) = block[s]
    BY <1>1, <2>1 DEF OnlookersHear
  <2>3. QED
    BY <2>2 DEF Changed, Heard
<1>3. OwnEditsStay
  BY <1>1 DEF OwnEditsStay, EditorsKeep
<1>4. QED
  BY <1>2, <1>3 DEF EditsAreSeen

(* Whatever the order in which a snapshot is read, packed, sent and        *)
(* unpacked while the blocks change, and in which reports, changes and     *)
(* requests are handled: a player who looks on has the server's blocks or  *)
(* is about to hear of them, and nobody loses a change of its own that was *)
(* reported (server/net/handlers/Chunk.cpp and BlockChange.cpp, ChunkLoader *)
(* and the client's BlockChange).                                          *)
THEOREM EditsSeen == Spec => []EditsAreSeen
  BY SeenInit, SeenNext, SeenEnough, PTL DEF Spec
=============================================================================
