-------------------------------- MODULE Hub --------------------------------
(***************************************************************************)
(* handlers/websocket.go: the hub's goroutine, the handler and the two      *)
(* pumps of each connection, and the goroutines of BroadcastPollUpdate.     *)
(*                                                                         *)
(* The hub serves one channel operation at a time.  What it does with one   *)
(* is a single action: it alone changes its maps and fills the buffers, and *)
(* whoever reads totalConnections or drains a buffer meanwhile may as well  *)
(* do so before or after.  A send that does not block succeeds only when    *)
(* the hub is parked in its select, so "ready", when it is still on its way *)
(* there, is a state of its own.                                            *)
(***************************************************************************)
EXTENDS Integers, Sequences, FiniteSets

CONSTANTS
  Clients,         \* calls of HandleWebSocket, each with the client it makes
  Updates,         \* calls of BroadcastPollUpdate, each with its message
  Polls,
  PollOf,          \* the poll of a client or update
  MaxConnections,  \* maxConnections
  SendBuffer,      \* the capacity of Client.send
  MaxHistory,      \* maxHistoryPerPoll
  Attempts         \* maxRetries + 1

ASSUME HubAssumption ==
  /\ PollOf \in [Clients \cup Updates -> Polls]
  /\ MaxConnections \in Nat
  /\ SendBuffer \in Nat \ {0}
  /\ MaxHistory \in Nat \ {0}
  /\ Attempts \in Nat \ {0}
  /\ IsFiniteSet(Clients)

VARIABLES
  \* the hub
  hub,               \* "ready" to look at its channels, or "parked" there
  clients,           \* the clients in the map
  polls,             \* the polls that have an entry in the map
  pollConnections, totalConnections,
  messageHistory,    \* per poll, the oldest message first
  \* the connections
  handler,           \* the progress of HandleWebSocket
  conn,              \* whether the connection is "up"
  send,              \* the buffered messages of Client.send
  closes,            \* how often Client.send was closed
  reader, writer,    \* the progress of readPump and writePump
  frame,             \* the messages writePump has written to its frame
  \* the broadcasts
  update,            \* "trying", "taken" or "dropped"
  attempt,           \* the sends that found the hub busy
  \* history, read by the properties alone
  accepted,          \* per poll, the updates the hub has taken
  got,               \* the messages sent over each connection
  ahead              \* the handlers between check and register when a client was checked

hubVars == <<clients, polls, pollConnections, totalConnections>>
pumpVars == <<reader, writer, frame>>
updateVars == <<update, attempt>>
vars == <<hub, hubVars, messageHistory, handler, conn, send, closes, pumpVars,
          updateVars, accepted, got, ahead>>

ClientsOf(p) == {c \in clients : PollOf[c] = p}

TypeOK ==
  /\ hub \in {"ready", "parked"}
  /\ clients \subseteq Clients
  /\ polls \subseteq Polls
  /\ pollConnections \in [Polls -> Int]
  /\ totalConnections \in Int
  /\ messageHistory \in [Polls -> Seq(Updates)]
  /\ handler \in [Clients -> {"new", "checked", "register", "done"}]
  /\ conn \in [Clients -> {"none", "up", "down"}]
  /\ send \in [Clients -> Seq(Updates)]
  /\ closes \in [Clients -> Nat]
  /\ reader \in [Clients -> {"none", "reading", "unregister", "done"}]
  /\ writer \in [Clients -> {"none", "writing", "done"}]
  /\ frame \in [Clients -> Seq(Updates)]
  /\ update \in [Updates -> {"trying", "taken", "dropped"}]
  /\ attempt \in [Updates -> 0 .. Attempts]
  /\ accepted \in [Polls -> Seq(Updates)]
  /\ got \in [Clients -> Seq(Updates)]
  /\ ahead \in [Clients -> SUBSET Clients]

Init ==
  /\ hub = "ready"
  /\ clients = {}
  /\ polls = {}
  /\ pollConnections = [p \in Polls |-> 0]
  /\ totalConnections = 0
  /\ messageHistory = [p \in Polls |-> <<>>]
  /\ handler = [c \in Clients |-> "new"]
  /\ conn = [c \in Clients |-> "none"]
  /\ send = [c \in Clients |-> <<>>]
  /\ closes = [c \in Clients |-> 0]
  /\ reader = [c \in Clients |-> "none"]
  /\ writer = [c \in Clients |-> "none"]
  /\ frame = [c \in Clients |-> <<>>]
  /\ update = [u \in Updates |-> "trying"]
  /\ attempt = [u \in Updates |-> 0]
  /\ accepted = [p \in Polls |-> <<>>]
  /\ got = [c \in Clients |-> <<>>]
  /\ ahead = [c \in Clients |-> {}]

-----------------------------------------------------------------------------
(* HandleWebSocket *)

\* The handlers that have passed the check and are not counted yet.
Entering == {c \in Clients : handler[c] \in {"checked", "register"}}

\* Mutant: the limit itself still passes.
CheckLimitLate(c) ==
  /\ handler[c] = "new"
  /\ totalConnections <= MaxConnections
  /\ handler' = [handler EXCEPT ![c] = "checked"]
  /\ ahead' = [ahead EXCEPT ![c] = Entering]
  /\ UNCHANGED <<hub, hubVars, messageHistory, conn, send, closes, pumpVars,
                 updateVars, accepted, got>>

\* The limit is read under the lock, and the lock released.
CheckLimit(c) ==
  /\ handler[c] = "new"
  /\ \/ /\ totalConnections >= MaxConnections
        /\ handler' = [handler EXCEPT ![c] = "done"]
        /\ UNCHANGED ahead
     \/ /\ totalConnections < MaxConnections
        /\ handler' = [handler EXCEPT ![c] = "checked"]
        /\ ahead' = [ahead EXCEPT ![c] = Entering]
  /\ UNCHANGED <<hub, hubVars, messageHistory, conn, send, closes, pumpVars,
                 updateVars, accepted, got>>

Upgrade(c) ==
  /\ handler[c] = "checked"
  /\ \/ /\ handler' = [handler EXCEPT ![c] = "register"]
        /\ conn' = [conn EXCEPT ![c] = "up"]
     \/ /\ handler' = [handler EXCEPT ![c] = "done"]
        /\ UNCHANGED conn
  /\ UNCHANGED <<hub, hubVars, messageHistory, send, closes, pumpVars,
                 updateVars, accepted, got, ahead>>

-----------------------------------------------------------------------------
(* The hub *)

\* No channel is ready and the select waits.
Park ==
  /\ hub = "ready"
  /\ \A c \in Clients : handler[c] # "register" /\ reader[c] # "unregister"
  /\ hub' = "parked"
  /\ UNCHANGED <<hubVars, messageHistory, handler, conn, send, closes,
                 pumpVars, updateVars, accepted, got, ahead>>

\* The non-blocking send of sendHistoryToClient.
sendHistoryToClient(c) ==
  LET history == messageHistory[PollOf[c]] IN
  IF history # <<>> /\ Len(send[c]) < SendBuffer
  THEN send' = [send EXCEPT ![c] = Append(@, history[Len(history)])]
  ELSE UNCHANGED send

\* The handler goes on as soon as the hub has received, and starts the pumps.
Register(c) ==
  /\ handler[c] = "register"
  /\ handler' = [handler EXCEPT ![c] = "done"]
  /\ hub' = "ready"
  /\ polls' = polls \cup {PollOf[c]}
  /\ clients' = clients \cup {c}
  /\ pollConnections' = [pollConnections EXCEPT
       ![PollOf[c]] = (IF PollOf[c] \in polls THEN @ ELSE 0) + 1]
  /\ totalConnections' = totalConnections + 1
  /\ sendHistoryToClient(c)
  /\ reader' = [reader EXCEPT ![c] = "reading"]
  /\ writer' = [writer EXCEPT ![c] = "writing"]
  /\ UNCHANGED <<messageHistory, conn, closes, frame, updateVars,
                 accepted, got, ahead>>

\* Mutant: totalConnections is forgotten.
RemoveUncounted(gone) ==
  /\ clients' = clients \ gone
  /\ pollConnections' = [p \in Polls |->
       pollConnections[p] - Cardinality({c \in gone : PollOf[c] = p})]
  /\ UNCHANGED totalConnections
  /\ closes' = [c \in Clients |-> IF c \in gone THEN closes[c] + 1 ELSE closes[c]]

\* The clients of gone leave the map and their channels are closed.
Remove(gone) ==
  /\ clients' = clients \ gone
  /\ pollConnections' = [p \in Polls |->
       pollConnections[p] - Cardinality({c \in gone : PollOf[c] = p})]
  /\ totalConnections' = totalConnections - Cardinality(gone)
  /\ closes' = [c \in Clients |-> IF c \in gone THEN closes[c] + 1 ELSE closes[c]]

\* Mutant: whether the client is still in the map is not checked.
UnregisterAlways(c) ==
  /\ reader[c] = "unregister"
  /\ hub' = "ready"
  /\ Remove({c})
  /\ polls' = {PollOf[d] : d \in clients'}
  /\ reader' = [reader EXCEPT ![c] = "done"]
  /\ conn' = [conn EXCEPT ![c] = "down"]
  /\ UNCHANGED <<messageHistory, handler, send, writer, frame, updateVars,
                 accepted, got, ahead>>

\* A client that a broadcast or the expiry has removed is not in the map.
Unregister(c) ==
  /\ reader[c] = "unregister"
  /\ hub' = "ready"
  /\ Remove({c} \cap clients)
  /\ polls' = IF c \in clients /\ ClientsOf(PollOf[c]) = {c}
               THEN polls \ {PollOf[c]} ELSE polls
  /\ reader' = [reader EXCEPT ![c] = "done"]
  /\ conn' = [conn EXCEPT ![c] = "down"]
  /\ UNCHANGED <<messageHistory, handler, send, writer, frame,
                 updateVars, accepted, got, ahead>>

\* Mutant: a full history keeps what it has.
storeWhileRoom(p, u) ==
  LET history == Append(messageHistory[p], u) IN
  messageHistory' = [messageHistory EXCEPT
    ![p] = IF Len(history) > MaxHistory THEN @ ELSE history]

storeMessageInHistory(p, u) ==
  LET history == Append(messageHistory[p], u) IN
  messageHistory' = [messageHistory EXCEPT
    ![p] = IF Len(history) > MaxHistory THEN Tail(history) ELSE history]

\* The hub receives u; a client whose buffer is full is removed, its poll is not.
Broadcast(u) ==
  LET p == PollOf[u]
      full == {c \in ClientsOf(p) : Len(send[c]) >= SendBuffer} IN
  /\ update[u] = "trying"
  /\ hub = "parked"
  /\ hub' = "ready"
  /\ update' = [update EXCEPT ![u] = "taken"]
  /\ accepted' = [accepted EXCEPT ![p] = Append(@, u)]
  /\ storeMessageInHistory(p, u)
  /\ send' = [c \in Clients |-> IF c \in ClientsOf(p) \ full
                                THEN Append(send[c], u) ELSE send[c]]
  /\ Remove(full)
  /\ UNCHANGED <<polls, handler, conn, pumpVars, attempt, got, ahead>>

\* The oldest messages of some polls are past historyRetention.
cleanupOldMessages ==
  /\ \E p \in Polls : \E kept \in 0 .. Len(messageHistory[p]) - 1 :
       messageHistory' = [messageHistory EXCEPT
         ![p] = SubSeq(@, Len(@) - kept + 1, Len(@))]
  /\ hub' = "ready"
  /\ UNCHANGED <<hubVars, handler, conn, send, closes, pumpVars, updateVars,
                 accepted, got, ahead>>

\* Any client may have been inactive for the timeout.
Expire ==
  /\ \E inactive \in SUBSET clients : Remove(inactive)
  /\ polls' = {PollOf[c] : c \in clients'}
  /\ hub' = "ready"
  /\ UNCHANGED <<messageHistory, handler, conn, send, pumpVars, updateVars,
                 accepted, got, ahead>>

-----------------------------------------------------------------------------
(* The pumps *)

\* The peer leaves, or the read deadline passes.
Disconnect(c) ==
  /\ conn[c] = "up"
  /\ conn' = [conn EXCEPT ![c] = "down"]
  /\ UNCHANGED <<hub, hubVars, messageHistory, handler, send, closes, pumpVars,
                 updateVars, accepted, got, ahead>>

\* Mutant: readPump returns without unregistering.
ReadEnds(c) ==
  /\ reader[c] = "reading"
  /\ conn[c] = "down"
  /\ reader' = [reader EXCEPT ![c] = "done"]
  /\ UNCHANGED <<hub, hubVars, messageHistory, handler, conn, send, closes,
                 writer, frame, updateVars, accepted, got, ahead>>

\* ReadMessage fails; then the pump offers the client to the hub.
ReadFails(c) ==
  /\ reader[c] = "reading"
  /\ conn[c] = "down"
  /\ reader' = [reader EXCEPT ![c] = "unregister"]
  /\ UNCHANGED <<hub, hubVars, messageHistory, handler, conn, send, closes,
                 writer, frame, updateVars, accepted, got, ahead>>

\* writePump takes a message, and those queued behind it into the same frame;
\* how many it has counted when it closes the frame is left open.
TakeMessage(c) ==
  /\ writer[c] = "writing"
  /\ send[c] # <<>>
  /\ frame' = [frame EXCEPT ![c] = Append(@, Head(send[c]))]
  /\ send' = [send EXCEPT ![c] = Tail(@)]
  /\ UNCHANGED <<hub, hubVars, messageHistory, handler, conn, closes, reader,
                 writer, updateVars, accepted, got, ahead>>

\* NextWriter, the closing of a frame and a ping may fail: the pump returns.
StopWriting(c) ==
  /\ writer' = [writer EXCEPT ![c] = "done"]
  /\ conn' = [conn EXCEPT ![c] = "down"]
  /\ frame' = [frame EXCEPT ![c] = <<>>]
  /\ UNCHANGED <<hub, hubVars, messageHistory, handler, send, closes, reader,
                 updateVars, accepted, got, ahead>>

WriteFails(c) ==
  /\ writer[c] = "writing"
  /\ StopWriting(c)

\* The channel is closed and drained.
SeeClosed(c) ==
  /\ writer[c] = "writing"
  /\ frame[c] = <<>> /\ send[c] = <<>> /\ closes[c] > 0
  /\ StopWriting(c)

\* Mutant: the frame is written again with the next one.
SendFrameAgain(c) ==
  /\ writer[c] = "writing"
  /\ conn[c] = "up"
  /\ frame[c] # <<>>
  /\ got' = [got EXCEPT ![c] = @ \o frame[c]]
  /\ UNCHANGED <<hub, hubVars, messageHistory, handler, conn, send, closes,
                 pumpVars, updateVars, accepted, ahead>>

SendFrame(c) ==
  /\ writer[c] = "writing"
  /\ conn[c] = "up"
  /\ frame[c] # <<>>
  /\ frame' = [frame EXCEPT ![c] = <<>>]
  /\ got' = [got EXCEPT ![c] = @ \o frame[c]]
  /\ UNCHANGED <<hub, hubVars, messageHistory, handler, conn, send, closes,
                 reader, writer, updateVars, accepted, ahead>>

-----------------------------------------------------------------------------
(* BroadcastPollUpdate: its goroutine may be slow to start *)

\* Mutant: one attempt too many.
RetryOnceMore(u) ==
  /\ update[u] = "trying"
  /\ hub # "parked"
  /\ attempt' = [attempt EXCEPT ![u] = @ + 1]
  /\ update' = IF attempt'[u] > Attempts
                THEN [update EXCEPT ![u] = "dropped"] ELSE update
  /\ UNCHANGED <<hub, hubVars, messageHistory, handler, conn, send, closes,
                 pumpVars, accepted, got, ahead>>

\* The hub is not in its select: wait and try again, or give up.
BroadcastPollUpdate(u) ==
  /\ update[u] = "trying"
  /\ hub # "parked"
  /\ attempt' = [attempt EXCEPT ![u] = @ + 1]
  /\ update' = IF attempt'[u] = Attempts
                THEN [update EXCEPT ![u] = "dropped"] ELSE update
  /\ UNCHANGED <<hub, hubVars, messageHistory, handler, conn, send, closes,
                 pumpVars, accepted, got, ahead>>

-----------------------------------------------------------------------------

Next ==
  \/ \E c \in Clients :
       \/ CheckLimit(c) \/ Upgrade(c) \/ Register(c) \/ Unregister(c)
       \/ Disconnect(c) \/ ReadFails(c)
       \/ TakeMessage(c) \/ SendFrame(c) \/ WriteFails(c) \/ SeeClosed(c)
  \/ \E u \in Updates : BroadcastPollUpdate(u) \/ Broadcast(u)
  \/ Park \/ cleanupOldMessages \/ Expire

Spec == Init /\ [][Next]_vars

\* The Go scheduler runs what can run; select is fair among ready channels; a
\* write ends by its deadline, and on a connection that is down a ping fails.
Fairness ==
  \A c \in Clients :
    /\ WF_vars(Register(c)) /\ WF_vars(Unregister(c))
    /\ WF_vars(ReadFails(c)) /\ WF_vars(TakeMessage(c))
    /\ WF_vars(SeeClosed(c))
    /\ WF_vars(SendFrame(c) \/ (frame[c] # <<>> /\ WriteFails(c)))
    /\ WF_vars(conn[c] = "down" /\ WriteFails(c))

FairSpec == Spec /\ Fairness

-----------------------------------------------------------------------------
(* Properties *)

\* A channel is closed once, when its client leaves the map, and never while
\* the hub can still send on it: the client of a full buffer, one that expired
\* and one that unregisters after either make neither panic the hub.
ClosedOnce ==
  \A c \in Clients :
    closes[c] = IF reader[c] = "none" \/ c \in clients THEN 0 ELSE 1

\* The counters that the limit and the logs rely on count the clients of the
\* map, whichever of the three ways a client leaves by.
CountsMatch ==
  /\ totalConnections = Cardinality(clients)
  /\ \A p \in Polls : pollConnections[p] = Cardinality(ClientsOf(p))

\* Check and registration are apart, so connections may exceed the limit; but
\* only by as many as were on their way when one of them was checked.
OnlyRacesExceedLimit ==
  totalConnections > MaxConnections =>
    \E c \in clients : totalConnections <= MaxConnections + Cardinality(ahead[c])

\* What a client has been sent, has in a frame or in its buffer.
Feed(c) == got[c] \o frame[c] \o send[c]

IsSuffix(s, t) ==
  Len(s) <= Len(t) /\ \A i \in 1 .. Len(s) : s[i] = t[Len(t) - Len(s) + i]

\* A client in the map whose pump runs is up to date: it is given the updates of
\* its poll in the order of the hub, without a gap, up to the last one, and it
\* has at least one of them while the history holds any.
UpToDate ==
  \A c \in clients : writer[c] = "writing" =>
    /\ IsSuffix(Feed(c), accepted[PollOf[c]])
    /\ messageHistory[PollOf[c]] # <<>> => Feed(c) # <<>>

\* Once its connection is down, or the hub has closed its channel, a registered
\* client leaves the map and both its pumps end.
Ended(c) == c \notin clients /\ reader[c] = "done" /\ writer[c] = "done"

NoneLeft ==
  \A c \in Clients :
    (reader[c] # "none" /\ (conn[c] = "down" \/ closes[c] > 0)) ~> Ended(c)

-----------------------------------------------------------------------------
(* What the hub promises, with the updates it has taken as the streams: also  *)
(* to a client it has removed, whose pump still drains its buffer.           *)
Stream == INSTANCE UpdateStream WITH stream <- accepted
StreamSpec == Stream!StreamSpec
=============================================================================
