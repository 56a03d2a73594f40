----------------------------- MODULE HubProofs -----------------------------
(***************************************************************************)
(* What holds of Hub for any connections, updates, polls, buffer, history, *)
(* limit and number of attempts.                                            *)
(***************************************************************************)
EXTENDS Hub, FiniteSetTheorems, SequenceTheorems, TLAPS

-----------------------------------------------------------------------------
(* Types *)

\* An update that is still tried has an attempt left.
AttemptLeft == \A u \in Updates : update[u] = "trying" => attempt[u] < Attempts

Typed == TypeOK /\ AttemptLeft

LEMMA InitTyped == Init => Typed
<1> SUFFICES ASSUME Init PROVE Typed
  OBVIOUS
<1> USE HubAssumption
<1>1. <<>> \in Seq(Updates) /\ {} \in SUBSET Clients
  OBVIOUS
<1>2. AttemptLeft
  BY DEF Init, AttemptLeft
<1>3. TypeOK
  BY <1>1 DEF Init, TypeOK
<1> QED BY <1>2, <1>3 DEF Typed

(* Removing clients keeps the types. *)
LEMMA RemoveType ==
  ASSUME TypeOK, NEW gone, gone \subseteq Clients, Remove(gone)
  PROVE  /\ clients' \subseteq Clients
         /\ pollConnections' \in [Polls -> Int]
         /\ totalConnections' \in Int
         /\ closes' \in [Clients -> Nat]
<1>1. \A S \in SUBSET Clients : Cardinality(S) \in Nat
  BY HubAssumption, FS_Subset, FS_CardinalityType
<1>2. Cardinality(gone) \in Nat /\ \A p \in Polls : Cardinality({c \in gone : PollOf[c] = p}) \in Nat
  BY <1>1
<1>3. clients' \subseteq Clients /\ totalConnections' \in Int
  BY <1>2 DEF TypeOK, Remove
<1>4. pollConnections' \in [Polls -> Int]
  <2>1. \A p \in Polls : pollConnections[p] - Cardinality({c \in gone : PollOf[c] = p}) \in Int
    <3> SUFFICES ASSUME NEW p \in Polls
                 PROVE  pollConnections[p] - Cardinality({c \in gone : PollOf[c] = p}) \in Int
      OBVIOUS
    <3> DEFINE n == Cardinality({c \in gone : PollOf[c] = p})
    <3>1. n \in Nat
      BY <1>2
    <3>2. pollConnections[p] \in Int
      BY DEF TypeOK
    <3> HIDE DEF n
    <3> QED BY <3>1, <3>2 DEF n
  <2> QED BY <2>1 DEF Remove
<1>5. closes' \in [Clients -> Nat]
  <2>1. \A c \in Clients : (IF c \in gone THEN closes[c] + 1 ELSE closes[c]) \in Nat
    BY DEF TypeOK
  <2> QED BY <2>1 DEF Remove
<1> QED BY <1>3, <1>4, <1>5

LEMMA NextTyped == Typed /\ [Next]_vars => Typed'
<1> SUFFICES ASSUME Typed, [Next]_vars PROVE Typed'
  OBVIOUS
<1> USE HubAssumption
<1>1. ASSUME NEW c \in Clients, CheckLimit(c) PROVE Typed'
  <2>1. Entering \subseteq Clients
    BY DEF Entering
  <2> QED BY <1>1, <2>1 DEF Typed, TypeOK, AttemptLeft, CheckLimit, hubVars, pumpVars, updateVars
<1>2. ASSUME NEW c \in Clients, Upgrade(c) PROVE Typed'
  <2>1. /\ handler' \in [Clients -> {"new", "checked", "register", "done"}]
        /\ conn' \in [Clients -> {"none", "up", "down"}]
    <3>1. /\ handler \in [Clients -> {"new", "checked", "register", "done"}]
          /\ conn \in [Clients -> {"none", "up", "down"}]
      BY DEF Typed, TypeOK
    <3>2. /\ \/ handler' = [handler EXCEPT ![c] = "register"]
             \/ handler' = [handler EXCEPT ![c] = "done"]
          /\ conn' = [conn EXCEPT ![c] = "up"] \/ conn' = conn
      BY <1>2 DEF Upgrade
    <3> QED BY <3>1, <3>2
  <2>2. UNCHANGED <<hub, hubVars, messageHistory, send, closes, pumpVars, updateVars,
                    accepted, got, ahead>>
    BY <1>2 DEF Upgrade
  <2> QED BY <2>1, <2>2 DEF Typed, TypeOK, AttemptLeft, hubVars, pumpVars, updateVars
<1>3. ASSUME NEW c \in Clients, Register(c) PROVE Typed'
  <2> DEFINE history == messageHistory[PollOf[c]]
  <2>1. send' \in [Clients -> Seq(Updates)]
    <3>1. history \in Seq(Updates) /\ send[c] \in Seq(Updates)
      BY DEF Typed, TypeOK
    <3>2. CASE history # <<>> /\ Len(send[c]) < SendBuffer
      <4>1. history[Len(history)] \in Updates
        BY <3>1, <3>2
      <4>2. Append(send[c], history[Len(history)]) \in Seq(Updates)
        BY <3>1, <4>1
      <4> QED BY <1>3, <3>2, <4>2 DEF Register, sendHistoryToClient, Typed, TypeOK
    <3>3. CASE ~(history # <<>> /\ Len(send[c]) < SendBuffer)
      BY <1>3, <3>3 DEF Register, sendHistoryToClient, Typed, TypeOK
    <3> QED BY <3>2, <3>3
  <2>2. PollOf[c] \in Polls
    OBVIOUS
  <2>3. /\ pollConnections' \in [Polls -> Int] /\ totalConnections' \in Int
        /\ polls' \subseteq Polls /\ clients' \subseteq Clients
    BY <1>3, <2>2 DEF Register, Typed, TypeOK
  <2>4. UNCHANGED <<update, attempt>>
    BY <1>3 DEF Register, updateVars
  <2> QED BY <1>3, <2>1, <2>3, <2>4 DEF Register, Typed, TypeOK, AttemptLeft
<1>4. ASSUME NEW c \in Clients, Unregister(c) PROVE Typed'
  <2>1. Remove({c} \cap clients)
    BY <1>4 DEF Unregister
  <2>2. polls' \subseteq Polls
    BY <1>4 DEF Unregister, Typed, TypeOK
  <2> QED BY <1>4, <2>1, <2>2, RemoveType DEF Unregister, Typed, TypeOK, AttemptLeft, updateVars
<1>5. ASSUME NEW c \in Clients, Disconnect(c) \/ ReadFails(c) PROVE Typed'
  <2>1. /\ conn' \in [Clients -> {"none", "up", "down"}]
        /\ reader' \in [Clients -> {"none", "reading", "unregister", "done"}]
    <3>1. /\ conn \in [Clients -> {"none", "up", "down"}]
          /\ reader \in [Clients -> {"none", "reading", "unregister", "done"}]
      BY DEF Typed, TypeOK
    <3>2. /\ conn' = [conn EXCEPT ![c] = "down"] \/ conn' = conn
          /\ reader' = [reader EXCEPT ![c] = "unregister"] \/ reader' = reader
      BY <1>5 DEF Disconnect, ReadFails, pumpVars
    <3> QED BY <3>1, <3>2
  <2>2. UNCHANGED <<hub, hubVars, messageHistory, handler, send, closes, writer, frame,
                    updateVars, accepted, got, ahead>>
    BY <1>5 DEF Disconnect, ReadFails, pumpVars
  <2> QED BY <2>1, <2>2 DEF Typed, TypeOK, AttemptLeft, hubVars, updateVars
<1>6. ASSUME NEW c \in Clients, TakeMessage(c) PROVE Typed'
  <2>1. send[c] \in Seq(Updates) /\ send[c] # <<>> /\ frame[c] \in Seq(Updates)
    BY <1>6 DEF TakeMessage, Typed, TypeOK
  <2>2. Tail(send[c]) \in Seq(Updates) /\ Append(frame[c], Head(send[c])) \in Seq(Updates)
    BY <2>1
  <2>3. send' \in [Clients -> Seq(Updates)] /\ frame' \in [Clients -> Seq(Updates)]
    BY <1>6, <2>2 DEF TakeMessage, Typed, TypeOK
  <2>4. UNCHANGED <<hub, hubVars, messageHistory, handler, conn, closes, reader, writer,
                    updateVars, accepted, got, ahead>>
    BY <1>6 DEF TakeMessage
  <2> QED BY <2>3, <2>4 DEF Typed, TypeOK, AttemptLeft, hubVars, updateVars
<1>7. ASSUME NEW c \in Clients, SendFrame(c) PROVE Typed'
  <2>1. got[c] \o frame[c] \in Seq(Updates)
    <3>1. got[c] \in Seq(Updates) /\ frame[c] \in Seq(Updates)
      BY DEF Typed, TypeOK
    <3> QED BY <3>1
  <2>2. got' \in [Clients -> Seq(Updates)]
    BY <1>7, <2>1 DEF SendFrame, Typed, TypeOK
  <2>3. frame' \in [Clients -> Seq(Updates)]
    BY <1>7 DEF SendFrame, Typed, TypeOK
  <2>4. UNCHANGED <<hub, hubVars, messageHistory, handler, conn, send, closes,
                    reader, writer, updateVars, accepted, ahead>>
    BY <1>7 DEF SendFrame
  <2> QED BY <2>2, <2>3, <2>4 DEF Typed, TypeOK, AttemptLeft, hubVars, updateVars
<1>8. ASSUME NEW c \in Clients, WriteFails(c) \/ SeeClosed(c) PROVE Typed'
  <2>1. StopWriting(c)
    BY <1>8 DEF WriteFails, SeeClosed
  <2>2. /\ writer' \in [Clients -> {"none", "writing", "done"}]
        /\ conn' \in [Clients -> {"none", "up", "down"}]
    BY <2>1 DEF StopWriting, Typed, TypeOK
  <2>3. frame' \in [Clients -> Seq(Updates)]
    BY <2>1 DEF StopWriting, Typed, TypeOK
  <2>4. UNCHANGED <<hub, hubVars, messageHistory, handler, send, closes, reader,
                    updateVars, accepted, got, ahead>>
    BY <2>1 DEF StopWriting
  <2> QED BY <2>2, <2>3, <2>4 DEF Typed, TypeOK, AttemptLeft, hubVars, updateVars
<1>9. ASSUME NEW u \in Updates, BroadcastPollUpdate(u) PROVE Typed'
  <2>1. attempt[u] + 1 \in 0 .. Attempts /\ update[u] = "trying"
    BY <1>9 DEF BroadcastPollUpdate, Typed, TypeOK, AttemptLeft
  <2>2. attempt' \in [Updates -> 0 .. Attempts] /\ attempt'[u] = attempt[u] + 1
    BY <1>9, <2>1 DEF BroadcastPollUpdate, Typed, TypeOK
  <2>3. update' \in [Updates -> {"trying", "taken", "dropped"}]
    BY <1>9 DEF BroadcastPollUpdate, Typed, TypeOK
  <2>4. AttemptLeft'
    BY <1>9, <2>1, <2>2 DEF BroadcastPollUpdate, Typed, TypeOK, AttemptLeft
  <2> QED BY <1>9, <2>2, <2>3, <2>4 DEF BroadcastPollUpdate, Typed, TypeOK, hubVars, pumpVars
<1>10. ASSUME NEW u \in Updates, Broadcast(u) PROVE Typed'
  <2> DEFINE p == PollOf[u]
             full == {c \in ClientsOf(p) : Len(send[c]) >= SendBuffer}
             history == Append(messageHistory[p], u)
  <2>1. Remove(full) /\ full \subseteq Clients
    BY <1>10 DEF Broadcast, ClientsOf, Typed, TypeOK
  <2>2. p \in Polls
    OBVIOUS
  <2>3. accepted' \in [Polls -> Seq(Updates)]
    <3>1. Append(accepted[p], u) \in Seq(Updates)
      <4>1. accepted[p] \in Seq(Updates)
        BY <2>2 DEF Typed, TypeOK
      <4> QED BY <4>1, AppendProperties
    <3> QED BY <1>10, <3>1 DEF Broadcast, Typed, TypeOK
  <2>4. messageHistory' \in [Polls -> Seq(Updates)]
    <3>1. history \in Seq(Updates) /\ history # <<>>
      <4>1. messageHistory[p] \in Seq(Updates)
        BY <2>2 DEF Typed, TypeOK
      <4> QED BY <4>1, AppendProperties
    <3>2. Tail(history) \in Seq(Updates)
      BY <3>1
    <3> HIDE DEF history
    <3> QED BY <1>10, <2>2, <3>1, <3>2 DEF Broadcast, storeMessageInHistory, history, Typed, TypeOK
  <2>5. send' \in [Clients -> Seq(Updates)]
    <3>1. \A c \in Clients : send[c] \in Seq(Updates) /\ Append(send[c], u) \in Seq(Updates)
      BY DEF Typed, TypeOK
    <3> QED BY <1>10, <3>1 DEF Broadcast
  <2>6. update' \in [Updates -> {"trying", "taken", "dropped"}] /\ AttemptLeft'
    BY <1>10 DEF Broadcast, Typed, TypeOK, AttemptLeft
  <2> HIDE DEF full, history, p
  <2> QED BY <1>10, <2>1, <2>3, <2>4, <2>5, <2>6, RemoveType DEF Broadcast, Typed, TypeOK, pumpVars
<1>11. CASE Park
  BY <1>11 DEF Park, Typed, TypeOK, AttemptLeft, hubVars, pumpVars, updateVars
<1>12. CASE cleanupOldMessages
  <2>1. PICK p \in Polls : \E kept \in 0 .. Len(messageHistory[p]) - 1 :
          messageHistory' = [messageHistory EXCEPT
            ![p] = SubSeq(messageHistory[p], Len(messageHistory[p]) - kept + 1, Len(messageHistory[p]))]
    BY <1>12 DEF cleanupOldMessages
  <2>2. messageHistory[p] \in Seq(Updates)
    BY DEF Typed, TypeOK
  <2>3. \A kept \in 0 .. Len(messageHistory[p]) - 1 :
          SubSeq(messageHistory[p], Len(messageHistory[p]) - kept + 1, Len(messageHistory[p])) \in Seq(Updates)
    BY <2>2, SubSeqProperties
  <2>4. messageHistory' \in [Polls -> Seq(Updates)]
    BY <2>1, <2>3 DEF Typed, TypeOK
  <2> QED BY <1>12, <2>4 DEF cleanupOldMessages, Typed, TypeOK, AttemptLeft, hubVars, pumpVars, updateVars
<1>13. CASE Expire
  <2>1. PICK inactive \in SUBSET clients : Remove(inactive)
    BY <1>13 DEF Expire
  <2>2. inactive \subseteq Clients
    BY DEF Typed, TypeOK
  <2>3. clients' \subseteq Clients
    BY <2>1, <2>2, RemoveType DEF Typed
  <2>4. polls' \subseteq Polls
    BY <1>13, <2>3 DEF Expire
  <2> QED BY <1>13, <2>1, <2>2, <2>4, RemoveType DEF Expire, Typed, TypeOK, AttemptLeft, pumpVars,
              updateVars
<1>14. CASE UNCHANGED vars
  BY <1>14 DEF vars, Typed, TypeOK, AttemptLeft, hubVars, pumpVars, updateVars
<1> QED BY <1>1, <1>2, <1>3, <1>4, <1>5, <1>6, <1>7, <1>8, <1>9, <1>10, <1>11, <1>12, <1>13, <1>14 DEF Next

(* Every variable keeps its type; an update is tried Attempts times at most. *)
THEOREM HubTypeOK == Spec => []TypeOK
<1>1. Typed => TypeOK
  BY DEF Typed
<1> QED BY InitTyped, NextTyped, <1>1, PTL DEF Spec
-----------------------------------------------------------------------------
(* Channels and counters *)

\* Only a registered client is in the map, and nothing of a client starts before
\* its handler has handed it to the hub; the poll of a client has an entry.
Registered ==
  /\ \A c \in Clients : handler[c] # "done" => reader[c] = "none"
  /\ \A c \in clients : reader[c] # "none" /\ PollOf[c] \in polls

Counted == Registered /\ ClosedOnce /\ CountsMatch

(* Clients that leave the map have their channels closed and are uncounted. *)
LEMMA RemoveCounted ==
  ASSUME Typed, Counted, NEW gone, gone \subseteq clients, Remove(gone),
         \A c \in Clients : reader'[c] = "none" <=> reader[c] = "none"
  PROVE  ClosedOnce' /\ CountsMatch'
<1> USE HubAssumption
<1>1. IsFiniteSet(clients)
  BY FS_Subset DEF Typed, TypeOK
<1>2. totalConnections' = Cardinality(clients')
  <2>1. IsFiniteSet(gone)
    BY <1>1, FS_Subset
  <2>2. Cardinality(clients \ gone) = Cardinality(clients) - Cardinality(clients \cap gone)
    BY <1>1, FS_Difference
  <2>3. clients \cap gone = gone
    OBVIOUS
  <2> QED BY <2>2, <2>3 DEF Remove, Counted, CountsMatch
<1>3. ASSUME NEW p \in Polls PROVE pollConnections'[p] = Cardinality(ClientsOf(p)')
  <2> DEFINE left == {c \in gone : PollOf[c] = p}
  <2>1. IsFiniteSet(ClientsOf(p))
    BY <1>1, FS_Subset DEF ClientsOf
  <2>2. ClientsOf(p)' = ClientsOf(p) \ left /\ ClientsOf(p) \cap left = left
    BY DEF ClientsOf, Remove
  <2>3. Cardinality(ClientsOf(p) \ left) = Cardinality(ClientsOf(p)) - Cardinality(ClientsOf(p) \cap left)
    BY <2>1, FS_Difference
  <2>4. pollConnections'[p] = pollConnections[p] - Cardinality(left)
    BY DEF Remove
  <2> QED BY <2>2, <2>3, <2>4 DEF Counted, CountsMatch
<1>4. ClosedOnce'
  <2> SUFFICES ASSUME NEW c \in Clients
               PROVE  closes'[c] = IF reader'[c] = "none" \/ c \in clients' THEN 0 ELSE 1
    BY DEF ClosedOnce
  <2>1. closes[c] = IF reader[c] = "none" \/ c \in clients THEN 0 ELSE 1
    BY DEF Counted, ClosedOnce
  <2>2. closes'[c] = IF c \in gone THEN closes[c] + 1 ELSE closes[c]
    BY DEF Remove
  <2>3. clients' = clients \ gone
    BY DEF Remove
  <2>4. c \in clients => reader[c] # "none"
    BY DEF Counted, Registered
  <2> QED BY <2>1, <2>2, <2>3, <2>4
<1> QED BY <1>2, <1>3, <1>4 DEF CountsMatch

LEMMA InitCounted == Init => Counted
<1> SUFFICES ASSUME Init PROVE Counted
  OBVIOUS
<1>1. Cardinality({}) = 0
  BY FS_EmptySet
<1>2. \A p \in Polls : ClientsOf(p) = {}
  BY DEF Init, ClientsOf
<1> QED BY <1>1, <1>2 DEF Init, Counted, Registered, ClosedOnce, CountsMatch

LEMMA NextCounted == Typed /\ Counted /\ [Next]_vars => Counted'
<1> SUFFICES ASSUME Typed, Counted, [Next]_vars PROVE Counted'
  OBVIOUS
<1> USE HubAssumption
<1>1. ASSUME UNCHANGED <<hubVars, closes>>,
             \A c \in Clients : reader'[c] = "none" <=> reader[c] = "none",
             \A c \in Clients : handler'[c] # "done" => handler[c] # "done"
      PROVE  Counted'
  <2>1. \A p \in Polls : ClientsOf(p)' = ClientsOf(p)
    BY <1>1 DEF ClientsOf, hubVars
  <2>2. CountsMatch'
    BY <1>1, <2>1 DEF Counted, CountsMatch, hubVars
  <2>3. Registered' /\ ClosedOnce'
    BY <1>1 DEF Counted, Registered, ClosedOnce, hubVars, Typed, TypeOK
  <2> QED BY <2>2, <2>3 DEF Counted
<1>2. ASSUME NEW c \in Clients, CheckLimit(c) \/ Upgrade(c) PROVE Counted'
  BY <1>1, <1>2, SMTT(30) DEF CheckLimit, Upgrade, pumpVars, Typed, TypeOK
<1>3. ASSUME NEW c \in Clients, Register(c) PROVE Counted'
  <2>1. c \notin clients /\ reader[c] = "none" /\ closes[c] = 0
    BY <1>3 DEF Register, Counted, Registered, ClosedOnce
  <2>2. Registered'
    BY <1>3, SMTT(30) DEF Register, Counted, Registered, Typed, TypeOK
  <2>3. ClosedOnce'
    BY <1>3, <2>1 DEF Register, Counted, ClosedOnce, Typed, TypeOK
  <2>4. IsFiniteSet(clients) /\ clients' = clients \cup {c}
    BY <1>3, FS_Subset DEF Register, Typed, TypeOK
  <2>5. totalConnections' = Cardinality(clients')
    <3>1. Cardinality(clients \cup {c}) = Cardinality(clients) + 1
      BY <2>1, <2>4, FS_AddElement
    <3>2. totalConnections' = totalConnections + 1
      BY <1>3 DEF Register
    <3> QED BY <2>4, <3>1, <3>2 DEF Counted, CountsMatch
  <2>6. ASSUME NEW p \in Polls PROVE pollConnections'[p] = Cardinality(ClientsOf(p)')
    <3>1. IsFiniteSet(ClientsOf(p)) /\ c \notin ClientsOf(p)
      BY <2>1, <2>4, FS_Subset DEF ClientsOf
    <3>2. pollConnections[p] = Cardinality(ClientsOf(p))
      BY DEF Counted, CountsMatch
    <3>3. CASE p = PollOf[c]
      <4>1. ClientsOf(p)' = ClientsOf(p) \cup {c}
        BY <2>4, <3>3 DEF ClientsOf
      <4>2. Cardinality(ClientsOf(p)') = Cardinality(ClientsOf(p)) + 1
        BY <3>1, <4>1, FS_AddElement
      <4>3. p \notin polls => Cardinality(ClientsOf(p)) = 0
        <5>1. p \notin polls => ClientsOf(p) = {}
          BY DEF ClientsOf, Counted, Registered
        <5> QED BY <5>1, FS_EmptySet
      <4>4. pollConnections'[p] = (IF p \in polls THEN pollConnections[p] ELSE 0) + 1
        BY <1>3, <3>3 DEF Register, Typed, TypeOK
      <4> QED BY <3>2, <4>2, <4>3, <4>4
    <3>4. CASE p # PollOf[c]
      <4>1. ClientsOf(p)' = ClientsOf(p)
        BY <2>4, <3>4 DEF ClientsOf
      <4>2. pollConnections'[p] = pollConnections[p]
        BY <1>3, <3>4 DEF Register, Typed, TypeOK
      <4> QED BY <3>2, <4>1, <4>2
    <3> QED BY <3>3, <3>4
  <2> QED BY <2>2, <2>3, <2>5, <2>6 DEF Counted, CountsMatch
<1>4. ASSUME NEW c \in Clients, Unregister(c) PROVE Counted'
  <2>1. Remove({c} \cap clients) /\ clients' = clients \ {c}
    BY <1>4 DEF Unregister, Remove
  <2>2. \A d \in Clients : reader'[d] = "none" <=> reader[d] = "none"
    BY <1>4 DEF Unregister, Typed, TypeOK
  <2>3. ClosedOnce' /\ CountsMatch'
    BY <2>1, <2>2, RemoveCounted
  <2>4. \A d \in clients' : PollOf[d] \in polls'
    <3> SUFFICES ASSUME NEW d \in clients' PROVE PollOf[d] \in polls'
      OBVIOUS
    <3>1. d \in clients /\ d # c /\ PollOf[d] \in polls
      BY <2>1 DEF Counted, Registered
    <3>2. ClientsOf(PollOf[c]) = {c} => PollOf[d] # PollOf[c]
      BY <3>1 DEF ClientsOf
    <3> QED BY <1>4, <3>1, <3>2 DEF Unregister
  <2>5. Registered'
    BY <1>4, <2>1, <2>2, <2>4 DEF Unregister, Counted, Registered, Typed, TypeOK
  <2> QED BY <2>3, <2>5 DEF Counted
<1>5. ASSUME NEW c \in Clients, Disconnect(c) \/ ReadFails(c) PROVE Counted'
  BY <1>1, <1>5 DEF Disconnect, ReadFails, pumpVars, Typed, TypeOK
<1>6. ASSUME NEW c \in Clients, TakeMessage(c) \/ SendFrame(c) PROVE Counted'
  BY <1>1, <1>6 DEF TakeMessage, SendFrame
<1>7. ASSUME NEW c \in Clients, WriteFails(c) \/ SeeClosed(c) PROVE Counted'
  BY <1>1, <1>7 DEF WriteFails, SeeClosed, StopWriting
<1>8. ASSUME NEW u \in Updates, BroadcastPollUpdate(u) PROVE Counted'
  BY <1>1, <1>8 DEF BroadcastPollUpdate, pumpVars
<1>9. ASSUME NEW u \in Updates, Broadcast(u) PROVE Counted'
  <2> DEFINE full == {c \in ClientsOf(PollOf[u]) : Len(send[c]) >= SendBuffer}
  <2>1. Remove(full) /\ full \subseteq clients /\ UNCHANGED <<polls, handler, reader>>
    BY <1>9 DEF Broadcast, ClientsOf, pumpVars
  <2> HIDE DEF full
  <2>2. ClosedOnce' /\ CountsMatch'
    BY <2>1, RemoveCounted
  <2>3. Registered'
    BY <2>1 DEF Remove, Counted, Registered
  <2> QED BY <2>2, <2>3 DEF Counted
<1>10. CASE Park \/ cleanupOldMessages
  BY <1>1, <1>10 DEF Park, cleanupOldMessages, pumpVars
<1>11. CASE Expire
  <2>1. PICK inactive \in SUBSET clients : Remove(inactive)
    BY <1>11 DEF Expire
  <2>2. UNCHANGED <<handler, reader>> /\ polls' = {PollOf[c] : c \in clients'}
    BY <1>11 DEF Expire, pumpVars
  <2>3. ClosedOnce' /\ CountsMatch'
    BY <2>1, <2>2, RemoveCounted
  <2>4. Registered'
    BY <2>1, <2>2 DEF Remove, Counted, Registered
  <2> QED BY <2>3, <2>4 DEF Counted
<1>12. CASE UNCHANGED vars
  BY <1>1, <1>12 DEF vars, pumpVars
<1> QED BY <1>2, <1>3, <1>4, <1>5, <1>6, <1>7, <1>8, <1>9, <1>10, <1>11, <1>12 DEF Next

LEMMA AlwaysCounted == Spec => []Counted
<1> QED BY InitTyped, NextTyped, InitCounted, NextCounted, PTL DEF Spec

(* Whichever of the three ways a client leaves by, and in whatever order they  *)
(* meet, its channel is closed exactly once and not before it left the map.   *)
THEOREM ChannelsClosedOnce == Spec => []ClosedOnce
<1>1. Counted => ClosedOnce
  BY DEF Counted
<1> QED BY AlwaysCounted, <1>1, PTL

(* totalConnections and pollConnections never drift from the clients in the    *)
(* map, so that the limit counts the connections there are.                   *)
THEOREM CountersAreExact == Spec => []CountsMatch
<1>1. Counted => CountsMatch
  BY DEF Counted
<1> QED BY AlwaysCounted, <1>1, PTL
-----------------------------------------------------------------------------
(* How far the limit is exceeded *)

Connecting == clients \cup Entering

\* Among any connections that are in the map or on their way there is one that
\* saw enough others on their way to account for all of them.
Bounded ==
  \A A \in SUBSET Connecting : A # {} =>
    \E c \in A : Cardinality(A) <= MaxConnections + Cardinality(ahead[c])

(* A step that brings no handler past the check keeps the bound.              *)
LEMMA BoundedKept ==
  ASSUME Bounded, Connecting' \subseteq Connecting, ahead' = ahead
  PROVE  Bounded'
BY DEF Bounded

(* The handler that passes the check accounts for any connections it is among. *)
LEMMA CheckBounded ==
  ASSUME Typed, Counted, Bounded, NEW c \in Clients, CheckLimit(c)
  PROVE  Bounded'
<1> USE HubAssumption
<1>1. CASE totalConnections >= MaxConnections
  <2>1. handler' = [handler EXCEPT ![c] = "done"] /\ ahead' = ahead /\ clients' = clients
    BY <1>1 DEF CheckLimit, hubVars, Typed, TypeOK
  <2>2. Connecting' \subseteq Connecting
    BY <2>1 DEF Connecting, Entering, Typed, TypeOK
  <2> QED BY <2>1, <2>2, BoundedKept
<1>2. CASE totalConnections < MaxConnections
  <2>1. /\ handler' = [handler EXCEPT ![c] = "checked"] /\ clients' = clients
        /\ ahead' = [ahead EXCEPT ![c] = Entering]
    <3>1. ~(totalConnections >= MaxConnections)
      BY <1>2 DEF Typed, TypeOK
    <3> QED BY <3>1 DEF CheckLimit, hubVars
  <2>2. Connecting' \subseteq Connecting \cup {c}
    BY <2>1 DEF Connecting, Entering, Typed, TypeOK
  <2>3. ahead'[c] = Entering /\ \A d \in Clients : d # c => ahead'[d] = ahead[d]
    BY <2>1 DEF Typed, TypeOK
  <2>4. Connecting \subseteq Clients
    BY DEF Connecting, Entering, Typed, TypeOK
  <2>5. ASSUME NEW A \in SUBSET Connecting', A # {}
        PROVE  \E d \in A : Cardinality(A) <= MaxConnections + Cardinality(ahead'[d])
    <3>1. CASE c \notin A
      <4>1. A \in SUBSET Connecting
        BY <2>2, <3>1
      <4>2. PICK d \in A : Cardinality(A) <= MaxConnections + Cardinality(ahead[d])
        BY <2>5, <4>1 DEF Bounded
      <4>3. ahead'[d] = ahead[d]
        BY <2>3, <2>4, <3>1, <4>1
      <4> QED BY <4>2, <4>3
    <3>2. CASE c \in A
      <4>1. IsFiniteSet(clients) /\ IsFiniteSet(Entering)
        <5>1. clients \in SUBSET Clients /\ Entering \in SUBSET Clients
          BY DEF Entering, Typed, TypeOK
        <5> QED BY <5>1, FS_Subset
      <4>2. /\ IsFiniteSet(Connecting)
            /\ Cardinality(Connecting) <= Cardinality(clients) + Cardinality(Entering)
        <5>1. /\ IsFiniteSet(Connecting)
              /\ Cardinality(Connecting) =
                   Cardinality(clients) + Cardinality(Entering) - Cardinality(clients \cap Entering)
          BY <4>1, FS_Union DEF Connecting
        <5>2. Cardinality(clients \cap Entering) \in Nat
          BY <4>1, FS_Intersection, FS_CardinalityType
        <5>3. Cardinality(clients) \in Nat /\ Cardinality(Entering) \in Nat
          BY <4>1, FS_CardinalityType
        <5> QED BY <5>1, <5>2, <5>3
      <4>3. /\ IsFiniteSet(Connecting \cup {c})
            /\ Cardinality(Connecting \cup {c}) <= Cardinality(Connecting) + 1
        <5>1. Cardinality(Connecting) \in Nat
          BY <4>2, FS_CardinalityType
        <5>2. Cardinality(Connecting \cup {c}) =
                IF c \in Connecting THEN Cardinality(Connecting) ELSE Cardinality(Connecting) + 1
          BY <4>2, FS_AddElement
        <5>3. IsFiniteSet(Connecting \cup {c})
          BY <4>2, FS_AddElement
        <5> QED BY <5>1, <5>2, <5>3
      <4>4. Cardinality(A) <= Cardinality(Connecting \cup {c}) /\ IsFiniteSet(A)
        BY <2>2, <4>3, FS_Subset
      <4>5. Cardinality(clients) + 1 <= MaxConnections
        BY <1>2, <4>1, FS_CardinalityType DEF Counted, CountsMatch
      <4>6. /\ Cardinality(A) \in Nat /\ Cardinality(Connecting) \in Nat
            /\ Cardinality(clients) \in Nat /\ Cardinality(Entering) \in Nat
            /\ Cardinality(Connecting \cup {c}) \in Nat
        BY <4>1, <4>2, <4>3, <4>4, FS_CardinalityType
      <4>7. Cardinality(A) <= MaxConnections + Cardinality(Entering)
        BY <4>2, <4>3, <4>4, <4>5, <4>6
      <4> QED BY <2>3, <3>2, <4>7
    <3> QED BY <3>1, <3>2
  <2> QED BY <2>5 DEF Bounded
<1>3. totalConnections \in Int
  BY DEF Typed, TypeOK
<1> QED BY <1>1, <1>2, <1>3

LEMMA InitBounded == Init => Bounded
<1> SUFFICES ASSUME Init PROVE Bounded
  OBVIOUS
<1>1. Connecting = {}
  BY DEF Init, Connecting, Entering
<1> QED BY <1>1 DEF Bounded

LEMMA NextBounded == Typed /\ Counted /\ Bounded /\ [Next]_vars => Bounded'
<1> SUFFICES ASSUME Typed, Counted, Bounded, [Next]_vars PROVE Bounded'
  OBVIOUS
<1> USE HubAssumption
<1>1. ASSUME clients' \subseteq clients, handler' = handler, ahead' = ahead PROVE Bounded'
  <2>1. Connecting' \subseteq Connecting
    BY <1>1 DEF Connecting, Entering
  <2> QED BY <1>1, <2>1, BoundedKept
<1>2. ASSUME NEW c \in Clients, CheckLimit(c) PROVE Bounded'
  BY <1>2, CheckBounded
<1>3. ASSUME NEW c \in Clients, Upgrade(c) PROVE Bounded'
  <2>1. /\ handler[c] = "checked" /\ clients' = clients /\ ahead' = ahead
        /\ \A d \in Clients : d # c => handler'[d] = handler[d]
    BY <1>3 DEF Upgrade, hubVars, Typed, TypeOK
  <2>2. Connecting' \subseteq Connecting
    BY <2>1 DEF Connecting, Entering
  <2> QED BY <2>1, <2>2, BoundedKept
<1>4. ASSUME NEW c \in Clients, Register(c) PROVE Bounded'
  <2>1. /\ handler[c] = "register" /\ handler'[c] = "done" /\ ahead' = ahead
        /\ clients' = clients \cup {c} /\ \A d \in Clients : d # c => handler'[d] = handler[d]
    BY <1>4 DEF Register, Typed, TypeOK
  <2>2. Connecting' \subseteq Connecting
    BY <2>1 DEF Connecting, Entering
  <2> QED BY <2>1, <2>2, BoundedKept
<1>5. ASSUME NEW c \in Clients, Unregister(c) PROVE Bounded'
  BY <1>1, <1>5 DEF Unregister, Remove
<1>6. ASSUME NEW c \in Clients,
             \/ Disconnect(c) \/ ReadFails(c) \/ TakeMessage(c)
             \/ SendFrame(c) \/ WriteFails(c) \/ SeeClosed(c)
      PROVE  Bounded'
  BY <1>1, <1>6 DEF Disconnect, ReadFails, TakeMessage, SendFrame, WriteFails, SeeClosed,
                    StopWriting, hubVars
<1>7. ASSUME NEW u \in Updates, BroadcastPollUpdate(u) PROVE Bounded'
  BY <1>1, <1>7 DEF BroadcastPollUpdate, hubVars
<1>8. ASSUME NEW u \in Updates, Broadcast(u) PROVE Bounded'
  BY <1>1, <1>8 DEF Broadcast, Remove
<1>9. CASE Park \/ cleanupOldMessages
  BY <1>1, <1>9 DEF Park, cleanupOldMessages, hubVars
<1>10. CASE Expire
  BY <1>1, <1>10 DEF Expire, Remove
<1>11. CASE UNCHANGED vars
  BY <1>1, <1>11 DEF vars, hubVars
<1> QED BY <1>2, <1>3, <1>4, <1>5, <1>6, <1>7, <1>8, <1>9, <1>10, <1>11 DEF Next

(* However the checks, upgrades and registrations interleave, connections     *)
(* exceed the limit by no more than the handlers one of the connected clients *)
(* found between their check and their registration when it was checked.      *)
THEOREM OnlyRacesExceed == Spec => []OnlyRacesExceedLimit
<1>1. Typed /\ Counted /\ Bounded => OnlyRacesExceedLimit
  <2> SUFFICES ASSUME Typed, Counted, Bounded, totalConnections > MaxConnections
               PROVE  \E c \in clients : totalConnections <= MaxConnections + Cardinality(ahead[c])
    BY DEF OnlyRacesExceedLimit
  <2>1. totalConnections = Cardinality(clients)
    BY DEF Counted, CountsMatch
  <2>2. clients # {}
    BY <2>1, HubAssumption, FS_EmptySet
  <2>3. clients \in SUBSET Connecting
    BY DEF Connecting
  <2> QED BY <2>1, <2>2, <2>3 DEF Bounded
<1> QED BY InitTyped, NextTyped, InitCounted, NextCounted, InitBounded, NextBounded, <1>1, PTL DEF Spec

-----------------------------------------------------------------------------
(* Suffixes *)

(* A message added to both sequences keeps one the suffix of the other. *)
LEMMA SuffixAppend ==
  ASSUME NEW s \in Seq(Updates), NEW t \in Seq(Updates), NEW u \in Updates, IsSuffix(s, t)
  PROVE  IsSuffix(Append(s, u), Append(t, u))
BY SMTT(30) DEF IsSuffix

(* What follows the oldest message of a suffix is a suffix. *)
LEMMA SuffixTail ==
  ASSUME NEW s \in Seq(Updates), NEW t \in Seq(Updates), IsSuffix(s, t), s # <<>>
  PROVE  IsSuffix(Tail(s), t)
BY DEF IsSuffix

(* The newest messages of a suffix are one. *)
LEMMA SuffixEnd ==
  ASSUME NEW s \in Seq(Updates), NEW t \in Seq(Updates), IsSuffix(s, t),
         NEW kept \in 0 .. Len(s) - 1
  PROVE  IsSuffix(SubSeq(s, Len(s) - kept + 1, Len(s)), t)
<1> DEFINE r == SubSeq(s, Len(s) - kept + 1, Len(s))
<1>1. r \in Seq(Updates) /\ Len(r) = kept /\ \A i \in 1 .. kept : r[i] = s[Len(s) - kept + i]
  BY SubSeqProperties
<1> HIDE DEF r
<1>2. Len(r) <= Len(t)
  BY <1>1 DEF IsSuffix
<1>3. ASSUME NEW i \in 1 .. Len(r) PROVE r[i] = t[Len(t) - Len(r) + i]
  <2> DEFINE j == Len(s) - kept + i
  <2>1. r[i] = s[j] /\ j \in 1 .. Len(s)
    BY <1>1
  <2>2. s[j] = t[Len(t) - Len(s) + j]
    BY <2>1 DEF IsSuffix
  <2>3. Len(t) - Len(s) + j = Len(t) - Len(r) + i
    BY <1>1
  <2> QED BY <2>1, <2>2, <2>3
<1>4. IsSuffix(r, t)
  BY <1>2, <1>3 DEF IsSuffix
<1> QED BY <1>4 DEF r

(* The empty sequence is a suffix. *)
LEMMA SuffixEmpty ==
  ASSUME NEW t \in Seq(Updates) PROVE IsSuffix(<<>>, t)
<1>1. Len(<<>>) = 0 /\ Len(t) \in Nat
  OBVIOUS
<1>2. 1 .. 0 = {}
  OBVIOUS
<1> QED BY <1>1, <1>2 DEF IsSuffix

(* So is the last message of a suffix that has one. *)
LEMMA SuffixLast ==
  ASSUME NEW s \in Seq(Updates), NEW t \in Seq(Updates), IsSuffix(s, t), s # <<>>
  PROVE  IsSuffix(<<s[Len(s)]>>, t)
<1>1. Len(s) >= 1 /\ Len(t) >= Len(s) /\ s[Len(s)] = t[Len(t)]
  BY DEF IsSuffix
<1>2. Len(<<s[Len(s)]>>) = 1 /\ <<s[Len(s)]>>[1] = s[Len(s)]
  OBVIOUS
<1> QED BY <1>1, <1>2 DEF IsSuffix

-----------------------------------------------------------------------------
(* What a client is given *)

\* The history holds the last updates the hub has taken; a connection whose
\* handler has not reached the hub holds nothing.
Stored ==
  /\ \A p \in Polls : IsSuffix(messageHistory[p], accepted[p])
  /\ \A c \in Clients : reader[c] = "none" =>
       writer[c] = "none" /\ got[c] = <<>> /\ frame[c] = <<>> /\ send[c] = <<>>

Fed(c) ==
  writer[c] = "writing" =>
    /\ IsSuffix(Feed(c), accepted[PollOf[c]])
    /\ messageHistory[PollOf[c]] # <<>> => Feed(c) # <<>>

Current == Stored /\ \A c \in clients : Fed(c)

LEMMA FeedType ==
  ASSUME Typed, NEW c \in Clients PROVE Feed(c) \in Seq(Updates)
<1>1. got[c] \in Seq(Updates) /\ frame[c] \in Seq(Updates) /\ send[c] \in Seq(Updates)
  BY DEF Typed, TypeOK
<1> QED BY <1>1 DEF Feed

LEMMA InitCurrent == Init => Current
<1> SUFFICES ASSUME Init PROVE Current
  OBVIOUS
<1>1. IsSuffix(<<>>, <<>>)
  BY DEF IsSuffix
<1> QED BY <1>1 DEF Init, Current, Stored

(* Concatenation is associative. *)
LEMMA Associative ==
  \A x, y, z \in Seq(Updates) : (x \o y) \o z = x \o (y \o z)
BY ConcatAssociative

(* A sequence may be cut behind the first message of its second half. *)
LEMMA SplitHead ==
  ASSUME NEW s \in Seq(Updates), NEW t \in Seq(Updates), t # <<>>
  PROVE  s \o t = Append(s, Head(t)) \o Tail(t)
<1> DEFINE first == <<Head(t)>>
           rest == Tail(t)
<1>1. Head(t) \in Updates /\ first \in Seq(Updates) /\ rest \in Seq(Updates)
  BY HeadTailProperties
<1>2. t = first \o rest
  OBVIOUS
<1>3. Append(s, Head(t)) = s \o first
  BY <1>1, AppendIsConcat
<1> HIDE DEF first, rest
<1>4. (s \o first) \o rest = s \o (first \o rest)
  BY <1>1, Associative, Zenon
<1> QED BY <1>2, <1>3, <1>4 DEF rest

(* The first message of one sequence may as well be the last of the one before. *)
LEMMA MoveHead ==
  ASSUME NEW r \in Seq(Updates), NEW s \in Seq(Updates), NEW t \in Seq(Updates), t # <<>>
  PROVE  r \o s \o t = r \o Append(s, Head(t)) \o Tail(t)
<1>1. Append(s, Head(t)) \in Seq(Updates) /\ Tail(t) \in Seq(Updates)
  BY HeadTailProperties, AppendProperties
<1>2. r \o s \o t = r \o (s \o t)
  BY ConcatAssociative
<1>3. s \o t = Append(s, Head(t)) \o Tail(t)
  BY SplitHead
<1>4. r \o Append(s, Head(t)) \o Tail(t) = r \o (Append(s, Head(t)) \o Tail(t))
  BY <1>1, Associative, ZenonT(30)
<1> QED BY <1>2, <1>3, <1>4

(* A message appended to the last sequence is appended to the whole. *)
LEMMA ConcatAppend ==
  ASSUME NEW s \in Seq(Updates), NEW t \in Seq(Updates), NEW u \in Updates
  PROVE  s \o Append(t, u) = Append(s \o t, u)
<1>1. <<u>> \in Seq(Updates) /\ s \o t \in Seq(Updates)
  BY ConcatProperties
<1>2. Append(t, u) = t \o <<u>> /\ Append(s \o t, u) = (s \o t) \o <<u>>
  BY <1>1, AppendIsConcat
<1> QED BY <1>1, <1>2, ConcatAssociative

(* A step that leaves the updates of a poll and the feed of a client alone. *)
LEMMA FedKept ==
  ASSUME NEW c \in Clients, Fed(c), writer'[c] = "writing" => writer[c] = "writing",
         UNCHANGED <<messageHistory[PollOf[c]], accepted[PollOf[c]], got[c], frame[c], send[c]>>
  PROVE  Fed(c)'
BY DEF Fed, Feed

(* While a pump runs, its steps move messages from the buffer to the frame and *)
(* from there over the connection: together they remain the same.             *)
LEMMA PumpKeepsFeed ==
  ASSUME Typed, NEW c \in Clients, TakeMessage(c) \/ SendFrame(c) \/ StopWriting(c),
         writer'[c] = "writing"
  PROVE  writer[c] = "writing" /\ Feed(c)' = Feed(c)
<1>1. got[c] \in Seq(Updates) /\ frame[c] \in Seq(Updates) /\ send[c] \in Seq(Updates)
  BY DEF Typed, TypeOK
<1>2. CASE TakeMessage(c)
  <2>1. /\ send[c] # <<>> /\ got'[c] = got[c] /\ writer[c] = "writing"
        /\ frame'[c] = Append(frame[c], Head(send[c])) /\ send'[c] = Tail(send[c])
    BY <1>2 DEF TakeMessage, Typed, TypeOK
  <2>2. got[c] \o frame[c] \o send[c] = got[c] \o Append(frame[c], Head(send[c])) \o Tail(send[c])
    BY <1>1, <2>1, MoveHead
  <2> QED BY <2>1, <2>2 DEF Feed
<1>3. CASE SendFrame(c)
  <2>1. /\ got' = [got EXCEPT ![c] = got[c] \o frame[c]] /\ frame' = [frame EXCEPT ![c] = <<>>]
        /\ send' = send /\ writer[c] = "writing"
    BY <1>3 DEF SendFrame
  <2>2. got'[c] = got[c] \o frame[c] /\ frame'[c] = <<>> /\ send'[c] = send[c]
    BY <2>1, SMTT(30) DEF Typed, TypeOK
  <2>3. got[c] \o frame[c] \in Seq(Updates)
    BY <1>1, ConcatProperties
  <2> QED BY <2>1, <2>2, <2>3, ConcatEmptySeq DEF Feed
<1>4. CASE StopWriting(c)
  BY <1>4 DEF StopWriting, Typed, TypeOK
<1> QED BY <1>2, <1>3, <1>4

LEMMA NextCurrent == Typed /\ Typed' /\ Counted /\ Current /\ [Next]_vars => Current'
<1> SUFFICES ASSUME Typed, Typed', Counted, Current, [Next]_vars PROVE Current'
  OBVIOUS
<1> USE HubAssumption
<1>1. ASSUME UNCHANGED <<messageHistory, accepted, got, frame, send>>,
             clients' \subseteq clients,
             \A c \in Clients : reader'[c] = "none" => reader[c] = "none",
             \A c \in Clients : writer'[c] = writer[c]
      PROVE  Current'
  <2>1. Stored'
    BY <1>1 DEF Current, Stored
  <2>2. \A c \in clients' : Fed(c)'
    BY <1>1, FedKept DEF Current, Typed, TypeOK
  <2> QED BY <2>1, <2>2 DEF Current
<1>2. ASSUME NEW c \in Clients, CheckLimit(c) PROVE Current'
  BY <1>1, <1>2 DEF CheckLimit, pumpVars, hubVars
<1>3. ASSUME NEW c \in Clients, Upgrade(c) PROVE Current'
  BY <1>1, <1>3 DEF Upgrade, pumpVars, hubVars
<1>4. ASSUME NEW c \in Clients, Register(c) PROVE Current'
  <2> DEFINE history == messageHistory[PollOf[c]]
  <2>1. reader[c] = "none" /\ got[c] = <<>> /\ frame[c] = <<>> /\ send[c] = <<>>
    BY <1>4 DEF Register, Counted, Registered, Current, Stored
  <2>2. UNCHANGED <<messageHistory, accepted, got, frame>> /\ clients' = clients \cup {c}
    BY <1>4 DEF Register
  <2>3. \A d \in Clients : d # c => UNCHANGED <<send[d], writer[d], reader[d]>>
    <3>1. \A d \in Clients : d # c => UNCHANGED <<writer[d], reader[d]>>
      BY <1>4 DEF Register, Typed, TypeOK
    <3>2. send \in [Clients -> Seq(Updates)]
      BY DEF Typed, TypeOK
    <3>3. \A d \in Clients : d # c => UNCHANGED send[d]
      BY <1>4, <3>2 DEF Register, sendHistoryToClient
    <3> QED BY <3>1, <3>3
  <2>4. history \in Seq(Updates) /\ accepted[PollOf[c]] \in Seq(Updates)
        /\ IsSuffix(history, accepted[PollOf[c]])
    BY DEF Current, Stored, Typed, TypeOK
  <2>5. Fed(c)'
    <3>1. CASE history = <<>>
      <4>1. send' = send
        BY <1>4, <3>1 DEF Register, sendHistoryToClient
      <4>2. Feed(c)' = <<>>
        BY <2>1, <2>2, <4>1 DEF Feed
      <4>3. IsSuffix(Feed(c)', accepted[PollOf[c]])
        BY <2>4, <4>2, SuffixEmpty
      <4> QED BY <2>2, <3>1, <4>3 DEF Fed
    <3>2. CASE history # <<>>
      <4>1. send'[c] = <<history[Len(history)]>>
        <5>1. Len(send[c]) < SendBuffer
          BY <2>1
        <5>2. send' = [send EXCEPT ![c] = Append(send[c], history[Len(history)])]
          BY <1>4, <3>2, <5>1 DEF Register, sendHistoryToClient
        <5> QED BY <2>1, <5>2 DEF Typed, TypeOK
      <4>2. Feed(c)' = <<history[Len(history)]>>
        <5>1. history[Len(history)] \in Updates
          BY <2>4, <3>2
        <5>2. Feed(c)' = <<>> \o <<>> \o <<history[Len(history)]>>
          BY <2>1, <2>2, <4>1 DEF Feed
        <5> HIDE DEF history
        <5> QED BY <5>1, <5>2
      <4>3. IsSuffix(<<history[Len(history)]>>, accepted[PollOf[c]])
        BY <2>4, <3>2, SuffixLast
      <4>4. <<history[Len(history)]>> # <<>>
        OBVIOUS
      <4> QED BY <2>2, <4>2, <4>3, <4>4 DEF Fed
    <3> QED BY <3>1, <3>2
  <2>6. ASSUME NEW d \in clients, d # c PROVE Fed(d)'
    <3>1. d \in Clients /\ Fed(d)
      BY <2>6 DEF Current, Typed, TypeOK
    <3> QED BY <2>2, <2>3, <2>6, <3>1, FedKept
  <2>7. Stored'
    <3>1. reader'[c] # "none"
      BY <1>4 DEF Register, Typed, TypeOK
    <3> QED BY <2>2, <2>3, <3>1 DEF Current, Stored
  <2> QED BY <2>2, <2>5, <2>6, <2>7 DEF Current
<1>5. ASSUME NEW c \in Clients, Unregister(c) PROVE Current'
  BY <1>1, <1>5 DEF Unregister, Remove, Typed, TypeOK
<1>6. ASSUME NEW c \in Clients, Disconnect(c) \/ ReadFails(c) PROVE Current'
  BY <1>1, <1>6 DEF Disconnect, ReadFails, pumpVars, hubVars, Typed, TypeOK
<1>7. ASSUME NEW c \in Clients, TakeMessage(c) \/ SendFrame(c) \/ StopWriting(c), writer[c] = "writing"
      PROVE  Current'
  <2>1. UNCHANGED <<messageHistory, accepted, clients, reader>>
    BY <1>7 DEF TakeMessage, SendFrame, StopWriting, hubVars
  <2>2. \A d \in Clients : d # c => UNCHANGED <<got[d], frame[d], send[d], writer[d]>>
    <3>1. CASE TakeMessage(c)
      BY <3>1 DEF TakeMessage, Typed, TypeOK
    <3>2. CASE SendFrame(c)
      BY <3>2 DEF SendFrame, Typed, TypeOK
    <3>3. CASE StopWriting(c)
      BY <3>3 DEF StopWriting, Typed, TypeOK
    <3> QED BY <1>7, <3>1, <3>2, <3>3
  <2>3. reader[c] # "none"
    BY <1>7 DEF Current, Stored
  <2>4. Stored'
    BY <2>1, <2>2, <2>3 DEF Current, Stored
  <2>6. writer'[c] = "writing" => Feed(c)' = Feed(c)
    BY <1>7, PumpKeepsFeed
  <2>7. c \in clients => Fed(c)'
    BY <1>7, <2>1, <2>6 DEF Current, Fed
  <2>8. ASSUME NEW d \in clients, d # c PROVE Fed(d)'
    <3>1. d \in Clients /\ Fed(d)
      BY <2>8 DEF Current, Typed, TypeOK
    <3> QED BY <2>1, <2>2, <2>8, <3>1, FedKept
  <2> QED BY <2>1, <2>4, <2>7, <2>8 DEF Current
<1>8. ASSUME NEW u \in Updates, BroadcastPollUpdate(u) PROVE Current'
  BY <1>1, <1>8 DEF BroadcastPollUpdate, pumpVars, hubVars
<1>9. ASSUME NEW u \in Updates, Broadcast(u) PROVE Current'
  <2> DEFINE p == PollOf[u]
             full == {c \in ClientsOf(p) : Len(send[c]) >= SendBuffer}
             history == Append(messageHistory[p], u)
  <2>1. /\ UNCHANGED <<got, frame, writer, reader>> /\ clients' = clients \ full
        /\ full \subseteq ClientsOf(p) /\ p \in Polls
    BY <1>9 DEF Broadcast, Remove, pumpVars
  <2>2. /\ accepted'[p] = Append(accepted[p], u)
        /\ \A q \in Polls : q # p => UNCHANGED <<accepted[q], messageHistory[q]>>
    <3>1. accepted' = [accepted EXCEPT ![p] = Append(accepted[p], u)]
      BY <1>9 DEF Broadcast
    <3>2. messageHistory' = [messageHistory EXCEPT
            ![p] = IF Len(history) > MaxHistory THEN Tail(history) ELSE history]
      BY <1>9 DEF Broadcast, storeMessageInHistory
    <3> QED BY <3>1, <3>2 DEF Typed, TypeOK
  <2>3. messageHistory'[p] = IF Len(history) > MaxHistory THEN Tail(history) ELSE history
    BY <1>9, <2>1 DEF Broadcast, storeMessageInHistory, Typed, TypeOK
  <2>4. \A c \in Clients : send'[c] = IF c \in ClientsOf(p) \ full
                                      THEN Append(send[c], u) ELSE send[c]
    BY <1>9 DEF Broadcast
  <2> HIDE DEF full
  <2>5. IsSuffix(messageHistory'[p], accepted'[p])
    <3>1. messageHistory[p] \in Seq(Updates) /\ accepted[p] \in Seq(Updates)
          /\ IsSuffix(messageHistory[p], accepted[p])
      BY <2>1 DEF Current, Stored, Typed, TypeOK
    <3>2. IsSuffix(history, accepted'[p])
      BY <2>2, <3>1, SuffixAppend
    <3>3. history \in Seq(Updates) /\ history # <<>> /\ accepted'[p] \in Seq(Updates)
      BY <2>2, <3>1, AppendProperties
    <3> HIDE DEF history
    <3>4. IsSuffix(Tail(history), accepted'[p])
      BY <3>2, <3>3, SuffixTail
    <3> QED BY <2>3, <3>2, <3>4
  <2>6. Stored'
    <3>1. \A c \in Clients : reader'[c] = "none" => c \notin ClientsOf(p)
      BY <2>1 DEF ClientsOf, Counted, Registered
    <3> QED BY <2>1, <2>2, <2>4, <2>5, <3>1 DEF Current, Stored
  <2>7. ASSUME NEW c \in clients' PROVE Fed(c)'
    <3>1. c \in clients /\ c \in Clients /\ Fed(c) /\ c \notin full /\ PollOf[c] \in Polls
      BY <2>1 DEF Current, Typed, TypeOK
    <3>2. CASE PollOf[c] # p
      <4>1. send'[c] = send[c]
        BY <2>4, <3>1, <3>2 DEF ClientsOf
      <4> QED BY <2>1, <2>2, <3>1, <3>2, <4>1, FedKept
    <3>3. CASE PollOf[c] = p
      <4>1. send'[c] = Append(send[c], u)
        BY <2>4, <3>1, <3>3 DEF ClientsOf
      <4>2. got[c] \in Seq(Updates) /\ frame[c] \in Seq(Updates) /\ send[c] \in Seq(Updates)
        BY <3>1 DEF Typed, TypeOK
      <4>3. got[c] \o frame[c] \in Seq(Updates)
        BY <4>2, ConcatProperties
      <4>4. Feed(c)' = Append(Feed(c), u)
        <5>1. Feed(c)' = (got[c] \o frame[c]) \o Append(send[c], u)
          BY <2>1, <4>1 DEF Feed
        <5>2. (got[c] \o frame[c]) \o Append(send[c], u) = Append((got[c] \o frame[c]) \o send[c], u)
          BY <4>2, <4>3, ConcatAppend, Zenon
        <5> QED BY <5>1, <5>2 DEF Feed
      <4>5. Feed(c) \in Seq(Updates) /\ accepted[p] \in Seq(Updates)
        BY <2>1, <3>1, FeedType DEF Typed, TypeOK
      <4>6. writer[c] = "writing" => IsSuffix(Feed(c)', accepted'[p])
        BY <2>2, <3>1, <3>3, <4>4, <4>5, SuffixAppend DEF Fed
      <4>7. Feed(c)' # <<>>
        BY <4>4, <4>5, AppendProperties
      <4> QED BY <2>1, <3>3, <4>6, <4>7 DEF Fed
    <3> QED BY <3>2, <3>3
  <2> QED BY <2>6, <2>7 DEF Current
<1>10. CASE Park
  BY <1>1, <1>10 DEF Park, pumpVars, hubVars
<1>11. CASE cleanupOldMessages
  <2>0. PICK p \in Polls : \E kept \in 0 .. Len(messageHistory[p]) - 1 :
          messageHistory' = [messageHistory EXCEPT
            ![p] = SubSeq(messageHistory[p], Len(messageHistory[p]) - kept + 1, Len(messageHistory[p]))]
    BY <1>11 DEF cleanupOldMessages
  <2>1. PICK kept \in 0 .. Len(messageHistory[p]) - 1 :
          messageHistory' = [messageHistory EXCEPT
            ![p] = SubSeq(messageHistory[p], Len(messageHistory[p]) - kept + 1, Len(messageHistory[p]))]
    BY <2>0
  <2>2. UNCHANGED <<clients, accepted, got, frame, send, reader, writer>>
    BY <1>11 DEF cleanupOldMessages, hubVars, pumpVars
  <2>3. messageHistory[p] \in Seq(Updates) /\ accepted[p] \in Seq(Updates)
        /\ IsSuffix(messageHistory[p], accepted[p])
    BY DEF Current, Stored, Typed, TypeOK
  <2>4. messageHistory[p] # <<>>
    BY <2>3
  <2>5. /\ messageHistory'[p] = SubSeq(messageHistory[p], Len(messageHistory[p]) - kept + 1,
                                       Len(messageHistory[p]))
        /\ \A q \in Polls : q # p => messageHistory'[q] = messageHistory[q]
    BY <2>1 DEF Typed, TypeOK
  <2>6. IsSuffix(messageHistory'[p], accepted[p])
    BY <2>3, <2>5, SuffixEnd
  <2>7. Stored'
    BY <2>2, <2>5, <2>6 DEF Current, Stored
  <2>8. ASSUME NEW c \in clients' PROVE Fed(c)'
    <3>1. c \in clients /\ c \in Clients /\ Fed(c) /\ PollOf[c] \in Polls
      BY <2>2 DEF Current, Typed, TypeOK
    <3>2. Feed(c)' = Feed(c)
      BY <2>2 DEF Feed
    <3> QED BY <2>2, <2>4, <2>5, <3>1, <3>2 DEF Fed
  <2> QED BY <2>7, <2>8 DEF Current
<1>12. CASE Expire
  BY <1>1, <1>12 DEF Expire, Remove, pumpVars
<1>13. CASE UNCHANGED vars
  BY <1>1, <1>13 DEF vars, pumpVars, hubVars
<1> QED BY <1>2, <1>3, <1>4, <1>5, <1>6, <1>7, <1>8, <1>9, <1>10, <1>11, <1>12, <1>13
        DEF Next, WriteFails, SeeClosed, TakeMessage, SendFrame

(* Every client in the map whose pump runs has been given, in the hub's order *)
(* and without a gap, the updates of its poll up to the last one: a buffer     *)
(* that is full costs the client its place, never a message in the middle.    *)
THEOREM ClientsUpToDate == Spec => []UpToDate
<1>1. Current => UpToDate
  BY DEF Current, Fed, UpToDate
<1> QED BY InitTyped, NextTyped, InitCounted, NextCounted, InitCurrent, NextCurrent, <1>1, PTL DEF Spec

-----------------------------------------------------------------------------
(* The hub implements UpdateStream *)

IsStretch(s, t) ==
  \E k \in 0 .. Len(t) - Len(s) : \A i \in 1 .. Len(s) : s[i] = t[k + i]

\* r is a stretch of t, and s the same stretch with something more at its end.
Extends(s, r, t) ==
  \E first \in 1 .. Len(t) : \E last \in first - 1 .. Len(t), end \in first .. Len(t) :
    last < end /\ r = SubSeq(t, first, last) /\ s = SubSeq(t, first, end)

(* A suffix is a stretch, and a stretch remains one when the stream grows.    *)
LEMMA SuffixIsStretch ==
  ASSUME NEW s \in Seq(Updates), NEW t \in Seq(Updates), IsSuffix(s, t)
  PROVE  IsStretch(s, t)
<1>1. Len(t) - Len(s) \in 0 .. Len(t) - Len(s)
  BY DEF IsSuffix
<1> QED BY <1>1 DEF IsSuffix, IsStretch

LEMMA StretchKept ==
  ASSUME NEW s \in Seq(Updates), NEW t \in Seq(Updates), NEW u \in Updates, IsStretch(s, t)
  PROVE  IsStretch(s, Append(t, u))
<1>1. PICK k \in 0 .. Len(t) - Len(s) : \A i \in 1 .. Len(s) : s[i] = t[k + i]
  BY DEF IsStretch
<1>2. /\ Len(Append(t, u)) = Len(t) + 1
      /\ \A i \in 1 .. Len(t) : Append(t, u)[i] = t[i]
  BY AppendProperties
<1>3. \A i \in 1 .. Len(s) : s[i] = Append(t, u)[k + i]
  BY <1>1, <1>2
<1>4. k \in 0 .. Len(Append(t, u)) - Len(s)
  BY <1>2
<1> QED BY <1>3, <1>4 DEF IsStretch

(* The beginning of a stretch is the stretch of its length from the same place. *)
LEMMA StretchPrefix ==
  ASSUME NEW r \in Seq(Updates), NEW s \in Seq(Updates), NEW t \in Seq(Updates), NEW k \in Nat,
         Len(r) <= Len(s), \A i \in 1 .. Len(r) : r[i] = s[i],
         k + Len(s) <= Len(t), \A i \in 1 .. Len(s) : s[i] = t[k + i]
  PROVE  r = SubSeq(t, k + 1, k + Len(r))
<1> DEFINE q == SubSeq(t, k + 1, k + Len(r))
<1>1. /\ q \in Seq(Updates) /\ Len(q) = Len(r)
      /\ \A i \in 1 .. Len(r) : q[i] = t[k + i]
  <2>1. \A i \in k + 1 .. k + Len(r) : t[i] \in Updates
    BY SMTT(30)
  <2>2. (IF k + 1 <= k + Len(r) THEN k + Len(r) - (k + 1) + 1 ELSE 0) = Len(r)
    OBVIOUS
  <2> QED BY <2>1, <2>2, SubSeqProperties
<1>2. \A i \in 1 .. Len(r) : q[i] = r[i]
  BY <1>1
<1> HIDE DEF q
<1>3. q = r
  BY <1>1, <1>2, SeqEqual
<1> QED BY <1>3 DEF q

LEMMA ConcatBegins ==
  \A r, s \in Seq(Updates) :
    /\ r \o s \in Seq(Updates) /\ Len(r \o s) = Len(r) + Len(s)
    /\ \A i \in 1 .. Len(r) : (r \o s)[i] = r[i]
<1> SUFFICES ASSUME NEW r \in Seq(Updates), NEW s \in Seq(Updates)
             PROVE  /\ r \o s \in Seq(Updates) /\ Len(r \o s) = Len(r) + Len(s)
                    /\ \A i \in 1 .. Len(r) : (r \o s)[i] = r[i]
  OBVIOUS
<1> QED BY ConcatProperties

(* What is delivered next follows what was: both begin the same stretch.       *)
LEMMA StretchDelivers ==
  ASSUME NEW x \in Seq(Updates), NEW y \in Seq(Updates), NEW z \in Seq(Updates),
         NEW t \in Seq(Updates), y # <<>>, IsStretch(x \o y \o z, t)
  PROVE  Extends(x \o y, x, t)
<1>1. PICK xy \in Seq(Updates) : xy = x \o y
  BY ConcatBegins
<1>2. PICK s \in Seq(Updates) : s = xy \o z
  BY ConcatBegins
<1>3. PICK k \in 0 .. Len(t) - Len(s) : \A i \in 1 .. Len(s) : s[i] = t[k + i]
  BY <1>1, <1>2 DEF IsStretch
<1>4. Len(y) \in Nat \ {0} /\ Len(x) \in Nat /\ Len(z) \in Nat /\ Len(t) \in Nat
  BY EmptySeq, LenProperties
<1>5. /\ Len(xy) = Len(x) + Len(y) /\ \A i \in 1 .. Len(x) : xy[i] = x[i]
      /\ Len(s) = Len(xy) + Len(z) /\ \A i \in 1 .. Len(xy) : s[i] = xy[i]
  BY <1>1, <1>2, ConcatBegins
<1>6. /\ k \in Nat /\ k + Len(s) <= Len(t) /\ Len(x) <= Len(s) /\ Len(xy) <= Len(s)
      /\ \A i \in 1 .. Len(x) : x[i] = s[i]
  BY <1>3, <1>4, <1>5
<1>7. xy = SubSeq(t, k + 1, k + Len(xy))
  <2>1. \A i \in 1 .. Len(xy) : xy[i] = s[i]
    BY <1>5
  <2> QED BY <1>3, <1>6, <2>1, StretchPrefix
<1>8. x = SubSeq(t, k + 1, k + Len(x))
  BY <1>3, <1>6, StretchPrefix
<1>9. /\ k + 1 \in 1 .. Len(t) /\ k + Len(x) \in (k + 1) - 1 .. Len(t)
      /\ k + Len(xy) \in k + 1 .. Len(t) /\ k + Len(x) < k + Len(xy)
  BY <1>4, <1>5, <1>6
<1> QED BY <1>1, <1>7, <1>8, <1>9 DEF Extends

\* An update is taken once; and what a connection has been sent, has in its frame
\* and in its buffer is a stretch of its poll's stream while its pump runs, also
\* when the client is no longer in the map.
Streamed ==
  /\ \A p \in Polls : \A i \in 1 .. Len(accepted[p]) : update[accepted[p][i]] = "taken"
  /\ \A c \in Clients :
       writer[c] = "writing" => IsStretch(Feed(c), accepted[PollOf[c]])

LEMMA InitStreamed == Init => Streamed
<1> SUFFICES ASSUME Init PROVE Streamed
  OBVIOUS
<1>1. \A p \in Polls : Len(accepted[p]) = 0
  BY DEF Init
<1>2. \A c \in Clients : writer[c] # "writing"
  BY DEF Init
<1> QED BY <1>1, <1>2 DEF Streamed

(* A pump that runs without losing its place keeps its stretch.               *)
LEMMA StreamedKept ==
  ASSUME Typed', Current', Streamed, accepted' = accepted,
         \A u \in Updates : update[u] = "taken" => update'[u] = "taken",
         \A c \in Clients : writer'[c] = "writing" =>
           c \in clients' \/ (writer[c] = "writing" /\ Feed(c)' = Feed(c))
  PROVE  Streamed'
<1> USE HubAssumption
<1>1. ASSUME NEW c \in Clients, writer'[c] = "writing"
      PROVE  IsStretch(Feed(c)', accepted'[PollOf[c]])
  <2>1. CASE c \in clients'
    <3>1. IsSuffix(Feed(c)', accepted'[PollOf[c]])
      BY <1>1, <2>1 DEF Current, Fed
    <3>2. Feed(c)' \in Seq(Updates)
      <4>1. /\ got'[c] \in Seq(Updates) /\ frame'[c] \in Seq(Updates)
            /\ send'[c] \in Seq(Updates)
        BY DEF Typed, TypeOK
      <4> QED BY <4>1 DEF Feed
    <3>3. accepted'[PollOf[c]] \in Seq(Updates)
      BY DEF Typed, TypeOK
    <3> QED BY <3>1, <3>2, <3>3, SuffixIsStretch
  <2>2. CASE writer[c] = "writing" /\ Feed(c)' = Feed(c)
    BY <2>2 DEF Streamed
  <2> QED BY <1>1, <2>1, <2>2
<1>2. ASSUME NEW p \in Polls, NEW i \in 1 .. Len(accepted[p])
      PROVE  update'[accepted[p][i]] = "taken"
  <2>1. accepted[p] \in Seq(Updates)
    BY DEF Typed, TypeOK
  <2>2. accepted[p][i] \in Updates
    BY <2>1
  <2> QED BY <2>2 DEF Streamed
<1> QED BY <1>1, <1>2 DEF Streamed

(* A broadcast extends the stream behind what its clients have.               *)
LEMMA BroadcastStreamed ==
  ASSUME Typed, Typed', Current', Streamed, NEW u \in Updates, Broadcast(u)
  PROVE  Streamed'
<1> USE HubAssumption
<1> DEFINE p == PollOf[u]
           full == {c \in ClientsOf(p) : Len(send[c]) >= SendBuffer}
<1>1. /\ UNCHANGED <<got, frame, writer>> /\ clients' = clients \ full /\ p \in Polls
  BY DEF Broadcast, Remove, pumpVars
<1>2. /\ accepted[p] \in Seq(Updates) /\ accepted'[p] = Append(accepted[p], u)
      /\ \A q \in Polls : q # p => accepted'[q] = accepted[q]
  BY <1>1, SMTT(30) DEF Broadcast, Typed, TypeOK
<1>3. update'[u] = "taken" /\ \A v \in Updates : v # u => update'[v] = update[v]
  BY DEF Broadcast, Typed, TypeOK
<1>4. \A c \in Clients : send'[c] = IF c \in ClientsOf(p) \ full
                                    THEN Append(send[c], u) ELSE send[c]
  BY DEF Broadcast
<1> HIDE DEF full
<1>5. ASSUME NEW q \in Polls, NEW i \in 1 .. Len(accepted'[q])
      PROVE  update'[accepted'[q][i]] = "taken"
  <2>1. accepted[q] \in Seq(Updates) /\ accepted'[q] \in Seq(Updates)
    BY DEF Typed, TypeOK
  <2>2. \A j \in 1 .. Len(accepted[q]) : accepted[q][j] \in Updates /\ update'[accepted[q][j]] = "taken"
    BY <1>3, <2>1 DEF Streamed
  <2>3. CASE q # p
    BY <1>2, <1>5, <2>2, <2>3
  <2>4. CASE q = p
    <3>1. /\ Len(accepted'[q]) = Len(accepted[q]) + 1
          /\ accepted'[q][Len(accepted[q]) + 1] = u
          /\ \A j \in 1 .. Len(accepted[q]) : accepted'[q][j] = accepted[q][j]
      BY <1>2, <2>1, <2>4, AppendProperties
    <3>2. Len(accepted[q]) \in Nat
      BY <2>1, LenProperties
    <3>3. CASE i = Len(accepted[q]) + 1
      BY <1>3, <3>1, <3>3
    <3>4. CASE i \in 1 .. Len(accepted[q])
      BY <2>2, <3>1, <3>4
    <3> QED BY <1>5, <3>1, <3>2, <3>3, <3>4
  <2> QED BY <2>3, <2>4
<1>6. ASSUME NEW c \in Clients, writer'[c] = "writing"
      PROVE  IsStretch(Feed(c)', accepted'[PollOf[c]])
  <2>1. PollOf[c] \in Polls /\ accepted[PollOf[c]] \in Seq(Updates)
        /\ accepted'[PollOf[c]] \in Seq(Updates) /\ Feed(c) \in Seq(Updates)
    <3>1. PollOf[c] \in Polls /\ Feed(c) \in Seq(Updates)
      BY FeedType
    <3>2. accepted \in [Polls -> Seq(Updates)]
      BY DEF Typed, TypeOK
    <3>3. accepted' \in [Polls -> Seq(Updates)]
      BY DEF Typed, TypeOK
    <3> QED BY <3>1, <3>2, <3>3
  <2>2. CASE c \in clients'
    <3>1. Feed(c)' \in Seq(Updates)
      <4>1. /\ got'[c] \in Seq(Updates) /\ frame'[c] \in Seq(Updates)
            /\ send'[c] \in Seq(Updates)
        BY DEF Typed, TypeOK
      <4> QED BY <4>1 DEF Feed
    <3>2. IsSuffix(Feed(c)', accepted'[PollOf[c]])
      BY <1>6, <2>2 DEF Current, Fed
    <3> QED BY <2>1, <3>1, <3>2, SuffixIsStretch
  <2>3. CASE c \notin clients'
    <3>1. send'[c] = send[c]
      BY <1>1, <1>4, <2>3 DEF ClientsOf
    <3>2. Feed(c)' = Feed(c) /\ IsStretch(Feed(c), accepted[PollOf[c]])
      BY <1>1, <1>6, <3>1 DEF Feed, Streamed
    <3> QED BY <1>2, <2>1, <3>2, StretchKept
  <2> QED BY <2>2, <2>3
<1> QED BY <1>5, <1>6 DEF Streamed

LEMMA NextStreamed ==
  Typed /\ Typed' /\ Current /\ Current' /\ Streamed /\ [Next]_vars => Streamed'
<1> SUFFICES ASSUME Typed, Typed', Current, Current', Streamed, [Next]_vars PROVE Streamed'
  OBVIOUS
<1> USE HubAssumption
<1>1. ASSUME UNCHANGED <<accepted, update, got, frame, send>>,
             \A c \in Clients : writer'[c] = "writing" => writer[c] = "writing"
      PROVE  Streamed'
  BY <1>1, StreamedKept DEF Feed
<1>2. ASSUME NEW c \in Clients, CheckLimit(c) \/ Upgrade(c) PROVE Streamed'
  BY <1>1, <1>2 DEF CheckLimit, Upgrade, pumpVars, updateVars
<1>3. ASSUME NEW c \in Clients, Register(c) PROVE Streamed'
  <2>1. /\ accepted' = accepted /\ update' = update /\ clients' = clients \cup {c}
        /\ UNCHANGED <<got, frame>>
    BY <1>3 DEF Register, updateVars
  <2>2. ASSUME NEW d \in Clients, d # c PROVE writer'[d] = writer[d] /\ send'[d] = send[d]
    <3>1. writer'[d] = writer[d]
      BY <1>3, <2>2 DEF Register, Typed, TypeOK
    <3>2. send'[d] = send[d]
      <4>1. send \in [Clients -> Seq(Updates)]
        BY DEF Typed, TypeOK
      <4> QED BY <1>3, <2>2, <4>1 DEF Register, sendHistoryToClient
    <3> QED BY <3>1, <3>2
  <2>3. \A d \in Clients : d # c => Feed(d)' = Feed(d)
    BY <2>1, <2>2 DEF Feed
  <2> QED BY <2>1, <2>2, <2>3, StreamedKept
<1>4. ASSUME NEW c \in Clients, Unregister(c) PROVE Streamed'
  BY <1>1, <1>4 DEF Unregister, updateVars
<1>5. ASSUME NEW c \in Clients, Disconnect(c) \/ ReadFails(c) PROVE Streamed'
  BY <1>1, <1>5 DEF Disconnect, ReadFails, pumpVars, updateVars
<1>6. ASSUME NEW c \in Clients, TakeMessage(c) \/ SendFrame(c) \/ StopWriting(c)
      PROVE  Streamed'
  <2>1. accepted' = accepted /\ update' = update
    BY <1>6 DEF TakeMessage, SendFrame, StopWriting, updateVars
  <2>2. \A d \in Clients : d # c =>
          UNCHANGED <<got[d], frame[d], send[d], writer[d]>>
    <3>1. CASE TakeMessage(c)
      BY <3>1 DEF TakeMessage, Typed, TypeOK
    <3>2. CASE SendFrame(c)
      BY <3>2 DEF SendFrame, Typed, TypeOK
    <3>3. CASE StopWriting(c)
      BY <3>3 DEF StopWriting, Typed, TypeOK
    <3> QED BY <1>6, <3>1, <3>2, <3>3
  <2>3. writer'[c] = "writing" => writer[c] = "writing" /\ Feed(c)' = Feed(c)
    BY <1>6, PumpKeepsFeed
  <2>4. \A d \in Clients : d # c => Feed(d)' = Feed(d)
    BY <2>2 DEF Feed
  <2> QED BY <2>1, <2>2, <2>3, <2>4, StreamedKept
<1>7. ASSUME NEW u \in Updates, BroadcastPollUpdate(u) PROVE Streamed'
  <2>1. /\ UNCHANGED <<accepted, got, frame, send, writer>>
        /\ \A v \in Updates : update[v] = "taken" => update'[v] = "taken"
    BY <1>7 DEF BroadcastPollUpdate, pumpVars, Typed, TypeOK
  <2> QED BY <2>1, StreamedKept DEF Feed
<1>8. ASSUME NEW u \in Updates, Broadcast(u) PROVE Streamed'
  BY <1>8, BroadcastStreamed
<1>9. CASE Park \/ cleanupOldMessages \/ Expire
  BY <1>1, <1>9 DEF Park, cleanupOldMessages, Expire, pumpVars, updateVars
<1>10. CASE UNCHANGED vars
  BY <1>1, <1>10 DEF vars, pumpVars, updateVars
<1> QED BY <1>2, <1>3, <1>4, <1>5, <1>6, <1>7, <1>8, <1>9, <1>10 DEF Next, WriteFails, SeeClosed

(* A step that maps to a step of UpdateStream: a broadcast that the hub takes  *)
(* is published, a frame that goes out is delivered, and the rest stutters.    *)
LEMMA NextIsStreamStep ==
  Typed /\ Streamed /\ [Next]_vars => [Stream!StreamNext]_Stream!streamVars
<1> SUFFICES ASSUME Typed, Streamed, [Next]_vars
             PROVE  [Stream!StreamNext]_Stream!streamVars
  OBVIOUS
<1> USE HubAssumption
<1>1. ASSUME NEW u \in Updates, Broadcast(u) PROVE Stream!Publish(u)
  <2>1. update[u] = "trying"
    BY <1>1 DEF Broadcast
  <2>2. accepted[PollOf[u]] \in Seq(Updates)
    BY DEF Typed, TypeOK
  <2>3. \A i \in DOMAIN accepted[PollOf[u]] : accepted[PollOf[u]][i] # u
    BY <2>1, <2>2, LenProperties DEF Streamed
  <2>4. accepted' = [accepted EXCEPT ![PollOf[u]] = Append(@, u)] /\ got' = got
    BY <1>1 DEF Broadcast
  <2> QED BY <2>3, <2>4 DEF Stream!Publish
<1>2. ASSUME NEW c \in Clients, SendFrame(c) PROVE Stream!Deliver(c)
  <2>1. /\ writer[c] = "writing" /\ frame[c] # <<>> /\ accepted' = accepted
        /\ got' = [got EXCEPT ![c] = got[c] \o frame[c]]
    BY <1>2 DEF SendFrame
  <2> DEFINE t == accepted[PollOf[c]]
  <2>2. /\ got[c] \in Seq(Updates) /\ frame[c] \in Seq(Updates)
        /\ send[c] \in Seq(Updates) /\ t \in Seq(Updates)
    BY DEF Typed, TypeOK
  <2>3. IsStretch(got[c] \o frame[c] \o send[c], t)
    BY <2>1 DEF Streamed, Feed
  <2> HIDE DEF t
  <2>4. Extends(got[c] \o frame[c], got[c], t)
    BY <2>1, <2>2, <2>3, StretchDelivers
  <2> QED BY <2>1, <2>4 DEF Stream!Deliver, Extends, t
<1>3. \/ \E u \in Updates : Broadcast(u)
      \/ \E c \in Clients : SendFrame(c)
      \/ UNCHANGED <<accepted, got>>
  BY DEF Next, CheckLimit, Upgrade, Register, Unregister, Disconnect, ReadFails, TakeMessage,
         WriteFails, SeeClosed, StopWriting, BroadcastPollUpdate, Park, cleanupOldMessages,
         Expire, vars
<1> QED BY <1>1, <1>2, <1>3 DEF Stream!StreamNext, Stream!streamVars

(* The hub implements the stream it promises: a connection is never sent an    *)
(* update twice, out of the hub's order or with one left out, from its first   *)
(* frame to its last, also after the hub has removed its client.              *)
THEOREM HubImplementsStream == Spec => StreamSpec
<1>1. Init => Stream!StreamInit
  BY DEF Init, Stream!StreamInit
<1> QED BY <1>1, InitTyped, NextTyped, InitCounted, NextCounted, InitCurrent, NextCurrent,
           InitStreamed, NextStreamed, NextIsStreamStep, PTL DEF Spec, StreamSpec, Stream!StreamSpec
=============================================================================
