-------------------------------- MODULE SSE --------------------------------
(***************************************************************************)
(* handlers/sse_handler.go for one poll (polls share only the mutex): the   *)
(* handler and the goroutine of each stream, the broadcasts, the heartbeat, *)
(* the slice of clients with the arrays behind it, and the channel used as  *)
(* a mutex.  Only the heartbeat waits for anything while it holds the       *)
(* mutex, so the other critical sections are single actions.  No write has  *)
(* a deadline: to a peer that does not read it blocks.                      *)
(***************************************************************************)
EXTENDS Integers, Sequences, SequencesExt

CONSTANTS
  Clients,    \* calls of HandleSSE, each with the client it makes
  Updates     \* calls of BroadcastSSEUpdate

VARIABLES
  arrays,     \* the arrays made so far: what was written to them, and capacity
  list,       \* sseClients[pollID]: its array and its length
  handler,    \* the progress of HandleSSE
  pump,       \* the progress of its goroutine
  peer,       \* whether the peer reads, does not read, or has gone
  beat,       \* the heartbeat: what it does, at which index of the list
  view,       \* the slice a broadcast has copied
  next,       \* the index a broadcast has reached
  \* history, read by the properties alone
  copied,     \* the clients in the slice when the broadcast copied it
  served,     \* the clients the broadcast has written to
  disturbed   \* the broadcasts during which a client was unregistered

streamVars == <<handler, pump, peer>>
broadcastVars == <<view, next, copied, served, disturbed>>
vars == <<arrays, list, streamVars, beat, broadcastVars>>

Slices == [array: Nat, len: Nat]
Nil == [array |-> 0, len |-> 0]
Idle == [at |-> "sleep", index |-> 1]

\* What a slice holds now.
Elements(slice) ==
  IF slice.len = 0 THEN <<>> ELSE SubSeq(arrays[slice.array].slots, 1, slice.len)

TypeOK ==
  /\ arrays \in Seq([slots: Seq(Clients), cap: Nat])
  /\ \A a \in DOMAIN arrays : Len(arrays[a].slots) <= arrays[a].cap
  /\ list \in Slices
  /\ handler \in [Clients -> {"new", "greeting", "waiting", "closing", "returned"}]
  /\ pump \in [Clients -> {"none", "select", "writing", "sending", "done"}]
  /\ peer \in [Clients -> {"up", "stalled", "gone"}]
  /\ beat \in [at: {"sleep", "write", "send"}, index: Nat]
  /\ view \in [Updates -> Slices]
  /\ \A s \in {list} \cup {view[u] : u \in Updates} :
       s = Nil \/ (s.array \in DOMAIN arrays /\ s.len \in 1 .. Len(arrays[s.array].slots))
  /\ next \in [Updates -> Nat]
  /\ copied \in [Updates -> Seq(Clients)]
  /\ served \in [Updates -> Seq(Clients)]
  /\ disturbed \subseteq Updates

Init ==
  /\ arrays = <<>>
  /\ list = Nil
  /\ handler = [c \in Clients |-> "new"]
  /\ pump = [c \in Clients |-> "none"]
  /\ peer = [c \in Clients |-> "up"]
  /\ beat = Idle
  /\ view = [u \in Updates |-> Nil]
  /\ next = [u \in Updates |-> 0]
  /\ copied = [u \in Updates |-> <<>>]
  /\ served = [u \in Updates |-> <<>>]
  /\ disturbed = {}

-----------------------------------------------------------------------------
(* The list *)

MutexFree == beat.at = "sleep"

\* The array with c at index i, which is at most one past what was written.
Put(array, i, c) ==
  [array EXCEPT !.slots = IF i <= Len(@) THEN [@ EXCEPT ![i] = c] ELSE Append(@, c)]

\* append(list, c): in place while the array has room, else into one twice as large.
Register(c) ==
  LET n == list.len
      full == list = Nil \/ n = arrays[list.array].cap
      larger == [slots |-> Append(Elements(list), c),
                 cap |-> IF n = 0 THEN 1 ELSE 2 * n] IN
  /\ handler[c] = "new"
  /\ MutexFree
  /\ handler' = [handler EXCEPT ![c] = "greeting"]
  /\ arrays' = IF full THEN Append(arrays, larger)
                       ELSE [arrays EXCEPT ![list.array] = Put(@, n + 1, c)]
  /\ list' = [array |-> IF full THEN Len(arrays) + 1 ELSE list.array, len |-> n + 1]
  /\ UNCHANGED <<pump, peer, beat, broadcastVars>>

\* Mutant: the element to remove stays and the next one goes.
CloseGapAfter(array, i, n) ==
  [array EXCEPT !.slots = [j \in DOMAIN @ |-> IF j \in i + 1 .. n - 1 THEN @[j + 1] ELSE @[j]]]

\* append(list[:i], list[i+1:]...) moves the elements behind i within the array.
CloseGap(array, i, n) ==
  [array EXCEPT !.slots = [j \in DOMAIN @ |-> IF j \in i .. n - 1 THEN @[j + 1] ELSE @[j]]]

\* Mutant: the last client leaves its empty slice in the map.
UnregisterKeepsEntry(c) ==
  LET n == list.len IN
  /\ handler[c] = "closing"
  /\ MutexFree
  /\ handler' = [handler EXCEPT ![c] = "returned"]
  /\ \E i \in 1 .. n :
       /\ Elements(list)[i] = c
       /\ arrays' = [arrays EXCEPT ![list.array] = CloseGap(@, i, n)]
  /\ list' = [list EXCEPT !.len = n - 1]
  /\ disturbed' = disturbed \cup {u \in Updates : next[u] > 0}
  /\ UNCHANGED <<pump, peer, beat, view, next, copied, served>>

unregisterSSEClient(c) ==
  LET n == list.len IN
  /\ handler[c] = "closing"
  /\ MutexFree
  /\ handler' = [handler EXCEPT ![c] = "returned"]
  /\ \E i \in 1 .. n :
       /\ Elements(list)[i] = c
       /\ arrays' = [arrays EXCEPT ![list.array] = CloseGap(@, i, n)]
  /\ list' = IF n = 1 THEN Nil ELSE [list EXCEPT !.len = n - 1]
  /\ disturbed' = disturbed \cup {u \in Updates : next[u] > 0}
  /\ UNCHANGED <<pump, peer, beat, view, next, copied, served>>

-----------------------------------------------------------------------------
(* A stream *)

\* A write to the client ends: at once, or, when the peer has gone, with or without
\* an error.
Reads(c) == peer[c] # "stalled"

\* The initial events are written, the goroutine starts, the handler waits for Done.
Greet(c) ==
  /\ handler[c] = "greeting"
  /\ Reads(c)
  /\ handler' = [handler EXCEPT ![c] = "waiting"]
  /\ pump' = [pump EXCEPT ![c] = "select"]
  /\ UNCHANGED <<arrays, list, peer, beat, broadcastVars>>

\* The peer stops reading and what is between fills up; it may read again.
Stall(c) ==
  /\ handler[c] # "new"
  /\ peer[c] = "up"
  /\ peer' = [peer EXCEPT ![c] = "stalled"]
  /\ UNCHANGED <<arrays, list, handler, pump, beat, broadcastVars>>

Resume(c) ==
  /\ peer[c] = "stalled"
  /\ peer' = [peer EXCEPT ![c] = "up"]
  /\ UNCHANGED <<arrays, list, handler, pump, beat, broadcastVars>>

Disconnect(c) ==
  /\ handler[c] # "new"
  /\ peer[c] # "gone"
  /\ peer' = [peer EXCEPT ![c] = "gone"]
  /\ UNCHANGED <<arrays, list, handler, pump, beat, broadcastVars>>

\* The request's context ends with the connection and with the handler; or the
\* stream's own heartbeat cannot be written.
Notice(c) ==
  /\ pump[c] = "select"
  /\ peer[c] = "gone" \/ handler[c] = "returned"
  /\ pump' = [pump EXCEPT ![c] = "sending"]
  /\ UNCHANGED <<arrays, list, handler, peer, beat, broadcastVars>>

\* The stream's own heartbeat, when its write blocks; the goroutine is then at none of
\* its channels.
Block(c) ==
  /\ pump[c] = "select"
  /\ ~Reads(c)
  /\ pump' = [pump EXCEPT ![c] = "writing"]
  /\ UNCHANGED <<arrays, list, handler, peer, beat, broadcastVars>>

Unblock(c) ==
  /\ pump[c] = "writing"
  /\ \/ Reads(c) /\ pump' = [pump EXCEPT ![c] = "select"]
     \/ peer[c] = "gone" /\ pump' = [pump EXCEPT ![c] = "sending"]
  /\ UNCHANGED <<arrays, list, handler, peer, beat, broadcastVars>>

\* The goroutine's Done reaches the handler, the only one left to receive it.
SendDone(c) ==
  /\ pump[c] = "sending"
  /\ handler[c] = "waiting"
  /\ pump' = [pump EXCEPT ![c] = "done"]
  /\ handler' = [handler EXCEPT ![c] = "closing"]
  /\ UNCHANGED <<arrays, list, peer, beat, broadcastVars>>

-----------------------------------------------------------------------------
(* The heartbeat of init *)

heartbeatVars == <<arrays, list, peer, broadcastVars>>

BeatStart ==
  /\ beat.at = "sleep"
  /\ beat' = [at |-> "write", index |-> 1]
  /\ UNCHANGED <<heartbeatVars, handler, pump>>

Beaten == Elements(list)[beat.index]

\* A write to a peer that has gone may still succeed.
BeatWrite ==
  /\ beat.at = "write"
  /\ beat.index <= list.len
  /\ Reads(Beaten)
  /\ beat' = [beat EXCEPT !.index = @ + 1]
  /\ UNCHANGED <<heartbeatVars, handler, pump>>

BeatFails ==
  /\ beat.at = "write"
  /\ beat.index <= list.len
  /\ peer[Beaten] = "gone"
  /\ beat' = [beat EXCEPT !.at = "send"]
  /\ UNCHANGED <<heartbeatVars, handler, pump>>

\* Mutant: only the goroutine listens to the heartbeat.
BeatSendToPump ==
  /\ beat.at = "send"
  /\ pump[Beaten] = "select"
  /\ pump' = [pump EXCEPT ![Beaten] = "done"]
  /\ UNCHANGED handler
  /\ beat' = [at |-> "write", index |-> beat.index + 1]
  /\ UNCHANGED heartbeatVars

\* Done is received by the handler or by the stream's goroutine, if either can.
BeatSend ==
  /\ beat.at = "send"
  /\ \/ /\ handler[Beaten] = "waiting"
        /\ handler' = [handler EXCEPT ![Beaten] = "closing"]
        /\ UNCHANGED pump
     \/ /\ pump[Beaten] = "select"
        /\ pump' = [pump EXCEPT ![Beaten] = "done"]
        /\ UNCHANGED handler
  /\ beat' = [at |-> "write", index |-> beat.index + 1]
  /\ UNCHANGED heartbeatVars

BeatEnd ==
  /\ beat.at = "write"
  /\ beat.index > list.len
  /\ beat' = Idle
  /\ UNCHANGED <<heartbeatVars, handler, pump>>

-----------------------------------------------------------------------------
(* BroadcastSSEUpdate *)

\* Mutant: the mutex is not taken.
CopyUnlocked(u) ==
  /\ next[u] = 0
  /\ view' = [view EXCEPT ![u] = list]
  /\ next' = [next EXCEPT ![u] = 1]
  /\ copied' = [copied EXCEPT ![u] = Elements(list)]
  /\ UNCHANGED <<arrays, list, streamVars, beat, served, disturbed>>

CopyList(u) ==
  /\ next[u] = 0
  /\ MutexFree
  /\ view' = [view EXCEPT ![u] = list]
  /\ next' = [next EXCEPT ![u] = 1]
  /\ copied' = [copied EXCEPT ![u] = Elements(list)]
  /\ UNCHANGED <<arrays, list, streamVars, beat, served, disturbed>>

\* Mutant: the list is not copied.
BroadcastLive(u) ==
  /\ next[u] \in 1 .. list.len
  /\ Reads(Elements(list)[next[u]])
  /\ served' = [served EXCEPT ![u] = Append(@, Elements(list)[next[u]])]
  /\ next' = [next EXCEPT ![u] = @ + 1]
  /\ UNCHANGED <<arrays, list, streamVars, beat, view, copied, disturbed>>

\* The element is read from the array as it is now; write errors are ignored.
BroadcastWrite(u) ==
  /\ next[u] \in 1 .. view[u].len
  /\ Reads(Elements(view[u])[next[u]])
  /\ served' = [served EXCEPT ![u] = Append(@, Elements(view[u])[next[u]])]
  /\ next' = [next EXCEPT ![u] = @ + 1]
  /\ UNCHANGED <<arrays, list, streamVars, beat, view, copied, disturbed>>

-----------------------------------------------------------------------------

\* What the handler and the goroutine of a stream do up to the unregistration.
Stream(c) == Greet(c) \/ Notice(c) \/ Block(c) \/ Unblock(c) \/ SendDone(c)

Peer(c) == Stall(c) \/ Resume(c) \/ Disconnect(c)

Heartbeat == BeatStart \/ BeatWrite \/ BeatFails \/ BeatSend \/ BeatEnd

Next ==
  \/ \E c \in Clients : Register(c) \/ Stream(c) \/ unregisterSSEClient(c) \/ Peer(c)
  \/ Heartbeat
  \/ \E u \in Updates : CopyList(u) \/ BroadcastWrite(u)

Spec == Init /\ [][Next]_vars

\* The scheduler runs what can run.  A write ends once its peer reads again and
\* again, and fails in the end when it has gone; nothing ends it while the peer
\* stalls.  Those who wait for the mutex, senders to a channel, are served in turn.
Fairness ==
  /\ \A c \in Clients :
       /\ WF_vars(Stream(c))
       /\ SF_vars(unregisterSSEClient(c))
       /\ SF_vars(BeatFails /\ Beaten = c)
  /\ SF_vars(Heartbeat)

FairSpec == Spec /\ Fairness

-----------------------------------------------------------------------------
(* Properties *)

Listed == {c \in Clients : handler[c] \in {"greeting", "waiting", "closing"}}

\* The list holds the clients that are registered and not yet unregistered, each
\* once, although appends and removals write to one array.
ListMatches ==
  /\ ToSet(Elements(list)) = Listed
  /\ IsInjective(Elements(list))

\* A broadcast skips a client, serves one twice or serves one that came later
\* only when a client was unregistered under it.
OnlyRemovalsDisturb ==
  \A u \in Updates \ disturbed :
    IsPrefix(served[u], copied[u]) /\ (next[u] > view[u].len => served[u] = copied[u])

\* The heartbeat holds the mutex and waits for a client nobody listens for: the
\* handler waits for that mutex and the goroutine has left its select.
Stuck ==
  /\ beat.at = "send"
  /\ handler[Beaten] = "closing"
  /\ pump[Beaten] \in {"sending", "done"}

\* That wait never ends: no goroutine, no broadcast and no disconnection of a peer
\* gets the heartbeat on, and from then on no stream is registered or unregistered
\* and no broadcast copies the list.
DeadlockIsFinal == [][Stuck => Stuck' /\ UNCHANGED <<list, view>>]_vars

\* The heartbeat holds the mutex and waits for a peer to read.
Blocked == beat.at = "write" /\ beat.index <= list.len /\ ~Reads(Beaten)

\* A stream whose peer has gone is unregistered, unless the heartbeat keeps the mutex
\* for ever: in that deadlock, or in a write to a peer that never reads again.
OnlyHeartbeatKeepsStreams ==
  \A c \in Clients :
    (peer[c] = "gone") ~> (handler[c] = "returned" \/ Stuck \/ []Blocked)

\* sse_handler.go:135 and :138, "wait until the connection is closed" and then
\* "unregister the client": every stream whose peer has gone is unregistered.
StreamsEnd == \A c \in Clients : (peer[c] = "gone") ~> (handler[c] = "returned")
=============================================================================
