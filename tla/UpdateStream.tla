---------------------------- MODULE UpdateStream ----------------------------
(***************************************************************************)
(* What the hub promises its clients: the updates of a poll form one        *)
(* stream, each update appended once, and what a client receives is always  *)
(* a stretch of its poll's stream, extended at its end, wherever it begins  *)
(* and whenever it stops.  Nothing is skipped, repeated or overtaken.       *)
(***************************************************************************)
EXTENDS Integers, Sequences

CONSTANTS Clients, Updates, Polls, PollOf

VARIABLES
  stream,   \* the updates of each poll
  got       \* what each client has received

streamVars == <<stream, got>>

StreamInit ==
  /\ stream = [p \in Polls |-> <<>>]
  /\ got = [c \in Clients |-> <<>>]

Publish(u) ==
  /\ \A i \in DOMAIN stream[PollOf[u]] : stream[PollOf[u]][i] # u
  /\ stream' = [stream EXCEPT ![PollOf[u]] = Append(@, u)]
  /\ UNCHANGED got

\* The client has the stretch from first to last and is sent what follows it.
Deliver(c) ==
  LET s == stream[PollOf[c]] IN
  /\ \E first \in 1 .. Len(s) : \E last \in first - 1 .. Len(s), end \in first .. Len(s) :
       /\ last < end
       /\ got[c] = SubSeq(s, first, last)
       /\ got' = [got EXCEPT ![c] = SubSeq(s, first, end)]
  /\ UNCHANGED stream

StreamNext ==
  \/ \E u \in Updates : Publish(u)
  \/ \E c \in Clients : Deliver(c)

StreamSpec == StreamInit /\ [][StreamNext]_streamVars
=============================================================================
