------------------------------ MODULE RedisMQ ------------------------------
(***************************************************************************)
(* mq/redis_mq.go: votes queued in Redis lists, with the two senders of     *)
(* redis_mq.go and mq/adapter.go, the consumer's goroutines, the check for  *)
(* messages that take too long, the retry of dead letters, the handler of   *)
(* main.go, and a process that exits, in order or not, and starts again.    *)
(*                                                                         *)
(* A copy of a message is its JSON text: the id and the timestamp, which    *)
(* every retry renews; LREM removes an equal text.  Messages are consumed   *)
(* in order; the other lists are only searched, and are bags.  An action is *)
(* one call of Redis or of the database with the local code around it.      *)
(* A sender's call of Redis may fail; the consumer's are all answered.      *)
(***************************************************************************)
EXTENDS Integers, Sequences

CONSTANTS
  Messages,           \* message ids
  Senders,            \* calls of RedisMQ.SendVoteMessage
  NamedSenders,       \* calls of MQAdapter.SendVoteMessageWithID
  MessageOf,          \* the id each of them sends
  Workers,            \* bound: the goroutines that run processMessage at a time
  Checker,            \* timeoutCheckLoop
  Admins,             \* calls of RetryDeadLetters
  NoCopy,
  SendFaults,         \* the calls of Redis that may fail a sender
  MaxRetries,         \* maxRetries
  ProcessingTimeout,  \* processingTimeout
  MaxTime,            \* bound: the clock stops here
  MaxExits            \* bound: how often the process exits

AllSenders == Senders \cup NamedSenders
Procs == Workers \cup Admins \cup {Checker}
Times == 0 .. MaxTime
Copies == [id: Messages, stamp: Times]
Bags == [Copies -> Nat]
EmptyBag == [c \in Copies |-> 0]

ASSUME QueueAssumption ==
  /\ Senders \cap NamedSenders = {}
  /\ MessageOf \in [AllSenders -> Messages]
  /\ Workers \cap Admins = {}
  /\ Checker \notin Workers \cup Admins
  /\ NoCopy \notin Copies
  /\ SendFaults \subseteq {"SISMEMBER", "SADD", "LPUSH"}
  /\ MaxRetries \in Nat
  /\ ProcessingTimeout \in Nat
  /\ MaxTime \in Nat
  /\ MaxExits \in Nat

VARIABLES
  now,
  \* Redis
  vote_queue, vote_processing, vote_dead_letter,
  vote_retries,        \* requeues of each message
  vote_message_ids,    \* ids SendVoteMessage has sent
  processed_vote_ids,  \* ids SendVoteMessageWithID has sent
  \* the process
  running,             \* where start-up and shutdown have got to
  at,                  \* what each goroutine does next
  held,                \* the copy it is busy with
  todo,                \* the copies its loop has still to handle
  scanTime,            \* the time checkTimeouts took at its start
  timers,              \* the copies whose AfterFunc has not fired
  sender,              \* what each sender does next, or its result
  made,                \* the timestamp of the message it has still to push
  \* the database
  votes,               \* how often each message was counted
  \* history, read by the properties alone
  exits,               \* how often the process has exited
  again,               \* messages queued once more while counted or under way
  retried,             \* messages RetryDeadLetters has queued again
  interrupted,         \* messages only a timer held when the process exited
  unmarked,            \* senders that were told "queued" though their SADD failed
  repeated             \* senders whose id, when looked up, had been accepted

redisVars == <<vote_queue, vote_processing, vote_dead_letter, vote_retries,
               vote_message_ids, processed_vote_ids>>
idVars == <<vote_message_ids, processed_vote_ids>>
loopVars == <<todo, scanTime>>
sending == <<sender, made>>
history == <<exits, retried, interrupted, unmarked, repeated>>
vars == <<now, redisVars, running, at, held, loopVars, timers, sending, votes,
          again, history>>

Stages == {"idle", "handle", "results", "failed", "bury", "unlist", "count",
           "remove", "scan", "take", "push", "unbury", "forget", "done"}

TypeOK ==
  /\ now \in Times
  /\ vote_queue \in Seq(Copies)
  /\ vote_processing \in Bags
  /\ vote_dead_letter \in Bags
  /\ vote_retries \in [Messages -> Nat]
  /\ vote_message_ids \subseteq Messages
  /\ processed_vote_ids \subseteq Messages
  /\ running \in {"up", "draining", "stopped", "down"}
  /\ at \in [Procs -> Stages]
  /\ held \in [Procs -> Copies \cup {NoCopy}]
  /\ \A p \in Procs : held[p] = NoCopy <=> at[p] \in {"idle", "scan", "done"}
  /\ todo \in [Procs -> Bags]
  /\ scanTime \in Times
  /\ timers \in Bags
  /\ sender \in [AllSenders -> {"new", "mark", "push", "ok", "failed"}]
  /\ made \in [AllSenders -> Times]
  /\ votes \in [Messages -> Nat]
  /\ exits \in 0 .. MaxExits
  /\ again \subseteq Messages
  /\ retried \subseteq Messages
  /\ interrupted \subseteq Messages
  /\ unmarked \subseteq NamedSenders
  /\ repeated \subseteq AllSenders

IdleProcs ==
  /\ at = [p \in Procs |-> "idle"]
  /\ held = [p \in Procs |-> NoCopy]
  /\ todo = [p \in Procs |-> EmptyBag]
  /\ scanTime = 0
  /\ timers = EmptyBag

Init ==
  /\ now = 0
  /\ vote_queue = <<>>
  /\ vote_processing = EmptyBag
  /\ vote_dead_letter = EmptyBag
  /\ vote_retries = [m \in Messages |-> 0]
  /\ vote_message_ids = {}
  /\ processed_vote_ids = {}
  /\ running = "up"
  /\ IdleProcs
  /\ sender = [s \in AllSenders |-> "new"]
  /\ made = [s \in AllSenders |-> 0]
  /\ votes = [m \in Messages |-> 0]
  /\ exits = 0
  /\ again = {}
  /\ retried = {}
  /\ interrupted = {}
  /\ unmarked = {}
  /\ repeated = {}

-----------------------------------------------------------------------------
(* Bags and stages *)

With(bag, c) == [bag EXCEPT ![c] = @ + 1]

(* LREM key 1 c; it may find nothing. *)
LRem(bag, c) == [bag EXCEPT ![c] = IF @ > 0 THEN @ - 1 ELSE 0]

Goto(p, stage) == at' = [at EXCEPT ![p] = stage]

(* p is done with its copy. *)
Release(p, stage) ==
  /\ Goto(p, stage)
  /\ held' = [held EXCEPT ![p] = NoCopy]

(* p takes up c, the next of its loop. *)
TakeUp(p, c, stage) ==
  /\ todo[p][c] > 0
  /\ Goto(p, stage)
  /\ held' = [held EXCEPT ![p] = c]
  /\ todo' = [todo EXCEPT ![p] = LRem(@, c)]

Renewed(c, time) == [c EXCEPT !.stamp = time]

Holds(bag, m) == \E c \in Copies : c.id = m /\ bag[c] > 0

Queued(m) == \E i \in DOMAIN vote_queue : vote_queue[i].id = m

(* w has a copy of m whose vote is not counted, and which it may queue again. *)
Handles(w, m) ==
  /\ at[w] \in {"handle", "failed", "count"}
  /\ held[w].id = m

(* m is counted, or will be, without another copy. *)
UnderWay(m) ==
  \/ votes[m] > 0
  \/ Queued(m) \/ Holds(timers, m)
  \/ \E w \in Workers : Handles(w, m)

(* m is queued, now or by a timer, as one copy more. *)
NoteAgain(m) == again' = IF UnderWay(m) THEN again \cup {m} ELSE again

-----------------------------------------------------------------------------
(* Senders *)

(* The set in which a sender looks its id up. *)
KnownIds(s) == IF s \in NamedSenders THEN processed_vote_ids ELSE vote_message_ids

(* Another call has been told that the id is queued, and has marked it. *)
Accepted(s) ==
  \E t \in NamedSenders \ ({s} \cup unmarked) :
    MessageOf[t] = MessageOf[s] /\ sender[t] = "ok"

(* s skips its message, or goes on with the one it made when it began. *)
Skip(s) ==
  /\ sender' = [sender EXCEPT ![s] = "ok"]
  /\ UNCHANGED made

Proceed(s) ==
  /\ sender' = [sender EXCEPT ![s] = IF s \in NamedSenders THEN "push" ELSE "mark"]
  /\ made' = [made EXCEPT ![s] = now]

(* SISMEMBER: whether the id was sent before.  When it fails, the sender     *)
(* goes on as if it was not.                                                *)
SendCheck(s) ==
  /\ running = "up"
  /\ sender[s] = "new"
  /\ \/ /\ IF MessageOf[s] \in KnownIds(s) THEN Skip(s) ELSE Proceed(s)
        /\ repeated' = IF Accepted(s) THEN repeated \cup {s} ELSE repeated
     \/ "SISMEMBER" \in SendFaults /\ Proceed(s) /\ UNCHANGED repeated
  /\ UNCHANGED <<now, redisVars, running, at, held, loopVars, timers, votes, again,
                 exits, retried, interrupted, unmarked>>

(* SADD, by SendVoteMessage before it pushes the message, which it does       *)
(* whatever SADD answers.                                                   *)
SendMark(s) ==
  /\ running = "up"
  /\ s \in Senders
  /\ sender[s] = "mark"
  /\ \/ vote_message_ids' = vote_message_ids \cup {MessageOf[s]}
     \/ "SADD" \in SendFaults /\ UNCHANGED vote_message_ids
  /\ sender' = [sender EXCEPT ![s] = "push"]
  /\ UNCHANGED <<now, vote_queue, vote_processing, vote_dead_letter, vote_retries,
                 processed_vote_ids, running, at, held, loopVars, timers, made, votes,
                 again, history>>

SendMarkElsewhere(s) ==
  /\ running = "up"
  /\ s \in NamedSenders
  /\ sender[s] = "mark"
  /\ vote_message_ids' = vote_message_ids \cup {MessageOf[s]}
  /\ sender' = [sender EXCEPT ![s] = "ok"]
  /\ UNCHANGED <<now, vote_queue, vote_processing, vote_dead_letter, vote_retries,
                 processed_vote_ids, running, at, held, loopVars, timers, made, votes,
                 again, history>>

(* SADD, by SendVoteMessageWithID after it has pushed the message; the       *)
(* caller is told "queued" whatever SADD answers.                           *)
SendMarkNamed(s) ==
  /\ running = "up"
  /\ s \in NamedSenders
  /\ sender[s] = "mark"
  /\ \/ /\ processed_vote_ids' = processed_vote_ids \cup {MessageOf[s]}
        /\ UNCHANGED unmarked
     \/ /\ "SADD" \in SendFaults
        /\ unmarked' = unmarked \cup {s}
        /\ UNCHANGED processed_vote_ids
  /\ sender' = [sender EXCEPT ![s] = "ok"]
  /\ UNCHANGED <<now, vote_queue, vote_processing, vote_dead_letter, vote_retries,
                 vote_message_ids, running, at, held, loopVars, timers, made, votes,
                 again, exits, retried, interrupted, repeated>>

Message(s) == [id |-> MessageOf[s], stamp |-> made[s]]

(* LPUSH vote_queue, of a message another sender may have pushed as well.    *)
(* The reply may be lost.                                                   *)
SendPush(s) ==
  /\ running = "up"
  /\ sender[s] = "push"
  /\ vote_queue' = Append(vote_queue, Message(s))
  /\ \/ sender' = [sender EXCEPT ![s] = IF s \in NamedSenders THEN "mark" ELSE "ok"]
     \/ "LPUSH" \in SendFaults /\ sender' = [sender EXCEPT ![s] = "failed"]
  /\ made' = [made EXCEPT ![s] = 0]
  /\ NoteAgain(MessageOf[s])
  /\ UNCHANGED <<now, vote_processing, vote_dead_letter, vote_retries, idVars,
                 running, at, held, loopVars, timers, votes, history>>

(* LPUSH fails, and with it the call. *)
SendFails(s) ==
  /\ "LPUSH" \in SendFaults
  /\ running = "up"
  /\ sender[s] = "push"
  /\ sender' = [sender EXCEPT ![s] = "failed"]
  /\ UNCHANGED <<now, redisVars, running, at, held, loopVars, timers, made, votes,
                 again, history>>

(* The set of ids expires two days after the last message. *)
ExpireIds ==
  /\ vote_message_ids # {}
  /\ vote_message_ids' = {}
  /\ UNCHANGED <<now, vote_queue, vote_processing, vote_dead_letter, vote_retries,
                 processed_vote_ids, running, at, held, loopVars, timers, sending,
                 votes, again, history>>

-----------------------------------------------------------------------------
(* The consumer *)

ConsumeByPeeking(w) ==
  /\ running \in {"up", "draining"}
  /\ vote_queue # <<>>
  /\ at[w] = "idle"
  /\ vote_processing' = With(vote_processing, Head(vote_queue))
  /\ Goto(w, "handle")
  /\ held' = [held EXCEPT ![w] = Head(vote_queue)]
  /\ UNCHANGED <<now, vote_queue, vote_dead_letter, vote_retries, idVars, running,
                 loopVars, timers, sending, votes, again, history>>

(* BRPOPLPUSH, and a goroutine for the message. *)
Consume(w) ==
  /\ running \in {"up", "draining"}
  /\ vote_queue # <<>>
  /\ at[w] = "idle"
  /\ vote_queue' = Tail(vote_queue)
  /\ vote_processing' = With(vote_processing, Head(vote_queue))
  /\ Goto(w, "handle")
  /\ held' = [held EXCEPT ![w] = Head(vote_queue)]
  /\ UNCHANGED <<now, vote_dead_letter, vote_retries, idVars, running, loopVars,
                 timers, sending, votes, again, history>>

(* IncrementVote, one transaction, succeeds; its COMMIT may lose the reply.  *)
(* The database is closed first at shutdown.                                *)
CountVote(w) ==
  /\ running = "up"
  /\ at[w] = "handle"
  /\ votes' = [votes EXCEPT ![held[w].id] = @ + 1]
  /\ \/ Goto(w, "results") /\ UNCHANGED again
     \/ Goto(w, "failed") /\ again' = again \cup {held[w].id}
  /\ UNCHANGED <<now, redisVars, running, held, loopVars, timers, sending, history>>

(* IncrementVote fails: a closed poll, a dropped option, a failing statement. *)
RefuseVote(w) ==
  /\ at[w] = "handle"
  /\ Goto(w, "failed")
  /\ UNCHANGED <<now, redisVars, running, held, loopVars, timers, sending, votes,
                 again, history>>

(* GetPollResults.  When it fails so does the handler, its vote counted. *)
ReadResults(w) ==
  /\ at[w] = "results"
  /\ \/ running = "up" /\ Goto(w, "remove") /\ UNCHANGED again
     \/ Goto(w, "failed") /\ again' = again \cup {held[w].id}
  /\ UNCHANGED <<now, redisVars, running, held, loopVars, timers, sending, votes,
                 history>>

VerdictEarly(m) == IF vote_retries[m] + 1 >= MaxRetries THEN "bury" ELSE "count"

(* HGET vote_retries. *)
Verdict(m) == IF vote_retries[m] >= MaxRetries THEN "bury" ELSE "count"

CheckRetries(w) ==
  /\ at[w] = "failed"
  /\ Goto(w, Verdict(held[w].id))
  /\ UNCHANGED <<now, redisVars, running, held, loopVars, timers, sending, votes,
                 again, history>>

CountRetryUntimed(w) ==
  /\ at[w] = "count"
  /\ vote_retries' = [vote_retries EXCEPT ![held[w].id] = @ + 1]
  /\ Goto(w, "remove")
  /\ UNCHANGED <<now, vote_queue, vote_processing, vote_dead_letter, idVars,
                 running, held, loopVars, timers, sending, votes, again, history>>

CountRetryUncounted(w) ==
  /\ at[w] = "count"
  /\ timers' = With(timers, Renewed(held[w], now))
  /\ Goto(w, "remove")
  /\ UNCHANGED <<now, redisVars, running, held, loopVars, sending, votes, again,
                 history>>

(* HINCRBY, and AfterFunc with the renewed message. *)
CountRetry(w) ==
  /\ at[w] = "count"
  /\ vote_retries' = [vote_retries EXCEPT ![held[w].id] = @ + 1]
  /\ timers' = With(timers, Renewed(held[w], now))
  /\ Goto(w, "remove")
  /\ UNCHANGED <<now, vote_queue, vote_processing, vote_dead_letter, idVars,
                 running, held, loopVars, sending, votes, again, history>>

(* LREM vote_processing, at the end of processMessage. *)
Remove(w) ==
  /\ at[w] = "remove"
  /\ vote_processing' = LRem(vote_processing, held[w])
  /\ Release(w, "idle")
  /\ UNCHANGED <<now, vote_queue, vote_dead_letter, vote_retries, idVars, running,
                 loopVars, timers, sending, votes, again, history>>

(* moveToDeadLetter, by processMessage or checkTimeouts: LPUSH, LREM. *)
Bury(p) ==
  /\ at[p] = "bury"
  /\ vote_dead_letter' = With(vote_dead_letter, held[p])
  /\ Goto(p, "unlist")
  /\ UNCHANGED <<now, vote_queue, vote_processing, vote_retries, idVars, running,
                 held, loopVars, timers, sending, votes, again, history>>

Unlist(p) ==
  /\ at[p] = "unlist"
  /\ vote_processing' = LRem(vote_processing, held[p])
  /\ IF p \in Workers THEN Goto(p, "remove") /\ UNCHANGED held
                       ELSE Release(p, "scan")
  /\ UNCHANGED <<now, vote_queue, vote_dead_letter, vote_retries, idVars, running,
                 loopVars, timers, sending, votes, again, history>>

ProcessMessage(w) ==
  \/ CountVote(w) \/ RefuseVote(w) \/ ReadResults(w) \/ CheckRetries(w)
  \/ CountRetry(w) \/ Bury(w) \/ Unlist(w) \/ Remove(w)

RequeueByTicker(c) ==
  /\ running # "down"
  /\ timers[c] > 0
  /\ vote_queue' = Append(vote_queue, c)
  /\ UNCHANGED <<now, vote_processing, vote_dead_letter, vote_retries, idVars,
                 running, at, held, loopVars, timers, sending, votes, again, history>>

(* The 30 seconds of an AfterFunc are over: LPUSH vote_queue. *)
Requeue(c) ==
  /\ running # "down"
  /\ timers[c] > 0
  /\ timers' = LRem(timers, c)
  /\ vote_queue' = Append(vote_queue, c)
  /\ UNCHANGED <<now, vote_processing, vote_dead_letter, vote_retries, idVars,
                 running, at, held, loopVars, sending, votes, again, history>>

-----------------------------------------------------------------------------
(* checkTimeouts *)

Expired(c) == now - c.stamp > ProcessingTimeout

(* LRANGE vote_processing.  A scan that finds nothing expired does nothing. *)
ListExpired ==
  /\ running \in {"up", "draining"}
  /\ at[Checker] = "idle"
  /\ \E c \in Copies : vote_processing[c] > 0 /\ Expired(c)
  /\ todo' = [todo EXCEPT ![Checker] =
                [c \in Copies |-> IF Expired(c) THEN vote_processing[c] ELSE 0]]
  /\ scanTime' = now
  /\ Goto(Checker, "scan")
  /\ UNCHANGED <<now, redisVars, running, held, timers, sending, votes, again,
                 history>>

(* The next message: HGET vote_retries. *)
CheckExpired(c) ==
  /\ at[Checker] = "scan"
  /\ TakeUp(Checker, c, Verdict(c.id))
  /\ UNCHANGED <<now, redisVars, running, scanTime, timers, sending, votes, again,
                 history>>

CountTimeout ==
  /\ at[Checker] = "count"
  /\ vote_retries' = [vote_retries EXCEPT ![held[Checker].id] = @ + 1]
  /\ Goto(Checker, "take")
  /\ UNCHANGED <<now, vote_queue, vote_processing, vote_dead_letter, idVars,
                 running, held, loopVars, timers, sending, votes, again, history>>

(* LREM, and AfterFunc with the renewed message, whatever LREM found. *)
TakeBack ==
  /\ at[Checker] = "take"
  /\ vote_processing' = LRem(vote_processing, held[Checker])
  /\ timers' = With(timers, Renewed(held[Checker], scanTime))
  /\ NoteAgain(held[Checker].id)
  /\ Release(Checker, "scan")
  /\ UNCHANGED <<now, vote_queue, vote_dead_letter, vote_retries, idVars, running,
                 loopVars, sending, votes, history>>

EndScan ==
  /\ at[Checker] = "scan"
  /\ todo[Checker] = EmptyBag
  /\ Goto(Checker, "idle")
  /\ UNCHANGED <<now, redisVars, running, held, loopVars, timers, sending, votes,
                 again, history>>

CheckTimeouts ==
  \/ ListExpired \/ CountTimeout \/ TakeBack \/ EndScan
  \/ \E c \in Copies : CheckExpired(c)
  \/ Bury(Checker) \/ Unlist(Checker)

-----------------------------------------------------------------------------
(* RetryDeadLetters: LRANGE, then per message LPUSH, LREM, HDEL. *)

ListDead(a) ==
  /\ running = "up"
  /\ at[a] = "idle"
  /\ todo' = [todo EXCEPT ![a] = vote_dead_letter]
  /\ Goto(a, "scan")
  /\ UNCHANGED <<now, redisVars, running, held, scanTime, timers, sending, votes,
                 again, history>>

PushDeadSkipped(a, c) ==
  /\ at[a] = "scan"
  /\ TakeUp(a, c, "unbury")
  /\ retried' = retried \cup {c.id}
  /\ UNCHANGED <<now, redisVars, running, scanTime, timers, sending, votes, again,
                 exits, interrupted, unmarked, repeated>>

(* Its text, the timestamp included, is pushed as it is. *)
PushDead(a, c) ==
  /\ at[a] = "scan"
  /\ TakeUp(a, c, "unbury")
  /\ vote_queue' = Append(vote_queue, c)
  /\ retried' = retried \cup {c.id}
  /\ UNCHANGED <<now, vote_processing, vote_dead_letter, vote_retries, idVars,
                 running, scanTime, timers, sending, votes, again, exits,
                 interrupted, unmarked, repeated>>

Unbury(a) ==
  /\ at[a] = "unbury"
  /\ vote_dead_letter' = LRem(vote_dead_letter, held[a])
  /\ Goto(a, "forget")
  /\ UNCHANGED <<now, vote_queue, vote_processing, vote_retries, idVars, running,
                 held, loopVars, timers, sending, votes, again, history>>

ForgetOneRetry(a) ==
  /\ at[a] = "forget"
  /\ vote_retries' = [vote_retries EXCEPT ![held[a].id] = @ - 1]
  /\ Release(a, "scan")
  /\ UNCHANGED <<now, vote_queue, vote_processing, vote_dead_letter, idVars,
                 running, loopVars, timers, sending, votes, again, history>>

ForgetRetries(a) ==
  /\ at[a] = "forget"
  /\ vote_retries' = [vote_retries EXCEPT ![held[a].id] = 0]
  /\ Release(a, "scan")
  /\ UNCHANGED <<now, vote_queue, vote_processing, vote_dead_letter, idVars,
                 running, loopVars, timers, sending, votes, again, history>>

EndRetry(a) ==
  /\ at[a] = "scan"
  /\ todo[a] = EmptyBag
  /\ Goto(a, "done")
  /\ UNCHANGED <<now, redisVars, running, held, loopVars, timers, sending, votes,
                 again, history>>

RetryDeadLetters(a) ==
  \/ ListDead(a) \/ Unbury(a) \/ ForgetRetries(a) \/ EndRetry(a)
  \/ \E c \in Copies : PushDead(a, c)

-----------------------------------------------------------------------------
(* Time, shutdown, restart *)

(* A tick is a processing time-out, far longer than a shutdown. *)
Tick ==
  /\ running \in {"up", "down"}
  /\ now < MaxTime
  /\ now' = now + 1
  /\ UNCHANGED <<redisVars, running, at, held, loopVars, timers, sending, votes,
                 again, history>>

(* Bound: no exit after the clock has stopped, when nothing expires any more. *)
MayExit == exits < MaxExits /\ now < MaxTime

InFlight(s) == sender[s] \in {"mark", "push"}

(* The requests in progress are over; MySQL is closed. *)
CloseDB ==
  /\ running = "up"
  /\ MayExit
  /\ \A s \in AllSenders : ~ InFlight(s)
  /\ running' = "draining"
  /\ UNCHANGED <<now, redisVars, at, held, loopVars, timers, sending, votes, again,
                 history>>

(* Stop waits for consumeLoop and timeoutCheckLoop, and for nothing else. *)
Stop ==
  /\ running = "draining"
  /\ at[Checker] = "idle"
  /\ running' = "stopped"
  /\ UNCHANGED <<now, redisVars, at, held, loopVars, timers, sending, votes, again,
                 history>>

(* The process ends, and with it its goroutines and timers. *)
Die ==
  /\ running' = "down"
  /\ exits' = exits + 1
  /\ at' = [p \in Procs |-> "idle"]
  /\ held' = [p \in Procs |-> NoCopy]
  /\ todo' = [p \in Procs |-> EmptyBag]
  /\ scanTime' = 0
  /\ timers' = EmptyBag
  /\ sender' = [s \in AllSenders |-> IF InFlight(s) THEN "failed" ELSE sender[s]]
  /\ made' = [s \in AllSenders |-> 0]
  /\ interrupted' = interrupted \cup {c.id : c \in {d \in Copies : timers[d] > 0}}
  /\ UNCHANGED <<now, redisVars, votes, again, retried, unmarked, repeated>>

Exit == running = "stopped" /\ Die

(* At any moment, or by log.Fatalf when the requests take too long. *)
Crash == running \in {"up", "draining", "stopped"} /\ MayExit /\ Die

Restart ==
  /\ running = "down"
  /\ running' = "up"
  /\ UNCHANGED <<now, redisVars, at, held, loopVars, timers, sending, votes, again,
                 history>>

-----------------------------------------------------------------------------
Send(s) ==
  \/ SendCheck(s) \/ SendMark(s) \/ SendMarkNamed(s) \/ SendPush(s) \/ SendFails(s)

Next ==
  \/ \E s \in AllSenders : Send(s)
  \/ \E w \in Workers : Consume(w) \/ ProcessMessage(w)
  \/ \E c \in Copies : Requeue(c)
  \/ \E a \in Admins : RetryDeadLetters(a)
  \/ CheckTimeouts
  \/ ExpireIds \/ Tick \/ CloseDB \/ Stop \/ Exit \/ Crash \/ Restart

Spec == Init /\ [][Next]_vars

(* Goroutines go on, timers fire, the ticker ticks, a shutdown ends, and the *)
(* container is started again.  Nobody need send, retry or shut down.       *)
Fairness ==
  /\ WF_vars(\E w \in Workers : Consume(w))
  /\ \A w \in Workers : WF_vars(ProcessMessage(w))
  /\ \A c \in Copies : WF_vars(Requeue(c))
  /\ WF_vars(CheckTimeouts)
  /\ WF_vars(Tick) /\ WF_vars(Stop) /\ WF_vars(Exit) /\ WF_vars(Restart)

FairSpec == Spec /\ Fairness

-----------------------------------------------------------------------------
(* Safety *)

(* generateRedisMessageID makes an id of the poll, the option and the        *)
(* nanosecond: no two calls of SendVoteMessage are to have the same.         *)
GeneratedIds == \A s, t \in Senders : MessageOf[s] = MessageOf[t] => s = t

Sent(m) == \E s \in AllSenders : MessageOf[s] = m /\ sender[s] = "ok"

BeingProcessed(m) ==
  \E w \in Workers : /\ held[w] # NoCopy /\ held[w].id = m
                      /\ at[w] \in {"handle", "failed", "count", "bury"}

(* A vote the sender was told is queued, and that is not counted yet, is in  *)
(* one of the lists or waits for its AfterFunc, whatever the handler, the    *)
(* time-out check, the retry of dead letters and a crash do between their    *)
(* steps; unless the process exited while only an AfterFunc knew of it.      *)
(* A vote an operator retried may be in no list while it is processed: it    *)
(* has the text of the copy that is being buried, and the LREM of one       *)
(* removes the other.  Then it needs a crash to lose it.                    *)
AcceptedIsSomewhere ==
  \A m \in Messages :
    Sent(m) => \/ votes[m] > 0
               \/ Queued(m)
               \/ Holds(vote_processing, m) \/ Holds(vote_dead_letter, m)
               \/ Holds(timers, m)
               \/ m \in interrupted
               \/ m \in retried /\ (BeingProcessed(m) \/ exits > 0)

(* A vote is counted twice only when one more copy of it was queued while it *)
(* was counted or under way: the handler failed after its COMMIT, two calls  *)
(* raced with one id, or the time-out check took back a copy that was still  *)
(* handled or that a crash left behind before the LREM, its renewed copy     *)
(* queued; or when an operator retried it.  No other interleaving of the     *)
(* queue's goroutines, timers, crashes and restarts duplicates a message.    *)
DoublesExplained == \A m \in Messages : votes[m] > 1 => m \in again \cup retried

(* A message is given up only after its MaxRetries retries were counted, by  *)
(* the handler's goroutines and the time-out check together; or when an     *)
(* operator's retry has had its count forgotten.                            *)
BuriedAfterRetries ==
  \A m \in Messages :
    Holds(vote_dead_letter, m) => vote_retries[m] >= MaxRetries \/ m \in retried

(* SendVoteMessageWithID is idempotent as far as Redis answers it: a call     *)
(* whose SISMEMBER is answered after a call with the same id was told        *)
(* "queued" pushes nothing, before and after a restart, unless the SADD of   *)
(* that call had failed.                                                    *)
RetriesAreSkipped == \A s \in repeated \cap NamedSenders : sender[s] = "ok"

(* The queue implements VoteLedger: no vote is counted that nobody sent, and *)
(* none a second time unless a copy more of it had been queued before.       *)
Offered == {MessageOf[s] : s \in {t \in AllSenders : sender[t] # "new"}}

Ledger == INSTANCE VoteLedger
            WITH offered <- Offered, tally <- votes, doubtful <- again \cup retried

LedgerSpec == Ledger!LedgerSpec

(* Liveness *)

(* A vote the sender was told is queued is counted in the end, or ends in    *)
(* the dead letters, through failures of the handler, a crash and a restart; *)
(* unless the process exited while only an AfterFunc knew of it, or an       *)
(* operator retried it.                                                     *)
Settles ==
  \A m \in Messages :
    Sent(m) ~> \/ votes[m] > 0
               \/ Holds(vote_dead_letter, m)
               \/ m \in interrupted \cup retried
=============================================================================
