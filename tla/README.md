# Real-time voting system: specifications, model checking and proofs

This directory holds TLA+ models of the Go backend under `src/backend`, the TLC
configurations that check them on small instances, and theorems about them that
TLAPS checks for every instance. The models are translated from the code; where
a document or a comment of the repository says something else, a run shows it.

## 1. Inventory

| Part | State | Operations | Interacts with |
|---|---|---|---|
| **Poll store** (`models/poll.go`, MySQL through gorm) | tables `polls`, `poll_options`; soft delete by `deleted_at` | single statements, `DB.Save` of a whole struct, transactions | every handler |
| **Poll handlers** (`handlers/poll_handler.go`, `cache_handler.go`) | none of their own; Redis keys `vote_lock:*`, `poll:<p>:results`, `poll:<p>:votes:<o>` | CreatePoll, GetPoll(s), UpdatePoll, DeletePoll, SubmitVote, SubmitEnhancedVote, ResetPollVotes, CleanupRedisCache, CheckAndCloseExpiredPolls (every minute) | store, Redis, the two broadcasters; one goroutine per request, more for the broadcasts |
| **Redis message queue** (`mq/redis_mq.go`) | lists `vote_queue`, `vote_processing`, `vote_dead_letter`; set `vote_message_ids`; hash `vote_retries`; timers in memory | SendVoteMessage, consumeLoop, processMessage, checkTimeouts (every minute), RetryDeadLetters, Start, Stop | Redis; the vote consumer |
| **MQ adapter, RocketMQ** (`mq/adapter.go`, `rocketmq.go`) | `initOnce`, the client in use | Initialize, SendVoteMessage(WithID), Close | RocketMQ or the Redis queue |
| **Vote consumer** (`main.go` updateVoteInDatabase, `database/db.go` IncrementVote) | - | one transaction, then a read and a broadcast | called by the queue |
| **WebSocket hub** (`handlers/websocket.go`) | clients per poll, expiry times, the last five messages | register, unregister, broadcast, expire; HandleWebSocket, readPump, writePump, BroadcastPollUpdate | handlers, through unbuffered channels |
| **SSE broadcaster** (`handlers/sse_handler.go`) | client list per poll, a one-place channel as mutex | HandleSSE, BroadcastSSEUpdate, heartbeat | handlers |
| **Rate limiting** (`handlers/rate_limiter.go`, `cache/rate_limiter.go`) | token buckets in Redis; configuration, limiters and statistics in memory, without locks | RateLimiterMiddleware, UpdateRateLimiterConfig, resetRateLimiters | every route |
| **Hot cache** (`cache/hot_cache.go`, `distlock.go`) | entries and locks in Redis | GetWithCache, StartHotDataRefresher, PrewarmCache, AcquireLock/ReleaseLock | Redis, the source of the data |
| Rest of the cache library (`cache/redis.go`, `bloom_filter.go`) | keys, bits | another GetWithCache and lock, bloom Add/Exists | no live caller that changes state |
| **Start-up, shutdown** (`main.go`) | - | initialisation order, signal handling | all |
| Legacy `service`, `repository`, `api`, `websocket`, `model`, `cmd/server` | - | unreachable from `main.go`, do not compile with the rest | - |
| Front end, tests, health endpoints, migrations | - | rendering, load generation, formatting | HTTP |

What is hard, part by part, and what correct means:

* **Poll handlers.** No handler holds a lock or a transaction over more than
  one statement group: between any two round trips every other request may run.
  UpdatePoll is a read-modify-write of whole rows. Correct: counts never exceed
  the votes cast, lose none, stay reset; one vote per address; nothing counted
  after the end; caches and clients end with the latest results.
* **Queue.** At-least-once delivery assembled from non-atomic Redis calls,
  timers in memory, time-outs that race slow handlers. Correct: a vote sent is
  counted, at most once, or ends in the dead letters.
* **Hub and SSE.** Channels, buffers that fill, clients that leave at any
  moment. Correct: nobody waits for ever, no send on a closed channel, a client
  that stays sees the latest results.
* **Rate limiting.** The clock is read before the script that uses it runs, the
  keys expire, the configuration is replaced piece by piece under the requests.
  Correct: no more tokens than the rate allows, statistics that add up, limiters
  that work by the configuration shown.
* **Hot cache.** Locks that expire under their holder, readers, refresher and
  prewarming under different locks. Correct: one loader at a time, one load per
  missing entry, no older data over newer.

`PROJECT.json` lists every hazard with its source line and the properties that
would catch it.

## 2. Plan

| # | Module | Models | Status |
|---|---|---|---|
| 1 | `PollStore` | tables, clock, single statements, CreatePoll, DeletePoll, the checker | done |
| 2 | `PollHandlers` (extends 1) | the vote, edit and reset handlers, Redis keys, broadcasts | done |
| 3 | `BallotBox` | abstract: what vote counting promises | done; `BoxSpec` in 2 says that 2 implements it |
| 4 | `PollHandlersProofs`, `PollTallyProofs`, `PollBallotProofs` | theorems about 2: types; counts; single ballots and the refinement | every property of 2 proved |
| 5 | `RedisMQ` | the queue, both senders, the vote consumer, shutdown, crash and restart | done |
| 6 | `VoteLedger`, `RedisMQProofs` | abstract: what the queue promises of the counts; theorems about 5 | every safety property of 5 and the refinement proved |
| 7 | `Hub`, `UpdateStream`, `HubProofs` | hub goroutine, pumps, BroadcastPollUpdate, history; abstract: what a connection carries | every safety property and the refinement proved |
| 8 | `SSE`, `SSEProofs` | list and arrays, channel mutex, heartbeat, broadcasts | done, safety and the finality of its deadlock proved |
| 9 | `RateLimiter`, `RateLimiterProofs` | middleware, token buckets, configuration | done, all proved |
| 10 | `HotCache`, `HotCacheProofs` | cache-aside reads, refresher, prewarming, locks | done, all proved |
| 11 | next | 2 and 7 composed through `shown`: a client's results against the table's | open |

`PollHandlers` extends `PollStore`; the other components share no state in the
models, as they share none but Redis keys of different names in the code. What
one hands to another is an input of the other: a broadcast of a handler is an
element of `Updates`, a vote of a sender a message. No module about which
theorems are stated declares a RECURSIVE operator.

## 3. The modules and the code

**`PollStore`.** `poll` and `option` are functions from ids to rows. A row is
`unused` until inserted; gorm deletes softly, so DELETE makes a `live` row
`deleted` and gorm queries see live rows only. `SaveOption` and `SavePoll` are
gorm's `DB.Save`: all columns of the struct and, when no live row has the id,
`INSERT ... ON DUPLICATE KEY UPDATE`, which brings a deleted row back (gorm
v1.25.12; on that path a zero `is_active` takes the column default, true).
`now` is the clock. Question, Description and Text are left out.

**`PollHandlers`.** A request is an element of `Voters`, `EnhancedVoters`,
`Editors` or `Resetters`; `pc[r]` is the statement its goroutine has reached and
`reply[r]` the status it has answered. One action is one round trip together
with the local code after it:

| Handler | Actions, in order |
|---|---|
| SubmitVote | `SubmitVoteLock` (SETNX), `SubmitVoteLoad`, `SubmitVoteCount` per option, `SubmitVotePurge`, `SubmitVoteRead`, then `Broadcast` |
| SubmitEnhancedVote | `EnhancedLoad`, `EnhancedPurge`, `EnhancedCommit`, `EnhancedPurge` again, `EnhancedRead`, `EnhancedFill`, `EnhancedStore`, `EnhancedVerify`, `Broadcast` |
| UpdatePoll | `UpdatePollLoad`, `UpdatePollSave`, `UpdatePollExisting`, `UpdatePollOption` per entry of the body (`SaveEntry`: save, skip or create), `UpdatePollCheck` and `UpdatePollDrop` per option not named, `UpdatePollReload` |
| ResetPollVotes | `ResetPurge`, `ResetZero`, `ResetRead`, `Broadcast` |
| others | `CreatePoll`, `DeletePoll`, `CheckAndCloseExpiredPolls`, `Tick`, `LockExpires`, `CleanupRedisCache` |

Transactions are one action, because InnoDB keeps the row locks of an UPDATE
until the commit. `rows[r]` is what a handler read last: the copies an
UpdatePoll writes back, the results a vote caches or broadcasts. `shown` is what
the broadcasters were given last. `TailPolls` says which addresses end in
`:<poll id>`, all that matters of the key pattern of a reset. History variables
(`guarded`, `lapsed`, `late`, `counted`, `cast`, `castAtReset`, `window`,
`gone`) are read by properties only. `DbFaults` lets any statement fail, `LostReplies` lets
a statement or COMMIT take effect and report an error, `RedisFaults` makes
Redis unreachable at any call or lose its reply. GetPolls and GetPoll write
nothing and are not actions. The options of an UpdatePoll are the array of its
body, in its order: ids of options, some perhaps twice or of no option the
handler has read, and `NoOption` for an entry without an id, which creates one.
`at[u]` is the entry the loop has reached.

**`BallotBox`.** The promise: a ballot adds one to each option it is counted
for, never twice to the same, and otherwise counts only go back to zero. `Box`,
at the end of `PollHandlers`, maps `tally` to the `votes` columns and `used` to
`counted`.

**`RedisMQ`.** A copy of a message is its text: id and timestamp, which a retry
renews and LREM compares. `vote_queue` is a sequence, the other two lists are
bags. `sender[s]` and `at[p]` are the Redis call a request or goroutine makes
next, `held[p]` the copy a goroutine is busy with, `todo[p]` what its loop has
still to visit, `timers` the copies in an `AfterFunc`. One action is one call of
Redis or of the database:

| Code | Actions, in order |
|---|---|
| SendVoteMessage | `SendCheck`, `SendMark`, `SendPush` or `SendFails`; `ExpireIds` |
| SendVoteMessageWithID | `SendCheck`, `SendPush` or `SendFails`, `SendMarkNamed` |
| consumeLoop | `Consume` |
| processMessage | `CountVote` or `RefuseVote`, `ReadResults` (the handler), `CheckRetries`, then `CountRetry` or `Bury`, `Unlist`, then `Remove` |
| AfterFunc | `Requeue` |
| checkTimeouts | `ListExpired`, per message `CheckExpired`, then `CountTimeout`, `TakeBack` or `Bury`, `Unlist`; `EndScan` |
| RetryDeadLetters | `ListDead`, per message `PushDead`, `Unbury`, `ForgetRetries`; `EndRetry` |
| main, compose | `CloseDB`, `Stop`, `Exit`; `Crash`; `Restart` |

IncrementVote is one transaction: it counts the vote (its COMMIT may lose the
reply) or fails, for a closed poll, a dropped option or a failing statement.
Stop waits for the two loops and not for the goroutines of messages, and after
CloseDB every handler fails. `again` holds the messages queued once more while
they were counted or under way (a copy queued, timed, or in the hands of a
goroutine that may still count it); `retried` those an operator queued again,
`interrupted` those only a timer held at an exit, `unmarked` the senders told
"queued" though their SADD failed; properties alone read them. `made[s]` is the
timestamp of the message a sender has made before its first call. `SendFaults`
says which calls of a sender Redis may fail: SISMEMBER (the sender goes on as if
the id was new), SADD (it answers a success all the same), LPUSH (with or
without effect; the call fails, `SendFails`). The consumer's calls are all
answered: the code drops their errors, and promises nothing when they fail. The
library's own retries are left out for that reason.

**`VoteLedger`.** The promise of the queue, without lists, timers or crashes: a
vote is offered, may be put in doubt (queued once more), and is counted; a
second count needs a doubt from an earlier step. `Ledger`, at the end of
`RedisMQ`, maps `offered` to the ids of the senders that have started, `tally`
to `votes` and `doubtful` to `again` and `retried`.

**`Hub`.** One action is one channel operation of the hub's goroutine with all
it does on it, or one step of a connection:

| Code | Actions, in order |
|---|---|
| HandleWebSocket | `CheckLimit`, `Upgrade`, then offered to the hub |
| run | `Register` (with `sendHistoryToClient`), `Unregister`, `Broadcast` (with `storeMessageInHistory`), `cleanupOldMessages`, `Expire`; `Park`, when no channel is ready |
| readPump | `ReadFails`, then offered to `Unregister` |
| writePump | `TakeMessage`, `SendFrame`; `WriteFails`, `SeeClosed` (both `StopWriting`) |
| BroadcastPollUpdate | `BroadcastPollUpdate` per attempt that finds the hub busy |
| the peer | `Disconnect` |

The send of BroadcastPollUpdate does not block, so it succeeds only while the
hub is `parked` in its select; `ready` is the hub on its way there. `send[c]` is
the buffer of the client's channel and `closes[c]` how often it was closed.
writePump writes what is queued into one frame: `frame[c]` is what is not sent
yet. `accepted`, `got` and `ahead` are history: the updates the hub has taken,
what went over each connection, and the handlers on their way when a client was
checked. A broadcast removes a client whose buffer is full without removing its
poll's entry, as the code does.

**`UpdateStream`.** The promise of the hub: the updates of a poll are one
stream, and what a client has received is a stretch of it, extended at its end.
A client may begin anywhere (it is given the latest update) and stop anywhere,
but skips, repeats and swaps nothing in between. `Stream`, at the end of `Hub`,
maps `stream` to `accepted` and `got` to itself.

**`SSE`.** One poll, since polls share only the mutex. The list is a Go slice:
`list` has an array and a length, `arrays` is every array made so far, with what
was written to it and its capacity. `Register` appends in place while there is
room and else into an array twice as large; `unregisterSSEClient` shifts the
elements behind the client within the array. A stream is its handler (`Greet`,
wait for Done, unregister) and its goroutine (`Notice`, `SendDone`). A peer
reads, has stopped reading, or has gone (`Stall`, `Resume`, `Disconnect`); the
server sets no write deadline, so a write to a peer that has stopped reading
waits until it reads again or goes: the initial events, a broadcast, the
stream's own heartbeat (`Block`, `Unblock`) and the common one. That heartbeat
visits the list with the mutex held (`BeatStart`, `BeatWrite` or `BeatFails`,
`BeatSend`, `BeatEnd`): it alone waits while it holds the mutex, so `MutexFree`
is "the heartbeat sleeps" and the other critical sections are single actions. A broadcast copies the slice header (`CopyList`) and then reads
the elements as they are (`BroadcastWrite`).

**`RateLimiter`.** A request passes `Enter`, then per bucket `ReadClock` and
`Eval` (the Lua script, or a Redis that fails before or after it), then
`Verdict`, which counts. One user limiter serves two buckets: the one of all
users, at the global limits, and the one the request names. The configuration
changes in the order of the code: `SetConfig`, `SetEnabled`, `CheckEnabled`
(which reads the shared flag again), `ResetGlobal`, `ResetUser`,
`ResetStatistics`; or, when resetRateLimiters gets no Redis client,
`ResetFails`, which leaves limiters and statistics as they are. The same may
have happened at start-up, so `Init` has limiters that are on and missing. Times
are whole seconds, as the code passes them to the script; `expires` is when the
keys of a bucket go, and in that second they may be there or not. History:
`setting` (the limits by which a bucket last gave a token), `granted` and `late`
(per second, the tokens given by those limits since, and the seconds their
scripts ran late), `carried`, `overlapped`, `noClient`.

**`HotCache`.** One key. A reader does `Get`, `AcquireLock` (up to `Tries`
times), `DoubleCheck`, `Load`, `Store`, `ReleaseLock`; a round of the refresher
the same without the looks, under another lock; the prewarming `Load` and
`Store`, under none. A lock is set if absent and deleted only by its holder;
`LoseLock` is its expiry, or its deletion by CleanupRedisCache. `Change` is the
data changing at their source, `Evict` the entry going away.

## 4. What the runs show

Every property of a passing run has a mutant, a plausible bug of the code under
which TLC finds it violated. Runs of `OpenSpec` start just after CreatePoll, to
spend the states on the interleaving of handlers; the other runs start from the
state the program starts in. Deadlock is not checked in any run: a system whose
requests are all done stops.

| Run | Instance | Shows |
|---|---|---|
| `PollVotes` | 2 votes, 2 options, single or multiple choice, end time; clock, checker, DeletePoll, lock expiry, cleaning; lost replies, failing Redis | OneVotePerIP, NoLateVotes, OneChoice, AcceptedCounted |
| `PollEdits` | 1 vote, 2 edits, 1 reset, 3 option rows, failing statements, lost replies | TypeOK, NoOvercount; OnlyOverlapLosesVotes: votes are lost only within reach of an edit |
| `PollResets` | 2 votes, 1 enhanced vote, 1 reset, all faults | RejectedUncounted, ResetIsFinal, AcceptedCounted, and the handlers implement BallotBox |
| `QueueSafety` | 2 senders of one id whose SISMEMBER and SADD may fail, 2 goroutines, 2 retries, 1 exit | AcceptedIsSomewhere, DoublesExplained, BuriedAfterRetries, RetriesAreSkipped |
| `QueueDeadLetters` | 1 sender, 2 goroutines, no retry, 1 RetryDeadLetters at a time, 1 exit | TypeOK, and AcceptedIsSomewhere while the operator interferes |
| `QueueSettles` | 1 sender, 2 goroutines, 1 retry, 2 ticks, 1 exit, fairness | Settles, and the queue implements VoteLedger |
| `HubFeeds` | 2 connections, 2 updates, 1 poll, limit 1, buffer 1, history 1, 1 attempt, fairness | TypeOK, ClosedOnce, CountsMatch, OnlyRacesExceedLimit, UpToDate, NoneLeft, and the hub implements UpdateStream |
| `SSEStreams` | 2 streams, 1 broadcast, the heartbeat, peers that read, stall or go, fairness | TypeOK, ListMatches, OnlyRemovalsDisturb, DeadlockIsFinal, OnlyHeartbeatKeepsStreams |
| `Limiter` | 2 requests, one naming its user, 3 buckets, 2 administrators, rate and burst 1, 3 seconds, resets that find no client | TypeOK, RateKept, StatisticsAddUp, ConfigInForce |
| `HotReads` | 3 readers, 1 refresher round, 1 prewarming, 2 tries, 1 change, eviction, lost lock and fault | TypeOK, Excluded, NoStampede, NeverOlder |

**Bounds, and why they suffice to meet the cases.**

* `Poll...`: two or three requests of a kind are enough for every race between
  two handlers and one in the middle; two options tell "some" from "all" of a
  ballot, a third is the row UpdatePoll creates; one tick separates before and
  after the end time; one broadcast per result. The bodies
  of `PollEdits` name the option voted for twice and one the poll may not have, or
  leave it out and create one, or only turn the poll off. `TailPolls` is empty
  in the runs, general in the proofs.
* `Queue...`: one message, because messages share nothing but the order of
  `vote_queue`; two goroutines, because two can hold copies of one message; one
  retry to have both branches of the retry count, and two in `QueueSafety`,
  because with one a message a crash has left with two equal texts never gets
  to be queued again; one tick is longer than the time-out, so a message is
  expired or it is not; no process exits in the last tick, after which nothing
  would expire any more, and the clock stands still during a shutdown, which
  takes seconds.
* `HubFeeds`: two connections pass a limit of one at once; a buffer of one is
  full when the second update comes; a history of one drops its oldest; one
  attempt is dropped or taken.
* `SSEStreams`: the second stream makes the array grow, and the first one's
  removal moves an element under the broadcast that has copied both. An append
  in place needs a third stream; the theorems cover it.
* `Limiter`: rate and burst 1 make the bucket empty after one request, so that
  the second one breaks RateKept in any second the bucket has not refilled; with
  two seconds the keys of a bucket expire; two administrators overlap. Different
  limits are for the proofs.
* `HotReads`: two readers race, a third comes when one of them has lost its
  lock; one change gives an older and a newer version.

**Sentences refuted.** A `Claim...` run refutes one sentence of a document or
comment:

| Run | Refuted |
|---|---|
| `ClaimNoVoteLost` | concurrent operations cause no wrong counts: UpdatePoll overwrites a vote |
| `ClaimStreamsEnd` | "wait until the connection is closed", then "unregister the client": the heartbeat, holding the mutex, sends on the Done of a stream whose handler waits for that mutex; no stream registers or ends again |

Other divergences met while modelling, without a run: a deleted poll comes back
when an UpdatePoll that loaded it saves it; results are cached and broadcast out
of order; a vote is counted twice when the queue's handler fails after its
COMMIT; of two equal texts one LREM may remove the one being processed; a
message whose retry is only in a timer is lost by a restart, a shutdown in good
order included; the lock of a refused vote stays, so its address is told that
it has voted; the enhanced endpoint takes no lock; an array that names an option
twice counts twice; a vote counted between UpdatePoll's check and its DELETE
goes with the option; an UPDATE reaches soft-deleted rows, so a vote that was
validated before its option was dropped disappears; UpdatePoll saves a
stale `is_active`; the key pattern of a reset fits no lock of its poll, but may
fit another poll's IPv6 locks; a bucket refills by expiry faster than by its
rate when its burst is more than twice the rate; an unregistration makes a
running broadcast skip one stream and serve another twice; two overlapping
changes of the rate limits may leave the limiters on another configuration than
the one shown, and so does a change whose reset finds no Redis client; a sender
whose duplicate check fails queues its message again, and one whose SADD fails
reports a success that no later call knows of; the heartbeat of the streams
writes with the mutex held and no deadline, so that one connected peer that
stops reading keeps every stream from being registered or unregistered; the refresher and the prewarming may store older data over newer.

**Fairness.** Four properties are liveness and assume some.

* `Settles`: weak fairness of Consume, of each goroutine, of each timer and of
  checkTimeouts says that the Go scheduler runs what can run; of Tick, that time
  passes; of Stop and Exit, that a shutdown ends; of Restart, that compose
  restarts a process that failed (`restart: on-failure`) and an operator one
  that was stopped. None is assumed of senders, operators, crashes, or of a
  handler's success: the handler may fail every time, and the message then ends
  in the dead letters.
* `NoneLeft`: weak fairness of the hub's Register and Unregister (a select with
  several ready channels picks each in the end), of the pumps' steps, of a
  frame being written or failing (every write has a deadline), and of the ping
  that fails on a connection that is down. None of peers, broadcasts or expiry.
* `OnlyHeartbeatKeepsStreams`, and `StreamsEnd`, which is refuted: weak fairness
  of a stream's handler and goroutine; strong fairness of the heartbeat, whose
  write is possible whenever the peer reads, also when that peer stalls again
  and again; of the unregistration, because senders blocked on the one-place
  channel that is the mutex are served in turn; and of the failure of a write to
  a peer that has gone, which may succeed for a while but not for ever. No
  action is enabled for a write to a peer that does not read, and nobody need
  resume or disconnect: the property excuses a heartbeat that waits for such a
  peer for ever (`[]Blocked`) beside the deadlock (`Stuck`).

## 5. What is proved

The theorems hold for every value of the constants that the ASSUME of the module
allows: request sets are disjoint, inputs well formed, limits positive. Each
safety property rests on an inductive invariant, named here, whose lemmas go
through the actions one by one.

**Polls** (`StoreAssumption`, `HandlersAssumption`)

| Theorem | Property | Argument |
|---|---|---|
| `HandlersTypeOK` | TypeOK | inductive as it stands: an editor saves an entry only when it has read the option, so SaveOption never writes `Absent` |
| `CountsStayWithinVotes` | NoOvercount | inductive given the types: copying a result set is safe, counting is, and each action is one of the two |
| `OnlyOverlappingEditsLoseVotes` | OnlyOverlapLosesVotes | `LossIInv`: what is owed on an option (`Owed`: the votes cast since its reset and out of any edit's reach) is covered by its row and by every copy an editor has still to save; nothing is owed on an option an editor is about to delete; a row never inserted owes nothing |
| `ResetsAreFinal` | ResetIsFinal | `FinalIInv`: no reset remembers more votes than were cast. Needs `Editors = {}` |
| `OneCountedVotePerIP` | OneVotePerIP | `LockIInv`: a voter whose SETNX succeeded owns the lock until it lapses, and only such a voter, or one that met a failing Redis, is counted |
| `RefusedVotesLeaveNothing`, `AcceptedVotesAreCounted` | RejectedUncounted, AcceptedCounted | `Answered`: at every statement of each vote handler, what has been counted and what can still be answered |
| `LateVotesAreRefused` | NoLateVotes | `LateRefused`: a late vote waits for its poll to be loaded or has been refused, since a poll that was closed, ended or deleted stays so (`PollsSettle`). Needs `Editors = {}` |
| `SingleChoiceIsKept` | OneChoice | `ChoiceFits`: a ballot past its validation fits the type of its poll. Needs `Editors = {}` |
| `HandlersImplementBox` | BoxSpec | `RaisesOnce`: a vote never raises again what it has counted; each step is then a Cast, a Clear or a stutter. Needs `Editors = {}` and arrays that name no option twice |

`Editors = {}` is what the code needs, not the proof: UpdatePoll saves a stale
`is_active`, type and count, and with it each of these fails.

**Queue** (`QueueAssumption`)

| Theorem | Property | Argument |
|---|---|---|
| `QueueTypeOK` | TypeOK | `Typed` adds `ExitLeft`: a shutdown under way has an exit left |
| `AcknowledgedNotSentAgain` | RetriesAreSkipped | `AnsweredKnown`: an acknowledged id is in its set of ids unless its SADD failed; `Skipped`: a call that looks it up there is done |
| `OneCopyCountsOnce` | DoublesExplained | `Single`: a message never queued again has at most one copy in the queue, the timers and the hands of goroutines that may still count it, and none once it is counted |
| `AcceptedIsKept` | AcceptedIsSomewhere | `Kept` and `Traced`, below. Needs `GeneratedIds` |
| `GivenUpAfterRetries` | BuriedAfterRetries | `Buried`: also a goroutine about to bury its message has seen the retries used up, or an operator has retried it, and only an operator's retry forgets a count |
| `QueueImplementsLedger` | LedgerSpec | `Origin`: no list, loop, timer or goroutine has a copy of a vote nobody sent; with `Single`, each step is then an Offer, a Doubt, a Count or a stutter |

*No accepted vote gets lost.* LREM removes an equal text, so that a copy may be
removed on behalf of another: whether a message is still somewhere can only be
told by counting. `Accounted` says that a pushed message has more copies in the
queue, with the timers and in `vote_processing` than goroutines stand before an
LREM (`Removing`), unless it is counted, among the dead letters, retried by an
operator or lost with a timer. An operator's retry spoils that balance, since
moveToDeadLetter and processMessage both remove; for it `Stocked` counts once
more, before the first exit: queue, timers, dead letters and the copies in the
hands of goroutines, less those RetryDeadLetters is about to remove. Copies are
counted as the cardinality of sets of tokens (`InQueue`, `InBag`), and each
action is shown to leave both balances (`Covers`). `Traced` ties the stage of a
goroutine to its message (whoever has the results to read has counted the vote)
and the sets of known ids to the senders that put them there.

`GeneratedIds`, no two calls of SendVoteMessage have one id, is a hypothesis of
this theorem and of no other. generateRedisMessageID builds the id from the poll,
the option and the nanosecond, and nothing else keeps two calls apart. The code
needs it: SendVoteMessage marks its id before it pushes, so a second call with
the same id would be told "queued" while the first one can still crash before
its push. Calls of SendVoteMessageWithID may share ids, among themselves and
with the others.

**Hub** (`HubAssumption`)

| Theorem | Property | Argument |
|---|---|---|
| `HubTypeOK` | TypeOK | `AttemptLeft`: a broadcast still trying has an attempt left |
| `ChannelsClosedOnce`, `CountersAreExact` | ClosedOnce, CountsMatch | `Registered`: only clients the hub was handed are in the map, and their polls have entries; so whoever removes one removes it first |
| `ClientsUpToDate` | UpToDate | `Stored` and `Fed`: the history ends the updates taken, and a client's feed is a suffix of them |
| `OnlyRacesExceed` | OnlyRacesExceedLimit | `Bounded`: among any connections registered or on their way, one saw so many others on their way that they account for all beyond the limit; it speaks of every set of connections because any of them may go first |
| `HubImplementsStream` | StreamSpec | `Streamed`: an update is taken once, and what a connection has been sent, has in its frame and in its buffer is a stretch of its poll's updates while its pump runs, also when the hub has removed the client; so a broadcast is a Publish, a frame a Deliver, and all else stutters |

**SSE**

| Theorem | Property | Argument |
|---|---|---|
| `StreamsTypeOK` | TypeOK | every write keeps the slots of older slices in place or in the same array (`Grown`) |
| `ListIsRight` | ListMatches | `ListAt`, the same property element by element |
| `OnlyUnregistrationsDisturb` | OnlyRemovalsDisturb | `Undisturbed`: a slice copied before an append still holds what was copied |
| `HeartbeatNeverRecovers` | DeadlockIsFinal | `BeatInside`: the heartbeat that waits stands at a stream of the list; that stream's handler is past its receive, its goroutine has left its select, and both can only be moved by who holds the mutex |

**Rate limiter** (`LimiterAssumption`)

| Theorem | Property | Argument |
|---|---|---|
| `LimiterTypeOK` | TypeOK | `OnTheWay`: a request between clock and script has buckets left and a limiter to ask |
| `GrantsWithinRate` | RateKept | `Filled`: for every second, the tokens granted since then by the present limits and those in the bucket together stay within burst and refill up to the bucket's time |
| `StatisticsAlwaysAddUp` | StatisticsAddUp | inductive given the types |
| `LimitersFollowConfiguration` | ConfigInForce | `OneChange`: without an overlap one administrator is at work, and what it has set is what it wants; a reset that finds no client leaves a pair of limiters of one configuration |

**Hot cache** (`HotCacheAssumption`)

| Theorem | Property | Argument |
|---|---|---|
| `HotCacheTypeOK` | TypeOK | a caller still trying has an attempt left; the prewarming never waits for a lock |
| `OneReaderUnderLock` | Excluded | `HoldsLock`: a reader under the lock whose lock did not go away is in the key |
| `SourceAskedOnce` | NoStampede | `Credit`: evictions, losses and faults pay for every load but one, and for those still to come from readers that lost their lock |
| `OldDataNeverReturn` | NeverOlder | `Ordered`: what a regular reader is about to store is no older than what another one stored |

**Only model-checked.** Liveness (Settles, NoneLeft, OnlyHeartbeatKeepsStreams):
TLAPS does not prove it under fairness. Every invariant, step property and
refinement of the passing runs is a theorem. NoLateVotes, OneChoice and
ResetIsFinal are not claimed beside editors, in runs or theorems. Nothing
computes recursively over data, so nothing had to be left out for that.

## 6. What is not modelled

* Texts and percentages; the HTTP layer up to the parsed request; gorm and
  MySQL beyond the statements issued.
* A crash of the process between two steps of a request: it equals a request
  that never goes on, and is therefore in every behaviour of the handler models
  (the queue's process does crash and restart).
* The RocketMQ client: the adapter no longer starts it, and its delivery is the
  library's. Initialize of the adapter, messages that do not parse, and a Redis
  that fails the queue's consumer, where the code promises nothing.
* `GetWithCache`, `AcquireLock` and `ReleaseLock` of `cache/redis.go`, the
  sliding window of `cache/rate_limiter.go` and the leaky bucket of
  `service/rate_limiter.go`: no caller. The order of the first, which releases
  its lock before it stores, is a mutant of `HotCache`. The bloom filter is a
  set of bits without control flow.
* In the hub, the keep-alive message, the answers to a client's PING, which
  bypass the hub, and the time of the last activity: `Expire` may remove any
  client. In the limiter, the race on the Go map of users, on which the runtime
  may end the process.
* The legacy `service`, `repository`, `api`, `websocket`, `model` packages and
  `cmd/server`, which `main.go` does not reach; health endpoints, migrations,
  the front end and the tests: dead code, rendering or formatting.
