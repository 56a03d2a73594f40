---------------------------- MODULE PollHandlers ----------------------------
(***************************************************************************)
(* handlers/poll_handler.go: the HTTP handlers that write polls and votes,  *)
(* each running in a goroutine of its own, over the tables of PollStore,    *)
(* the keys they keep in Redis and the results they hand to the broadcaster.*)
(*                                                                         *)
(* A request is one element of Voters (POST /vote), EnhancedVoters (POST    *)
(* /vote/enhanced), Editors (PUT /polls/:id) or Resetters (POST /reset).    *)
(* An action is one round trip to Redis or MySQL together with the local    *)
(* code that follows it; between two actions of a request any other request *)
(* may run.  The keys a loop writes or deletes go in one action, and so do  *)
(* the two SELECTs of a Preload.  A request body that fails to parse, an    *)
(* empty option list and a wrong admin key are answered before anything is  *)
(* read or written and are not modelled.                                    *)
(***************************************************************************)
EXTENDS PollStore, Sequences

CONSTANTS
  IPs,             \* c.ClientIP()
  TailPolls,       \* TailPolls[ip]: the polls n such that ":n" ends the text of ip
  Voters, EnhancedVoters, Editors, Resetters,
  NoRequest,       \* a key SETNX finds free
  NoOption,
  NewPolls,        \* what CreatePoll may be asked for
  VoteInputs,      \* what SubmitVote may be sent
  EnhancedInputs,  \* what SubmitEnhancedVote may be sent
  UpdateInputs,    \* what UpdatePoll may be sent
  Broadcasts,      \* maxBroadcastRetries: how often one result is broadcast
  DbFaults,        \* may a SQL statement fail?
  LostReplies,     \* may a statement or COMMIT that took effect return an error?
  RedisFaults      \* may Redis be unreachable, or lose a reply?

Requests == Voters \cup EnhancedVoters \cup Editors \cup Resetters
Ballots == Voters \cup EnhancedVoters

VoteInput == [poll: Polls, ip: IPs, opts: SUBSET Options]

(* option_ids is an array that may name an option more than once. *)
EnhancedVoteInput == [poll: Polls, ip: IPs, times: [Options -> Nat]]

(* A nil field keeps the column, except end_time: on a PUT, nil clears it.  *)
(* opts is the array of the body: ids, some perhaps twice or of no option of *)
(* the poll, and NoOption for an entry without an id.                       *)
UpdatePollInput == [poll: Polls, poll_type: PollType \cup {"keep"},
                    is_active: {"keep", "on", "off"},
                    end_time: Times \cup {NoTime},
                    opts: Seq(Options \cup {NoOption})]

ASSUME HandlersAssumption ==
  /\ TailPolls \in [IPs -> SUBSET Polls]
  /\ Voters \cap EnhancedVoters = {}
  /\ Ballots \cap (Editors \cup Resetters) = {}
  /\ Editors \cap Resetters = {}
  /\ NoRequest \notin Requests
  /\ NoOption \notin Options
  /\ NewPolls \subseteq NewPoll
  /\ VoteInputs \subseteq VoteInput
  /\ EnhancedInputs \subseteq EnhancedVoteInput
  /\ UpdateInputs \subseteq UpdatePollInput
  /\ Broadcasts \in Nat \ {0}
  /\ DbFaults \in BOOLEAN
  /\ LostReplies \in BOOLEAN
  /\ RedisFaults \in BOOLEAN

VARIABLES
  \* the bodies the clients send, fixed from the start
  ballot,       \* of each voter
  enhanced,     \* of each enhanced voter
  edit,         \* of each editor
  resetting,    \* the poll each resetter names
  \* the goroutine of each request
  pc,           \* what it does next
  reply,        \* the HTTP status it has answered
  todo,         \* the options its loop has still to handle
  rows,         \* the options it has read last
  pollRow,      \* the struct poll of an editor
  at,           \* the entry of the body an editor's loop is at
  victim,       \* the option an editor found without votes
  pushes,       \* how often its goroutine has still to broadcast
  \* Redis
  vote_lock,    \* vote_lock:poll:<p>:ip:<ip>, with the request that set it
  results,      \* poll:<p>:results
  voteCounts,   \* poll:<p>:votes:<o>
  \* the broadcaster
  shown,        \* the results it was given last, for each poll
  \* history, read by the properties alone
  guarded,      \* the voters whose SETNX succeeded
  lapsed,       \* the voters whose lock was removed again
  late,         \* the voters that came when the poll was over
  counted,      \* the options whose count a ballot has raised
  cast,         \* how often the count of an option was ever raised
  castAtReset,  \* cast when the option was last reset
  window,       \* how often it was raised within reach of an UpdatePoll
  gone          \* the options deleted together with their poll

inputVars == <<ballot, enhanced, edit, resetting>>
redisVars == <<vote_lock, results, voteCounts>>
tallyVars == <<cast, castAtReset, window, gone>>
lockHistory == <<guarded, lapsed, late>>
editVars == <<pollRow, at, victim>>

vars == <<storeVars, inputVars, pc, reply, todo, rows, editVars, pushes,
          redisVars, shown, lockHistory, counted, tallyVars>>

Stages == {"idle", "load", "count", "purge", "commit", "purge2", "read",
           "fill", "store", "verify", "save", "existing", "edit", "prune",
           "drop", "zero", "push", "done"}
Replies == {"none", "200", "400", "403", "404", "429", "500"}

PollOfRequest(r) ==
  IF r \in Voters THEN ballot[r].poll
  ELSE IF r \in EnhancedVoters THEN enhanced[r].poll
  ELSE IF r \in Editors THEN edit[r].poll
  ELSE resetting[r]

Key(v) == <<ballot[v].poll, ballot[v].ip>>

TypeOK ==
  /\ StoreTypeOK
  /\ ballot \in [Voters -> VoteInputs]
  /\ enhanced \in [EnhancedVoters -> EnhancedInputs]
  /\ edit \in [Editors -> UpdateInputs]
  /\ resetting \in [Resetters -> Polls]
  /\ pc \in [Requests -> Stages]
  /\ reply \in [Requests -> Replies]
  /\ todo \in [Requests -> SUBSET Options]
  /\ rows \in [Requests -> ResultSet]
  /\ pollRow \in [Editors -> PollRow]
  /\ at \in [Editors -> Nat \ {0}]
  /\ victim \in [Editors -> Options \cup {NoOption}]
  /\ pushes \in [Requests -> 0 .. Broadcasts]
  /\ vote_lock \in [Polls \X IPs -> Voters \cup {NoRequest}]
  /\ results \in [Polls -> ResultSet]
  /\ voteCounts \in [Polls -> ResultSet]
  /\ shown \in [Polls -> ResultSet]
  /\ guarded \subseteq Voters
  /\ lapsed \subseteq Voters
  /\ late \subseteq Voters
  /\ counted \in [Ballots -> SUBSET Options]
  /\ cast \in [Options -> Nat]
  /\ castAtReset \in [Options -> Nat]
  /\ window \in [Options -> Nat]
  /\ gone \subseteq Options

HandlersInit ==
  /\ ballot \in [Voters -> VoteInputs]
  /\ enhanced \in [EnhancedVoters -> EnhancedInputs]
  /\ edit \in [Editors -> UpdateInputs]
  /\ resetting \in [Resetters -> Polls]
  /\ pc = [r \in Requests |-> "idle"]
  /\ reply = [r \in Requests |-> "none"]
  /\ todo = [r \in Requests |-> {}]
  /\ rows = [r \in Requests |-> NoResults]
  /\ pollRow = [u \in Editors |-> UnusedPoll]
  /\ at = [u \in Editors |-> 1]
  /\ victim = [u \in Editors |-> NoOption]
  /\ pushes = [r \in Requests |-> 0]
  /\ vote_lock = [k \in Polls \X IPs |-> NoRequest]
  /\ results = [p \in Polls |-> NoResults]
  /\ voteCounts = [p \in Polls |-> NoResults]
  /\ shown = [p \in Polls |-> NoResults]
  /\ guarded = {}
  /\ lapsed = {}
  /\ late = {}
  /\ counted = [b \in Ballots |-> {}]
  /\ cast = [o \in Options |-> 0]
  /\ castAtReset = [o \in Options |-> 0]
  /\ window = [o \in Options |-> 0]
  /\ gone = {}

Init == StoreInit /\ HandlersInit

-----------------------------------------------------------------------------
(* Moving a request along *)

Goto(r, stage) == pc' = [pc EXCEPT ![r] = stage]

(* Go on without answering. *)
Proceed(r, from, to) ==
  /\ pc[r] = from
  /\ Goto(r, to)
  /\ UNCHANGED reply

(* Answer; the goroutine the handler started, if any, goes on from stage. *)
Answer(r, status, stage) ==
  /\ Goto(r, stage)
  /\ reply' = [reply EXCEPT ![r] = status]

(* A poll that is over: what "late" records. *)
Closed(p) ==
  \/ poll[p].state = "deleted"
  \/ poll[p].state = "live" /\ ~AcceptsVotes(poll[p])

NoteArrival(b, p) == late' = IF Closed(p) THEN late \cup {b} ELSE late

-----------------------------------------------------------------------------
(* Counting *)

(* The editors that have read o and have still to write it back. *)
Holders(o) ==
  {u \in Editors :
     /\ pc[u] = "edit" /\ rows[u][o] # Absent
     /\ \E i \in at[u] .. Len(edit[u].opts) : edit[u].opts[i] = o}

(* The editors that have found o without votes and have still to delete it. *)
Droppers(o) == {u \in Editors : pc[u] = "drop" /\ victim[u] = o}

(* A vote for o is within reach of an UpdatePoll that holds it, is about to  *)
(* delete it, or has deleted it (the raw UPDATE counts a deleted row too).   *)
Exposed(o) == Holders(o) \cup Droppers(o) # {} \/ option[o].state # "live"

(* Raise the counts by add \in [Options -> Nat], on behalf of ballot b. *)
Count(b, add) ==
  /\ option' = AddVotes(add)
  /\ counted' = [counted EXCEPT ![b] = @ \cup {o \in Options : add[o] > 0}]
  /\ cast' = [o \in Options |-> cast[o] + add[o]]
  /\ window' = [o \in Options |-> IF Exposed(o) THEN window[o] + add[o]
                                                ELSE window[o]]
  /\ UNCHANGED <<poll, now, castAtReset, gone>>

NotCounted == UNCHANGED <<storeVars, counted, tallyVars>>

(* Hand rows[r] to BroadcastPollUpdate and BroadcastSSEUpdate; after the     *)
(* last time the goroutine ends.                                            *)
Broadcast(r) ==
  /\ pc[r] = "push"
  /\ pushes[r] > 0
  /\ pushes' = [pushes EXCEPT ![r] = @ - 1]
  /\ shown' = [shown EXCEPT ![PollOfRequest(r)] = rows[r]]
  /\ Goto(r, IF pushes[r] = 1 THEN "done" ELSE "push")
  /\ rows' = [rows EXCEPT ![r] = IF pushes[r] = 1 THEN NoResults ELSE @]
  /\ UNCHANGED <<storeVars, inputVars, reply, todo, editVars, redisVars,
                 lockHistory, counted, tallyVars>>

-----------------------------------------------------------------------------
(* SubmitVote *)

(* Mutant: SET instead of SETNX. *)
SetVoteLockOverwrites(v) ==
  /\ vote_lock' = [vote_lock EXCEPT ![Key(v)] = v]
  /\ guarded' = guarded \cup {v}
  /\ Goto(v, "load")
  /\ UNCHANGED reply

(* SETNX vote_lock:poll:<p>:ip:<ip>.  An unreachable Redis, or a reply that  *)
(* is lost after the key was set, lets the vote go on without the lock.      *)
SetVoteLock(v) ==
  \/ /\ vote_lock[Key(v)] = NoRequest
     /\ vote_lock' = [vote_lock EXCEPT ![Key(v)] = v]
     /\ guarded' = guarded \cup {v}
     /\ Goto(v, "load")
     /\ UNCHANGED reply
  \/ /\ vote_lock[Key(v)] # NoRequest
     /\ Answer(v, "429", "done")
     /\ UNCHANGED <<vote_lock, guarded>>
  \/ /\ RedisFaults
     /\ \/ UNCHANGED vote_lock
        \/ /\ vote_lock[Key(v)] = NoRequest
           /\ vote_lock' = [vote_lock EXCEPT ![Key(v)] = v]
     /\ Goto(v, "load")
     /\ UNCHANGED <<reply, guarded>>

SubmitVoteLock(v) ==
  /\ pc[v] = "idle"
  /\ SetVoteLock(v)
  /\ NoteArrival(v, ballot[v].poll)
  /\ UNCHANGED <<storeVars, inputVars, todo, rows, editVars, pushes, results,
                 voteCounts, shown, lapsed, counted, tallyVars>>

(* The options of the body that belong to the poll as it was loaded. *)
ValidOptions(v) == ballot[v].opts \cap LiveOptions(ballot[v].poll)

(* Mutant: only the flag is checked, as IncrementVote of db.go does. *)
VerdictIgnoresEndTime(v) ==
  LET row == poll[ballot[v].poll]
      valid == ValidOptions(v)
  IN  IF row.state # "live" THEN "404"
      ELSE IF ~row.is_active THEN "403"
      ELSE IF valid = {} THEN "400"
      ELSE IF row.poll_type = "single" /\ ~AtMostOne(valid) THEN "400"
      ELSE "200"

(* Mutant: the number of options is not checked. *)
VerdictAllowsMany(v) ==
  LET row == poll[ballot[v].poll]
  IN  IF row.state # "live" THEN "404"
      ELSE IF ~AcceptsVotes(row) THEN "403"
      ELSE IF ValidOptions(v) = {} THEN "400"
      ELSE "200"

(* The answer to a vote on the poll as loaded; "200" lets it go on. *)
SubmitVoteVerdict(v) ==
  LET row == poll[ballot[v].poll]
      valid == ValidOptions(v)
  IN  IF row.state # "live" THEN "404"
      ELSE IF ~AcceptsVotes(row) THEN "403"
      ELSE IF valid = {} THEN "400"
      ELSE IF row.poll_type = "single" /\ ~AtMostOne(valid) THEN "400"
      ELSE "200"

(* First(&poll) with its options, and the validation. *)
SubmitVoteLoad(v) ==
  /\ pc[v] = "load"
  /\ \/ /\ SubmitVoteVerdict(v) = "200"
        /\ todo' = [todo EXCEPT ![v] = ValidOptions(v)]
        /\ Goto(v, "count")
        /\ UNCHANGED reply
     \/ /\ SubmitVoteVerdict(v) # "200"
        /\ Answer(v, SubmitVoteVerdict(v), "done")
        /\ UNCHANGED todo
     \/ /\ DbFaults
        /\ Answer(v, "500", "done")
        /\ UNCHANGED todo
  /\ UNCHANGED <<storeVars, inputVars, rows, editVars, pushes, redisVars,
                 shown, lockHistory, counted, tallyVars>>

(* Mutant: the loop ends after its first UPDATE. *)
CountFirstOption(v) ==
  /\ pc[v] = "count"
  /\ \E o \in todo[v] :
       /\ todo' = [todo EXCEPT ![v] = @ \ {o}]
       /\ Goto(v, "purge")
       /\ Count(v, [x \in Options |-> IF x = o THEN 1 ELSE 0])
  /\ UNCHANGED <<inputVars, reply, rows, editVars, pushes, redisVars, shown,
                 lockHistory>>

(* One UPDATE of the loop; an error is logged and the loop goes on. *)
SubmitVoteCount(v) ==
  /\ pc[v] = "count"
  /\ \E o \in todo[v] :
       /\ todo' = [todo EXCEPT ![v] = @ \ {o}]
       /\ Goto(v, IF todo[v] = {o} THEN "purge" ELSE "count")
       /\ \/ Count(v, [x \in Options |-> IF x = o THEN 1 ELSE 0])
          \/ DbFaults /\ NotCounted
  /\ UNCHANGED <<inputVars, reply, rows, editVars, pushes, redisVars, shown,
                 lockHistory>>

(* DEL poll:<p>:results *)
DeleteResults(p) ==
  \/ results' = [results EXCEPT ![p] = NoResults]
  \/ RedisFaults /\ UNCHANGED results

SubmitVotePurge(v) ==
  /\ Proceed(v, "purge", "read")
  /\ DeleteResults(ballot[v].poll)
  /\ UNCHANGED <<storeVars, inputVars, todo, rows, editVars, pushes, vote_lock,
                 voteCounts, shown, lockHistory, counted, tallyVars>>

(* Read the options back, answer, and leave the broadcast to a goroutine. *)
SubmitVoteRead(v) ==
  /\ pc[v] = "read"
  /\ \/ /\ rows' = [rows EXCEPT ![v] = ReadOptions(ballot[v].poll)]
        /\ pushes' = [pushes EXCEPT ![v] = 1]
        /\ Answer(v, "200", "push")
     \/ /\ DbFaults
        /\ Answer(v, "200", "done")
        /\ UNCHANGED <<rows, pushes>>
  /\ UNCHANGED <<storeVars, inputVars, todo, editVars, redisVars, shown,
                 lockHistory, counted, tallyVars>>

SubmitVote(v) ==
  \/ SubmitVoteLock(v) \/ SubmitVoteLoad(v) \/ SubmitVoteCount(v)
  \/ SubmitVotePurge(v) \/ SubmitVoteRead(v)

-----------------------------------------------------------------------------
(* SubmitEnhancedVote *)

Named(e) == {o \in Options : enhanced[e].times[o] > 0}

(* len(input.OptionIDs) <= 1: every entry of the array counts. *)
NamesOne(e) ==
  AtMostOne(Named(e)) /\ \A o \in Named(e) : enhanced[e].times[o] = 1

EnhancedVerdict(e) ==
  LET row == poll[enhanced[e].poll]
  IN  IF row.state # "live" THEN "404"
      ELSE IF ~AcceptsVotes(row) THEN "403"
      ELSE IF Named(e) = {} \/ ~(Named(e) \subseteq LiveOptions(enhanced[e].poll))
           THEN "400"
      ELSE IF row.poll_type = "single" /\ ~NamesOne(e) THEN "400"
      ELSE "200"

EnhancedLoad(e) ==
  /\ pc[e] = "idle"
  /\ \/ EnhancedVerdict(e) = "200" /\ Goto(e, "purge") /\ UNCHANGED reply
     \/ EnhancedVerdict(e) # "200" /\ Answer(e, EnhancedVerdict(e), "done")
     \/ DbFaults /\ Answer(e, "500", "done")
  /\ UNCHANGED <<storeVars, inputVars, todo, rows, editVars, pushes, redisVars,
                 shown, lockHistory, counted, tallyVars>>

(* The first and, 10 ms after the commit, the second deletion of the cache. *)
EnhancedPurge(e) ==
  /\ \/ Proceed(e, "purge", "commit")
     \/ Proceed(e, "purge2", "read")
  /\ DeleteResults(enhanced[e].poll)
  /\ UNCHANGED <<storeVars, inputVars, todo, rows, editVars, pushes, vote_lock,
                 voteCounts, shown, lockHistory, counted, tallyVars>>

(* Mutant: without the transaction, the updates before the one that failed   *)
(* stay.                                                                    *)
CommitWithoutRollback(e) ==
  /\ pc[e] = "commit"
  /\ \E S \in SUBSET Named(e) :
       /\ Count(e, [o \in Options |-> IF o \in S THEN enhanced[e].times[o] ELSE 0])
       /\ IF S = Named(e) THEN Goto(e, "purge2") /\ UNCHANGED reply
                          ELSE Answer(e, "500", "done")
  /\ UNCHANGED <<inputVars, todo, rows, editVars, pushes, redisVars, shown,
                 lockHistory>>

(* Mutant: Commit is forgotten. *)
CommitForgotten(e) ==
  /\ Proceed(e, "commit", "purge2")
  /\ NotCounted
  /\ UNCHANGED <<inputVars, todo, rows, editVars, pushes, redisVars, shown,
                 lockHistory>>

(* Mutant: a transaction that was committed is tried again. *)
CommitRetried(e) ==
  /\ pc[e] = "commit"
  /\ Count(e, enhanced[e].times)
  /\ Goto(e, "purge2") \/ Goto(e, "commit")
  /\ UNCHANGED reply
  /\ UNCHANGED <<inputVars, todo, rows, editVars, pushes, redisVars, shown,
                 lockHistory>>

(* The transaction: all its updates or, when one of them fails or finds no   *)
(* live row, none.                                                          *)
EnhancedCommit(e) ==
  /\ pc[e] = "commit"
  /\ \/ /\ Named(e) \subseteq LiveOptions(enhanced[e].poll)
        /\ Count(e, enhanced[e].times)
        /\ Goto(e, "purge2")
        /\ UNCHANGED reply
     \/ /\ LostReplies
        /\ Named(e) \subseteq LiveOptions(enhanced[e].poll)
        /\ Count(e, enhanced[e].times)
        /\ Answer(e, "500", "done")
     \/ /\ DbFaults \/ ~(Named(e) \subseteq LiveOptions(enhanced[e].poll))
        /\ Answer(e, "500", "done")
        /\ NotCounted
  /\ UNCHANGED <<inputVars, todo, rows, editVars, pushes, redisVars, shown,
                 lockHistory>>

(* GetCurrentPollResults *)
EnhancedRead(e) ==
  /\ pc[e] = "read"
  /\ \/ /\ rows' = [rows EXCEPT ![e] = ReadOptions(enhanced[e].poll)]
        /\ Goto(e, "fill")
        /\ UNCHANGED reply
     \/ /\ DbFaults
        /\ Answer(e, "200", "done")
        /\ UNCHANGED rows
  /\ UNCHANGED <<storeVars, inputVars, todo, editVars, pushes, redisVars, shown,
                 lockHistory, counted, tallyVars>>

(* SET poll:<p>:votes:<o>, for every option read; each may fail. *)
EnhancedFill(e) ==
  /\ Proceed(e, "fill", "store")
  /\ \E S \in SUBSET Options :
       /\ RedisFaults \/ S = Options
       /\ voteCounts' = [voteCounts EXCEPT ![enhanced[e].poll] =
                           [o \in Options |-> IF o \in S /\ rows[e][o] # Absent
                                              THEN rows[e][o] ELSE @[o]]]
  /\ UNCHANGED <<storeVars, inputVars, todo, rows, editVars, pushes, vote_lock,
                 results, shown, lockHistory, counted, tallyVars>>

(* SET poll:<p>:results, and the answer. *)
EnhancedStore(e) ==
  /\ pc[e] = "store"
  /\ \/ results' = [results EXCEPT ![enhanced[e].poll] = rows[e]]
     \/ RedisFaults /\ UNCHANGED results
  /\ Answer(e, "200", "verify")
  /\ UNCHANGED <<storeVars, inputVars, todo, rows, editVars, pushes, vote_lock,
                 voteCounts, shown, lockHistory, counted, tallyVars>>

(* The goroutine reads the results again before it broadcasts them. *)
EnhancedVerify(e) ==
  /\ Proceed(e, "verify", "push")
  /\ \/ rows' = [rows EXCEPT ![e] = ReadOptions(enhanced[e].poll)]
     \/ DbFaults /\ UNCHANGED rows
  /\ pushes' = [pushes EXCEPT ![e] = Broadcasts]
  /\ UNCHANGED <<storeVars, inputVars, todo, editVars, redisVars, shown,
                 lockHistory, counted, tallyVars>>

SubmitEnhancedVote(e) ==
  \/ EnhancedLoad(e) \/ EnhancedPurge(e) \/ EnhancedCommit(e) \/ EnhancedRead(e)
  \/ EnhancedFill(e) \/ EnhancedStore(e) \/ EnhancedVerify(e)

-----------------------------------------------------------------------------
(* UpdatePoll *)

(* The struct after the fields of the body were copied into it. *)
Edited(row, in) ==
  [row EXCEPT
     !.poll_type = IF in.poll_type = "keep" THEN @ ELSE in.poll_type,
     !.is_active = IF in.is_active = "keep" THEN @ ELSE in.is_active = "on",
     !.end_time = in.end_time]

(* First(&poll) *)
UpdatePollLoad(u) ==
  /\ pc[u] = "idle"
  /\ \/ /\ poll[edit[u].poll].state = "live"
        /\ pollRow' = [pollRow EXCEPT ![u] = Edited(poll[edit[u].poll], edit[u])]
        /\ Goto(u, "save")
        /\ UNCHANGED reply
     \/ /\ poll[edit[u].poll].state # "live"
        /\ Answer(u, "404", "done")
        /\ UNCHANGED pollRow
     \/ /\ DbFaults
        /\ Answer(u, "500", "done")
        /\ UNCHANGED pollRow
  /\ UNCHANGED <<storeVars, inputVars, todo, rows, at, victim, pushes, redisVars,
                 shown, lockHistory, counted, tallyVars>>

(* Save(&poll).  A body without options goes straight to the reload. *)
UpdatePollSave(u) ==
  /\ pc[u] = "save"
  /\ \/ /\ poll' = SavePoll(edit[u].poll, pollRow[u])
        /\ Goto(u, IF edit[u].opts # <<>> THEN "existing" ELSE "prune")
        /\ UNCHANGED reply
     \/ /\ \/ LostReplies /\ poll' = SavePoll(edit[u].poll, pollRow[u])
           \/ DbFaults /\ UNCHANGED poll
        /\ Answer(u, "500", "done")
  /\ UNCHANGED <<option, now, inputVars, todo, rows, editVars, pushes, redisVars,
                 shown, lockHistory, counted, tallyVars>>

(* Find(&existingOptions) *)
UpdatePollExisting(u) ==
  /\ pc[u] = "existing"
  /\ \/ /\ rows' = [rows EXCEPT ![u] = ReadOptions(edit[u].poll)]
        /\ Goto(u, "edit")
        /\ UNCHANGED reply
     \/ /\ DbFaults
        /\ Answer(u, "500", "done")
        /\ UNCHANGED rows
  /\ UNCHANGED <<storeVars, inputVars, todo, editVars, pushes, redisVars,
                 shown, lockHistory, counted, tallyVars>>

FreeRows(p) == {o \in OptionsOf(p) : option[o].state = "unused"}

(* Mutant: an id is saved whether the poll has the option or not. *)
SaveEntryUnchecked(u, o) ==
  \/ o \in Options /\ option' = SaveOption(o, rows[u][o])
  \/ o = NoOption /\ UNCHANGED option

(* What the loop does with one entry of the body: Save(&existingOpt), with   *)
(* the votes read before, nothing for an id it did not read, or             *)
(* Create(&newOption).  How many options can be created is bounded by the    *)
(* rows of the model.                                                       *)
SaveEntry(u, o) ==
  \/ o \in Options /\ rows[u][o] # Absent /\ option' = SaveOption(o, rows[u][o])
  \/ o \in Options /\ rows[u][o] = Absent /\ UNCHANGED option
  \/ o = NoOption /\ \E x \in FreeRows(edit[u].poll) : option' = SaveOption(x, 0)
  \/ o = NoOption /\ FreeRows(edit[u].poll) = {} /\ UNCHANGED option
  \/ DbFaults /\ UNCHANGED option

(* The existing options the body does not name. *)
Unsubmitted(u) ==
  {o \in Options : rows[u][o] # Absent /\ \A i \in DOMAIN edit[u].opts : edit[u].opts[i] # o}

(* One turn of the loop over input.Options. *)
UpdatePollOption(u) ==
  /\ pc[u] = "edit"
  /\ at[u] <= Len(edit[u].opts)
  /\ SaveEntry(u, edit[u].opts[at[u]])
  /\ at' = [at EXCEPT ![u] = @ + 1]
  /\ IF at[u] = Len(edit[u].opts)
     THEN Goto(u, "prune") /\ todo' = [todo EXCEPT ![u] = Unsubmitted(u)]
     ELSE UNCHANGED <<pc, todo>>
  /\ UNCHANGED <<poll, now, inputVars, reply, rows, pollRow, victim, pushes,
                 redisVars, shown, lockHistory, counted, tallyVars>>

(* Mutant: an option that was not submitted is deleted whatever its votes. *)
CheckIgnoresVotes(u) ==
  /\ pc[u] = "prune"
  /\ \E o \in todo[u] : victim' = [victim EXCEPT ![u] = o]
  /\ Goto(u, "drop")
  /\ UNCHANGED <<storeVars, inputVars, todo, reply, rows, pollRow, at, pushes,
                 redisVars, shown, lockHistory, counted, tallyVars>>

(* SELECT votes of an option that was not submitted; without a row the      *)
(* count stays 0.                                                           *)
UpdatePollCheck(u) ==
  /\ pc[u] = "prune"
  /\ \E o \in todo[u] :
       \/ /\ option[o].state # "live" \/ option[o].votes = 0
          /\ victim' = [victim EXCEPT ![u] = o]
          /\ Goto(u, "drop")
          /\ UNCHANGED todo
       \/ /\ DbFaults \/ (option[o].state = "live" /\ option[o].votes # 0)
          /\ todo' = [todo EXCEPT ![u] = @ \ {o}]
          /\ UNCHANGED <<pc, victim>>
  /\ UNCHANGED <<storeVars, inputVars, reply, rows, pollRow, at, pushes,
                 redisVars, shown, lockHistory, counted, tallyVars>>

(* Delete(&PollOption{}, optID) *)
UpdatePollDrop(u) ==
  /\ Proceed(u, "drop", "prune")
  /\ victim[u] \in Options
  /\ \/ option' = DropOption(victim[u])
     \/ DbFaults /\ UNCHANGED option
  /\ todo' = [todo EXCEPT ![u] = @ \ {victim[u]}]
  /\ victim' = [victim EXCEPT ![u] = NoOption]
  /\ UNCHANGED <<poll, now, inputVars, rows, pollRow, at, pushes, redisVars,
                 shown, lockHistory, counted, tallyVars>>

(* First(&updatedPoll), the answer. *)
UpdatePollReload(u) ==
  /\ pc[u] = "prune"
  /\ todo[u] = {}
  /\ \/ poll[edit[u].poll].state = "live" /\ Answer(u, "200", "done")
     \/ /\ DbFaults \/ poll[edit[u].poll].state # "live"
        /\ Answer(u, "500", "done")
  /\ rows' = [rows EXCEPT ![u] = NoResults]
  /\ pollRow' = [pollRow EXCEPT ![u] = UnusedPoll]
  /\ UNCHANGED <<storeVars, inputVars, todo, at, victim, pushes, redisVars,
                 shown, lockHistory, counted, tallyVars>>

UpdatePoll(u) ==
  \/ UpdatePollLoad(u) \/ UpdatePollSave(u) \/ UpdatePollExisting(u)
  \/ UpdatePollOption(u) \/ UpdatePollCheck(u) \/ UpdatePollDrop(u)
  \/ UpdatePollReload(u)

-----------------------------------------------------------------------------
(* ResetPollVotes, and the keys of Redis that go away *)

(* The locks of the keys in K are gone. *)
ReleaseLocks(K) ==
  /\ vote_lock' = [k \in Polls \X IPs |-> IF k \in K THEN NoRequest
                                                     ELSE vote_lock[k]]
  /\ lapsed' = lapsed \cup {v \in Voters : Key(v) \in K /\ vote_lock[Key(v)] = v}

(* KEYS vote_lock:*:<p>, over keys that read vote_lock:poll:<q>:ip:<ip>. *)
LocksMatched(p) == {k \in Polls \X IPs : p \in TailPolls[k[2]]}

(* KEYS and DEL of every pattern, before the database is touched. *)
ResetPurge(s) ==
  /\ Proceed(s, "idle", "zero")
  /\ \/ results' = [results EXCEPT ![resetting[s]] = NoResults]
     \/ RedisFaults /\ UNCHANGED results
  /\ \/ voteCounts' = [voteCounts EXCEPT ![resetting[s]] = NoResults]
     \/ RedisFaults /\ UNCHANGED voteCounts
  /\ \/ ReleaseLocks(LocksMatched(resetting[s]))
     \/ RedisFaults /\ UNCHANGED <<vote_lock, lapsed>>
  /\ UNCHANGED <<storeVars, inputVars, todo, rows, editVars, pushes, shown,
                 guarded, late, counted, tallyVars>>

(* The transaction that sets the counts to zero. *)
ResetZero(s) ==
  /\ pc[s] = "zero"
  /\ \/ /\ option' = ZeroVotes(resetting[s])
        /\ castAtReset' = [o \in Options |-> IF o \in LiveOptions(resetting[s])
                                             THEN cast[o] ELSE castAtReset[o]]
        /\ \/ Goto(s, "read") /\ UNCHANGED reply
           \/ LostReplies /\ Answer(s, "500", "done")
     \/ /\ DbFaults
        /\ Answer(s, "500", "done")
        /\ UNCHANGED <<option, castAtReset>>
  /\ UNCHANGED <<poll, now, inputVars, todo, rows, editVars, pushes, redisVars,
                 shown, lockHistory, counted, cast, window, gone>>

(* The results are read once; what was read, or nothing, is broadcast. *)
ResetRead(s) ==
  /\ pc[s] = "read"
  /\ \/ rows' = [rows EXCEPT ![s] = ReadOptions(resetting[s])]
     \/ DbFaults /\ UNCHANGED rows
  /\ pushes' = [pushes EXCEPT ![s] = Broadcasts]
  /\ Answer(s, "200", "push")
  /\ UNCHANGED <<storeVars, inputVars, todo, editVars, redisVars, shown,
                 lockHistory, counted, tallyVars>>

ResetPollVotes(s) == ResetPurge(s) \/ ResetZero(s) \/ ResetRead(s)

(* The 24 hours of a lock are over. *)
LockExpires(k) ==
  /\ vote_lock[k] # NoRequest
  /\ ReleaseLocks({k})
  /\ UNCHANGED <<storeVars, inputVars, pc, reply, todo, rows, editVars, pushes,
                 results, voteCounts, shown, guarded, late, counted, tallyVars>>

(* POST /admin/cache/clean: whatever keys the administrator's patterns match *)
CleanupRedisCache(K, P, Q) ==
  /\ ReleaseLocks(K)
  /\ results' = [p \in Polls |-> IF p \in P THEN NoResults ELSE results[p]]
  /\ voteCounts' = [p \in Polls |-> IF p \in Q THEN NoResults ELSE voteCounts[p]]
  /\ UNCHANGED <<storeVars, inputVars, pc, reply, todo, rows, editVars, pushes,
                 shown, guarded, late, counted, tallyVars>>

StoreStep ==
  /\ \/ /\ \/ Tick
           \/ \E p \in Polls, new \in NewPolls : CreatePoll(p, new)
           \/ CheckAndCloseExpiredPolls
        /\ UNCHANGED gone
     \/ \E p \in Polls : DeletePoll(p) /\ gone' = gone \cup LiveOptions(p)
  /\ UNCHANGED <<inputVars, pc, reply, todo, rows, editVars, pushes, redisVars,
                 shown, lockHistory, counted, cast, castAtReset, window>>

-----------------------------------------------------------------------------
HandlerStep ==
  \/ \E v \in Voters : SubmitVote(v)
  \/ \E e \in EnhancedVoters : SubmitEnhancedVote(e)
  \/ \E u \in Editors : UpdatePoll(u)
  \/ \E s \in Resetters : ResetPollVotes(s)
  \/ \E r \in Requests : Broadcast(r)

RedisStep ==
  \/ \E k \in Polls \X IPs : LockExpires(k)
  \/ \E K \in SUBSET (Polls \X IPs), P, Q \in SUBSET Polls : CleanupRedisCache(K, P, Q)

Next == StoreStep \/ HandlerStep \/ RedisStep

Spec == Init /\ [][Next]_vars

-----------------------------------------------------------------------------
(* Safety *)

(* One vote per poll and address: two votes of one address on one poll are   *)
(* both counted only if the lock of one of them was taken away again (24     *)
(* hours, an administrator, a reset) or Redis failed one of them.            *)
OneVotePerIP ==
  \A v, w \in Voters \ lapsed :
    v # w /\ Key(v) = Key(w) /\ counted[v] # {} /\ counted[w] # {}
      => RedisFaults /\ ~({v, w} \subseteq guarded)

(* No count exceeds the votes cast for the option, wherever it is kept:      *)
(* the table, a result set a handler holds, the two caches, the clients.     *)
NoOvercount ==
  \A o \in Options :
    /\ option[o].votes <= cast[o]
    /\ \A r \in Requests : rows[r][o] <= cast[o]
    /\ \A p \in Polls : /\ results[p][o] <= cast[o]
                        /\ voteCounts[p][o] <= cast[o]
                        /\ shown[p][o] <= cast[o]

(* The votes a reader of the results can see: queries return live rows only. *)
VisibleVotes(o) == IF option[o].state = "live" THEN option[o].votes ELSE 0

(* While its poll is not deleted, a counted vote disappears from the results *)
(* only by a reset or if it was counted within reach of an UpdatePoll:       *)
(* between its reading the options and its saving that option back, between  *)
(* its finding the option without votes and its deleting it, or after that.  *)
OnlyOverlapLosesVotes ==
  \A o \in Options \ gone :
    VisibleVotes(o) + window[o] >= cast[o] - castAtReset[o]

(* A vote sent after its poll was closed, ended or deleted is not counted,   *)
(* though the poll is read only after the lock is set (a poll is not opened  *)
(* again unless an UpdatePoll asks for it).                                 *)
NoLateVotes == \A v \in late : counted[v] = {}

(* A vote that was refused, or that failed, is not counted: the transaction  *)
(* of SubmitEnhancedVote leaves nothing behind.  The exception is a COMMIT   *)
(* whose answer was lost, and then the whole ballot counts.                 *)
RejectedUncounted ==
  \A b \in Ballots :
    reply[b] \notin {"none", "200"} /\ counted[b] # {}
      => LostReplies /\ b \in EnhancedVoters /\ counted[b] = Named(b)

(* A vote answered with 200 was counted: by SubmitEnhancedVote in full,      *)
(* whatever failed, by SubmitVote, which has tried every option it found     *)
(* valid, while no statement fails.                                          *)
AcceptedCounted ==
  \A b \in Ballots :
    reply[b] = "200"
      => /\ todo[b] = {}
         /\ b \in EnhancedVoters => counted[b] = Named(b)
         /\ ~DbFaults => counted[b] # {}

(* A reset is final: while nobody edits the poll, a count holds no vote cast *)
(* before its option was reset.                                             *)
ResetIsFinal == \A o \in Options : option[o].votes <= cast[o] - castAtReset[o]

(* On a poll that is and stays single-choice a ballot raises one count. *)
OneChoice ==
  \A b \in Ballots :
    poll[PollOfRequest(b)].poll_type = "single" => AtMostOne(counted[b])

-----------------------------------------------------------------------------
(* What counting promises, with the tally in the votes columns.  It holds    *)
(* while no UpdatePoll writes options and no array names an option twice.    *)
Box == INSTANCE BallotBox WITH tally <- [o \in Options |-> option[o].votes],
                               used <- counted
BoxSpec == Box!BoxSpec
=============================================================================
