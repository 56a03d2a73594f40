-------------------------- MODULE PollHandlersProofs --------------------------
(***************************************************************************)
(* What holds of PollHandlers for every set of polls, options, addresses    *)
(* and requests, every input and with or without faults.                    *)
(***************************************************************************)
EXTENDS PollHandlers, TLAPS

-----------------------------------------------------------------------------
(* Types of the statements of PollStore. *)

(* A query returns a result set. *)
LEMMA ReadOptionsType ==
  ASSUME TypeOK, NEW p \in Polls
  PROVE  ReadOptions(p) \in ResultSet
BY DEF ReadOptions, ResultSet, TypeOK, StoreTypeOK, OptionRow, LiveOptions,
       OptionsOf

(* The result set without rows is one. *)
LEMMA NoResultsType == NoResults \in ResultSet
BY DEF NoResults, ResultSet, Absent

(* Counting keeps the table a table, and the history counters naturals. *)
LEMMA CountType ==
  ASSUME TypeOK, NEW b \in Ballots, NEW add \in [Options -> Nat], Count(b, add)
  PROVE  /\ option' \in [Options -> OptionRow]
         /\ counted' \in [Ballots -> SUBSET Options]
         /\ cast' \in [Options -> Nat]
         /\ window' \in [Options -> Nat]
         /\ UNCHANGED <<poll, now, castAtReset, gone>>
<1>1. \A o \in Options : option[o].votes + add[o] \in Nat
  BY DEF TypeOK, StoreTypeOK, OptionRow
<1>2. option' \in [Options -> OptionRow]
  BY <1>1, ZenonT(30) DEF Count, AddVotes, TypeOK, StoreTypeOK, OptionRow
<1>3. cast' \in [Options -> Nat] /\ window' \in [Options -> Nat]
  BY DEF Count, TypeOK
<1>4. QED BY <1>2, <1>3 DEF Count, TypeOK

(* Saving an option keeps the table a table. *)
LEMMA SaveOptionType ==
  ASSUME TypeOK, NEW o \in Options, NEW n \in Nat
  PROVE  SaveOption(o, n) \in [Options -> OptionRow]
BY DEF SaveOption, TypeOK, StoreTypeOK, OptionRow, RowState

(* So does saving a poll. *)
LEMMA SavePollType ==
  ASSUME TypeOK, NEW p \in Polls, NEW row \in PollRow
  PROVE  SavePoll(p, row) \in [Polls -> PollRow]
BY DEF SavePoll, TypeOK, StoreTypeOK, PollRow

(* A poll that is deleted or closed is still a row. *)
LEMMA PollRowEdits ==
  ASSUME NEW row \in PollRow
  PROVE  /\ [row EXCEPT !.state = "deleted"] \in PollRow
         /\ [row EXCEPT !.is_active = FALSE] \in PollRow
BY DEF PollRow, RowState

(* Deleting an option keeps the table a table. *)
LEMMA DropOptionType ==
  ASSUME TypeOK, NEW o \in Options
  PROVE  DropOption(o) \in [Options -> OptionRow]
<1>1. option \in [Options -> OptionRow]
  BY DEF TypeOK, StoreTypeOK
<1>2. \A s \in RowState : [option[o] EXCEPT !.state = s] \in OptionRow
  BY <1>1 DEF OptionRow
<1>3. (IF option[o].state = "live" THEN "deleted" ELSE option[o].state) \in RowState
  BY <1>1 DEF OptionRow, RowState
<1>4. QED BY <1>1, <1>2, <1>3 DEF DropOption

(* ... and keeps its votes. *)
LEMMA DropOptionKeepsVotes ==
  ASSUME TypeOK, NEW o \in Options, NEW x \in Options
  PROVE  DropOption(o)[x].votes = option[x].votes
BY DEF DropOption, TypeOK, StoreTypeOK, OptionRow

(* The struct of an editor is a row. *)
LEMMA EditedType ==
  ASSUME NEW row \in PollRow, NEW in \in UpdatePollInput
  PROVE  Edited(row, in) \in PollRow
BY DEF Edited, PollRow, UpdatePollInput

-----------------------------------------------------------------------------
(* Types of the steps every handler takes. *)

(* A request that goes on is at one of the stages. *)
LEMMA GotoType ==
  ASSUME TypeOK, NEW r \in Requests, NEW stage \in Stages, Goto(r, stage)
  PROVE  pc' \in [Requests -> Stages]
BY DEF Goto, TypeOK

(* So is one that answers, with one of the statuses. *)
LEMMA AnswerType ==
  ASSUME TypeOK, NEW r \in Requests, NEW stage \in Stages,
         NEW status \in Replies, Answer(r, status, stage)
  PROVE  pc' \in [Requests -> Stages] /\ reply' \in [Requests -> Replies]
BY GotoType DEF Answer, TypeOK

(* A goroutine may be asked for all its broadcasts. *)
LEMMA BroadcastsType == Broadcasts \in 0 .. Broadcasts
BY HandlersAssumption

(* A vote finds its lock at its key. *)
LEMMA KeyType ==
  ASSUME TypeOK, NEW v \in Voters
  PROVE  Key(v) \in Polls \X IPs /\ ballot[v].poll \in Polls
BY HandlersAssumption DEF TypeOK, Key, VoteInput

(* SETNX of SubmitVote keeps the types, whether it won, lost or failed.     *)
LEMMA SubmitVoteLockType ==
  ASSUME TypeOK, NEW v \in Voters, SubmitVoteLock(v)
  PROVE  TypeOK'
<1>1. pc' \in [Requests -> Stages] /\ reply' \in [Requests -> Replies]
  <2>1. "load" \in Stages /\ "done" \in Stages /\ "429" \in Replies /\ v \in Requests
    BY DEF Stages, Replies, Requests
  <2>2. Goto(v, "load") => pc' \in [Requests -> Stages]
    BY ONLY TypeOK, <2>1, GotoType
  <2>3. Answer(v, "429", "done") => pc' \in [Requests -> Stages] /\ reply' \in [Requests -> Replies]
    BY ONLY TypeOK, <2>1, AnswerType
  <2>4. reply \in [Requests -> Replies]
    BY DEF TypeOK
  <2> QED BY <2>2, <2>3, <2>4 DEF SubmitVoteLock, SetVoteLock
<1>2. vote_lock' \in [Polls \X IPs -> Voters \cup {NoRequest}] /\ guarded' \subseteq Voters
  <2>1. /\ vote_lock \in [Polls \X IPs -> Voters \cup {NoRequest}]
        /\ guarded \subseteq Voters
    BY DEF TypeOK
  <2>2. \/ vote_lock' = vote_lock
        \/ vote_lock' = [vote_lock EXCEPT ![Key(v)] = v]
    BY DEF SubmitVoteLock, SetVoteLock
  <2>3. guarded' = guarded \/ guarded' = guarded \cup {v}
    BY DEF SubmitVoteLock, SetVoteLock
  <2> QED BY <2>1, <2>2, <2>3
<1>3. late' \subseteq Voters
  BY DEF SubmitVoteLock, NoteArrival, TypeOK
<1>4. QED
  BY <1>1, <1>2, <1>3
  DEF SubmitVoteLock, TypeOK, StoreTypeOK, storeVars, inputVars, editVars, tallyVars

(* Loading and validating a vote keeps the types.                           *)
LEMMA SubmitVoteLoadType ==
  ASSUME TypeOK, NEW v \in Voters, SubmitVoteLoad(v)
  PROVE  TypeOK'
<1> USE DEF SubmitVoteLoad
<1>1. SubmitVoteVerdict(v) \in Replies
  BY DEF SubmitVoteVerdict, Replies
<1>2. pc' \in [Requests -> Stages] /\ reply' \in [Requests -> Replies]
  BY <1>1, GotoType, AnswerType DEF TypeOK, Requests, Stages, Replies
<1>3. todo' \in [Requests -> SUBSET Options]
  BY DEF ValidOptions, LiveOptions, OptionsOf, TypeOK
<1>4. QED
  BY <1>2, <1>3
  DEF TypeOK, StoreTypeOK, storeVars, inputVars, editVars, redisVars, lockHistory, tallyVars

(* One UPDATE of SubmitVote's loop keeps the types, counted or failed.      *)
LEMMA SubmitVoteCountType ==
  ASSUME TypeOK, NEW v \in Voters, SubmitVoteCount(v)
  PROVE  TypeOK'
<1> USE DEF SubmitVoteCount
<1>1. pc' \in [Requests -> Stages] /\ reply' \in [Requests -> Replies]
  BY GotoType DEF TypeOK, Requests, Stages
<1>2. todo' \in [Requests -> SUBSET Options]
  <2>1. todo \in [Requests -> SUBSET Options]
    BY DEF TypeOK
  <2>2. \E o \in todo[v] : todo' = [todo EXCEPT ![v] = todo[v] \ {o}]
    OBVIOUS
  <2>3. QED BY <2>1, <2>2 DEF Requests
<1>3. PICK o \in todo[v] :
        \/ Count(v, [x \in Options |-> IF x = o THEN 1 ELSE 0])
        \/ NotCounted
  OBVIOUS
<1>4. CASE Count(v, [x \in Options |-> IF x = o THEN 1 ELSE 0])
  <2>1. v \in Ballots
    BY DEF Ballots
  <2>2. [x \in Options |-> IF x = o THEN 1 ELSE 0] \in [Options -> Nat]
    OBVIOUS
  <2>3. /\ option' \in [Options -> OptionRow]
        /\ counted' \in [Ballots -> SUBSET Options]
        /\ cast' \in [Options -> Nat]
        /\ window' \in [Options -> Nat]
        /\ UNCHANGED <<poll, now, castAtReset, gone>>
    BY <1>4, <2>1, <2>2, CountType
  <2>4. QED
    BY <1>1, <1>2, <2>3
    DEF TypeOK, StoreTypeOK, inputVars, editVars, redisVars, lockHistory
<1>5. CASE NotCounted
  BY <1>1, <1>2, <1>5
  DEF NotCounted, TypeOK, StoreTypeOK, storeVars, inputVars, editVars, redisVars,
      lockHistory, tallyVars
<1>6. QED BY <1>3, <1>4, <1>5

(* DEL of the cached results leaves a cache of result sets.                 *)
LEMMA DeleteResultsType ==
  ASSUME TypeOK, NEW p \in Polls, DeleteResults(p)
  PROVE  results' \in [Polls -> ResultSet]
BY NoResultsType DEF DeleteResults, TypeOK

(* SubmitVote's deletion of the cache keeps the types.                      *)
LEMMA SubmitVotePurgeType ==
  ASSUME TypeOK, NEW v \in Voters, SubmitVotePurge(v)
  PROVE  TypeOK'
<1>1. pc' \in [Requests -> Stages] /\ reply' \in [Requests -> Replies]
  BY GotoType DEF SubmitVotePurge, Proceed, TypeOK, Requests, Stages
<1>2. results' \in [Polls -> ResultSet]
  BY DeleteResultsType, KeyType DEF SubmitVotePurge
<1>3. QED
  BY <1>1, <1>2
  DEF SubmitVotePurge, TypeOK, StoreTypeOK, storeVars, inputVars, editVars,
      lockHistory, tallyVars

(* Reading the results back and answering keeps the types.                  *)
LEMMA SubmitVoteReadType ==
  ASSUME TypeOK, NEW v \in Voters, SubmitVoteRead(v)
  PROVE  TypeOK'
<1>1. pc' \in [Requests -> Stages] /\ reply' \in [Requests -> Replies]
  BY AnswerType DEF SubmitVoteRead, TypeOK, Requests, Stages, Replies
<1>2. rows' \in [Requests -> ResultSet]
  <2>1. ReadOptions(ballot[v].poll) \in ResultSet
    BY ReadOptionsType, KeyType
  <2>2. QED BY <2>1 DEF SubmitVoteRead, TypeOK
<1>3. pushes' \in [Requests -> 0 .. Broadcasts]
  BY HandlersAssumption DEF SubmitVoteRead, TypeOK
<1>4. QED
  BY <1>1, <1>2, <1>3
  DEF SubmitVoteRead, TypeOK, StoreTypeOK, storeVars, inputVars, editVars,
      redisVars, lockHistory, tallyVars

(* Every step of a vote. *)
LEMMA SubmitVoteType ==
  ASSUME TypeOK, NEW v \in Voters, SubmitVote(v)
  PROVE  TypeOK'
BY SubmitVoteLockType, SubmitVoteLoadType, SubmitVoteCountType,
   SubmitVotePurgeType, SubmitVoteReadType DEF SubmitVote

(* The broadcast of a handler that is done otherwise. *)
LEMMA PollOfRequestType ==
  ASSUME TypeOK, NEW r \in Requests
  PROVE  PollOfRequest(r) \in Polls
BY HandlersAssumption
DEF PollOfRequest, TypeOK, Requests, VoteInput, EnhancedVoteInput, UpdatePollInput

(* A broadcast, the last one or not, keeps the types.                       *)
LEMMA BroadcastType ==
  ASSUME TypeOK, NEW r \in Requests, Broadcast(r)
  PROVE  TypeOK'
<1>1. pc' \in [Requests -> Stages]
  BY GotoType DEF Broadcast, Stages
<1>2. pushes' \in [Requests -> 0 .. Broadcasts]
  BY HandlersAssumption DEF Broadcast, TypeOK
<1>3. shown' \in [Polls -> ResultSet]
  BY PollOfRequestType DEF Broadcast, TypeOK
<1>4. rows' \in [Requests -> ResultSet]
  BY NoResultsType DEF Broadcast, TypeOK
<1>5. QED
  BY <1>1, <1>2, <1>3, <1>4
  DEF Broadcast, TypeOK, StoreTypeOK, storeVars, inputVars, editVars,
      redisVars, lockHistory, tallyVars

-----------------------------------------------------------------------------
(* Types of the steps of SubmitEnhancedVote. *)

(* What an enhanced voter sent: a poll, an address, how often each option.  *)
LEMMA EnhancedInputType ==
  ASSUME TypeOK, NEW e \in EnhancedVoters
  PROVE  /\ enhanced[e] \in EnhancedVoteInput
         /\ enhanced[e].poll \in Polls
         /\ enhanced[e].times \in [Options -> Nat]
BY HandlersAssumption DEF TypeOK, EnhancedVoteInput

(* Loading and validating an enhanced vote keeps the types.                 *)
LEMMA EnhancedLoadType ==
  ASSUME TypeOK, NEW e \in EnhancedVoters, EnhancedLoad(e)
  PROVE  TypeOK'
<1>1. EnhancedVerdict(e) \in Replies
  BY DEF EnhancedVerdict, Replies
<1>2. pc' \in [Requests -> Stages] /\ reply' \in [Requests -> Replies]
  BY <1>1, GotoType, AnswerType DEF EnhancedLoad, TypeOK, Requests, Stages, Replies
<1>3. QED
  BY <1>2
  DEF EnhancedLoad, TypeOK, StoreTypeOK, storeVars, inputVars, editVars, redisVars,
      lockHistory, tallyVars

(* Both deletions of the cache by SubmitEnhancedVote keep the types.        *)
LEMMA EnhancedPurgeType ==
  ASSUME TypeOK, NEW e \in EnhancedVoters, EnhancedPurge(e)
  PROVE  TypeOK'
<1>1. pc' \in [Requests -> Stages] /\ reply' \in [Requests -> Replies]
  BY GotoType DEF EnhancedPurge, Proceed, TypeOK, Requests, Stages
<1>2. results' \in [Polls -> ResultSet]
  BY DeleteResultsType, EnhancedInputType DEF EnhancedPurge
<1>3. QED
  BY <1>1, <1>2
  DEF EnhancedPurge, TypeOK, StoreTypeOK, storeVars, inputVars, editVars,
      lockHistory, tallyVars

(* The transaction keeps the types: committed, rolled back, or in doubt.    *)
LEMMA EnhancedCommitType ==
  ASSUME TypeOK, NEW e \in EnhancedVoters, EnhancedCommit(e)
  PROVE  TypeOK'
<1>1. pc' \in [Requests -> Stages] /\ reply' \in [Requests -> Replies]
  BY GotoType, AnswerType DEF EnhancedCommit, TypeOK, Requests, Stages, Replies
<1>2. CASE Count(e, enhanced[e].times)
  <2>1. e \in Ballots
    BY DEF Ballots
  <2>2. /\ option' \in [Options -> OptionRow]
        /\ counted' \in [Ballots -> SUBSET Options]
        /\ cast' \in [Options -> Nat]
        /\ window' \in [Options -> Nat]
        /\ UNCHANGED <<poll, now, castAtReset, gone>>
    BY <1>2, <2>1, CountType, EnhancedInputType
  <2>3. QED
    BY <1>1, <2>2
    DEF EnhancedCommit, TypeOK, StoreTypeOK, inputVars, editVars, redisVars, lockHistory
<1>3. CASE NotCounted
  BY <1>1, <1>3
  DEF EnhancedCommit, NotCounted, TypeOK, StoreTypeOK, storeVars, inputVars, editVars,
      redisVars, lockHistory, tallyVars
<1>4. QED BY <1>2, <1>3 DEF EnhancedCommit

(* GetCurrentPollResults keeps the types.                                   *)
LEMMA EnhancedReadType ==
  ASSUME TypeOK, NEW e \in EnhancedVoters, EnhancedRead(e)
  PROVE  TypeOK'
<1>1. pc' \in [Requests -> Stages] /\ reply' \in [Requests -> Replies]
  BY GotoType, AnswerType DEF EnhancedRead, TypeOK, Requests, Stages, Replies
<1>2. ReadOptions(enhanced[e].poll) \in ResultSet
  BY ReadOptionsType, EnhancedInputType
<1>3. rows' \in [Requests -> ResultSet]
  BY <1>2 DEF EnhancedRead, TypeOK
<1>4. QED
  BY <1>1, <1>3
  DEF EnhancedRead, TypeOK, StoreTypeOK, storeVars, inputVars, editVars, redisVars,
      lockHistory, tallyVars

(* Caching the count of every option read keeps the types.                  *)
LEMMA EnhancedFillType ==
  ASSUME TypeOK, NEW e \in EnhancedVoters, EnhancedFill(e)
  PROVE  TypeOK'
<1>1. pc' \in [Requests -> Stages] /\ reply' \in [Requests -> Replies]
  BY GotoType DEF EnhancedFill, Proceed, TypeOK, Requests, Stages
<1>2. rows[e] \in ResultSet
  BY DEF TypeOK, Requests
<1>3. voteCounts' \in [Polls -> ResultSet]
  <2> DEFINE Filled(S) == [o \in Options |-> IF o \in S /\ rows[e][o] # Absent
                                            THEN rows[e][o]
                                            ELSE voteCounts[enhanced[e].poll][o]]
  <2>1. \A S \in SUBSET Options : Filled(S) \in ResultSet
    BY <1>2, EnhancedInputType DEF TypeOK, ResultSet
  <2>2. PICK S \in SUBSET Options :
          voteCounts' = [voteCounts EXCEPT ![enhanced[e].poll] = Filled(S)]
    BY EnhancedInputType DEF EnhancedFill, TypeOK
  <2>3. Filled(S) \in ResultSet
    BY <2>1
  <2> HIDE DEF Filled
  <2>4. QED BY <2>2, <2>3 DEF TypeOK
<1>4. QED
  BY <1>1, <1>3
  DEF EnhancedFill, TypeOK, StoreTypeOK, storeVars, inputVars, editVars,
      lockHistory, tallyVars

(* Caching the results and answering keeps the types.                       *)
LEMMA EnhancedStoreType ==
  ASSUME TypeOK, NEW e \in EnhancedVoters, EnhancedStore(e)
  PROVE  TypeOK'
<1>1. pc' \in [Requests -> Stages] /\ reply' \in [Requests -> Replies]
  BY AnswerType DEF EnhancedStore, TypeOK, Requests, Stages, Replies
<1>2. rows[e] \in ResultSet
  BY DEF TypeOK, Requests
<1>3. results' \in [Polls -> ResultSet]
  BY <1>2 DEF EnhancedStore, TypeOK
<1>4. QED
  BY <1>1, <1>3
  DEF EnhancedStore, TypeOK, StoreTypeOK, storeVars, inputVars, editVars,
      lockHistory, tallyVars

(* The second reading of the results keeps the types.                       *)
LEMMA EnhancedVerifyType ==
  ASSUME TypeOK, NEW e \in EnhancedVoters, EnhancedVerify(e)
  PROVE  TypeOK'
<1>1. pc' \in [Requests -> Stages] /\ reply' \in [Requests -> Replies]
  BY GotoType DEF EnhancedVerify, Proceed, TypeOK, Requests, Stages
<1>2. ReadOptions(enhanced[e].poll) \in ResultSet
  BY ReadOptionsType, EnhancedInputType
<1>3. rows' \in [Requests -> ResultSet]
  BY <1>2 DEF EnhancedVerify, TypeOK
<1>4. pushes' \in [Requests -> 0 .. Broadcasts]
  BY BroadcastsType DEF EnhancedVerify, TypeOK
<1>5. QED
  BY <1>1, <1>3, <1>4
  DEF EnhancedVerify, TypeOK, StoreTypeOK, storeVars, inputVars, editVars, redisVars,
      lockHistory, tallyVars

(* Every step of an enhanced vote. *)
LEMMA SubmitEnhancedVoteType ==
  ASSUME TypeOK, NEW e \in EnhancedVoters, SubmitEnhancedVote(e)
  PROVE  TypeOK'
BY EnhancedLoadType, EnhancedPurgeType, EnhancedCommitType, EnhancedReadType,
   EnhancedFillType, EnhancedStoreType, EnhancedVerifyType DEF SubmitEnhancedVote

-----------------------------------------------------------------------------
(* Types of the steps of UpdatePoll. *)

(* What an editor sent: a poll, the columns, the options.                   *)
LEMMA EditInputType ==
  ASSUME TypeOK, NEW u \in Editors
  PROVE  /\ edit[u] \in UpdatePollInput
         /\ edit[u].poll \in Polls
         /\ edit[u].opts \in Seq(Options \cup {NoOption})
BY HandlersAssumption DEF TypeOK, UpdatePollInput

(* Loading the poll and copying the body into it keeps the types.           *)
LEMMA UpdatePollLoadType ==
  ASSUME TypeOK, NEW u \in Editors, UpdatePollLoad(u)
  PROVE  TypeOK'
<1>1. pc' \in [Requests -> Stages] /\ reply' \in [Requests -> Replies]
  BY GotoType, AnswerType DEF UpdatePollLoad, TypeOK, Requests, Stages, Replies
<1>2. Edited(poll[edit[u].poll], edit[u]) \in PollRow
  <2>1. poll[edit[u].poll] \in PollRow
    BY EditInputType DEF TypeOK, StoreTypeOK
  <2>2. QED BY <2>1, EditInputType, EditedType
<1>3. pollRow' \in [Editors -> PollRow]
  BY <1>2 DEF UpdatePollLoad, TypeOK
<1>4. QED
  BY <1>1, <1>3
  DEF UpdatePollLoad, TypeOK, StoreTypeOK, storeVars, inputVars, redisVars,
      lockHistory, tallyVars

(* Saving the poll keeps the types, saved, refused or in doubt.             *)
LEMMA UpdatePollSaveType ==
  ASSUME TypeOK, NEW u \in Editors, UpdatePollSave(u)
  PROVE  TypeOK'
<1>1. pc' \in [Requests -> Stages] /\ reply' \in [Requests -> Replies]
  BY GotoType, AnswerType DEF UpdatePollSave, TypeOK, Requests, Stages, Replies
<1>2. SavePoll(edit[u].poll, pollRow[u]) \in [Polls -> PollRow]
  <2>1. pollRow[u] \in PollRow
    BY DEF TypeOK
  <2>2. QED BY <2>1, EditInputType, SavePollType
<1>3. poll' \in [Polls -> PollRow]
  BY <1>2 DEF UpdatePollSave, TypeOK, StoreTypeOK
<1>4. QED
  BY <1>1, <1>3
  DEF UpdatePollSave, TypeOK, StoreTypeOK, inputVars, editVars, redisVars,
      lockHistory, tallyVars

(* Reading the options of the poll keeps the types.                         *)
LEMMA UpdatePollExistingType ==
  ASSUME TypeOK, NEW u \in Editors, UpdatePollExisting(u)
  PROVE  TypeOK'
<1>1. pc' \in [Requests -> Stages] /\ reply' \in [Requests -> Replies]
  BY GotoType, AnswerType DEF UpdatePollExisting, TypeOK, Requests, Stages, Replies
<1>2. ReadOptions(edit[u].poll) \in ResultSet
  BY ReadOptionsType, EditInputType
<1>3. rows' \in [Requests -> ResultSet]
  BY <1>2 DEF UpdatePollExisting, TypeOK
<1>4. QED
  BY <1>1, <1>3
  DEF UpdatePollExisting, TypeOK, StoreTypeOK, storeVars, inputVars, editVars,
      redisVars, lockHistory, tallyVars

(* Reading the votes of an unnamed option keeps the types.                  *)
LEMMA UpdatePollCheckType ==
  ASSUME TypeOK, NEW u \in Editors, UpdatePollCheck(u)
  PROVE  TypeOK'
<1>1. pc' \in [Requests -> Stages]
  BY GotoType DEF UpdatePollCheck, TypeOK, Requests, Stages
<1>2. todo' \in [Requests -> SUBSET Options]
  BY DEF UpdatePollCheck, TypeOK
<1>3. victim' \in [Editors -> Options \cup {NoOption}]
  <2>1. todo[u] \subseteq Options
    BY DEF TypeOK, Requests
  <2>2. QED BY <2>1 DEF UpdatePollCheck, TypeOK
<1>4. QED
  BY <1>1, <1>2, <1>3
  DEF UpdatePollCheck, TypeOK, StoreTypeOK, storeVars, inputVars, redisVars,
      lockHistory, tallyVars

(* Deleting that option keeps the types.                                    *)
LEMMA UpdatePollDropType ==
  ASSUME TypeOK, NEW u \in Editors, UpdatePollDrop(u)
  PROVE  TypeOK'
<1>1. pc' \in [Requests -> Stages] /\ reply' \in [Requests -> Replies]
  BY GotoType DEF UpdatePollDrop, Proceed, TypeOK, Requests, Stages
<1>2. option' \in [Options -> OptionRow]
  BY DropOptionType DEF UpdatePollDrop, TypeOK, StoreTypeOK
<1>3. todo' \in [Requests -> SUBSET Options]
  BY DEF UpdatePollDrop, TypeOK
<1>4. victim' \in [Editors -> Options \cup {NoOption}]
  BY DEF UpdatePollDrop, TypeOK
<1>5. QED
  BY <1>1, <1>2, <1>3, <1>4
  DEF UpdatePollDrop, TypeOK, StoreTypeOK, inputVars, redisVars, lockHistory, tallyVars

(* Reading the poll again and answering keeps the types.                    *)
LEMMA UpdatePollReloadType ==
  ASSUME TypeOK, NEW u \in Editors, UpdatePollReload(u)
  PROVE  TypeOK'
<1>1. pc' \in [Requests -> Stages] /\ reply' \in [Requests -> Replies]
  BY AnswerType DEF UpdatePollReload, TypeOK, Requests, Stages, Replies
<1>2. rows' \in [Requests -> ResultSet]
  BY NoResultsType DEF UpdatePollReload, TypeOK
<1>3. UnusedPoll \in PollRow
  BY DEF UnusedPoll, PollRow, RowState, PollType
<1>4. pollRow' \in [Editors -> PollRow]
  BY <1>3 DEF UpdatePollReload, TypeOK
<1>5. QED
  BY <1>1, <1>2, <1>4
  DEF UpdatePollReload, TypeOK, StoreTypeOK, storeVars, inputVars, redisVars,
      lockHistory, tallyVars

(* An entry of the body leaves the table a table: what is saved under an id  *)
(* was read before, so it has votes.                                        *)
LEMMA SaveEntryType ==
  ASSUME TypeOK, NEW u \in Editors, NEW o \in Options \cup {NoOption}, SaveEntry(u, o)
  PROVE  option' \in [Options -> OptionRow]
<1>1. CASE UNCHANGED option
  BY <1>1 DEF TypeOK, StoreTypeOK
<1>2. CASE o \in Options /\ rows[u][o] # Absent /\ option' = SaveOption(o, rows[u][o])
  <2>1. rows[u][o] \in Nat
    BY <1>2 DEF TypeOK, ResultSet, Requests
  <2>2. QED BY <1>2, <2>1, SaveOptionType
<1>3. CASE \E x \in FreeRows(edit[u].poll) : option' = SaveOption(x, 0)
  BY <1>3, SaveOptionType DEF FreeRows, OptionsOf
<1>4. QED BY <1>1, <1>2, <1>3 DEF SaveEntry

(* One turn of the loop over the body keeps the types.                      *)
LEMMA UpdatePollOptionType ==
  ASSUME TypeOK, NEW u \in Editors, UpdatePollOption(u)
  PROVE  TypeOK'
<1>1. at[u] \in Nat \ {0} /\ edit[u].opts[at[u]] \in Options \cup {NoOption}
  <2>1. at[u] \in 1 .. Len(edit[u].opts)
    BY EditInputType DEF UpdatePollOption, TypeOK
  <2>2. QED BY <2>1, EditInputType
<1>2. option' \in [Options -> OptionRow]
  BY <1>1, SaveEntryType DEF UpdatePollOption
<1>3. at' \in [Editors -> Nat \ {0}]
  BY <1>1 DEF UpdatePollOption, TypeOK
<1>4. pc' \in [Requests -> Stages]
  BY GotoType DEF UpdatePollOption, TypeOK, Requests, Stages
<1>5. todo' \in [Requests -> SUBSET Options]
  <2>1. Unsubmitted(u) \subseteq Options
    BY DEF Unsubmitted
  <2>2. QED BY <2>1 DEF UpdatePollOption, TypeOK
<1>6. QED
  BY <1>2, <1>3, <1>4, <1>5
  DEF UpdatePollOption, TypeOK, StoreTypeOK, inputVars, redisVars, lockHistory, tallyVars

(* Every step of an edit. *)
LEMMA UpdatePollTypes ==
  ASSUME TypeOK, NEW u \in Editors, UpdatePoll(u)
  PROVE  TypeOK'
BY UpdatePollLoadType, UpdatePollSaveType, UpdatePollExistingType,
   UpdatePollOptionType, UpdatePollCheckType, UpdatePollDropType,
   UpdatePollReloadType DEF UpdatePoll

-----------------------------------------------------------------------------
(* Types of the steps of ResetPollVotes, of Redis and of the store. *)

(* Removing locks leaves a table of locks and a set of voters.              *)
LEMMA ReleaseLocksType ==
  ASSUME TypeOK, NEW K, ReleaseLocks(K)
  PROVE  /\ vote_lock' \in [Polls \X IPs -> Voters \cup {NoRequest}]
         /\ lapsed' \subseteq Voters
BY DEF ReleaseLocks, TypeOK

(* Deleting the keys of a reset keeps the types.                            *)
LEMMA ResetPurgeType ==
  ASSUME TypeOK, NEW s \in Resetters, ResetPurge(s)
  PROVE  TypeOK'
<1>1. pc' \in [Requests -> Stages] /\ reply' \in [Requests -> Replies]
  BY GotoType DEF ResetPurge, Proceed, TypeOK, Requests, Stages
<1>2. results' \in [Polls -> ResultSet] /\ voteCounts' \in [Polls -> ResultSet]
  BY NoResultsType, SMTT(30) DEF ResetPurge, TypeOK
<1>3. /\ vote_lock' \in [Polls \X IPs -> Voters \cup {NoRequest}]
      /\ lapsed' \subseteq Voters
  BY ReleaseLocksType DEF ResetPurge, TypeOK
<1>4. QED
  BY <1>1, <1>2, <1>3
  DEF ResetPurge, TypeOK, StoreTypeOK, storeVars, inputVars, editVars, tallyVars

(* Setting the counts to zero keeps the types.                              *)
LEMMA ResetZeroType ==
  ASSUME TypeOK, NEW s \in Resetters, ResetZero(s)
  PROVE  TypeOK'
<1>1. pc' \in [Requests -> Stages] /\ reply' \in [Requests -> Replies]
  BY GotoType, AnswerType DEF ResetZero, TypeOK, Requests, Stages, Replies
<1>2. ZeroVotes(resetting[s]) \in [Options -> OptionRow]
  BY ZenonT(30) DEF ZeroVotes, TypeOK, StoreTypeOK, OptionRow
<1>3. option' \in [Options -> OptionRow]
  BY <1>2 DEF ResetZero, TypeOK, StoreTypeOK
<1>4. castAtReset' \in [Options -> Nat]
  BY DEF ResetZero, TypeOK
<1>5. QED
  BY <1>1, <1>3, <1>4
  DEF ResetZero, TypeOK, StoreTypeOK, inputVars, editVars, redisVars, lockHistory

(* Reading the results after a reset keeps the types.                       *)
LEMMA ResetReadType ==
  ASSUME TypeOK, NEW s \in Resetters, ResetRead(s)
  PROVE  TypeOK'
<1>1. pc' \in [Requests -> Stages] /\ reply' \in [Requests -> Replies]
  BY AnswerType DEF ResetRead, TypeOK, Requests, Stages, Replies
<1>2. ReadOptions(resetting[s]) \in ResultSet
  BY ReadOptionsType DEF TypeOK
<1>3. rows' \in [Requests -> ResultSet]
  BY <1>2 DEF ResetRead, TypeOK
<1>4. pushes' \in [Requests -> 0 .. Broadcasts]
  BY BroadcastsType DEF ResetRead, TypeOK
<1>5. QED
  BY <1>1, <1>3, <1>4
  DEF ResetRead, TypeOK, StoreTypeOK, storeVars, inputVars, editVars, redisVars,
      lockHistory, tallyVars

(* Expiring a lock and cleaning the cache keep the types.                   *)
LEMMA RedisStepType ==
  ASSUME TypeOK, RedisStep
  PROVE  TypeOK'
<1>1. CASE \E k \in Polls \X IPs : LockExpires(k)
  <2>1. /\ vote_lock' \in [Polls \X IPs -> Voters \cup {NoRequest}]
        /\ lapsed' \subseteq Voters
    BY <1>1, ReleaseLocksType DEF LockExpires
  <2>2. QED
    BY <1>1, <2>1
    DEF LockExpires, TypeOK, StoreTypeOK, storeVars, inputVars, editVars, tallyVars
<1>2. ASSUME NEW K \in SUBSET (Polls \X IPs), NEW P \in SUBSET Polls,
             NEW Q \in SUBSET Polls, CleanupRedisCache(K, P, Q)
      PROVE  TypeOK'
  <2>1. /\ vote_lock' \in [Polls \X IPs -> Voters \cup {NoRequest}]
        /\ lapsed' \subseteq Voters
    BY <1>2, ReleaseLocksType DEF CleanupRedisCache
  <2>2. results' \in [Polls -> ResultSet] /\ voteCounts' \in [Polls -> ResultSet]
    BY <1>2, NoResultsType DEF CleanupRedisCache, TypeOK
  <2>3. QED
    BY <1>2, <2>1, <2>2
    DEF CleanupRedisCache, TypeOK, StoreTypeOK, storeVars, inputVars, editVars, tallyVars
<1>3. QED BY <1>1, <1>2 DEF RedisStep

(* The clock, CreatePoll, DeletePoll and the checker keep the types.        *)
LEMMA StoreStepType ==
  ASSUME TypeOK, StoreStep
  PROVE  TypeOK'
<1>1. ASSUME Tick PROVE StoreTypeOK'
  BY <1>1, StoreAssumption DEF Tick, TypeOK, StoreTypeOK, Times
<1>2. ASSUME NEW p \in Polls, NEW new \in NewPolls, CreatePoll(p, new)
      PROVE  StoreTypeOK'
  <2>1. new \in NewPoll
    BY HandlersAssumption
  <2>2. poll' \in [Polls -> PollRow]
    BY <1>2, <2>1 DEF CreatePoll, NewPoll, PollRow, RowState, TypeOK, StoreTypeOK
  <2>3. option' \in [Options -> OptionRow]
    BY <1>2 DEF CreatePoll, OptionRow, RowState, TypeOK, StoreTypeOK
  <2>4. QED BY <1>2, <2>2, <2>3 DEF CreatePoll, TypeOK, StoreTypeOK
<1>3. ASSUME NEW p \in Polls, DeletePoll(p)
      PROVE  StoreTypeOK'
  <2>1. poll' \in [Polls -> PollRow]
    <3>1. poll' = [q \in Polls |-> IF q = p THEN [poll[q] EXCEPT !.state = "deleted"]
                                            ELSE poll[q]]
      BY <1>3 DEF DeletePoll, TypeOK, StoreTypeOK
    <3>2. \A q \in Polls : [poll[q] EXCEPT !.state = "deleted"] \in PollRow
      BY PollRowEdits DEF TypeOK, StoreTypeOK
    <3>3. QED BY <3>1, <3>2, Zenon DEF TypeOK, StoreTypeOK
  <2>2. option' \in [Options -> OptionRow]
    BY <1>3, ZenonT(30) DEF DeletePoll, OptionRow, RowState, TypeOK, StoreTypeOK
  <2>3. QED BY <1>3, <2>1, <2>2 DEF DeletePoll, TypeOK, StoreTypeOK
<1>4. ASSUME CheckAndCloseExpiredPolls PROVE StoreTypeOK'
  <2>1. \A p \in Polls : [poll[p] EXCEPT !.is_active = FALSE] \in PollRow
    BY PollRowEdits DEF TypeOK, StoreTypeOK
  <2>2. poll' \in [Polls -> PollRow]
    BY <1>4, <2>1, Zenon DEF CheckAndCloseExpiredPolls, TypeOK, StoreTypeOK
  <2>3. QED BY <1>4, <2>2 DEF CheckAndCloseExpiredPolls, TypeOK, StoreTypeOK
<1>5. gone' \subseteq Options
  BY DEF StoreStep, LiveOptions, OptionsOf, TypeOK
<1>6. ASSUME StoreTypeOK' PROVE TypeOK'
  BY <1>5, <1>6 DEF TypeOK, StoreStep, inputVars, editVars, redisVars, lockHistory
<1>7. StoreTypeOK'
  BY <1>1, <1>2, <1>3, <1>4 DEF StoreStep, TypeOK
<1>8. QED BY <1>6, <1>7

-----------------------------------------------------------------------------
(* TypeOK is inductive. *)

(* The initial states have the types.                                       *)
LEMMA InitTypes == Init => TypeOK
<1> SUFFICES ASSUME Init PROVE TypeOK
  OBVIOUS
<1>1. StoreTypeOK
  BY StoreAssumption
  DEF Init, StoreInit, StoreTypeOK, UnusedPoll, PollRow, OptionRow, RowState, PollType, Times
<1>2. UnusedPoll \in PollRow
  BY DEF UnusedPoll, PollRow, RowState, PollType
<1>3. 0 \in 0 .. Broadcasts
  BY HandlersAssumption
<1>4. QED
  BY <1>1, <1>2, <1>3, NoResultsType DEF Init, HandlersInit, TypeOK, Stages, Replies

(* Every step keeps them.                                                   *)
LEMMA NextTypes == TypeOK /\ [Next]_vars => TypeOK'
<1> SUFFICES ASSUME TypeOK, [Next]_vars PROVE TypeOK'
  OBVIOUS
<1>1. CASE UNCHANGED vars
  BY <1>1
  DEF vars, TypeOK, StoreTypeOK, storeVars, inputVars, editVars, redisVars, lockHistory,
      tallyVars
<1>2. ASSUME NEW s \in Resetters, ResetPollVotes(s) PROVE TypeOK'
  BY <1>2, ResetPurgeType, ResetZeroType, ResetReadType DEF ResetPollVotes
<1>3. QED
  BY <1>1, <1>2, StoreStepType, RedisStepType, SubmitVoteType, SubmitEnhancedVoteType,
     UpdatePollTypes, BroadcastType DEF Next, HandlerStep

(* The handlers keep every table, key and local of its type: in particular   *)
(* no UpdatePoll saves an option it has not read.                           *)
THEOREM HandlersTypeOK == Spec => []TypeOK
BY InitTypes, NextTypes, PTL DEF Spec
=============================================================================
