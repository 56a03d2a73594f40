--------------------------- MODULE PollTallyProofs ---------------------------
(***************************************************************************)
(* What the handlers do to the counts: none of them, nor any copy of them,  *)
(* exceeds the votes cast, and a vote is lost only within reach of an       *)
(* UpdatePoll that writes its option back or deletes it.                    *)
(***************************************************************************)
EXTENDS PollHandlersProofs

-----------------------------------------------------------------------------
(* NoOvercount *)

(* No count of the result set f exceeds the votes cast. *)
Within(f) == \A o \in Options : f[o] <= cast[o]

(* NoOvercount, unfolded for one option.                                    *)
LEMMA CopiesWithin ==
  ASSUME TypeOK, NoOvercount
  PROVE  /\ Within(NoResults)
         /\ \A p \in Polls : Within(ReadOptions(p))
         /\ \A r \in Requests : Within(rows[r])
         /\ \A p \in Polls : Within(results[p]) /\ Within(voteCounts[p]) /\ Within(shown[p])
<1>1. Within(NoResults)
  BY DEF Within, NoResults, Absent, TypeOK
<1>2. \A p \in Polls : Within(ReadOptions(p))
  BY DEF Within, ReadOptions, Absent, NoOvercount, TypeOK
<1>3. QED BY <1>1, <1>2 DEF Within, NoOvercount

(* A step that casts nothing and only copies counts around keeps NoOvercount. *)
LEMMA CopyingIsSafe ==
  ASSUME TypeOK, NoOvercount, UNCHANGED cast,
         \A o \in Options : \/ option'[o].votes = option[o].votes
                            \/ option'[o].votes <= cast[o],
         \A r \in Requests : \/ rows'[r] = rows[r]
                             \/ Within(rows'[r]),
         \A p \in Polls : /\ results'[p] = results[p] \/ Within(results'[p])
                          /\ voteCounts'[p] = voteCounts[p] \/ Within(voteCounts'[p])
                          /\ shown'[p] = shown[p] \/ Within(shown'[p])
  PROVE  NoOvercount'
BY DEF NoOvercount, Within

(* A vote that is counted adds as much to a count as is cast. *)
LEMMA CountingIsSafe ==
  ASSUME TypeOK, NoOvercount, NEW b \in Ballots, NEW add \in [Options -> Nat],
         Count(b, add), UNCHANGED <<rows, redisVars, shown>>
  PROVE  NoOvercount'
<1> SUFFICES ASSUME NEW o \in Options
             PROVE  /\ option'[o].votes <= cast'[o]
                    /\ \A r \in Requests : rows'[r][o] <= cast'[o]
                    /\ \A p \in Polls : /\ results'[p][o] <= cast'[o]
                                        /\ voteCounts'[p][o] <= cast'[o]
                                        /\ shown'[p][o] <= cast'[o]
  BY DEF NoOvercount
<1>1. add[o] \in Nat /\ cast[o] \in Nat /\ cast'[o] = cast[o] + add[o]
  BY DEF Count, TypeOK
<1>2. option'[o].votes = option[o].votes + add[o] /\ option[o].votes \in Nat
  BY DEF Count, AddVotes, TypeOK, StoreTypeOK, OptionRow
<1>3. option'[o].votes <= cast'[o]
  BY <1>1, <1>2 DEF NoOvercount
<1>4. ASSUME NEW n \in Nat \cup {Absent}, n <= cast[o] PROVE n <= cast'[o]
  BY <1>1, <1>4 DEF Absent
<1>5. /\ \A r \in Requests : rows[r][o] \in Nat \cup {Absent}
      /\ \A p \in Polls : /\ results[p][o] \in Nat \cup {Absent}
                          /\ voteCounts[p][o] \in Nat \cup {Absent}
                          /\ shown[p][o] \in Nat \cup {Absent}
  BY DEF TypeOK, ResultSet
<1>6. QED BY <1>3, <1>4, <1>5 DEF NoOvercount, redisVars

(* No step of SubmitVote overcounts.                                        *)
LEMMA SubmitVoteNoOvercount ==
  ASSUME TypeOK, NoOvercount, NEW v \in Voters, SubmitVote(v)
  PROVE  NoOvercount'
<1>1. CASE SubmitVoteLock(v)
  BY <1>1, CopyingIsSafe DEF SubmitVoteLock, storeVars, tallyVars
<1>2. CASE SubmitVoteLoad(v)
  BY <1>2, CopyingIsSafe DEF SubmitVoteLoad, storeVars, redisVars, tallyVars
<1>3. CASE SubmitVoteCount(v)
  <2>1. PICK o \in todo[v] :
          Count(v, [x \in Options |-> IF x = o THEN 1 ELSE 0]) \/ NotCounted
    BY <1>3 DEF SubmitVoteCount
  <2>2. CASE Count(v, [x \in Options |-> IF x = o THEN 1 ELSE 0])
    <3>1. v \in Ballots
      BY DEF Ballots
    <3>2. [x \in Options |-> IF x = o THEN 1 ELSE 0] \in [Options -> Nat]
      OBVIOUS
    <3>3. UNCHANGED <<rows, redisVars, shown>>
      BY <1>3 DEF SubmitVoteCount
    <3>4. QED BY <2>2, <3>1, <3>2, <3>3, CountingIsSafe
  <2>3. CASE NotCounted
    BY <1>3, <2>3, CopyingIsSafe
    DEF SubmitVoteCount, NotCounted, storeVars, redisVars, tallyVars
  <2>4. QED BY <2>1, <2>2, <2>3
<1>4. CASE SubmitVotePurge(v)
  <2>1. \A p \in Polls : results'[p] = results[p] \/ results'[p] = NoResults
    BY <1>4 DEF SubmitVotePurge, DeleteResults, TypeOK
  <2>2. QED
    BY <1>4, <2>1, CopyingIsSafe, CopiesWithin
    DEF SubmitVotePurge, storeVars, tallyVars
<1>5. CASE SubmitVoteRead(v)
  <2>1. \A r \in Requests : rows'[r] = rows[r] \/ rows'[r] = ReadOptions(ballot[v].poll)
    BY <1>5 DEF SubmitVoteRead, TypeOK
  <2>2. Within(ReadOptions(ballot[v].poll))
    BY CopiesWithin, KeyType
  <2>3. QED
    BY <1>5, <2>1, <2>2, CopyingIsSafe
    DEF SubmitVoteRead, storeVars, redisVars, tallyVars
<1>6. QED BY <1>1, <1>2, <1>3, <1>4, <1>5 DEF SubmitVote

(* No step of SubmitEnhancedVote overcounts.                                *)
LEMMA SubmitEnhancedVoteNoOvercount ==
  ASSUME TypeOK, NoOvercount, NEW e \in EnhancedVoters, SubmitEnhancedVote(e)
  PROVE  NoOvercount'
<1>1. enhanced[e].poll \in Polls /\ e \in Requests /\ rows[e] \in ResultSet
  BY EnhancedInputType DEF Requests, TypeOK
<1>2. CASE EnhancedLoad(e)
  BY <1>2, CopyingIsSafe DEF EnhancedLoad, storeVars, redisVars, tallyVars
<1>3. CASE EnhancedPurge(e)
  <2>1. \A p \in Polls : results'[p] = results[p] \/ results'[p] = NoResults
    BY <1>3 DEF EnhancedPurge, DeleteResults, TypeOK
  <2>2. QED
    BY <1>3, <2>1, CopyingIsSafe, CopiesWithin DEF EnhancedPurge, storeVars, tallyVars
<1>4. CASE EnhancedCommit(e)
  <2>1. UNCHANGED <<rows, redisVars, shown>>
    BY <1>4 DEF EnhancedCommit
  <2>2. CASE Count(e, enhanced[e].times)
    <3>1. e \in Ballots /\ enhanced[e].times \in [Options -> Nat]
      BY EnhancedInputType DEF Ballots
    <3>2. QED BY <2>1, <2>2, <3>1, CountingIsSafe
  <2>3. CASE NotCounted
    BY <2>1, <2>3, CopyingIsSafe DEF NotCounted, storeVars, redisVars, tallyVars
  <2>4. QED BY <1>4, <2>2, <2>3 DEF EnhancedCommit
<1>5. CASE EnhancedRead(e) \/ EnhancedVerify(e)
  <2>1. \A r \in Requests : rows'[r] = rows[r] \/ rows'[r] = ReadOptions(enhanced[e].poll)
    BY <1>5 DEF EnhancedRead, EnhancedVerify, TypeOK
  <2>2. Within(ReadOptions(enhanced[e].poll))
    BY <1>1, CopiesWithin
  <2>3. QED
    BY <1>5, <2>1, <2>2, CopyingIsSafe
    DEF EnhancedRead, EnhancedVerify, storeVars, redisVars, tallyVars
<1>6. CASE EnhancedFill(e)
  <2>1. ASSUME NEW p \in Polls
        PROVE  voteCounts'[p] = voteCounts[p] \/ Within(voteCounts'[p])
    <3>1. CASE UNCHANGED voteCounts
      BY <3>1
    <3>2. CASE p # enhanced[e].poll
      BY <1>6, <3>2 DEF EnhancedFill, TypeOK
    <3>3. CASE p = enhanced[e].poll /\ voteCounts' # voteCounts
      <4>1. \A o \in Options : voteCounts'[p][o] \in {voteCounts[p][o], rows[e][o]}
        BY <1>6, <3>3 DEF EnhancedFill, TypeOK
      <4>2. QED BY <1>1, <4>1 DEF Within, NoOvercount
    <3>4. QED BY <3>1, <3>2, <3>3
  <2>2. QED
    BY <1>6, <2>1, CopyingIsSafe DEF EnhancedFill, storeVars, tallyVars
<1>7. CASE EnhancedStore(e)
  <2>1. \A p \in Polls : results'[p] = results[p] \/ results'[p] = rows[e]
    BY <1>7 DEF EnhancedStore, TypeOK
  <2>2. QED
    BY <1>1, <1>7, <2>1, CopyingIsSafe, CopiesWithin
    DEF EnhancedStore, storeVars, tallyVars
<1>8. QED
  BY <1>2, <1>3, <1>4, <1>5, <1>6, <1>7 DEF SubmitEnhancedVote

(* Saving an option an UpdatePoll has read, or a new one, is safe. *)
LEMMA SavingIsSafe ==
  ASSUME TypeOK, NoOvercount, NEW o \in Options, NEW n \in Nat, n <= cast[o],
         option' = SaveOption(o, n), UNCHANGED <<cast, rows, redisVars, shown>>
  PROVE  NoOvercount'
<1>1. \A x \in Options : option'[x].votes = option[x].votes \/ option'[x].votes <= cast[x]
  BY DEF SaveOption, TypeOK, StoreTypeOK, OptionRow
<1>2. QED BY <1>1, CopyingIsSafe DEF redisVars

(* No step of UpdatePoll overcounts: it writes back counts it read.         *)
LEMMA UpdatePollNoOvercount ==
  ASSUME TypeOK, NoOvercount, NEW u \in Editors, UpdatePoll(u)
  PROVE  NoOvercount'
<1>1. u \in Requests /\ edit[u].poll \in Polls
  BY EditInputType DEF Requests
<1>2. CASE UpdatePollLoad(u) \/ UpdatePollSave(u) \/ UpdatePollCheck(u)
  BY <1>2, CopyingIsSafe
  DEF UpdatePollLoad, UpdatePollSave, UpdatePollCheck, storeVars, redisVars, tallyVars
<1>3. CASE UpdatePollExisting(u)
  <2>1. \A r \in Requests : rows'[r] = rows[r] \/ rows'[r] = ReadOptions(edit[u].poll)
    BY <1>3 DEF UpdatePollExisting, TypeOK
  <2>2. QED
    BY <1>1, <1>3, <2>1, CopyingIsSafe, CopiesWithin
    DEF UpdatePollExisting, storeVars, redisVars, tallyVars
<1>4. CASE UpdatePollOption(u)
  <2>1. UNCHANGED <<cast, rows, redisVars, shown>>
    BY <1>4 DEF UpdatePollOption, tallyVars
  <2>2. CASE UNCHANGED option
    BY <2>1, <2>2, CopyingIsSafe DEF redisVars
  <2>3. ASSUME NEW o \in Options, rows[u][o] # Absent, option' = SaveOption(o, rows[u][o])
        PROVE  NoOvercount'
    <3>1. rows[u][o] \in Nat /\ rows[u][o] <= cast[o]
      BY <1>1, <2>3 DEF NoOvercount, TypeOK, ResultSet
    <3>2. QED BY <2>1, <2>3, <3>1, SavingIsSafe
  <2>4. ASSUME NEW x \in Options, option' = SaveOption(x, 0)
        PROVE  NoOvercount'
    <3>1. 0 <= cast[x]
      BY DEF TypeOK
    <3>2. QED BY <2>1, <2>4, <3>1, SavingIsSafe
  <2>5. QED
    BY <1>4, <2>2, <2>3, <2>4 DEF UpdatePollOption, SaveEntry, FreeRows, OptionsOf
<1>5. CASE UpdatePollDrop(u)
  <2>1. \A o \in Options : option'[o].votes = option[o].votes
    BY <1>5, DropOptionKeepsVotes DEF UpdatePollDrop
  <2>2. QED
    BY <1>5, <2>1, CopyingIsSafe DEF UpdatePollDrop, redisVars, tallyVars
<1>6. CASE UpdatePollReload(u)
  <2>1. \A r \in Requests : rows'[r] = rows[r] \/ rows'[r] = NoResults
    BY <1>6 DEF UpdatePollReload, TypeOK
  <2>2. QED
    BY <1>6, <2>1, CopyingIsSafe, CopiesWithin
    DEF UpdatePollReload, storeVars, redisVars, tallyVars
<1>7. QED BY <1>2, <1>3, <1>4, <1>5, <1>6 DEF UpdatePoll

(* No step of ResetPollVotes overcounts.                                    *)
LEMMA ResetPollVotesNoOvercount ==
  ASSUME TypeOK, NoOvercount, NEW s \in Resetters, ResetPollVotes(s)
  PROVE  NoOvercount'
<1>1. CASE ResetPurge(s)
  <2>1. \A p \in Polls : /\ results'[p] = results[p] \/ results'[p] = NoResults
                         /\ voteCounts'[p] = voteCounts[p] \/ voteCounts'[p] = NoResults
    BY <1>1 DEF ResetPurge, TypeOK
  <2>2. QED
    BY <1>1, <2>1, CopyingIsSafe, CopiesWithin DEF ResetPurge, storeVars, tallyVars
<1>2. CASE ResetZero(s)
  <2>1. \A o \in Options : option'[o].votes = option[o].votes \/ option'[o].votes = 0
    BY <1>2 DEF ResetZero, ZeroVotes, TypeOK, StoreTypeOK, OptionRow
  <2>2. \A o \in Options : 0 <= cast[o]
    BY DEF TypeOK
  <2>3. QED
    BY <1>2, <2>1, <2>2, CopyingIsSafe DEF ResetZero, redisVars
<1>3. CASE ResetRead(s)
  <2>1. \A r \in Requests : rows'[r] = rows[r] \/ rows'[r] = ReadOptions(resetting[s])
    BY <1>3 DEF ResetRead, TypeOK
  <2>2. Within(ReadOptions(resetting[s]))
    BY CopiesWithin DEF TypeOK
  <2>3. QED
    BY <1>3, <2>1, <2>2, CopyingIsSafe DEF ResetRead, storeVars, redisVars, tallyVars
<1>4. QED BY <1>1, <1>2, <1>3 DEF ResetPollVotes

(* A broadcast shows a result set that was read.                            *)
LEMMA BroadcastNoOvercount ==
  ASSUME TypeOK, NoOvercount, NEW r \in Requests, Broadcast(r)
  PROVE  NoOvercount'
<1>1. \A q \in Requests : rows'[q] = rows[q] \/ rows'[q] = NoResults
  BY DEF Broadcast, TypeOK
<1>2. \A p \in Polls : shown'[p] = shown[p] \/ shown'[p] = rows[r]
  BY DEF Broadcast, TypeOK
<1>3. QED
  BY <1>1, <1>2, CopyingIsSafe, CopiesWithin DEF Broadcast, storeVars, redisVars, tallyVars

(* Removing keys overcounts nothing.                                        *)
LEMMA RedisStepNoOvercount ==
  ASSUME TypeOK, NoOvercount, RedisStep
  PROVE  NoOvercount'
<1>1. \A p \in Polls : /\ results'[p] = results[p] \/ results'[p] = NoResults
                       /\ voteCounts'[p] = voteCounts[p] \/ voteCounts'[p] = NoResults
  BY DEF RedisStep, LockExpires, CleanupRedisCache, TypeOK
<1>2. QED
  BY <1>1, CopyingIsSafe, CopiesWithin
  DEF RedisStep, LockExpires, CleanupRedisCache, storeVars, tallyVars

(* Neither CreatePoll nor DeletePoll raises a count.                        *)
LEMMA StoreStepNoOvercount ==
  ASSUME TypeOK, NoOvercount, StoreStep
  PROVE  NoOvercount'
<1>1. \A o \in Options : option'[o].votes = option[o].votes \/ option'[o].votes = 0
  BY DEF StoreStep, Tick, CreatePoll, DeletePoll, CheckAndCloseExpiredPolls, TypeOK,
         StoreTypeOK, OptionRow
<1>2. \A o \in Options : 0 <= cast[o]
  BY DEF TypeOK
<1>3. QED
  BY <1>1, <1>2, CopyingIsSafe DEF StoreStep, redisVars, tallyVars

(* No count exceeds the votes cast for its option, in the table, in a copy a *)
(* handler holds, in the caches or at the clients.                          *)
THEOREM CountsStayWithinVotes == Spec => []NoOvercount
<1>1. Init => NoOvercount
  BY DEF Init, StoreInit, HandlersInit, NoOvercount, NoResults, Absent
<1>2. TypeOK /\ NoOvercount /\ [Next]_vars => NoOvercount'
  <2> SUFFICES ASSUME TypeOK, NoOvercount, [Next]_vars PROVE NoOvercount'
    OBVIOUS
  <2>1. CASE UNCHANGED vars
    BY <2>1, CopyingIsSafe DEF vars, storeVars, redisVars, tallyVars
  <2>2. CASE Next
    BY <2>2, SubmitVoteNoOvercount, SubmitEnhancedVoteNoOvercount, UpdatePollNoOvercount,
       ResetPollVotesNoOvercount, BroadcastNoOvercount, RedisStepNoOvercount,
       StoreStepNoOvercount DEF Next, HandlerStep
  <2>3. QED BY <2>1, <2>2
<1>3. QED BY <1>1, <1>2, HandlersTypeOK, PTL DEF Spec

-----------------------------------------------------------------------------
(* OnlyOverlapLosesVotes.  The votes that must be there are the votes cast   *)
(* since the last reset, but for those counted within reach of an           *)
(* UpdatePoll.  What an UpdatePoll will write back covers them, and an       *)
(* option it will delete has none.                                          *)

Owed(o) == cast[o] - castAtReset[o] - window[o]

LossIInv ==
  \A o \in Options \ gone :
    /\ Owed(o) <= VisibleVotes(o)
    /\ \A u \in Holders(o) : Owed(o) <= rows[u][o]
    /\ Droppers(o) # {} => Owed(o) <= 0

(* An editor that another step does not touch. *)

EditorKept(u) ==
  /\ pc'[u] = pc[u] /\ rows'[u] = rows[u]
  /\ at'[u] = at[u] /\ victim'[u] = victim[u] /\ edit'[u] = edit[u]

(* A step of another request leaves an editor where it is. *)
LEMMA VotersKeepEditors ==
  ASSUME TypeOK, NEW u \in Editors, NEW v \in Voters, SubmitVote(v)
  PROVE  EditorKept(u)
<1>1. u # v /\ u \in Requests
  BY HandlersAssumption DEF Ballots, Requests
<1>2. CASE SubmitVoteLock(v)
  BY <1>1, <1>2
  DEF SubmitVoteLock, SetVoteLock, Goto, Answer, EditorKept, TypeOK, inputVars, editVars
<1>3. CASE SubmitVoteLoad(v)
  BY <1>1, <1>3 DEF SubmitVoteLoad, Goto, Answer, EditorKept, TypeOK, inputVars, editVars
<1>4. CASE SubmitVoteCount(v)
  BY <1>1, <1>4 DEF SubmitVoteCount, Goto, EditorKept, TypeOK, inputVars, editVars
<1>5. CASE SubmitVotePurge(v)
  BY <1>1, <1>5 DEF SubmitVotePurge, Proceed, Goto, EditorKept, TypeOK, inputVars, editVars
<1>6. CASE SubmitVoteRead(v)
  BY <1>1, <1>6 DEF SubmitVoteRead, Answer, Goto, EditorKept, TypeOK, inputVars, editVars
<1>7. QED BY <1>2, <1>3, <1>4, <1>5, <1>6 DEF SubmitVote

(* The same for SubmitEnhancedVote.                                         *)
LEMMA EnhancedVotersKeepEditors ==
  ASSUME TypeOK, NEW u \in Editors, NEW e \in EnhancedVoters, SubmitEnhancedVote(e)
  PROVE  EditorKept(u)
<1>1. u # e /\ u \in Requests
  BY HandlersAssumption DEF Ballots, Requests
<1>2. CASE EnhancedLoad(e)
  BY <1>1, <1>2 DEF EnhancedLoad, Goto, Answer, EditorKept, TypeOK, inputVars, editVars
<1>3. CASE EnhancedPurge(e)
  BY <1>1, <1>3 DEF EnhancedPurge, Proceed, Goto, EditorKept, TypeOK, inputVars, editVars
<1>4. CASE EnhancedCommit(e)
  BY <1>1, <1>4 DEF EnhancedCommit, Goto, Answer, EditorKept, TypeOK, inputVars, editVars
<1>5. CASE EnhancedRead(e)
  BY <1>1, <1>5 DEF EnhancedRead, Goto, Answer, EditorKept, TypeOK, inputVars, editVars
<1>6. CASE EnhancedFill(e)
  BY <1>1, <1>6 DEF EnhancedFill, Proceed, Goto, EditorKept, TypeOK, inputVars, editVars
<1>7. CASE EnhancedStore(e)
  BY <1>1, <1>7 DEF EnhancedStore, Goto, Answer, EditorKept, TypeOK, inputVars, editVars
<1>8. CASE EnhancedVerify(e)
  BY <1>1, <1>8 DEF EnhancedVerify, Proceed, Goto, EditorKept, TypeOK, inputVars, editVars
<1>9. QED
  BY <1>2, <1>3, <1>4, <1>5, <1>6, <1>7, <1>8 DEF SubmitEnhancedVote

(* The same for the UpdatePoll of another editor.                           *)
LEMMA EditorsKeepEditors ==
  ASSUME TypeOK, NEW u \in Editors, NEW w \in Editors, u # w, UpdatePoll(w)
  PROVE  EditorKept(u)
<1>1. u \in Requests
  BY DEF Requests
<1>2. CASE UpdatePollLoad(w)
  BY <1>1, <1>2 DEF UpdatePollLoad, Goto, Answer, EditorKept, TypeOK, inputVars, editVars
<1>3. CASE UpdatePollSave(w)
  BY <1>1, <1>3 DEF UpdatePollSave, Goto, Answer, EditorKept, TypeOK, inputVars, editVars
<1>4. CASE UpdatePollExisting(w)
  BY <1>1, <1>4 DEF UpdatePollExisting, Goto, Answer, EditorKept, TypeOK, inputVars, editVars
<1>5. CASE UpdatePollOption(w)
  BY <1>1, <1>5 DEF UpdatePollOption, Goto, EditorKept, TypeOK, inputVars, editVars
<1>6. CASE UpdatePollCheck(w)
  BY <1>1, <1>6 DEF UpdatePollCheck, Goto, EditorKept, TypeOK, inputVars, editVars
<1>7. CASE UpdatePollDrop(w)
  BY <1>1, <1>7 DEF UpdatePollDrop, Proceed, Goto, EditorKept, TypeOK, inputVars, editVars
<1>8. CASE UpdatePollReload(w)
  BY <1>1, <1>8 DEF UpdatePollReload, Goto, Answer, EditorKept, TypeOK, inputVars, editVars
<1>9. QED
  BY <1>2, <1>3, <1>4, <1>5, <1>6, <1>7, <1>8 DEF UpdatePoll

(* The same for ResetPollVotes.                                             *)
LEMMA ResettersKeepEditors ==
  ASSUME TypeOK, NEW u \in Editors, NEW s \in Resetters, ResetPollVotes(s)
  PROVE  EditorKept(u)
<1>1. u # s /\ u \in Requests
  BY HandlersAssumption DEF Requests
<1>2. CASE ResetPurge(s)
  BY <1>1, <1>2 DEF ResetPurge, Proceed, Goto, EditorKept, TypeOK, inputVars, editVars
<1>3. CASE ResetZero(s)
  BY <1>1, <1>3 DEF ResetZero, Goto, Answer, EditorKept, TypeOK, inputVars, editVars
<1>4. CASE ResetRead(s)
  BY <1>1, <1>4 DEF ResetRead, Goto, Answer, EditorKept, TypeOK, inputVars, editVars
<1>5. QED BY <1>2, <1>3, <1>4 DEF ResetPollVotes

EditorsStay == \A u \in Editors : EditorKept(u) \/ pc'[u] \notin {"edit", "drop"}

(* A broadcast leaves another editor alone and does not bring its own back.  *)
LEMMA BroadcastKeepsEditors ==
  ASSUME TypeOK, NEW r \in Requests, Broadcast(r)
  PROVE  EditorsStay
<1> SUFFICES ASSUME NEW u \in Editors PROVE EditorKept(u) \/ pc'[u] \notin {"edit", "drop"}
  BY DEF EditorsStay
<1>1. u \in Requests
  BY DEF Requests
<1>2. CASE r = u
  BY <1>1, <1>2 DEF Broadcast, Goto, TypeOK
<1>3. CASE r # u
  BY <1>1, <1>3 DEF Broadcast, Goto, EditorKept, TypeOK, inputVars, editVars
<1>4. QED BY <1>2, <1>3

(* Types of what the invariant compares. *)
LEMMA OwedType ==
  ASSUME TypeOK, NEW o \in Options
  PROVE  Owed(o) \in Int /\ VisibleVotes(o) \in Nat /\ Owed(o) = cast[o] - castAtReset[o] - window[o]
BY DEF TypeOK, StoreTypeOK, OptionRow, Owed, VisibleVotes

(* Who stays where it is held and dropped options before. *)
LEMMA StayersReach ==
  ASSUME EditorsStay, NEW o \in Options
  PROVE  /\ Droppers(o)' \subseteq Droppers(o)
         /\ \A u \in Holders(o)' : u \in Holders(o) /\ rows'[u][o] = rows[u][o]
BY DEF EditorsStay, EditorKept, Holders, Droppers

(* A step that neither counts nor resets, and hides no vote. *)
LEMMA QuietStepLosesNothing ==
  ASSUME LossIInv, EditorsStay, gone \subseteq gone',
         UNCHANGED <<cast, castAtReset, window>>,
         \A o \in Options \ gone' : VisibleVotes(o)' = VisibleVotes(o)
  PROVE  LossIInv'
<1> SUFFICES ASSUME NEW o \in Options \ gone'
             PROVE  /\ Owed(o)' <= VisibleVotes(o)'
                    /\ \A u \in Holders(o)' : Owed(o)' <= rows'[u][o]
                    /\ Droppers(o)' # {} => Owed(o)' <= 0
  BY DEF LossIInv
<1>1. Owed(o)' = Owed(o) /\ VisibleVotes(o)' = VisibleVotes(o)
  BY DEF Owed
<1>2. QED BY <1>1, StayersReach DEF LossIInv

(* A vote adds to a visible count what it adds to the votes cast, and to the *)
(* window of an option within reach of an UpdatePoll.                       *)
LEMMA CountingLosesNothing ==
  ASSUME TypeOK, LossIInv, EditorsStay, NEW b \in Ballots,
         NEW add \in [Options -> Nat], Count(b, add)
  PROVE  LossIInv'
<1> SUFFICES ASSUME NEW o \in Options \ gone
             PROVE  /\ Owed(o)' <= VisibleVotes(o)'
                    /\ \A u \in Holders(o)' : Owed(o)' <= rows'[u][o]
                    /\ Droppers(o)' # {} => Owed(o)' <= 0
  BY DEF LossIInv, Count
<1>1. /\ option'[o].votes = option[o].votes + add[o]
      /\ option'[o].state = option[o].state
      /\ cast'[o] = cast[o] + add[o]
      /\ window'[o] = IF Exposed(o) THEN window[o] + add[o] ELSE window[o]
      /\ castAtReset'[o] = castAtReset[o]
      /\ option[o].votes \in Nat /\ add[o] \in Nat /\ cast[o] \in Nat
      /\ castAtReset[o] \in Nat /\ window[o] \in Nat
  BY DEF Count, AddVotes, TypeOK, StoreTypeOK, OptionRow
<1>2. /\ Exposed(o) => Owed(o)' = Owed(o)
      /\ Owed(o)' <= Owed(o) + add[o]
      /\ Owed(o) \in Int /\ Owed(o)' \in Int
  BY <1>1 DEF Owed
<1>3. Owed(o) <= VisibleVotes(o)
  BY DEF LossIInv
<1>4. Owed(o)' <= VisibleVotes(o)'
  <2>1. CASE option[o].state = "live"
    <3>1. VisibleVotes(o)' = VisibleVotes(o) + add[o] /\ VisibleVotes(o) \in Nat
      BY <1>1, <2>1 DEF VisibleVotes
    <3>2. QED BY <1>1, <1>2, <1>3, <3>1
  <2>2. CASE option[o].state # "live"
    <3>1. Exposed(o)
      BY <2>2 DEF Exposed
    <3>2. VisibleVotes(o)' = 0 /\ VisibleVotes(o) = 0
      BY <1>1, <2>2 DEF VisibleVotes
    <3>3. QED BY <1>2, <1>3, <3>1, <3>2
  <2>3. QED BY <2>1, <2>2
<1>5. ASSUME NEW u \in Holders(o)' PROVE Owed(o)' <= rows'[u][o]
  <2>1. u \in Holders(o) /\ rows'[u][o] = rows[u][o]
    BY StayersReach
  <2>2. Exposed(o) /\ Owed(o) <= rows[u][o]
    BY <2>1 DEF Exposed, LossIInv
  <2>3. QED BY <1>2, <2>1, <2>2
<1>6. ASSUME Droppers(o)' # {} PROVE Owed(o)' <= 0
  <2>1. Droppers(o) # {}
    BY <1>6, StayersReach
  <2>2. Exposed(o) /\ Owed(o) <= 0
    BY <2>1 DEF Exposed, LossIInv
  <2>3. QED BY <1>2, <2>2
<1>7. QED BY <1>4, <1>5, <1>6

(* A step of SubmitVote loses no vote.                                      *)
LEMMA SubmitVoteLosesNothing ==
  ASSUME TypeOK, LossIInv, NEW v \in Voters, SubmitVote(v)
  PROVE  LossIInv'
<1>1. EditorsStay /\ v \in Ballots
  BY VotersKeepEditors DEF EditorsStay, Ballots
<1>2. CASE UNCHANGED <<option, tallyVars>>
  BY <1>1, <1>2, QuietStepLosesNothing DEF tallyVars, VisibleVotes
<1>3. CASE SubmitVoteCount(v)
  <2>1. PICK o \in todo[v] : Count(v, [x \in Options |-> IF x = o THEN 1 ELSE 0]) \/ NotCounted
    BY <1>3 DEF SubmitVoteCount
  <2>2. [x \in Options |-> IF x = o THEN 1 ELSE 0] \in [Options -> Nat]
    OBVIOUS
  <2>3. QED
    BY <1>1, <1>2, <2>1, <2>2, CountingLosesNothing DEF NotCounted, storeVars
<1>4. QED
  BY <1>2, <1>3
  DEF SubmitVote, SubmitVoteLock, SubmitVoteLoad, SubmitVotePurge, SubmitVoteRead, storeVars

(* A step of SubmitEnhancedVote loses no vote.                              *)
LEMMA SubmitEnhancedVoteLosesNothing ==
  ASSUME TypeOK, LossIInv, NEW e \in EnhancedVoters, SubmitEnhancedVote(e)
  PROVE  LossIInv'
<1>1. EditorsStay /\ e \in Ballots
  BY EnhancedVotersKeepEditors DEF EditorsStay, Ballots
<1>2. CASE UNCHANGED <<option, tallyVars>>
  BY <1>1, <1>2, QuietStepLosesNothing DEF tallyVars, VisibleVotes
<1>3. CASE EnhancedCommit(e)
  BY <1>1, <1>2, <1>3, EnhancedInputType, CountingLosesNothing
  DEF EnhancedCommit, NotCounted, storeVars
<1>4. QED
  BY <1>2, <1>3
  DEF SubmitEnhancedVote, EnhancedLoad, EnhancedPurge, EnhancedRead, EnhancedFill,
      EnhancedStore, EnhancedVerify, storeVars

(* A step of UpdatePoll that leaves the options alone and its editor neither *)
(* with a copy of an option nor about to delete one.                        *)
LEMMA PlainEditLosesNothing ==
  ASSUME TypeOK, LossIInv, NEW u \in Editors, UpdatePoll(u), UNCHANGED option,
         EditorKept(u) \/ pc'[u] \notin {"edit", "drop"}
  PROVE  LossIInv'
<1>1. EditorsStay
  BY EditorsKeepEditors DEF EditorsStay
<1>2. UNCHANGED tallyVars
  BY DEF UpdatePoll, UpdatePollLoad, UpdatePollSave, UpdatePollExisting,
         UpdatePollOption, UpdatePollCheck, UpdatePollDrop, UpdatePollReload
<1>3. QED BY <1>1, <1>2, QuietStepLosesNothing DEF tallyVars, VisibleVotes

(* What the other editors hold and will delete when editor u moves. *)
LEMMA OtherEditorsReach ==
  ASSUME TypeOK, NEW u \in Editors, UpdatePoll(u), NEW o \in Options
  PROVE  /\ \A w \in Droppers(o)' : w = u \/ w \in Droppers(o)
         /\ \A w \in Holders(o)' : w = u \/ (w \in Holders(o) /\ rows'[w][o] = rows[w][o])
BY EditorsKeepEditors DEF EditorKept, Holders, Droppers

(* An editor that has just read the options holds the visible votes.        *)
LEMMA ReadingLosesNothing ==
  ASSUME TypeOK, LossIInv, NEW u \in Editors, UpdatePollExisting(u)
  PROVE  LossIInv'
<1>1. u \in Requests /\ UpdatePoll(u)
  BY DEF Requests, UpdatePoll
<1>2. UNCHANGED <<option, tallyVars>>
  BY DEF UpdatePollExisting, storeVars
<1>3. CASE pc'[u] # "edit"
  BY <1>1, <1>2, <1>3, PlainEditLosesNothing DEF UpdatePollExisting, Answer, Goto, TypeOK
<1>4. CASE pc'[u] = "edit"
  <2>1. rows'[u] = ReadOptions(edit[u].poll)
    BY <1>1, <1>4 DEF UpdatePollExisting, Goto, Answer, TypeOK
  <2> SUFFICES ASSUME NEW o \in Options \ gone
               PROVE  /\ Owed(o)' <= VisibleVotes(o)'
                      /\ \A w \in Holders(o)' : Owed(o)' <= rows'[w][o]
                      /\ Droppers(o)' # {} => Owed(o)' <= 0
    BY <1>2 DEF LossIInv, tallyVars
  <2>2. Owed(o)' = Owed(o) /\ VisibleVotes(o)' = VisibleVotes(o)
    BY <1>2 DEF Owed, VisibleVotes, tallyVars
  <2>3. u \in Holders(o)' => rows'[u][o] = VisibleVotes(o)
    BY <2>1 DEF Holders, ReadOptions, LiveOptions, VisibleVotes
  <2>4. u \notin Droppers(o)'
    BY <1>4 DEF Droppers
  <2>5. QED BY <1>1, <2>2, <2>3, <2>4, OtherEditorsReach DEF LossIInv
<1>5. QED BY <1>3, <1>4

(* Writing an option back, or a new one, loses only what the copy lacks.     *)
LEMMA SavingLosesNothing ==
  ASSUME TypeOK, LossIInv, NEW u \in Editors, UpdatePollOption(u)
  PROVE  LossIInv'
<1>1. u \in Requests /\ UpdatePoll(u)
  BY DEF Requests, UpdatePoll
<1>2. UNCHANGED <<rows, edit, victim, tallyVars>>
  BY DEF UpdatePollOption, inputVars
<1>3. pc[u] = "edit" /\ pc'[u] \in {"edit", "prune"} /\ at'[u] = at[u] + 1
  BY <1>1 DEF UpdatePollOption, Goto, TypeOK
<1>4. at[u] \in 1 .. Len(edit[u].opts)
  BY EditInputType DEF UpdatePollOption, TypeOK
<1> SUFFICES ASSUME NEW o \in Options \ gone
             PROVE  /\ Owed(o)' <= VisibleVotes(o)'
                    /\ \A w \in Holders(o)' : Owed(o)' <= rows'[w][o]
                    /\ Droppers(o)' # {} => Owed(o)' <= 0
  BY <1>2 DEF LossIInv, tallyVars
<1>5. Owed(o)' = Owed(o)
  BY <1>2 DEF Owed, tallyVars
<1>6. u \in Holders(o)' => u \in Holders(o)
  <2>1. at[u] \in Nat /\ \A i \in at[u] + 1 .. Len(edit[u].opts) : i \in at[u] .. Len(edit[u].opts)
    BY <1>4, EditInputType
  <2>2. QED BY <1>2, <1>3, <2>1 DEF Holders
<1>7. u \notin Droppers(o)'
  BY <1>3 DEF Droppers
<1>8. VisibleVotes(o)' = VisibleVotes(o) \/ Owed(o) <= VisibleVotes(o)'
  <2> DEFINE e == edit[u].opts[at[u]]
  <2>1. CASE UNCHANGED option
    BY <2>1 DEF VisibleVotes
  <2>2. CASE e \in Options /\ rows[u][e] # Absent /\ option' = SaveOption(e, rows[u][e])
    <3>1. CASE e # o
      BY <2>2, <3>1 DEF SaveOption, VisibleVotes, TypeOK, StoreTypeOK
    <3>2. CASE e = o
      <4>1. u \in Holders(o)
        BY <1>3, <1>4, <2>2, <3>2 DEF Holders
      <4>2. Owed(o) <= rows[u][o]
        BY <4>1 DEF LossIInv
      <4>3. VisibleVotes(o)' = rows[u][o]
        BY <2>2, <3>2 DEF SaveOption, VisibleVotes, TypeOK, StoreTypeOK
      <4>4. QED BY <4>2, <4>3
    <3>3. QED BY <3>1, <3>2
  <2>3. ASSUME NEW x \in FreeRows(edit[u].poll), option' = SaveOption(x, 0)
        PROVE  VisibleVotes(o)' = VisibleVotes(o)
    <3>1. x \in Options /\ option[x].state = "unused"
      BY DEF FreeRows, OptionsOf
    <3>2. QED BY <2>3, <3>1 DEF SaveOption, VisibleVotes, TypeOK, StoreTypeOK
  <2>4. SaveEntry(u, e)
    BY DEF UpdatePollOption
  <2> HIDE DEF e
  <2>5. QED BY <2>1, <2>2, <2>3, <2>4 DEF SaveEntry
<1>9. QED BY <1>1, <1>2, <1>5, <1>6, <1>7, <1>8, OtherEditorsReach DEF LossIInv

(* An option an editor will delete had no visible vote when it looked.      *)
LEMMA CheckingLosesNothing ==
  ASSUME TypeOK, LossIInv, NEW u \in Editors, UpdatePollCheck(u)
  PROVE  LossIInv'
<1>1. u \in Requests /\ UpdatePoll(u) /\ pc[u] = "prune"
  BY DEF Requests, UpdatePoll, UpdatePollCheck
<1>2. UNCHANGED <<option, tallyVars>>
  BY DEF UpdatePollCheck, storeVars
<1>3. CASE pc'[u] # "drop"
  <2>1. pc'[u] = "prune"
    BY <1>1, <1>3 DEF UpdatePollCheck, Goto, TypeOK
  <2>2. QED BY <1>1, <1>2, <2>1, PlainEditLosesNothing
<1>4. CASE pc'[u] = "drop"
  <2>1. PICK x \in todo[u] : /\ option[x].state # "live" \/ option[x].votes = 0
                             /\ victim' = [victim EXCEPT ![u] = x]
    BY <1>1, <1>4 DEF UpdatePollCheck
  <2> SUFFICES ASSUME NEW o \in Options \ gone
               PROVE  /\ Owed(o)' <= VisibleVotes(o)'
                      /\ \A w \in Holders(o)' : Owed(o)' <= rows'[w][o]
                      /\ Droppers(o)' # {} => Owed(o)' <= 0
    BY <1>2 DEF LossIInv, tallyVars
  <2>2. Owed(o)' = Owed(o) /\ VisibleVotes(o)' = VisibleVotes(o)
    BY <1>2 DEF Owed, VisibleVotes, tallyVars
  <2>3. u \notin Holders(o)'
    BY <1>4 DEF Holders
  <2>4. u \in Droppers(o)' => Owed(o) <= 0
    <3>1. u \in Droppers(o)' => VisibleVotes(o) = 0
      BY <2>1 DEF Droppers, VisibleVotes, TypeOK
    <3>2. QED BY <3>1 DEF LossIInv
  <2>5. QED BY <1>1, <2>2, <2>3, <2>4, OtherEditorsReach DEF LossIInv
<1>5. QED BY <1>3, <1>4

(* Nothing is owed on an option that an editor deletes.                     *)
LEMMA DroppingLosesNothing ==
  ASSUME TypeOK, LossIInv, NEW u \in Editors, UpdatePollDrop(u)
  PROVE  LossIInv'
<1>1. u \in Requests /\ UpdatePoll(u) /\ pc[u] = "drop" /\ pc'[u] = "prune"
  BY DEF Requests, UpdatePoll, UpdatePollDrop, Proceed, Goto, TypeOK
<1>2. UNCHANGED tallyVars /\ victim[u] \in Options
  BY DEF UpdatePollDrop
<1> SUFFICES ASSUME NEW o \in Options \ gone
             PROVE  /\ Owed(o)' <= VisibleVotes(o)'
                    /\ \A w \in Holders(o)' : Owed(o)' <= rows'[w][o]
                    /\ Droppers(o)' # {} => Owed(o)' <= 0
  BY <1>2 DEF LossIInv, tallyVars
<1>3. Owed(o)' = Owed(o)
  BY <1>2 DEF Owed, tallyVars
<1>4. u \notin Holders(o)' /\ u \notin Droppers(o)'
  BY <1>1 DEF Holders, Droppers
<1>5. Owed(o) <= VisibleVotes(o)'
  <2>1. CASE UNCHANGED option
    BY <2>1 DEF LossIInv, VisibleVotes
  <2>2. CASE option' = DropOption(victim[u]) /\ victim[u] # o
    <3>1. option'[o] = option[o]
      BY <1>2, <2>2 DEF DropOption, TypeOK, StoreTypeOK
    <3>2. QED BY <3>1 DEF LossIInv, VisibleVotes
  <2>3. CASE option' = DropOption(victim[u]) /\ victim[u] = o
    <3>1. Droppers(o) # {}
      BY <1>1, <2>3 DEF Droppers
    <3>2. VisibleVotes(o)' = 0
      BY <2>3 DEF DropOption, VisibleVotes, TypeOK, StoreTypeOK, OptionRow
    <3>3. QED BY <3>1, <3>2 DEF LossIInv
  <2>4. QED BY <2>1, <2>2, <2>3 DEF UpdatePollDrop
<1>6. QED BY <1>1, <1>3, <1>4, <1>5, OtherEditorsReach DEF LossIInv

(* A step of UpdatePoll loses only votes counted within its reach.          *)
LEMMA UpdatePollLosesNothing ==
  ASSUME TypeOK, LossIInv, NEW u \in Editors, UpdatePoll(u)
  PROVE  LossIInv'
<1>1. CASE UpdatePollLoad(u) \/ UpdatePollSave(u) \/ UpdatePollReload(u)
  <2>1. u \in Requests
    BY DEF Requests
  <2>2. UNCHANGED option /\ pc'[u] \notin {"edit", "drop"}
    BY <1>1, <2>1
    DEF UpdatePollLoad, UpdatePollSave, UpdatePollReload, Goto, Answer, TypeOK, storeVars
  <2>3. QED BY <2>2, PlainEditLosesNothing
<1>2. QED
  BY <1>1, ReadingLosesNothing, SavingLosesNothing, CheckingLosesNothing,
     DroppingLosesNothing DEF UpdatePoll

(* A step of ResetPollVotes loses only the votes it resets.                 *)
LEMMA ResetPollVotesLosesNothing ==
  ASSUME TypeOK, LossIInv, NEW s \in Resetters, ResetPollVotes(s)
  PROVE  LossIInv'
<1>1. EditorsStay
  BY ResettersKeepEditors DEF EditorsStay
<1>2. CASE UNCHANGED <<option, tallyVars>>
  BY <1>1, <1>2, QuietStepLosesNothing DEF tallyVars, VisibleVotes
<1>3. CASE ResetZero(s) /\ option' = ZeroVotes(resetting[s])
           /\ castAtReset' = [o \in Options |-> IF o \in LiveOptions(resetting[s])
                                                THEN cast[o] ELSE castAtReset[o]]
  <2>1. UNCHANGED <<cast, window, gone>>
    BY <1>3 DEF ResetZero
  <2> SUFFICES ASSUME NEW o \in Options \ gone
               PROVE  /\ Owed(o)' <= VisibleVotes(o)'
                      /\ \A u \in Holders(o)' : Owed(o)' <= rows'[u][o]
                      /\ Droppers(o)' # {} => Owed(o)' <= 0
    BY <2>1 DEF LossIInv
  <2>2. CASE o \notin LiveOptions(resetting[s])
    <3>1. option'[o] = option[o] /\ castAtReset'[o] = castAtReset[o]
      BY <1>3, <2>2 DEF ZeroVotes
    <3>2. Owed(o)' = Owed(o) /\ VisibleVotes(o)' = VisibleVotes(o)
      BY <2>1, <3>1 DEF Owed, VisibleVotes
    <3>3. QED BY <1>1, <3>2, StayersReach DEF LossIInv
  <2>3. CASE o \in LiveOptions(resetting[s])
    <3>1. castAtReset'[o] = cast[o] /\ cast[o] \in Nat /\ window[o] \in Nat
      BY <1>3, <2>3 DEF TypeOK
    <3>2. Owed(o)' \in Int /\ Owed(o)' <= 0
      BY <2>1, <3>1 DEF Owed
    <3>3. VisibleVotes(o)' = 0
      BY <1>3, <2>3 DEF ZeroVotes, VisibleVotes, TypeOK, StoreTypeOK, OptionRow
    <3>4. \A u \in Holders(o)' : rows'[u][o] \in Nat
      <4> SUFFICES ASSUME NEW u \in Holders(o)' PROVE rows'[u][o] \in Nat
        OBVIOUS
      <4>1. u \in Editors /\ rows[u][o] # Absent /\ rows'[u][o] = rows[u][o]
        BY <1>1, StayersReach DEF Holders
      <4>2. QED BY <4>1 DEF TypeOK, ResultSet, Requests
    <3>5. QED BY <3>2, <3>3, <3>4
  <2>4. QED BY <2>2, <2>3
<1>4. QED
  BY <1>2, <1>3 DEF ResetPollVotes, ResetPurge, ResetZero, ResetRead, storeVars, tallyVars

(* The clock, CreatePoll and the checker lose no vote; DeletePoll takes the  *)
(* options of its poll away with it.                                        *)
LEMMA StoreStepLosesNothing ==
  ASSUME TypeOK, LossIInv, StoreStep
  PROVE  LossIInv'
<1>1. EditorsStay
  BY DEF StoreStep, EditorsStay, EditorKept, inputVars, editVars
<1>2. UNCHANGED <<cast, castAtReset, window>> /\ gone \subseteq gone'
  BY DEF StoreStep
<1>3. ASSUME NEW o \in Options \ gone' PROVE VisibleVotes(o)' = VisibleVotes(o)
  <2>1. CASE UNCHANGED option
    BY <2>1 DEF VisibleVotes
  <2>2. ASSUME NEW p \in Polls, NEW new \in NewPolls, CreatePoll(p, new)
        PROVE  VisibleVotes(o)' = VisibleVotes(o)
    BY <2>2 DEF CreatePoll, VisibleVotes, TypeOK, StoreTypeOK
  <2>3. ASSUME NEW p \in Polls, DeletePoll(p), gone' = gone \cup LiveOptions(p)
        PROVE  VisibleVotes(o)' = VisibleVotes(o)
    BY <1>3, <2>3 DEF DeletePoll, VisibleVotes, TypeOK, StoreTypeOK
  <2>4. QED
    BY <2>1, <2>2, <2>3 DEF StoreStep, Tick, CheckAndCloseExpiredPolls
<1>4. QED BY <1>1, <1>2, <1>3, QuietStepLosesNothing

(* Neither a broadcast nor a removed key loses a vote.                      *)
LEMMA OtherStepsLoseNothing ==
  ASSUME TypeOK, LossIInv,
         RedisStep \/ (\E r \in Requests : Broadcast(r)) \/ UNCHANGED vars
  PROVE  LossIInv'
<1>1. UNCHANGED <<option, tallyVars>>
  BY DEF RedisStep, LockExpires, CleanupRedisCache, Broadcast, vars, storeVars
<1>2. RedisStep \/ UNCHANGED vars => EditorsStay
  BY DEF EditorsStay, EditorKept, RedisStep, LockExpires, CleanupRedisCache, vars,
         inputVars, editVars
<1>3. EditorsStay
  BY <1>2, BroadcastKeepsEditors
<1>4. QED BY <1>1, <1>3, QuietStepLosesNothing DEF tallyVars, VisibleVotes

(* While its poll is not deleted, a counted vote leaves the results only by  *)
(* a reset, or if an UpdatePoll held its option, had found it without votes  *)
(* and not yet deleted it, or had deleted it when the vote was counted.     *)
THEOREM OnlyOverlappingEditsLoseVotes == Spec => []OnlyOverlapLosesVotes
<1>1. Init => LossIInv
  BY DEF Init, StoreInit, HandlersInit, LossIInv, Owed, VisibleVotes, Holders, Droppers,
         Requests
<1>2. TypeOK /\ LossIInv /\ [Next]_vars => LossIInv'
  BY SubmitVoteLosesNothing, SubmitEnhancedVoteLosesNothing, UpdatePollLosesNothing,
     ResetPollVotesLosesNothing, StoreStepLosesNothing, OtherStepsLoseNothing
  DEF Next, HandlerStep
<1>3. TypeOK /\ LossIInv => OnlyOverlapLosesVotes
  <2> SUFFICES ASSUME TypeOK, LossIInv, NEW o \in Options \ gone
               PROVE  VisibleVotes(o) + window[o] >= cast[o] - castAtReset[o]
    BY DEF OnlyOverlapLosesVotes
  <2>1. Owed(o) <= VisibleVotes(o)
    BY DEF LossIInv
  <2>2. QED BY <2>1, OwedType DEF TypeOK
<1>4. QED BY <1>1, <1>2, <1>3, HandlersTypeOK, PTL DEF Spec

-----------------------------------------------------------------------------
(* ResetIsFinal.  Without an UpdatePoll nothing writes an old count back; a  *)
(* reset notes the votes cast before it.                                    *)

FinalIInv == ResetIsFinal /\ \A o \in Options : castAtReset[o] <= cast[o]

(* A step that adds to a count what it adds to the votes cast, or sets the   *)
(* count to zero and at most notes it.                                      *)
LEMMA StepsThatKeepResets ==
  ASSUME TypeOK, TypeOK', FinalIInv,
         \A o \in Options :
           \/ /\ castAtReset'[o] = castAtReset[o]
              /\ \E n \in Nat : /\ option'[o].votes = option[o].votes + n
                                /\ cast'[o] = cast[o] + n
           \/ /\ option'[o].votes = 0 /\ cast'[o] = cast[o]
              /\ castAtReset'[o] \in {castAtReset[o], cast[o]}
  PROVE  FinalIInv'
<1> SUFFICES ASSUME NEW o \in Options
             PROVE  /\ option'[o].votes <= cast'[o] - castAtReset'[o]
                    /\ castAtReset'[o] <= cast'[o]
  BY DEF FinalIInv, ResetIsFinal
<1>1. /\ option[o].votes \in Nat /\ option'[o].votes \in Nat
      /\ cast[o] \in Nat /\ cast'[o] \in Nat
      /\ castAtReset[o] \in Nat /\ castAtReset'[o] \in Nat
  BY DEF TypeOK, StoreTypeOK, OptionRow
<1>2. option[o].votes <= cast[o] - castAtReset[o] /\ castAtReset[o] <= cast[o]
  BY DEF FinalIInv, ResetIsFinal
<1>3. QED BY <1>1, <1>2

LEMMA SteadyStepsKeepResets ==
  ASSUME TypeOK, TypeOK', FinalIInv, UNCHANGED <<option, cast, castAtReset>>
  PROVE  FinalIInv'
BY DEF FinalIInv, ResetIsFinal

LEMMA CountingKeepsResets ==
  ASSUME TypeOK, TypeOK', FinalIInv, NEW b \in Ballots, NEW add \in [Options -> Nat],
         Count(b, add)
  PROVE  FinalIInv'
<1>1. ASSUME NEW o \in Options
      PROVE  /\ castAtReset'[o] = castAtReset[o]
             /\ option'[o].votes = option[o].votes + add[o]
             /\ cast'[o] = cast[o] + add[o]
  BY DEF Count, AddVotes, TypeOK, StoreTypeOK, OptionRow
<1>2. QED BY <1>1, StepsThatKeepResets

(* Every step but those of UpdatePoll. *)
LEMMA NextKeepsResets ==
  ASSUME Editors = {}, TypeOK, TypeOK', FinalIInv, [Next]_vars
  PROVE  FinalIInv'
<1>1. CASE UNCHANGED vars \/ RedisStep \/ (\E r \in Requests : Broadcast(r))
  BY <1>1, SteadyStepsKeepResets
  DEF vars, storeVars, tallyVars, RedisStep, LockExpires, CleanupRedisCache, Broadcast
<1>2. CASE StoreStep
  <2>1. UNCHANGED <<cast, castAtReset>>
    BY <1>2 DEF StoreStep, tallyVars
  <2>2. \A o \in Options : option'[o].votes = option[o].votes \/ option'[o].votes = 0
    BY <1>2
    DEF StoreStep, Tick, CreatePoll, DeletePoll, CheckAndCloseExpiredPolls, TypeOK,
        StoreTypeOK, OptionRow
  <2>3. \A o \in Options :
          \/ option'[o].votes = 0
          \/ option'[o].votes = option[o].votes + 0 /\ cast'[o] = cast[o] + 0
    BY <2>1, <2>2 DEF TypeOK, StoreTypeOK, OptionRow
  <2>4. QED BY <2>1, <2>3, StepsThatKeepResets
<1>3. ASSUME NEW v \in Voters, SubmitVote(v) PROVE FinalIInv'
  <2>1. CASE SubmitVoteCount(v)
    <3>1. v \in Ballots /\ \A o : [x \in Options |-> IF x = o THEN 1 ELSE 0] \in [Options -> Nat]
      BY DEF Ballots
    <3>2. QED
      BY <2>1, <3>1, CountingKeepsResets, SteadyStepsKeepResets
      DEF SubmitVoteCount, NotCounted, storeVars, tallyVars
  <2>2. QED
    BY <1>3, <2>1, SteadyStepsKeepResets
    DEF SubmitVote, SubmitVoteLock, SubmitVoteLoad, SubmitVotePurge, SubmitVoteRead,
        storeVars, tallyVars
<1>4. ASSUME NEW e \in EnhancedVoters, SubmitEnhancedVote(e) PROVE FinalIInv'
  <2>1. CASE EnhancedCommit(e)
    <3>1. e \in Ballots /\ enhanced[e].times \in [Options -> Nat]
      BY HandlersAssumption DEF Ballots, TypeOK, EnhancedVoteInput
    <3>2. QED
      BY <2>1, <3>1, CountingKeepsResets, SteadyStepsKeepResets
      DEF EnhancedCommit, NotCounted, storeVars, tallyVars
  <2>2. QED
    BY <1>4, <2>1, SteadyStepsKeepResets
    DEF SubmitEnhancedVote, EnhancedLoad, EnhancedPurge, EnhancedRead, EnhancedFill,
        EnhancedStore, EnhancedVerify, storeVars, tallyVars
<1>5. ASSUME NEW s \in Resetters, ResetPollVotes(s) PROVE FinalIInv'
  <2>1. CASE UNCHANGED <<option, cast, castAtReset>>
    BY <2>1, SteadyStepsKeepResets
  <2>2. CASE /\ UNCHANGED cast /\ option' = ZeroVotes(resetting[s])
             /\ castAtReset' = [o \in Options |-> IF o \in LiveOptions(resetting[s])
                                                  THEN cast[o] ELSE castAtReset[o]]
    <3>1. \A o \in Options :
            \/ option'[o].votes = 0 /\ castAtReset'[o] = cast[o]
            \/ /\ castAtReset'[o] = castAtReset[o]
               /\ option'[o].votes = option[o].votes + 0 /\ cast'[o] = cast[o] + 0
      BY <2>2 DEF ZeroVotes, TypeOK, StoreTypeOK, OptionRow
    <3>2. QED BY <2>2, <3>1, StepsThatKeepResets
  <2>3. QED
    BY <1>5, <2>1, <2>2 DEF ResetPollVotes, ResetPurge, ResetZero, ResetRead, storeVars, tallyVars
<1>6. QED BY <1>1, <1>2, <1>3, <1>4, <1>5 DEF Next, HandlerStep

(* While nobody edits, no count holds a vote cast before its option was      *)
(* reset, whatever votes, expiries and failures the reset meets.            *)
THEOREM ResetsAreFinal == ASSUME Editors = {} PROVE Spec => []ResetIsFinal
<1>1. Init => FinalIInv
  BY DEF Init, StoreInit, HandlersInit, FinalIInv, ResetIsFinal
<1>2. TypeOK /\ TypeOK' /\ FinalIInv /\ [Next]_vars => FinalIInv'
  BY NextKeepsResets
<1>3. FinalIInv => ResetIsFinal
  BY DEF FinalIInv
<1>4. QED BY <1>1, <1>2, <1>3, HandlersTypeOK, PTL DEF Spec
=============================================================================
