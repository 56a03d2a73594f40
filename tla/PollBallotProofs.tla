--------------------------- MODULE PollBallotProofs ---------------------------
(***************************************************************************)
(* What becomes of a vote: one counted vote per poll and address while the  *)
(* lock stands, what its answer says of it, and which votes are refused.    *)
(***************************************************************************)
EXTENDS PollHandlersProofs

(* A vote whose SETNX succeeded owns the lock until the lock goes away; a    *)
(* vote that got past the lock without it met a failing Redis.              *)
OwnersHold == \A v \in guarded \ lapsed : vote_lock[Key(v)] = v
OwnersCount ==
  \A v \in Voters : \/ v \in guarded \/ RedisFaults
                    \/ pc[v] \in {"idle", "done"} /\ counted[v] = {}
LockIInv == OwnersHold /\ OwnersCount

(* A ballot that another step does not touch. *)
BallotKept(b) ==
  pc'[b] = pc[b] /\ reply'[b] = reply[b] /\ todo'[b] = todo[b] /\ counted'[b] = counted[b]

(* No step changes what the clients sent.                                   *)
LEMMA NextKeepsInputs == [Next]_vars => UNCHANGED inputVars
<1> SUFFICES ASSUME [Next]_vars PROVE UNCHANGED inputVars
  OBVIOUS
<1>1. CASE UNCHANGED vars
  BY <1>1 DEF vars
<1>2. CASE StoreStep \/ RedisStep
  BY <1>2 DEF StoreStep, RedisStep, LockExpires, CleanupRedisCache
<1>3. CASE \E r \in Requests : Broadcast(r)
  BY <1>3 DEF Broadcast
<1>4. CASE \E v \in Voters : SubmitVote(v)
  BY <1>4 DEF SubmitVote, SubmitVoteLock, SubmitVoteLoad, SubmitVoteCount,
              SubmitVotePurge, SubmitVoteRead
<1>5. CASE \E e \in EnhancedVoters : SubmitEnhancedVote(e)
  BY <1>5 DEF SubmitEnhancedVote, EnhancedLoad, EnhancedPurge, EnhancedCommit,
              EnhancedRead, EnhancedFill, EnhancedStore, EnhancedVerify
<1>6. CASE \E u \in Editors : UpdatePoll(u)
  BY <1>6 DEF UpdatePoll, UpdatePollLoad, UpdatePollSave, UpdatePollExisting,
              UpdatePollOption, UpdatePollCheck, UpdatePollDrop,
              UpdatePollReload
<1>7. CASE \E s \in Resetters : ResetPollVotes(s)
  BY <1>7 DEF ResetPollVotes, ResetPurge, ResetZero, ResetRead
<1>8. QED BY <1>1, <1>2, <1>3, <1>4, <1>5, <1>6, <1>7 DEF Next, HandlerStep

(* Locks that go away take their owners with them. *)
LEMMA ReleaseKeepsOwners ==
  ASSUME TypeOK, OwnersHold, NEW K, ReleaseLocks(K), UNCHANGED <<guarded, inputVars>>
  PROVE  OwnersHold'
<1> SUFFICES ASSUME NEW v \in guarded, v \notin lapsed' PROVE vote_lock'[Key(v)] = v
  BY DEF OwnersHold, Key, inputVars
<1>1. v \in Voters /\ v \notin lapsed /\ vote_lock[Key(v)] = v
  BY DEF ReleaseLocks, OwnersHold, TypeOK
<1>2. Key(v) \notin K
  BY <1>1 DEF ReleaseLocks
<1>3. QED BY <1>1, <1>2, KeyType DEF ReleaseLocks

(* The lock is set where there was none. *)
LEMMA SettingKeepsOwners ==
  ASSUME TypeOK, OwnersHold, NEW v \in Voters, SubmitVoteLock(v)
  PROVE  OwnersHold'
<1> SUFFICES ASSUME NEW w \in guarded', w \notin lapsed PROVE vote_lock'[Key(w)] = w
  BY DEF OwnersHold, Key, SubmitVoteLock, inputVars
<1>1. w \in Voters /\ v \in Requests /\ NoRequest \notin Voters
  BY HandlersAssumption DEF SubmitVoteLock, SetVoteLock, TypeOK, Requests
<1>2. Key(v) \in Polls \X IPs /\ Key(w) \in Polls \X IPs
  BY <1>1, KeyType
<1>3. CASE w \in guarded
  <2>1. vote_lock[Key(w)] = w
    BY <1>3 DEF OwnersHold
  <2>2. UNCHANGED vote_lock \/ (vote_lock[Key(v)] = NoRequest
                                /\ vote_lock' = [vote_lock EXCEPT ![Key(v)] = v])
    BY DEF SubmitVoteLock, SetVoteLock
  <2>3. QED BY <1>1, <1>2, <2>1, <2>2 DEF TypeOK
<1>4. CASE w \notin guarded
  <2>1. w = v /\ vote_lock' = [vote_lock EXCEPT ![Key(v)] = v]
    BY <1>4 DEF SubmitVoteLock, SetVoteLock
  <2>2. QED BY <1>2, <2>1 DEF TypeOK
<1>5. QED BY <1>3, <1>4

(* Every step keeps OwnersHold: a lock outlives its request, or lapses.     *)
LEMMA NextKeepsOwners ==
  ASSUME TypeOK, OwnersHold, [Next]_vars
  PROVE  OwnersHold'
<1>1. UNCHANGED inputVars
  BY NextKeepsInputs
<1>2. CASE UNCHANGED <<vote_lock, guarded, lapsed>>
  BY <1>1, <1>2 DEF OwnersHold, Key, inputVars
<1>3. CASE \E v \in Voters : SubmitVoteLock(v)
  BY <1>3, SettingKeepsOwners
<1>4. CASE UNCHANGED guarded /\ (\E K : ReleaseLocks(K))
  BY <1>1, <1>4, ReleaseKeepsOwners
<1>5. UNCHANGED vars \/ StoreStep \/ (\E r \in Requests : Broadcast(r))
        => UNCHANGED <<vote_lock, guarded, lapsed>>
  BY DEF vars, StoreStep, Broadcast, redisVars, lockHistory
<1>6. RedisStep => UNCHANGED guarded /\ (\E K : ReleaseLocks(K))
  BY DEF RedisStep, LockExpires, CleanupRedisCache
<1>7. ASSUME NEW v \in Voters, SubmitVote(v), ~SubmitVoteLock(v)
      PROVE  UNCHANGED <<vote_lock, guarded, lapsed>>
  BY <1>7 DEF SubmitVote, SubmitVoteLoad, SubmitVoteCount, SubmitVotePurge,
              SubmitVoteRead, redisVars, lockHistory
<1>8. ASSUME NEW e \in EnhancedVoters, SubmitEnhancedVote(e)
      PROVE  UNCHANGED <<vote_lock, guarded, lapsed>>
  BY <1>8 DEF SubmitEnhancedVote, EnhancedLoad, EnhancedPurge, EnhancedCommit,
              EnhancedRead, EnhancedFill, EnhancedStore, EnhancedVerify, redisVars,
              lockHistory
<1>9. ASSUME NEW u \in Editors, UpdatePoll(u)
      PROVE  UNCHANGED <<vote_lock, guarded, lapsed>>
  BY <1>9 DEF UpdatePoll, UpdatePollLoad, UpdatePollSave, UpdatePollExisting,
              UpdatePollOption, UpdatePollCheck, UpdatePollDrop,
              UpdatePollReload, redisVars, lockHistory
<1>10. ASSUME NEW s \in Resetters, ResetPollVotes(s)
       PROVE  \/ UNCHANGED <<vote_lock, guarded, lapsed>>
              \/ UNCHANGED guarded /\ (\E K : ReleaseLocks(K))
  BY <1>10 DEF ResetPollVotes, ResetPurge, ResetZero, ResetRead, redisVars, lockHistory
<1>11. QED
  BY <1>2, <1>3, <1>4, <1>5, <1>6, <1>7, <1>8, <1>9, <1>10 DEF Next, HandlerStep

(* A step of another request leaves a ballot where it is, with its count. *)
LEMMA OthersKeepBallot ==
  ASSUME TypeOK, NEW b \in Ballots,
         \/ \E v \in Voters \ {b} : SubmitVote(v)
         \/ \E e \in EnhancedVoters \ {b} : SubmitEnhancedVote(e)
         \/ \E u \in Editors : UpdatePoll(u)
         \/ \E s \in Resetters : ResetPollVotes(s)
         \/ \E r \in Requests \ {b} : Broadcast(r)
         \/ StoreStep \/ RedisStep \/ UNCHANGED vars
  PROVE  BallotKept(b)
<1>1. b \in Requests /\ b \notin Editors /\ b \notin Resetters
  BY HandlersAssumption DEF Requests, Ballots
<1>2. ASSUME NEW v \in Voters \ {b}, SubmitVote(v) PROVE BallotKept(b)
  <2>1. CASE SubmitVoteCount(v)
    BY <1>1, <1>2, <2>1
    DEF SubmitVoteCount, Count, NotCounted, Goto, BallotKept, TypeOK
  <2>2. CASE SubmitVoteLock(v)
    BY <1>1, <1>2, <2>2
    DEF SubmitVoteLock, SetVoteLock, Goto, Answer, BallotKept, TypeOK
  <2>3. CASE SubmitVoteLoad(v)
    BY <1>1, <1>2, <2>3 DEF SubmitVoteLoad, Goto, Answer, BallotKept, TypeOK
  <2>4. CASE SubmitVotePurge(v) \/ SubmitVoteRead(v)
    BY <1>1, <1>2, <2>4
    DEF SubmitVotePurge, SubmitVoteRead, Proceed, Goto, Answer, BallotKept, TypeOK
  <2>5. QED BY <1>2, <2>1, <2>2, <2>3, <2>4 DEF SubmitVote
<1>3. ASSUME NEW e \in EnhancedVoters \ {b}, SubmitEnhancedVote(e) PROVE BallotKept(b)
  <2>1. CASE EnhancedCommit(e)
    BY <1>1, <1>3, <2>1 DEF EnhancedCommit, Count, NotCounted, Goto, Answer, BallotKept, TypeOK
  <2>2. CASE EnhancedLoad(e) \/ EnhancedPurge(e) \/ EnhancedRead(e)
    BY <1>1, <1>3, <2>2
    DEF EnhancedLoad, EnhancedPurge, EnhancedRead, Proceed, Goto, Answer, BallotKept, TypeOK
  <2>3. CASE EnhancedFill(e) \/ EnhancedStore(e) \/ EnhancedVerify(e)
    BY <1>1, <1>3, <2>3
    DEF EnhancedFill, EnhancedStore, EnhancedVerify, Proceed, Goto, Answer, BallotKept, TypeOK
  <2>4. QED BY <1>3, <2>1, <2>2, <2>3 DEF SubmitEnhancedVote
<1>4. ASSUME NEW u \in Editors, UpdatePoll(u) PROVE BallotKept(b)
  <2>1. CASE UpdatePollLoad(u) \/ UpdatePollSave(u) \/ UpdatePollOption(u)
    BY <1>1, <2>1
    DEF UpdatePollLoad, UpdatePollSave, UpdatePollOption, Goto, Answer, BallotKept, TypeOK
  <2>2. CASE UpdatePollExisting(u) \/ UpdatePollCheck(u)
    BY <1>1, <2>2
    DEF UpdatePollExisting, UpdatePollCheck, Goto, Answer, BallotKept, TypeOK
  <2>3. CASE UpdatePollDrop(u) \/ UpdatePollReload(u)
    BY <1>1, <2>3
    DEF UpdatePollDrop, UpdatePollReload, Proceed, Goto, Answer,
        BallotKept, TypeOK
  <2>4. QED BY <1>4, <2>1, <2>2, <2>3 DEF UpdatePoll
<1>5. ASSUME NEW s \in Resetters, ResetPollVotes(s) PROVE BallotKept(b)
  BY <1>1, <1>5
  DEF ResetPollVotes, ResetPurge, ResetZero, ResetRead, Proceed, Goto, Answer,
      BallotKept, TypeOK
<1>6. ASSUME NEW r \in Requests \ {b}, Broadcast(r) PROVE BallotKept(b)
  BY <1>1, <1>6 DEF Broadcast, Goto, BallotKept, TypeOK
<1>7. StoreStep \/ RedisStep \/ UNCHANGED vars => BallotKept(b)
  BY DEF StoreStep, RedisStep, LockExpires, CleanupRedisCache, vars, BallotKept
<1>8. QED BY <1>2, <1>3, <1>4, <1>5, <1>6, <1>7

(* Every step keeps OwnersCount: only a voter with the lock is counted.     *)
LEMMA NextKeepsCounts ==
  ASSUME TypeOK, OwnersCount, [Next]_vars
  PROVE  OwnersCount'
<1> SUFFICES ASSUME NEW v \in Voters, v \notin guarded', ~RedisFaults
             PROVE  pc'[v] \in {"idle", "done"} /\ counted'[v] = {}
  BY DEF OwnersCount
<1>1. guarded \subseteq guarded'
  BY DEF Next, StoreStep, HandlerStep, RedisStep, LockExpires, CleanupRedisCache,
         Broadcast, SubmitVote, SubmitVoteLock, SetVoteLock, SubmitVoteLoad,
         SubmitVoteCount, SubmitVotePurge, SubmitVoteRead, SubmitEnhancedVote,
         EnhancedLoad, EnhancedPurge, EnhancedCommit, EnhancedRead, EnhancedFill,
         EnhancedStore, EnhancedVerify, UpdatePoll, UpdatePollLoad, UpdatePollSave,
         UpdatePollExisting, UpdatePollOption, UpdatePollCheck,
         UpdatePollDrop, UpdatePollReload, ResetPollVotes, ResetPurge, ResetZero,
         ResetRead, vars, lockHistory
<1>2. pc[v] \in {"idle", "done"} /\ counted[v] = {} /\ v \in Requests
  BY <1>1 DEF OwnersCount, Requests
<1>3. CASE BallotKept(v)
  BY <1>2, <1>3 DEF BallotKept
<1>4. CASE SubmitVote(v)
  <2>1. SubmitVoteLock(v)
    BY <1>2, <1>4
    DEF SubmitVote, SubmitVoteLoad, SubmitVoteCount, SubmitVotePurge, SubmitVoteRead, Proceed
  <2>2. Answer(v, "429", "done") /\ UNCHANGED counted
    BY <2>1 DEF SubmitVoteLock, SetVoteLock
  <2>3. QED BY <1>2, <2>2 DEF Answer, Goto, TypeOK
<1>5. CASE Broadcast(v)
  BY <1>2, <1>5 DEF Broadcast
<1>6. v \in Ballots /\ v \notin EnhancedVoters
  BY HandlersAssumption DEF Ballots
<1>7. QED
  BY <1>3, <1>4, <1>5, <1>6, OthersKeepBallot DEF Next, HandlerStep

(* Two votes of one address on one poll are both counted only if the lock of *)
(* one was taken away again, or Redis failed one of them.                   *)
THEOREM OneCountedVotePerIP == Spec => []OneVotePerIP
<1>1. Init => LockIInv
  BY DEF Init, HandlersInit, LockIInv, OwnersHold, OwnersCount, Requests, Ballots
<1>2. TypeOK /\ LockIInv /\ [Next]_vars => LockIInv'
  BY NextKeepsOwners, NextKeepsCounts DEF LockIInv
<1>3. LockIInv => OneVotePerIP
  <2> SUFFICES ASSUME LockIInv, NEW v \in Voters \ lapsed, NEW w \in Voters \ lapsed,
                      v # w, Key(v) = Key(w), counted[v] # {}, counted[w] # {}
               PROVE  RedisFaults /\ ~({v, w} \subseteq guarded)
    BY DEF OneVotePerIP
  <2>1. ~({v, w} \subseteq guarded)
    BY DEF LockIInv, OwnersHold
  <2>2. RedisFaults
    BY <2>1 DEF LockIInv, OwnersCount
  <2>3. QED BY <2>1, <2>2
<1>4. QED BY <1>1, <1>2, <1>3, HandlersTypeOK, PTL DEF Spec
-----------------------------------------------------------------------------
(* Answers *)

(* How far a vote has got, what it was answered and what was counted of it.  *)
(* SubmitVote is never refused once it has counted something, and leaves     *)
(* its loop with nothing to do.                                             *)
VoterAnswered(v) ==
  /\ pc[v] \in {"idle", "load"} => counted[v] = {}
  /\ pc[v] \in {"idle", "load", "count", "purge", "read"} => reply[v] = "none"
  /\ pc[v] = "push" => reply[v] = "200"
  /\ pc[v] \in {"purge", "read"} \/ reply[v] = "200"
       => todo[v] = {} /\ (~DbFaults => counted[v] # {})
  /\ reply[v] \notin {"none", "200"} => counted[v] = {} /\ pc[v] = "done"

(* SubmitEnhancedVote counts all or nothing, in one step.                   *)
EnhancedAnswered(e) ==
  /\ todo[e] = {}
  /\ pc[e] \in {"idle", "purge", "commit"} => counted[e] = {} /\ reply[e] = "none"
  /\ pc[e] \in {"purge2", "read", "fill", "store"}
       => counted[e] = Named(e) /\ reply[e] = "none"
  /\ pc[e] \in {"verify", "push"} => reply[e] = "200"
  /\ pc[e] # "load" /\ pc[e] # "count"
  /\ reply[e] = "200" => counted[e] = Named(e) /\ Named(e) # {}
  /\ pc[e] \notin {"idle", "done"} => Named(e) # {}
  /\ reply[e] \notin {"none", "200"} =>
       /\ pc[e] = "done"
       /\ counted[e] = {} \/ (LostReplies /\ counted[e] = Named(e))

Answered ==
  /\ \A v \in Voters : VoterAnswered(v)
  /\ \A e \in EnhancedVoters : EnhancedAnswered(e)

LEMMA BallotsAreRequests ==
  ASSUME NEW b \in Ballots
  PROVE  b \in Requests /\ b \notin Editors /\ b \notin Resetters
BY HandlersAssumption DEF Requests, Ballots

(* The steps of a voter of its own. *)
LEMMA OwnVoteAnswered ==
  ASSUME TypeOK, NEW v \in Voters, VoterAnswered(v), SubmitVote(v) \/ Broadcast(v)
  PROVE  VoterAnswered(v)'
<1>1. v \in Ballots /\ v \in Requests
  BY DEF Ballots, Requests
<1>2. CASE SubmitVoteLock(v)
  BY <1>1, <1>2
  DEF SubmitVoteLock, SetVoteLock, Goto, Answer, VoterAnswered, TypeOK
<1>3. CASE SubmitVoteLoad(v)
  <2>1. UNCHANGED counted /\ pc[v] = "load"
    BY <1>3 DEF SubmitVoteLoad
  <2>2. \/ Goto(v, "count") /\ UNCHANGED reply
        \/ \E s \in {"400", "403", "404", "500"} : Answer(v, s, "done")
    BY <1>3 DEF SubmitVoteLoad, SubmitVoteVerdict
  <2>3. QED BY <1>1, <2>1, <2>2 DEF Goto, Answer, VoterAnswered, TypeOK
<1>4. CASE SubmitVoteCount(v)
  <2>1. PICK o \in todo[v] :
          /\ todo' = [todo EXCEPT ![v] = @ \ {o}]
          /\ Goto(v, IF todo[v] = {o} THEN "purge" ELSE "count")
          /\ \/ Count(v, [x \in Options |-> IF x = o THEN 1 ELSE 0])
             \/ DbFaults /\ NotCounted
    BY <1>4 DEF SubmitVoteCount
  <2>2. o \in Options /\ pc[v] = "count" /\ UNCHANGED reply
    BY <1>1, <1>4 DEF SubmitVoteCount, TypeOK
  <2>3. ~DbFaults => o \in counted'[v]
    <3> DEFINE add == [x \in Options |-> IF x = o THEN 1 ELSE 0]
    <3>1. o \in {x \in Options : add[x] > 0}
      BY <2>2
    <3> HIDE DEF add
    <3>2. Count(v, add) => o \in counted'[v]
      BY <1>1, <3>1 DEF Count, TypeOK
    <3>3. QED BY <2>1, <3>2 DEF add
  <2>4. pc'[v] = IF todo[v] = {o} THEN "purge" ELSE "count"
    BY <1>1, <2>1 DEF Goto, TypeOK
  <2>5. reply'[v] = "none"
    BY <2>2 DEF VoterAnswered
  <2>6. pc'[v] = "purge" => todo'[v] = {}
    BY <1>1, <2>1, <2>4 DEF TypeOK
  <2>7. pc'[v] \in {"purge", "count"}
    BY <2>4
  <2>8. QED BY <2>3, <2>5, <2>6, <2>7 DEF VoterAnswered
<1>5. CASE SubmitVotePurge(v)
  BY <1>1, <1>5 DEF SubmitVotePurge, Proceed, Goto, VoterAnswered, TypeOK
<1>6. CASE SubmitVoteRead(v)
  BY <1>1, <1>6 DEF SubmitVoteRead, Goto, Answer, VoterAnswered, TypeOK
<1>7. CASE Broadcast(v)
  BY <1>1, <1>7 DEF Broadcast, Goto, VoterAnswered, TypeOK
<1>8. QED BY <1>2, <1>3, <1>4, <1>5, <1>6, <1>7 DEF SubmitVote

(* The transaction, which counts the whole ballot or nothing. *)
LEMMA CommitCountsAll ==
  ASSUME TypeOK, NEW e \in EnhancedVoters, EnhancedAnswered(e), EnhancedCommit(e)
  PROVE  \/ /\ counted'[e] = Named(e)
            /\ \/ pc'[e] = "purge2" /\ reply'[e] = "none"
               \/ LostReplies /\ pc'[e] = "done" /\ reply'[e] = "500"
         \/ counted'[e] = {} /\ pc'[e] = "done" /\ reply'[e] = "500"
<1>1. e \in Ballots /\ e \in Requests /\ pc[e] = "commit"
  BY DEF Ballots, Requests, EnhancedCommit
<1>2. counted[e] = {} /\ reply[e] = "none"
  BY <1>1 DEF EnhancedAnswered
<1>3. Count(e, enhanced[e].times) => counted'[e] = Named(e)
  BY <1>1, <1>2 DEF Count, Named, TypeOK
<1>4. NotCounted => counted'[e] = {}
  BY <1>2 DEF NotCounted
<1>5. Answer(e, "500", "done") => pc'[e] = "done" /\ reply'[e] = "500"
  BY <1>1 DEF Answer, Goto, TypeOK
<1>6. Goto(e, "purge2") => pc'[e] = "purge2"
  BY <1>1 DEF Goto, TypeOK
<1>7. QED BY <1>2, <1>3, <1>4, <1>5, <1>6 DEF EnhancedCommit

(* The steps of an enhanced vote of its own. *)
LEMMA OwnEnhancedAnswered ==
  ASSUME TypeOK, NEW e \in EnhancedVoters, EnhancedAnswered(e),
         SubmitEnhancedVote(e) \/ Broadcast(e), UNCHANGED inputVars
  PROVE  EnhancedAnswered(e)'
<1>1. e \in Ballots /\ e \in Requests /\ Named(e)' = Named(e)
  BY DEF Ballots, Requests, Named, inputVars
<1>2. CASE EnhancedLoad(e)
  <2>1. UNCHANGED <<counted, todo>> /\ pc[e] = "idle"
    BY <1>2 DEF EnhancedLoad
  <2>2. \/ Goto(e, "purge") /\ UNCHANGED reply /\ Named(e) # {}
        \/ \E s \in {"400", "403", "404", "500"} : Answer(e, s, "done")
    BY <1>2 DEF EnhancedLoad, EnhancedVerdict
  <2>3. QED BY <1>1, <2>1, <2>2 DEF Goto, Answer, EnhancedAnswered, TypeOK
<1>3. CASE EnhancedPurge(e) \/ EnhancedRead(e)
  BY <1>1, <1>3
  DEF EnhancedPurge, EnhancedRead, Proceed, Goto, Answer, EnhancedAnswered, TypeOK
<1>4. CASE EnhancedCommit(e)
  BY <1>1, <1>4, CommitCountsAll DEF EnhancedCommit, EnhancedAnswered
<1>5. CASE EnhancedFill(e) \/ EnhancedStore(e) \/ EnhancedVerify(e)
  BY <1>1, <1>5
  DEF EnhancedFill, EnhancedStore, EnhancedVerify, Proceed, Goto, Answer,
      EnhancedAnswered, TypeOK
<1>6. CASE Broadcast(e)
  BY <1>1, <1>6 DEF Broadcast, Goto, EnhancedAnswered, TypeOK
<1>7. QED BY <1>2, <1>3, <1>4, <1>5, <1>6 DEF SubmitEnhancedVote

(* Every step keeps Answered. *)
LEMMA NextKeepsAnswered ==
  ASSUME TypeOK, Answered, [Next]_vars
  PROVE  Answered'
<1>1. UNCHANGED inputVars
  BY NextKeepsInputs
<1>2. ASSUME NEW b \in Ballots
      PROVE  \/ BallotKept(b) \/ Broadcast(b)
             \/ b \in Voters /\ SubmitVote(b)
             \/ b \in EnhancedVoters /\ SubmitEnhancedVote(b)
  BY OthersKeepBallot DEF Next, HandlerStep
<1>3. ASSUME NEW v \in Voters PROVE VoterAnswered(v)'
  <2>1. VoterAnswered(v) /\ v \in Ballots /\ v \notin EnhancedVoters
    BY HandlersAssumption DEF Answered, Ballots
  <2>2. CASE BallotKept(v)
    BY <2>1, <2>2 DEF BallotKept, VoterAnswered
  <2>3. QED BY <1>2, <2>1, <2>2, OwnVoteAnswered
<1>4. ASSUME NEW e \in EnhancedVoters PROVE EnhancedAnswered(e)'
  <2>1. EnhancedAnswered(e) /\ e \in Ballots /\ e \notin Voters
    BY HandlersAssumption DEF Answered, Ballots
  <2>2. CASE BallotKept(e)
    BY <1>1, <2>1, <2>2 DEF BallotKept, EnhancedAnswered, Named, inputVars
  <2>3. QED BY <1>1, <1>2, <2>1, <2>2, OwnEnhancedAnswered
<1>5. QED BY <1>3, <1>4 DEF Answered

LEMMA AnsweredInvariant == Spec => []Answered
<1>1. Init => Answered
  BY DEF Init, HandlersInit, Answered, VoterAnswered, EnhancedAnswered, Requests, Ballots
<1>2. TypeOK /\ Answered /\ [Next]_vars => Answered'
  BY NextKeepsAnswered
<1>3. QED BY <1>1, <1>2, HandlersTypeOK, PTL DEF Spec

(* A vote answered with an error has left nothing behind, except where the   *)
(* COMMIT of SubmitEnhancedVote took effect and its answer was lost.         *)
THEOREM RefusedVotesLeaveNothing == Spec => []RejectedUncounted
<1>1. Answered => RejectedUncounted
  BY DEF Answered, VoterAnswered, EnhancedAnswered, RejectedUncounted, Ballots
<1>2. QED BY <1>1, AnsweredInvariant, PTL

(* A vote answered with 200 has been counted. *)
THEOREM AcceptedVotesAreCounted == Spec => []AcceptedCounted
<1>1. Answered => AcceptedCounted
  <2> SUFFICES ASSUME Answered, NEW b \in Ballots, reply[b] = "200"
               PROVE  /\ todo[b] = {}
                      /\ b \in EnhancedVoters => counted[b] = Named(b)
                      /\ ~DbFaults => counted[b] # {}
    BY DEF AcceptedCounted
  <2>1. CASE b \in Voters
    BY <2>1, HandlersAssumption DEF Answered, VoterAnswered
  <2>2. CASE b \in EnhancedVoters
    BY <2>2 DEF Answered, EnhancedAnswered
  <2>3. QED BY <2>1, <2>2 DEF Ballots
<1>2. QED BY <1>1, AnsweredInvariant, PTL

-----------------------------------------------------------------------------
(* Late votes and single choice, while no UpdatePoll opens a poll again or   *)
(* changes its type.                                                        *)

(* A late vote waits for the poll to be loaded, or has been refused. *)
LateRefused ==
  \A v \in late : /\ Closed(ballot[v].poll)
                  /\ pc[v] \in {"load", "done"} /\ counted[v] = {}

(* What a ballot may still raise fits the type of its poll. *)
Fits(p, S) ==
  /\ poll[p].state # "unused"
  /\ poll[p].poll_type = "single" => AtMostOne(S)

VoterFits(v) ==
  counted[v] \cup todo[v] # {} => Fits(ballot[v].poll, counted[v] \cup todo[v])

EnhancedFits(e) ==
  /\ counted[e] \subseteq Named(e)
  /\ pc[e] \in {"purge", "commit"} \/ counted[e] # {} => Fits(enhanced[e].poll, Named(e))

ChoiceFits ==
  /\ \A v \in Voters : VoterFits(v)
  /\ \A e \in EnhancedVoters : EnhancedFits(e)

(* A poll keeps its type, and is not opened again.                          *)
PollsSettle ==
  \A p \in Polls :
    /\ poll[p].state # "unused" =>
         poll'[p].state # "unused" /\ poll'[p].poll_type = poll[p].poll_type
    /\ Closed(p) => Closed(p)'

LEMMA PollsSettleWithoutEditors ==
  ASSUME Editors = {}, TypeOK, [Next]_vars
  PROVE  PollsSettle
<1>1. CASE UNCHANGED <<poll, now>>
  BY <1>1 DEF PollsSettle, Closed, AcceptsVotes, Ended
<1>2. CASE StoreStep
  <2>1. CASE Tick
    BY <2>1 DEF Tick, PollsSettle, Closed, AcceptsVotes, Ended, TypeOK, StoreTypeOK, PollRow,
                Times, NoTime
  <2>2. ASSUME NEW p \in Polls, NEW new \in NewPolls, CreatePoll(p, new) PROVE PollsSettle
    BY <2>2 DEF CreatePoll, PollsSettle, Closed, AcceptsVotes, Ended, TypeOK, StoreTypeOK
  <2>3. ASSUME NEW p \in Polls, DeletePoll(p) PROVE PollsSettle
    BY <2>3 DEF DeletePoll, PollsSettle, Closed, AcceptsVotes, Ended, TypeOK, StoreTypeOK, PollRow
  <2>4. CASE CheckAndCloseExpiredPolls
    BY <2>4 DEF CheckAndCloseExpiredPolls, PollsSettle, Closed, AcceptsVotes, Ended, TypeOK,
                StoreTypeOK, PollRow
  <2>5. QED BY <1>2, <2>1, <2>2, <2>3, <2>4 DEF StoreStep
<1>3. StoreStep \/ UNCHANGED <<poll, now>>
  <2>1. ASSUME NEW v \in Voters, SubmitVote(v) PROVE UNCHANGED <<poll, now>>
    BY <2>1 DEF SubmitVote, SubmitVoteLock, SubmitVoteLoad, SubmitVoteCount, SubmitVotePurge,
                SubmitVoteRead, Count, NotCounted, storeVars
  <2>2. ASSUME NEW e \in EnhancedVoters, SubmitEnhancedVote(e) PROVE UNCHANGED <<poll, now>>
    BY <2>2 DEF SubmitEnhancedVote, EnhancedLoad, EnhancedPurge, EnhancedCommit, EnhancedRead,
                EnhancedFill, EnhancedStore, EnhancedVerify, Count, NotCounted, storeVars
  <2>3. ASSUME NEW s \in Resetters, ResetPollVotes(s) PROVE UNCHANGED <<poll, now>>
    BY <2>3 DEF ResetPollVotes, ResetPurge, ResetZero, ResetRead, storeVars
  <2>4. RedisStep \/ (\E r \in Requests : Broadcast(r)) \/ UNCHANGED vars
          => UNCHANGED <<poll, now>>
    BY DEF RedisStep, LockExpires, CleanupRedisCache, Broadcast, vars, storeVars
  <2>5. QED BY <2>1, <2>2, <2>3, <2>4 DEF Next, HandlerStep
<1>4. QED BY <1>1, <1>2, <1>3

(* Nobody but a vote itself makes it late. *)
LEMMA LateIsNoted ==
  ASSUME [Next]_vars
  PROVE  late' = late \/ \E v \in Voters : SubmitVoteLock(v)
<1>1. ASSUME NEW v \in Voters, SubmitVote(v), ~SubmitVoteLock(v) PROVE late' = late
  BY <1>1 DEF SubmitVote, SubmitVoteLoad, SubmitVoteCount, SubmitVotePurge, SubmitVoteRead,
              lockHistory
<1>2. ASSUME NEW e \in EnhancedVoters, SubmitEnhancedVote(e) PROVE late' = late
  BY <1>2 DEF SubmitEnhancedVote, EnhancedLoad, EnhancedPurge, EnhancedCommit, EnhancedRead,
              EnhancedFill, EnhancedStore, EnhancedVerify, lockHistory
<1>3. ASSUME NEW u \in Editors, UpdatePoll(u) PROVE late' = late
  BY <1>3 DEF UpdatePoll, UpdatePollLoad, UpdatePollSave, UpdatePollExisting,
              UpdatePollOption, UpdatePollCheck, UpdatePollDrop,
              UpdatePollReload, lockHistory
<1>4. ASSUME NEW s \in Resetters, ResetPollVotes(s) PROVE late' = late
  BY <1>4 DEF ResetPollVotes, ResetPurge, ResetZero, ResetRead, lockHistory
<1>5. StoreStep \/ RedisStep \/ (\E r \in Requests : Broadcast(r)) \/ UNCHANGED vars
        => late' = late
  BY DEF StoreStep, RedisStep, LockExpires, CleanupRedisCache, Broadcast, vars, lockHistory
<1>6. QED BY <1>1, <1>2, <1>3, <1>4, <1>5 DEF Next, HandlerStep

LEMMA NextRefusesLate ==
  ASSUME Editors = {}, TypeOK, Answered, LateRefused, [Next]_vars
  PROVE  LateRefused'
<1> SUFFICES ASSUME NEW v \in late'
             PROVE  /\ Closed(ballot[v].poll)'
                    /\ pc'[v] \in {"load", "done"} /\ counted'[v] = {}
  BY DEF LateRefused
<1>1. UNCHANGED inputVars /\ PollsSettle
  BY NextKeepsInputs, PollsSettleWithoutEditors
<1>2. v \in Voters
  BY LateIsNoted DEF TypeOK, SubmitVoteLock, NoteArrival
<1>3. v \in Ballots /\ v \in Requests /\ v \notin EnhancedVoters /\ ballot[v].poll \in Polls
  BY <1>2, HandlersAssumption DEF Ballots, Requests, TypeOK, VoteInput
<1>4. ASSUME Closed(ballot[v].poll) PROVE Closed(ballot[v].poll)'
  BY <1>1, <1>3, <1>4 DEF PollsSettle, inputVars
<1>5. CASE SubmitVoteLock(v)
  <2>1. Closed(ballot[v].poll)
    BY <1>5 DEF SubmitVoteLock, NoteArrival, LateRefused
  <2>2. pc'[v] \in {"load", "done"} /\ UNCHANGED counted /\ pc[v] = "idle"
    BY <1>3, <1>5 DEF SubmitVoteLock, SetVoteLock, Goto, Answer, TypeOK
  <2>3. QED BY <1>2, <1>4, <2>1, <2>2 DEF Answered, VoterAnswered
<1>6. CASE ~SubmitVoteLock(v)
  <2>1. v \in late
    BY <1>6, LateIsNoted DEF SubmitVoteLock, NoteArrival
  <2>2. Closed(ballot[v].poll) /\ pc[v] \in {"load", "done"} /\ counted[v] = {}
    BY <2>1 DEF LateRefused
  <2>3. CASE BallotKept(v)
    BY <1>4, <2>2, <2>3 DEF BallotKept
  <2>4. CASE SubmitVoteLoad(v)
    <3>1. SubmitVoteVerdict(v) # "200"
      BY <2>2 DEF Closed, SubmitVoteVerdict
    <3>2. pc'[v] = "done" /\ UNCHANGED counted
      BY <1>3, <2>4, <3>1 DEF SubmitVoteLoad, Answer, Goto, TypeOK
    <3>3. QED BY <1>4, <2>2, <3>2
  <2>5. BallotKept(v) \/ SubmitVote(v) \/ Broadcast(v)
    BY <1>3, OthersKeepBallot DEF Next, HandlerStep
  <2>6. QED
    BY <1>6, <2>2, <2>3, <2>4, <2>5
    DEF SubmitVote, SubmitVoteCount, SubmitVotePurge, SubmitVoteRead, Proceed, Broadcast
<1>7. QED BY <1>5, <1>6

(* A vote sent after its poll was closed, ended or deleted is not counted,   *)
(* while nobody edits polls: the poll is read after the lock is set.         *)
THEOREM LateVotesAreRefused == ASSUME Editors = {} PROVE Spec => []NoLateVotes
<1>1. Init => LateRefused
  BY DEF Init, HandlersInit, LateRefused
<1>2. TypeOK /\ Answered /\ LateRefused /\ [Next]_vars => LateRefused'
  BY NextRefusesLate
<1>3. LateRefused => NoLateVotes
  BY DEF LateRefused, NoLateVotes
<1>4. QED BY <1>1, <1>2, <1>3, HandlersTypeOK, AnsweredInvariant, PTL DEF Spec

(* A vote keeps to the type of the poll it loaded. *)
LEMMA OwnVoteFits ==
  ASSUME TypeOK, PollsSettle, UNCHANGED inputVars, NEW v \in Voters, VoterAnswered(v),
         VoterFits(v), SubmitVote(v) \/ Broadcast(v) \/ BallotKept(v)
  PROVE  VoterFits(v)'
<1>1. v \in Ballots /\ v \in Requests /\ ballot[v].poll \in Polls /\ ballot'[v] = ballot[v]
  BY HandlersAssumption DEF Ballots, Requests, TypeOK, VoteInput, inputVars
<1>2. CASE counted'[v] \cup todo'[v] \subseteq counted[v] \cup todo[v]
  <2> SUFFICES ASSUME counted'[v] \cup todo'[v] # {}
               PROVE  Fits(ballot[v].poll, counted[v] \cup todo[v])'
    BY DEF VoterFits
  <2>1. Fits(ballot[v].poll, counted[v] \cup todo[v])
    BY <1>2 DEF VoterFits
  <2>2. QED BY <1>1, <1>2, <2>1 DEF PollsSettle, Fits, AtMostOne
<1>3. CASE SubmitVoteCount(v)
  <2>1. PICK o \in todo[v] :
          /\ todo' = [todo EXCEPT ![v] = @ \ {o}]
          /\ \/ Count(v, [x \in Options |-> IF x = o THEN 1 ELSE 0])
             \/ NotCounted
    BY <1>3 DEF SubmitVoteCount
  <2>2. counted'[v] \subseteq counted[v] \cup {o}
    <3> DEFINE add == [x \in Options |-> IF x = o THEN 1 ELSE 0]
    <3>1. {x \in Options : add[x] > 0} \subseteq {o}
      OBVIOUS
    <3> HIDE DEF add
    <3>2. Count(v, add) => counted'[v] \subseteq counted[v] \cup {o}
      BY <1>1, <3>1 DEF Count, TypeOK
    <3>3. NotCounted => counted'[v] = counted[v]
      BY DEF NotCounted
    <3>4. QED BY <2>1, <3>2, <3>3 DEF add
  <2>3. QED BY <1>1, <1>2, <2>1, <2>2 DEF TypeOK
<1>4. CASE SubmitVoteLoad(v) /\ SubmitVoteVerdict(v) = "200"
           /\ todo' = [todo EXCEPT ![v] = ValidOptions(v)]
  <2>1. Fits(ballot[v].poll, ValidOptions(v))
    BY <1>4 DEF SubmitVoteVerdict, Fits
  <2>2. counted'[v] \cup todo'[v] = ValidOptions(v)
    BY <1>1, <1>4 DEF SubmitVoteLoad, VoterAnswered, TypeOK
  <2>3. Fits(ballot[v].poll, counted[v] \cup todo[v])'
    BY <1>1, <2>1, <2>2 DEF PollsSettle, Fits
  <2>4. QED BY <2>3 DEF VoterFits
<1>5. UNCHANGED <<counted, todo>> \/ SubmitVoteCount(v) \/ BallotKept(v)
      \/ (SubmitVoteLoad(v) /\ SubmitVoteVerdict(v) = "200"
          /\ todo' = [todo EXCEPT ![v] = ValidOptions(v)])
  BY DEF SubmitVote, SubmitVoteLock, SubmitVoteLoad, SubmitVotePurge, SubmitVoteRead, Broadcast
<1>6. QED BY <1>2, <1>3, <1>4, <1>5 DEF BallotKept

(* So does an enhanced vote. *)
LEMMA OwnEnhancedFits ==
  ASSUME TypeOK, PollsSettle, UNCHANGED inputVars, NEW e \in EnhancedVoters,
         EnhancedAnswered(e), EnhancedFits(e),
         SubmitEnhancedVote(e) \/ Broadcast(e) \/ BallotKept(e)
  PROVE  EnhancedFits(e)'
<1>1. /\ e \in Ballots /\ e \in Requests /\ enhanced[e].poll \in Polls
      /\ enhanced'[e] = enhanced[e] /\ Named(e)' = Named(e)
  BY HandlersAssumption DEF Ballots, Requests, TypeOK, EnhancedVoteInput, inputVars, Named
<1>2. Fits(enhanced[e].poll, Named(e)) => Fits(enhanced[e].poll, Named(e))'
  BY <1>1 DEF PollsSettle, Fits
<1>3. CASE EnhancedLoad(e)
  <2>1. UNCHANGED counted /\ counted[e] = {}
    BY <1>3 DEF EnhancedLoad, EnhancedAnswered
  <2>2. pc'[e] = "purge" => Fits(enhanced[e].poll, Named(e))
    BY <1>1, <1>3 DEF EnhancedLoad, EnhancedVerdict, Answer, Goto, Fits, NamesOne, TypeOK
  <2>3. pc'[e] # "commit"
    BY <1>1, <1>3 DEF EnhancedLoad, Answer, Goto, TypeOK
  <2>4. QED BY <1>1, <1>2, <2>1, <2>2, <2>3 DEF EnhancedFits
<1>4. CASE EnhancedCommit(e)
  <2>1. Fits(enhanced[e].poll, Named(e))
    BY <1>4 DEF EnhancedCommit, EnhancedFits
  <2>2. counted'[e] \subseteq Named(e)
    BY <1>4, CommitCountsAll
  <2>3. QED BY <1>1, <1>2, <2>1, <2>2 DEF EnhancedFits
<1>5. CASE UNCHANGED counted
           /\ (pc'[e] \in {"purge", "commit"} => pc[e] \in {"purge", "commit"})
  BY <1>1, <1>2, <1>5 DEF EnhancedFits
<1>6. CASE BallotKept(e)
  BY <1>1, <1>2, <1>6 DEF EnhancedFits, BallotKept
<1>7. CASE EnhancedPurge(e) \/ EnhancedRead(e)
  BY <1>1, <1>5, <1>7 DEF EnhancedPurge, EnhancedRead, Proceed, Answer, Goto, TypeOK
<1>8. CASE EnhancedFill(e) \/ EnhancedStore(e) \/ EnhancedVerify(e)
  BY <1>1, <1>5, <1>8 DEF EnhancedFill, EnhancedStore, EnhancedVerify, Proceed, Answer, Goto, TypeOK
<1>9. CASE Broadcast(e)
  BY <1>1, <1>5, <1>9 DEF Broadcast, Goto, TypeOK
<1>10. QED BY <1>3, <1>4, <1>6, <1>7, <1>8, <1>9 DEF SubmitEnhancedVote

LEMMA NextKeepsChoice ==
  ASSUME Editors = {}, TypeOK, Answered, ChoiceFits, [Next]_vars
  PROVE  ChoiceFits'
<1>1. UNCHANGED inputVars /\ PollsSettle
  BY NextKeepsInputs, PollsSettleWithoutEditors
<1>2. ASSUME NEW b \in Ballots
      PROVE  \/ BallotKept(b) \/ Broadcast(b)
             \/ b \in Voters /\ SubmitVote(b)
             \/ b \in EnhancedVoters /\ SubmitEnhancedVote(b)
  BY OthersKeepBallot DEF Next, HandlerStep
<1>3. ASSUME NEW v \in Voters PROVE VoterFits(v)'
  <2>1. VoterAnswered(v) /\ VoterFits(v) /\ v \in Ballots /\ v \notin EnhancedVoters
    BY HandlersAssumption DEF Answered, ChoiceFits, Ballots
  <2>2. QED BY <1>1, <1>2, <2>1, OwnVoteFits
<1>4. ASSUME NEW e \in EnhancedVoters PROVE EnhancedFits(e)'
  <2>1. EnhancedAnswered(e) /\ EnhancedFits(e) /\ e \in Ballots /\ e \notin Voters
    BY HandlersAssumption DEF Answered, ChoiceFits, Ballots
  <2>2. QED BY <1>1, <1>2, <2>1, OwnEnhancedFits
<1>5. QED BY <1>3, <1>4 DEF ChoiceFits

(* While nobody edits polls, a ballot raises one count of a single-choice    *)
(* poll, on either endpoint.                                                *)
THEOREM SingleChoiceIsKept == ASSUME Editors = {} PROVE Spec => []OneChoice
<1>1. Init => ChoiceFits
  BY DEF Init, HandlersInit, ChoiceFits, VoterFits, EnhancedFits, Requests, Ballots
<1>2. TypeOK /\ Answered /\ ChoiceFits /\ [Next]_vars => ChoiceFits'
  BY NextKeepsChoice
<1>3. ChoiceFits => OneChoice
  BY HandlersAssumption
  DEF ChoiceFits, VoterFits, EnhancedFits, Fits, AtMostOne, OneChoice, PollOfRequest, Ballots
<1>4. QED BY <1>1, <1>2, <1>3, HandlersTypeOK, AnsweredInvariant, PTL DEF Spec

-----------------------------------------------------------------------------
(* The handlers implement BallotBox *)

(* A ballot still has to raise only counts it has not raised. *)
RaisesOnce == \A v \in Voters : todo[v] \cap counted[v] = {}

(* What a ballot adds when it names no option twice is one Cast of the box. *)
LEMMA CountingIsCasting ==
  ASSUME TypeOK, NEW b \in Ballots, NEW add \in [Options -> {0, 1}], Count(b, add),
         \A o \in counted[b] : add[o] = 0
  PROVE  Box!BoxNext
<1> DEFINE S == {o \in Options : add[o] > 0}
<1>1. S \cap counted[b] = {}
  BY DEF TypeOK
<1>2. counted' = [counted EXCEPT ![b] = @ \cup S]
  BY DEF Count
<1>3. ASSUME NEW o \in Options
      PROVE  option'[o].votes = IF o \in S THEN option[o].votes + 1 ELSE option[o].votes
  <2>1. option'[o].votes = option[o].votes + add[o] /\ option[o].votes \in Nat
    BY DEF Count, AddVotes, TypeOK, StoreTypeOK, OptionRow
  <2>2. add[o] \in {0, 1}
    OBVIOUS
  <2>3. QED BY <2>1, <2>2
<1>4. Box!Cast(b, S)
  BY <1>1, <1>2, <1>3 DEF Box!Cast
<1>5. S \in SUBSET Options
  OBVIOUS
<1> HIDE DEF S
<1>6. QED BY <1>4, <1>5 DEF Box!BoxNext

(* A step that raises nothing clears counts, or leaves the box alone. *)
LEMMA OtherStepsClear ==
  ASSUME UNCHANGED counted, \A o \in Options : option'[o].votes \in {option[o].votes, 0}
  PROVE  Box!BoxNext
<1>1. PICK S \in SUBSET Options : S = {o \in Options : option'[o].votes = 0}
  OBVIOUS
<1>2. Box!Clear(S)
  BY <1>1 DEF Box!Clear
<1>3. QED BY <1>2 DEF Box!BoxNext

LEMMA NextIsBoxStep ==
  ASSUME Editors = {}, \A in \in EnhancedInputs : \A o \in Options : in.times[o] \in {0, 1},
         TypeOK, Answered, RaisesOnce, [Next]_vars
  PROVE  Box!BoxNext
<1>1. CASE UNCHANGED <<option, counted>>
  BY <1>1, OtherStepsClear
<1>2. CASE StoreStep
  <2>1. \A o \in Options : option'[o].votes \in {option[o].votes, 0}
    BY <1>2, SMTT(30)
    DEF StoreStep, Tick, CreatePoll, DeletePoll, CheckAndCloseExpiredPolls, TypeOK,
        StoreTypeOK, OptionRow
  <2>2. QED BY <1>2, <2>1, OtherStepsClear DEF StoreStep
<1>3. ASSUME NEW v \in Voters, SubmitVote(v)
      PROVE  Box!BoxNext
  <2>1. CASE SubmitVoteCount(v)
    <3>1. PICK o \in todo[v] : \/ Count(v, [x \in Options |-> IF x = o THEN 1 ELSE 0])
                               \/ NotCounted
      BY <2>1 DEF SubmitVoteCount
    <3> DEFINE add == [x \in Options |-> IF x = o THEN 1 ELSE 0]
    <3>2. v \in Ballots /\ add \in [Options -> {0, 1}]
      BY DEF Ballots
    <3>3. \A x \in counted[v] : add[x] = 0
      BY <3>2 DEF RaisesOnce, TypeOK
    <3> HIDE DEF add
    <3>4. Count(v, add) => Box!BoxNext
      BY <3>2, <3>3, CountingIsCasting
    <3>5. NotCounted => Box!BoxNext
      BY <1>1 DEF NotCounted, storeVars
    <3>6. QED BY <3>1, <3>4, <3>5 DEF add
  <2>2. QED
    BY <1>1, <1>3, <2>1
    DEF SubmitVote, SubmitVoteLock, SubmitVoteLoad, SubmitVotePurge, SubmitVoteRead, storeVars
<1>4. ASSUME NEW e \in EnhancedVoters, SubmitEnhancedVote(e)
      PROVE  Box!BoxNext
  <2>1. CASE EnhancedCommit(e)
    <3>1. e \in Ballots /\ enhanced[e].times \in [Options -> {0, 1}]
      BY HandlersAssumption DEF Ballots, TypeOK, EnhancedVoteInput
    <3>2. counted[e] = {}
      BY <2>1 DEF EnhancedCommit, Answered, EnhancedAnswered
    <3>3. QED
      BY <1>1, <2>1, <3>1, <3>2, CountingIsCasting DEF EnhancedCommit, NotCounted, storeVars
  <2>2. QED
    BY <1>1, <1>4, <2>1
    DEF SubmitEnhancedVote, EnhancedLoad, EnhancedPurge, EnhancedRead, EnhancedFill,
        EnhancedStore, EnhancedVerify, storeVars
<1>5. ASSUME NEW s \in Resetters, ResetPollVotes(s)
      PROVE  Box!BoxNext
  <2>1. ZeroVotes(resetting[s]) = option'
          => \A o \in Options : option'[o].votes \in {option[o].votes, 0}
    BY DEF ZeroVotes, TypeOK, StoreTypeOK, OptionRow
  <2>2. QED
    BY <1>1, <1>5, <2>1, OtherStepsClear
    DEF ResetPollVotes, ResetPurge, ResetZero, ResetRead, storeVars
<1>6. RedisStep \/ (\E r \in Requests : Broadcast(r)) \/ UNCHANGED vars
        => UNCHANGED <<option, counted>>
  BY DEF RedisStep, LockExpires, CleanupRedisCache, Broadcast, vars, storeVars
<1>7. QED BY <1>1, <1>2, <1>3, <1>4, <1>5, <1>6 DEF Next, HandlerStep

LEMMA NextRaisesOnce ==
  ASSUME TypeOK, Answered, RaisesOnce, [Next]_vars
  PROVE  RaisesOnce'
<1> SUFFICES ASSUME NEW v \in Voters PROVE todo'[v] \cap counted'[v] = {}
  BY DEF RaisesOnce
<1>1. v \in Ballots /\ v \in Requests /\ v \notin EnhancedVoters
  BY HandlersAssumption DEF Ballots, Requests
<1>2. BallotKept(v) \/ SubmitVote(v) \/ Broadcast(v)
  BY <1>1, OthersKeepBallot DEF Next, HandlerStep
<1>3. CASE UNCHANGED <<todo, counted>> \/ BallotKept(v)
  BY <1>3 DEF RaisesOnce, BallotKept
<1>4. CASE SubmitVoteLoad(v)
  BY <1>1, <1>4 DEF SubmitVoteLoad, Answered, VoterAnswered
<1>5. CASE SubmitVoteCount(v)
  <2>1. PICK o \in todo[v] :
          /\ todo' = [todo EXCEPT ![v] = @ \ {o}]
          /\ \/ Count(v, [x \in Options |-> IF x = o THEN 1 ELSE 0])
             \/ NotCounted
    BY <1>5 DEF SubmitVoteCount
  <2> DEFINE add == [x \in Options |-> IF x = o THEN 1 ELSE 0]
  <2>2. {x \in Options : add[x] > 0} \subseteq {o}
    OBVIOUS
  <2> HIDE DEF add
  <2>3. Count(v, add) => counted'[v] \subseteq counted[v] \cup {o}
    BY <1>1, <2>2 DEF Count, TypeOK
  <2>4. NotCounted => counted'[v] = counted[v]
    BY DEF NotCounted
  <2>5. counted'[v] \subseteq counted[v] \cup {o}
    BY <2>1, <2>3, <2>4 DEF add
  <2>6. todo'[v] = todo[v] \ {o}
    BY <1>1, <2>1 DEF TypeOK
  <2>7. QED BY <2>5, <2>6 DEF RaisesOnce
<1>6. QED
  BY <1>2, <1>3, <1>4, <1>5
  DEF SubmitVote, SubmitVoteLock, SubmitVotePurge, SubmitVoteRead, Broadcast

(* The vote and reset handlers implement the ballot box: whatever the        *)
(* interleaving, a ballot adds one to each option it is counted for, never   *)
(* twice, and otherwise counts only go back to zero.                         *)
THEOREM HandlersImplementBox ==
  ASSUME Editors = {}, \A in \in EnhancedInputs : \A o \in Options : in.times[o] \in {0, 1}
  PROVE  Spec => BoxSpec
<1>1. Init => Box!BoxInit /\ RaisesOnce
  BY DEF Init, StoreInit, HandlersInit, Box!BoxInit, RaisesOnce, Requests
<1>2. TypeOK /\ Answered /\ RaisesOnce /\ [Next]_vars
        => [Box!BoxNext]_Box!boxVars /\ RaisesOnce'
  BY NextIsBoxStep, NextRaisesOnce
<1>3. QED
  BY <1>1, <1>2, HandlersTypeOK, AnsweredInvariant, PTL DEF Spec, BoxSpec, Box!BoxSpec
=============================================================================
