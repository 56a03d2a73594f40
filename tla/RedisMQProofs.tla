--------------------------- MODULE RedisMQProofs ---------------------------
(***************************************************************************)
(* What holds of RedisMQ for any messages, senders, goroutines and          *)
(* administrators, number of retries, time-out, length of time and number   *)
(* of exits.                                                                *)
(***************************************************************************)
EXTENDS RedisMQ, FiniteSetTheorems, SequenceTheorems, TLAPS

-----------------------------------------------------------------------------
(* Types *)

\* A shutdown that has begun is within the bound on exits.
ExitLeft == running \in {"draining", "stopped"} => exits < MaxExits

Typed == TypeOK /\ ExitLeft

(* Adding to a bag and LREM keep it a bag. *)
LEMMA BagTypes ==
  ASSUME NEW bag \in Bags, NEW c \in Copies
  PROVE  With(bag, c) \in Bags /\ LRem(bag, c) \in Bags
BY DEF Bags, With, LRem

LEMMA EmptyBagType == EmptyBag \in Bags
BY DEF EmptyBag, Bags

(* A renewed copy is a copy, of the same message. *)
LEMMA RenewedType ==
  ASSUME NEW c \in Copies, NEW time \in Times
  PROVE  Renewed(c, time) \in Copies /\ Renewed(c, time).id = c.id
BY DEF Copies, Renewed

(* A goroutine with a copy is not between two copies. *)
LEMMA HeldType ==
  ASSUME Typed, NEW p \in Procs, at[p] \notin {"idle", "scan", "done"}
  PROVE  held[p] \in Copies /\ held[p].id \in Messages
BY DEF Typed, TypeOK, Copies

LEMMA InitTyped == Init => Typed
<1> SUFFICES ASSUME Init PROVE Typed
  OBVIOUS
<1> USE QueueAssumption
<1>1. <<>> \in Seq(Copies) /\ 0 \in Times
  BY DEF Times
<1>2. ExitLeft
  BY DEF Init, ExitLeft
<1>3. TypeOK
  BY <1>1, EmptyBagType DEF Init, IdleProcs, TypeOK, Stages
<1> QED BY <1>2, <1>3 DEF Typed

\* What a step of one goroutine does to the stages and copies of all.
StageTypes ==
  /\ at \in [Procs -> Stages]
  /\ held \in [Procs -> Copies \cup {NoCopy}]
  /\ \A p \in Procs : held[p] = NoCopy <=> at[p] \in {"idle", "scan", "done"}

(* A goroutine goes on with its copy. *)
LEMMA GotoTypes ==
  ASSUME Typed, NEW p \in Procs, NEW stage \in Stages, Goto(p, stage), UNCHANGED held,
         at[p] \in {"idle", "scan", "done"} <=> stage \in {"idle", "scan", "done"}
  PROVE  StageTypes'
<1>1. at' \in [Procs -> Stages] /\ \A q \in Procs : at'[q] = IF q = p THEN stage ELSE at[q]
  BY DEF Goto, Typed, TypeOK
<1> QED BY <1>1 DEF StageTypes, Typed, TypeOK

(* A goroutine is done with its copy. *)
LEMMA ReleaseTypes ==
  ASSUME Typed, NEW p \in Procs, NEW stage \in {"idle", "scan", "done"}, Release(p, stage)
  PROVE  StageTypes'
<1>1. at' \in [Procs -> Stages] /\ \A q \in Procs : at'[q] = IF q = p THEN stage ELSE at[q]
  BY DEF Release, Goto, Typed, TypeOK, Stages
<1>2. held' \in [Procs -> Copies \cup {NoCopy}]
      /\ \A q \in Procs : held'[q] = IF q = p THEN NoCopy ELSE held[q]
  BY DEF Release, Typed, TypeOK
<1> QED BY <1>1, <1>2 DEF StageTypes, Typed, TypeOK

(* A goroutine takes a copy. *)
LEMMA TakeTypes ==
  ASSUME Typed, NEW p \in Procs, NEW c \in Copies,
         NEW stage \in Stages \ {"idle", "scan", "done"},
         Goto(p, stage), held' = [held EXCEPT ![p] = c]
  PROVE  StageTypes'
<1> USE QueueAssumption
<1>1. at' \in [Procs -> Stages] /\ \A q \in Procs : at'[q] = IF q = p THEN stage ELSE at[q]
  BY DEF Goto, Typed, TypeOK
<1>2. held' \in [Procs -> Copies \cup {NoCopy}]
      /\ \A q \in Procs : held'[q] = IF q = p THEN c ELSE held[q]
  BY DEF Typed, TypeOK
<1>3. c # NoCopy
  OBVIOUS
<1> QED BY <1>1, <1>2, <1>3 DEF StageTypes, Typed, TypeOK
(* Every step keeps the types. *)
LEMMA NextTyped == Typed /\ [Next]_vars => Typed'
<1> SUFFICES ASSUME Typed, [Next]_vars PROVE Typed'
  OBVIOUS
<1> USE QueueAssumption
<1>0. /\ Workers \subseteq Procs /\ Admins \subseteq Procs /\ Checker \in Procs
      /\ \A m \in Messages, time \in Times : [id |-> m, stamp |-> time] \in Copies
      /\ \A c \in Copies : c.id \in Messages /\ c.stamp \in Times
  BY DEF Procs, Copies
<1>1. ASSUME NEW s \in AllSenders, Send(s) PROVE Typed'
  <2>1. MessageOf[s] \in Messages
    OBVIOUS
  <2>2. CASE SendCheck(s)
    <3>1. /\ sender' \in [AllSenders -> {"new", "mark", "push", "ok", "failed"}]
          /\ made' \in [AllSenders -> Times]
      <4>1. CASE Skip(s)
        BY <4>1 DEF Skip, Typed, TypeOK
      <4>2. CASE Proceed(s)
        BY <4>2 DEF Proceed, Typed, TypeOK
      <4> QED BY <2>2, <4>1, <4>2 DEF SendCheck
    <3>2. repeated' \subseteq AllSenders
      BY <2>2 DEF SendCheck, Typed, TypeOK
    <3> QED BY <2>2, <3>1, <3>2 DEF SendCheck, Typed, TypeOK, ExitLeft, StageTypes, redisVars, idVars, loopVars, history, sending
  <2>3. CASE SendMark(s)
    <3>1. sender' \in [AllSenders -> {"new", "mark", "push", "ok", "failed"}]
      BY <2>3 DEF SendMark, Typed, TypeOK
    <3> QED BY <2>1, <2>3, <3>1 DEF SendMark, Typed, TypeOK, ExitLeft, StageTypes, redisVars, idVars, loopVars, history, sending
  <2>4. CASE SendMarkNamed(s)
    <3>1. /\ sender' \in [AllSenders -> {"new", "mark", "push", "ok", "failed"}]
          /\ processed_vote_ids' \subseteq Messages
          /\ unmarked' \subseteq NamedSenders
      BY <2>1, <2>4 DEF SendMarkNamed, Typed, TypeOK
    <3> QED BY <2>4, <3>1 DEF SendMarkNamed, Typed, TypeOK, ExitLeft, StageTypes, redisVars, idVars, loopVars, history, sending
  <2>5. CASE SendPush(s)
    <3>1. sender' \in [AllSenders -> {"new", "mark", "push", "ok", "failed"}]
      BY <2>5 DEF SendPush, Typed, TypeOK
    <3>4. made' \in [AllSenders -> Times]
      <4>1. 0 \in Times
        BY DEF Times
      <4> QED BY <2>5, <4>1 DEF SendPush, Typed, TypeOK
    <3>2. vote_queue' \in Seq(Copies)
      <4>1. Message(s) \in Copies /\ vote_queue \in Seq(Copies)
        BY <1>0, <2>1 DEF Message, Typed, TypeOK
      <4> QED BY <2>5, <4>1, AppendProperties DEF SendPush
    <3>3. again' \subseteq Messages
      BY <2>1, <2>5 DEF SendPush, NoteAgain, Typed, TypeOK
    <3> QED BY <2>5, <3>1, <3>2, <3>3, <3>4 DEF SendPush, Typed, TypeOK, ExitLeft, StageTypes, redisVars, idVars, loopVars, history, sending
  <2>6. CASE SendFails(s)
    <3>1. sender' \in [AllSenders -> {"new", "mark", "push", "ok", "failed"}]
      BY <2>6 DEF SendFails, Typed, TypeOK
    <3> QED BY <2>6, <3>1 DEF SendFails, Typed, TypeOK, ExitLeft, StageTypes, redisVars, idVars, loopVars, history, sending
  <2> QED BY <1>1, <2>2, <2>3, <2>4, <2>5, <2>6 DEF Send
<1>2. ASSUME NEW w \in Workers, Consume(w) PROVE Typed'
  <2>1. vote_queue \in Seq(Copies) /\ vote_queue # <<>>
    BY <1>2 DEF Consume, Typed, TypeOK
  <2>2. Head(vote_queue) \in Copies /\ Tail(vote_queue) \in Seq(Copies)
    BY <2>1, HeadTailProperties
  <2>3. StageTypes'
    BY <1>0, <1>2, <2>2, TakeTypes DEF Consume, Stages
  <2>4. vote_processing' \in Bags
    BY <1>2, <2>2, BagTypes DEF Consume, Typed, TypeOK
  <2> QED BY <1>2, <2>2, <2>3, <2>4 DEF Consume, Typed, TypeOK, ExitLeft, StageTypes, redisVars, idVars, loopVars, history, sending
<1>3. ASSUME NEW w \in Workers, CountVote(w) PROVE Typed'
  <2>1. held[w].id \in Messages
    BY <1>0, <1>3, HeldType DEF CountVote
  <2>2. StageTypes'
    BY <1>0, <1>3, GotoTypes DEF CountVote, Stages
  <2>3. votes' \in [Messages -> Nat]
    BY <1>3, <2>1 DEF CountVote, Typed, TypeOK
  <2>4. again' \subseteq Messages
    BY <1>3, <2>1 DEF CountVote, Typed, TypeOK
  <2> QED BY <1>3, <2>2, <2>3, <2>4 DEF CountVote, Typed, TypeOK, ExitLeft, StageTypes, redisVars, idVars, loopVars, history, sending
<1>4. ASSUME NEW w \in Workers, RefuseVote(w) \/ ReadResults(w) PROVE Typed'
  <2>1. held[w].id \in Messages
    BY <1>0, <1>4, HeldType DEF RefuseVote, ReadResults
  <2>2. StageTypes'
    BY <1>0, <1>4, GotoTypes DEF RefuseVote, ReadResults, Stages
  <2>3. again' \subseteq Messages
    BY <1>4, <2>1 DEF RefuseVote, ReadResults, Typed, TypeOK
  <2>4. UNCHANGED <<now, redisVars, running, loopVars, timers, sending, votes, history>>
    BY <1>4 DEF RefuseVote, ReadResults
  <2> QED BY <2>2, <2>3, <2>4 DEF Typed, TypeOK, ExitLeft, StageTypes, redisVars, idVars, loopVars, history, sending
<1>5. ASSUME NEW w \in Workers, CheckRetries(w) PROVE Typed'
  <2>1. StageTypes'
    BY <1>0, <1>5, GotoTypes DEF CheckRetries, Verdict, Stages
  <2> QED BY <1>5, <2>1 DEF CheckRetries, Typed, TypeOK, ExitLeft, StageTypes, redisVars, idVars, loopVars, history, sending
<1>6. ASSUME NEW w \in Workers, CountRetry(w) PROVE Typed'
  <2>1. held[w] \in Copies /\ held[w].id \in Messages
    BY <1>0, <1>6, HeldType DEF CountRetry
  <2>2. StageTypes'
    BY <1>0, <1>6, GotoTypes DEF CountRetry, Stages
  <2>3. timers' \in Bags
    BY <1>6, <2>1, BagTypes, RenewedType DEF CountRetry, Typed, TypeOK
  <2>4. vote_retries' \in [Messages -> Nat]
    BY <1>6, <2>1 DEF CountRetry, Typed, TypeOK
  <2> QED BY <1>6, <2>2, <2>3, <2>4 DEF CountRetry, Typed, TypeOK, ExitLeft, StageTypes, redisVars, idVars, loopVars, history, sending
<1>7. ASSUME NEW w \in Workers, Remove(w) PROVE Typed'
  <2>1. held[w] \in Copies
    BY <1>0, <1>7, HeldType DEF Remove
  <2>2. StageTypes'
    BY <1>0, <1>7, ReleaseTypes DEF Remove
  <2>3. vote_processing' \in Bags
    BY <1>7, <2>1, BagTypes DEF Remove, Typed, TypeOK
  <2> QED BY <1>7, <2>2, <2>3 DEF Remove, Typed, TypeOK, ExitLeft, StageTypes, redisVars, idVars, loopVars, history, sending
<1>8. ASSUME NEW p \in Procs, Bury(p) PROVE Typed'
  <2>1. held[p] \in Copies
    BY <1>8, HeldType DEF Bury
  <2>2. StageTypes'
    BY <1>8, GotoTypes DEF Bury, Stages
  <2>3. vote_dead_letter' \in Bags
    BY <1>8, <2>1, BagTypes DEF Bury, Typed, TypeOK
  <2> QED BY <1>8, <2>2, <2>3 DEF Bury, Typed, TypeOK, ExitLeft, StageTypes, redisVars, idVars, loopVars, history, sending
<1>9. ASSUME NEW p \in Procs, Unlist(p) PROVE Typed'
  <2>1. held[p] \in Copies
    BY <1>9, HeldType DEF Unlist
  <2>2. StageTypes'
    BY <1>9, GotoTypes, ReleaseTypes DEF Unlist, Stages
  <2>3. vote_processing' \in Bags
    BY <1>9, <2>1, BagTypes DEF Unlist, Typed, TypeOK
  <2> QED BY <1>9, <2>2, <2>3 DEF Unlist, Typed, TypeOK, ExitLeft, StageTypes, redisVars, idVars, loopVars, history, sending
<1>10. ASSUME NEW c \in Copies, Requeue(c) PROVE Typed'
  <2>1. timers' \in Bags
    BY <1>10, BagTypes DEF Requeue, Typed, TypeOK
  <2>2. vote_queue' \in Seq(Copies)
    BY <1>10, AppendProperties DEF Requeue, Typed, TypeOK
  <2> QED BY <1>10, <2>1, <2>2 DEF Requeue, Typed, TypeOK, ExitLeft, StageTypes, redisVars, idVars, loopVars, history, sending
<1>11. CASE ListExpired
  <2>1. StageTypes'
    <3>1. at' \in [Procs -> Stages]
          /\ \A q \in Procs : at'[q] = IF q = Checker THEN "scan" ELSE at[q]
      BY <1>0, <1>11 DEF ListExpired, Goto, Typed, TypeOK, Stages
    <3> QED BY <1>11, <3>1 DEF ListExpired, StageTypes, Typed, TypeOK
  <2>2. todo' \in [Procs -> Bags]
    <3>1. [c \in Copies |-> IF Expired(c) THEN vote_processing[c] ELSE 0] \in Bags
      BY DEF Bags, Typed, TypeOK
    <3> QED BY <1>11, <3>1 DEF ListExpired, Typed, TypeOK
  <2> QED BY <1>11, <2>1, <2>2 DEF ListExpired, Typed, TypeOK, ExitLeft, StageTypes, redisVars, idVars, loopVars, history, sending
<1>12. ASSUME NEW c \in Copies, CheckExpired(c) PROVE Typed'
  <2>1. StageTypes'
    BY <1>0, <1>12, TakeTypes DEF CheckExpired, TakeUp, Verdict, Stages
  <2>2. todo' \in [Procs -> Bags]
    <3>1. LRem(todo[Checker], c) \in Bags
      BY <1>0, BagTypes DEF Typed, TypeOK
    <3> QED BY <1>12, <3>1 DEF CheckExpired, TakeUp, Typed, TypeOK
  <2> QED BY <1>12, <2>1, <2>2 DEF CheckExpired, Typed, TypeOK, ExitLeft, StageTypes, redisVars, idVars, loopVars, history, sending
<1>13. CASE CountTimeout
  <2>1. held[Checker].id \in Messages
    BY <1>0, <1>13, HeldType DEF CountTimeout
  <2>2. StageTypes'
    BY <1>0, <1>13, GotoTypes DEF CountTimeout, Stages
  <2>3. vote_retries' \in [Messages -> Nat]
    BY <1>13, <2>1 DEF CountTimeout, Typed, TypeOK
  <2> QED BY <1>13, <2>2, <2>3 DEF CountTimeout, Typed, TypeOK, ExitLeft, StageTypes, redisVars, idVars, loopVars, history, sending
<1>14. CASE TakeBack
  <2>1. held[Checker] \in Copies /\ held[Checker].id \in Messages
    BY <1>0, <1>14, HeldType DEF TakeBack
  <2>2. StageTypes'
    BY <1>0, <1>14, ReleaseTypes DEF TakeBack
  <2>3. vote_processing' \in Bags
    BY <1>14, <2>1, BagTypes DEF TakeBack, Typed, TypeOK
  <2>4. timers' \in Bags
    BY <1>14, <2>1, BagTypes, RenewedType DEF TakeBack, Typed, TypeOK
  <2>5. again' \subseteq Messages
    BY <1>14, <2>1 DEF TakeBack, NoteAgain, Typed, TypeOK
  <2> QED BY <1>14, <2>2, <2>3, <2>4, <2>5 DEF TakeBack, Typed, TypeOK, ExitLeft, StageTypes, redisVars, idVars, loopVars, history, sending
<1>15. CASE EndScan
  <2>1. StageTypes'
    <3>1. at' \in [Procs -> Stages]
          /\ \A q \in Procs : at'[q] = IF q = Checker THEN "idle" ELSE at[q]
      BY <1>0, <1>15 DEF EndScan, Goto, Typed, TypeOK, Stages
    <3> QED BY <1>15, <3>1 DEF EndScan, StageTypes, Typed, TypeOK
  <2> QED BY <1>15, <2>1 DEF EndScan, Typed, TypeOK, ExitLeft, StageTypes, redisVars, idVars, loopVars, history, sending
<1>16. ASSUME NEW a \in Admins, ListDead(a) PROVE Typed'
  <2>1. StageTypes'
    <3>1. at' \in [Procs -> Stages]
          /\ \A q \in Procs : at'[q] = IF q = a THEN "scan" ELSE at[q]
      BY <1>0, <1>16 DEF ListDead, Goto, Typed, TypeOK, Stages
    <3> QED BY <1>16, <3>1 DEF ListDead, StageTypes, Typed, TypeOK
  <2>2. todo' \in [Procs -> Bags]
    BY <1>16 DEF ListDead, Typed, TypeOK
  <2> QED BY <1>16, <2>1, <2>2 DEF ListDead, Typed, TypeOK, ExitLeft, StageTypes, redisVars, idVars, loopVars, history, sending
<1>17. ASSUME NEW a \in Admins, NEW c \in Copies, PushDead(a, c) PROVE Typed'
  <2>1. StageTypes'
    BY <1>0, <1>17, TakeTypes DEF PushDead, TakeUp, Stages
  <2>2. todo' \in [Procs -> Bags]
    <3>1. LRem(todo[a], c) \in Bags
      BY <1>0, BagTypes DEF Typed, TypeOK
    <3> QED BY <1>17, <3>1 DEF PushDead, TakeUp, Typed, TypeOK
  <2>3. vote_queue' \in Seq(Copies)
    BY <1>17, AppendProperties DEF PushDead, Typed, TypeOK
  <2>4. retried' \subseteq Messages
    BY <1>0, <1>17 DEF PushDead, Typed, TypeOK
  <2> QED BY <1>17, <2>1, <2>2, <2>3, <2>4 DEF PushDead, Typed, TypeOK, ExitLeft, StageTypes, redisVars, idVars, loopVars, history, sending
<1>18. ASSUME NEW a \in Admins, Unbury(a) PROVE Typed'
  <2>1. held[a] \in Copies
    BY <1>0, <1>18, HeldType DEF Unbury
  <2>2. StageTypes'
    BY <1>0, <1>18, GotoTypes DEF Unbury, Stages
  <2>3. vote_dead_letter' \in Bags
    BY <1>18, <2>1, BagTypes DEF Unbury, Typed, TypeOK
  <2> QED BY <1>18, <2>2, <2>3 DEF Unbury, Typed, TypeOK, ExitLeft, StageTypes, redisVars, idVars, loopVars, history, sending
<1>19. ASSUME NEW a \in Admins, ForgetRetries(a) PROVE Typed'
  <2>1. StageTypes'
    BY <1>0, <1>19, ReleaseTypes DEF ForgetRetries
  <2>2. vote_retries' \in [Messages -> Nat]
    BY <1>19 DEF ForgetRetries, Typed, TypeOK
  <2> QED BY <1>19, <2>1, <2>2 DEF ForgetRetries, Typed, TypeOK, ExitLeft, StageTypes, redisVars, idVars, loopVars, history, sending
<1>20. ASSUME NEW a \in Admins, EndRetry(a) PROVE Typed'
  <2>1. StageTypes'
    <3>1. at' \in [Procs -> Stages]
          /\ \A q \in Procs : at'[q] = IF q = a THEN "done" ELSE at[q]
      BY <1>0, <1>20 DEF EndRetry, Goto, Typed, TypeOK, Stages
    <3> QED BY <1>20, <3>1 DEF EndRetry, StageTypes, Typed, TypeOK
  <2> QED BY <1>20, <2>1 DEF EndRetry, Typed, TypeOK, ExitLeft, StageTypes, redisVars, idVars, loopVars, history, sending
<1>21. CASE ExpireIds
  BY <1>21 DEF ExpireIds, Typed, TypeOK, ExitLeft, StageTypes, redisVars, idVars, loopVars, history, sending
<1>22. CASE Tick
  BY <1>22 DEF Tick, Times, Typed, TypeOK, ExitLeft, StageTypes, redisVars, idVars, loopVars, history, sending
<1>23. CASE CloseDB \/ Stop \/ Restart
  <2>1. running' \in {"up", "draining", "stopped", "down"} /\ ExitLeft'
    BY <1>23 DEF CloseDB, Stop, Restart, MayExit, history, Typed, TypeOK, ExitLeft, sending
  <2>2. UNCHANGED <<now, redisVars, at, held, loopVars, timers, sending, votes, again, history>>
    BY <1>23 DEF CloseDB, Stop, Restart
  <2> QED BY <2>1, <2>2 DEF Typed, TypeOK, redisVars, idVars, loopVars, history, sending
<1>24. CASE Exit \/ Crash
  <2>1. Die /\ exits < MaxExits
    BY <1>24 DEF Exit, Crash, MayExit, Typed, ExitLeft
  <2>2. exits' \in 0 .. MaxExits /\ running' = "down"
    BY <2>1 DEF Die, Typed, TypeOK
  <2>3. StageTypes'
    BY <2>1 DEF Die, StageTypes, Stages
  <2>4. timers' \in Bags /\ todo' \in [Procs -> Bags]
    BY <2>1, EmptyBagType DEF Die
  <2>5. /\ sender' \in [AllSenders -> {"new", "mark", "push", "ok", "failed"}]
        /\ made' \in [AllSenders -> Times]
    BY <2>1 DEF Die, Times, Typed, TypeOK
  <2>6. interrupted' \subseteq Messages
    BY <1>0, <2>1 DEF Die, Typed, TypeOK
  <2>7. scanTime' \in Times
    BY <2>1 DEF Die, Times
  <2>8. UNCHANGED <<now, redisVars, votes, again, retried, unmarked, repeated>>
    BY <2>1 DEF Die
  <2> QED BY <2>2, <2>3, <2>4, <2>5, <2>6, <2>7, <2>8 DEF Typed, TypeOK, ExitLeft, StageTypes,
              redisVars, idVars, sending
<1>25. CASE UNCHANGED vars
  BY <1>25 DEF vars, Typed, TypeOK, ExitLeft, redisVars, idVars, loopVars, history, sending
<1> QED BY <1>0, <1>1, <1>2, <1>3, <1>4, <1>5, <1>6, <1>7, <1>8, <1>9, <1>10, <1>11, <1>12, <1>13, <1>14, <1>15, <1>16, <1>17, <1>18, <1>19, <1>20, <1>21, <1>22, <1>23, <1>24, <1>25
        DEF Next, ProcessMessage, CheckTimeouts, RetryDeadLetters

(* Every variable keeps its type: no list holds anything but messages, none a *)
(* negative number of one, and a goroutine has a copy when its stage needs it. *)
THEOREM QueueTypeOK == Spec => []TypeOK
<1>1. Typed => TypeOK
  BY DEF Typed
<1> QED BY InitTyped, NextTyped, <1>1, PTL DEF Spec
-----------------------------------------------------------------------------
(* Idempotent sending *)

\* The id of a message that SendVoteMessageWithID has acknowledged stays known,
\* if it was marked.
AnsweredKnown ==
  \A s \in NamedSenders \ unmarked : sender[s] = "ok" => MessageOf[s] \in processed_vote_ids

Skipped == AnsweredKnown /\ RetriesAreSkipped

LEMMA InitSkipped == Init => Skipped
BY DEF Init, Skipped, AnsweredKnown, RetriesAreSkipped, AllSenders

LEMMA NextSkipped == Typed /\ Skipped /\ [Next]_vars => Skipped'
<1> SUFFICES ASSUME Typed, Skipped, [Next]_vars PROVE Skipped'
  OBVIOUS
<1> USE QueueAssumption
<1>1. ASSUME UNCHANGED <<sender, unmarked, repeated, processed_vote_ids>> PROVE Skipped'
  BY <1>1 DEF Skipped, AnsweredKnown, RetriesAreSkipped
<1>2. ASSUME NEW s \in AllSenders, SendCheck(s) PROVE Skipped'
  <2>1. /\ sender[s] = "new" /\ UNCHANGED <<processed_vote_ids, unmarked>>
        /\ \A t \in AllSenders : t # s => sender'[t] = sender[t]
    BY <1>2 DEF SendCheck, Skip, Proceed, redisVars, idVars, Typed, TypeOK
  <2>2. CASE Proceed(s) /\ UNCHANGED repeated
    <3>1. sender'[s] # "ok"
      BY <2>2 DEF Proceed, Typed, TypeOK
    <3> QED BY <2>1, <2>2, <3>1 DEF Skipped, AnsweredKnown, RetriesAreSkipped, AllSenders
  <2>3. CASE /\ IF MessageOf[s] \in KnownIds(s) THEN Skip(s) ELSE Proceed(s)
             /\ repeated' = IF Accepted(s) THEN repeated \cup {s} ELSE repeated
    <3>1. sender'[s] = "ok" <=> MessageOf[s] \in KnownIds(s)
      BY <2>3 DEF Skip, Proceed, Typed, TypeOK
    <3>2. AnsweredKnown'
      BY <2>1, <3>1 DEF KnownIds, Skipped, AnsweredKnown, AllSenders
    <3>3. s \in NamedSenders /\ Accepted(s) => sender'[s] = "ok"
      BY <3>1 DEF Accepted, KnownIds, Skipped, AnsweredKnown
    <3>4. RetriesAreSkipped'
      BY <2>1, <2>3, <3>3 DEF Skipped, RetriesAreSkipped, AllSenders
    <3> QED BY <3>2, <3>4 DEF Skipped
  <2> QED BY <1>2, <2>2, <2>3 DEF SendCheck
<1>3. ASSUME NEW s \in AllSenders,
             SendMark(s) \/ SendMarkNamed(s) \/ SendPush(s) \/ SendFails(s)
      PROVE  Skipped'
  <2>1. /\ repeated' = repeated /\ sender[s] # "ok"
        /\ \A t \in AllSenders : t # s => sender'[t] = sender[t]
        /\ processed_vote_ids \subseteq processed_vote_ids' /\ unmarked \subseteq unmarked'
    BY <1>3 DEF SendMark, SendMarkNamed, SendPush, SendFails, history, redisVars, idVars, Typed, TypeOK
  <2>2. s \in NamedSenders /\ sender'[s] = "ok" =>
          s \in unmarked' \/ MessageOf[s] \in processed_vote_ids'
    BY <1>3 DEF SendMark, SendMarkNamed, SendPush, SendFails, Typed, TypeOK
  <2> QED BY <2>1, <2>2 DEF Skipped, AnsweredKnown, RetriesAreSkipped, AllSenders
<1>4. ASSUME Die PROVE Skipped'
  <2>1. /\ UNCHANGED <<repeated, unmarked, processed_vote_ids>>
        /\ \A t \in AllSenders : sender'[t] = IF InFlight(t) THEN "failed" ELSE sender[t]
    BY <1>4 DEF Die, redisVars, idVars, sending
  <2> QED BY <2>1 DEF InFlight, Skipped, AnsweredKnown, RetriesAreSkipped, AllSenders
<1>5. ASSUME NEW w \in Workers, Consume(w) \/ ProcessMessage(w) PROVE Skipped'
  BY <1>1, <1>5 DEF Consume, ProcessMessage, CountVote, RefuseVote, ReadResults, CheckRetries, CountRetry,
     Bury, Unlist, Remove, redisVars, idVars, history, sending
<1>6. ASSUME NEW c \in Copies, Requeue(c) PROVE Skipped'
  BY <1>1, <1>6 DEF Requeue, idVars, history, sending
<1>7. ASSUME NEW a \in Admins, RetryDeadLetters(a) PROVE Skipped'
  BY <1>1, <1>7 DEF RetryDeadLetters, ListDead, Unbury, ForgetRetries, EndRetry, PushDead, redisVars,
     idVars, history, sending
<1>8. CASE CheckTimeouts
  BY <1>1, <1>8 DEF CheckTimeouts, ListExpired, CountTimeout, TakeBack, EndScan, CheckExpired, Bury, Unlist,
     redisVars, idVars, history, sending
<1>9. CASE ExpireIds \/ Tick \/ CloseDB \/ Stop \/ Restart
  BY <1>1, <1>9 DEF ExpireIds, Tick, CloseDB, Stop, Restart, redisVars, idVars, history, sending
<1>10. CASE UNCHANGED vars
  BY <1>1, <1>10 DEF vars, redisVars, idVars, history, sending
<1> QED BY <1>2, <1>3, <1>4, <1>5, <1>6, <1>7, <1>8, <1>9, <1>10 DEF Next, Send, Exit, Crash

(* SendVoteMessageWithID does not push a message whose id another call has     *)
(* acknowledged, whatever crashes, expiries and other calls come between,     *)
(* provided Redis answers its SISMEMBER, and has answered that call's SADD.   *)
THEOREM AcknowledgedNotSentAgain == Spec => []RetriesAreSkipped
<1>1. Skipped => RetriesAreSkipped
  BY DEF Skipped
<1> QED BY InitTyped, NextTyped, InitSkipped, NextSkipped, <1>1, PTL DEF Spec

-----------------------------------------------------------------------------
(* No copy of a message comes from nowhere *)

\* m has one position in the queue, one timer and one goroutine at most, and
\* only one of the three; once it is counted it has none.
OneCopy(m) ==
  /\ \A i, j \in DOMAIN vote_queue : vote_queue[i].id = m /\ vote_queue[j].id = m => i = j
  /\ \A c, d \in Copies :
       c.id = m /\ timers[c] > 0 /\ d.id = m /\ timers[d] > 0 => c = d /\ timers[c] = 1
  /\ \A w, x \in Workers : Handles(w, m) /\ Handles(x, m) => w = x
  /\ Queued(m) => ~Holds(timers, m) /\ \A w \in Workers : ~Handles(w, m)
  /\ Holds(timers, m) => \A w \in Workers : ~Handles(w, m)
  /\ votes[m] > 0 => /\ votes[m] = 1
                     /\ ~Queued(m) /\ ~Holds(timers, m)
                     /\ \A w \in Workers : ~Handles(w, m)

Single == \A m \in Messages \ (again \cup retried) : OneCopy(m)

LEMMA InitSingle == Init => Single
<1> SUFFICES ASSUME Init, NEW m \in Messages PROVE OneCopy(m)
  BY DEF Single
<1>1. /\ vote_queue = <<>> /\ votes[m] = 0
      /\ \A c \in Copies : timers[c] = 0
      /\ \A w \in Workers : at[w] = "idle"
  BY DEF Init, IdleProcs, EmptyBag, Procs
<1>2. DOMAIN vote_queue = {}
  BY <1>1
<1>3. ~Queued(m) /\ ~Holds(timers, m) /\ \A w \in Workers : ~Handles(w, m)
  BY <1>1, <1>2 DEF Queued, Holds, Handles
<1>4. \A c \in Copies : ~(timers[c] > 0)
  BY <1>1
<1>5. ~(votes[m] > 0)
  BY <1>1
<1> QED BY <1>2, <1>3, <1>4, <1>5 DEF OneCopy

(* A step after which there is no copy that was not there before. *)
LEMMA FewerCopies ==
  ASSUME Single, again \subseteq again', retried \subseteq retried',
         UNCHANGED <<vote_queue, timers, votes>>,
         \A m \in Messages \ (again' \cup retried') : \A w \in Workers : Handles(w, m)' => Handles(w, m)
  PROVE  Single'
<1> SUFFICES ASSUME NEW m \in Messages, m \notin again' \cup retried' PROVE OneCopy(m)'
  BY DEF Single
<1>1. OneCopy(m)
  BY DEF Single
<1> QED BY <1>1 DEF OneCopy, Queued, Holds

(* The new copy of a message that had none. *)
LEMMA NewInQueue ==
  ASSUME Typed, NEW c \in Copies, vote_queue' = Append(vote_queue, c), UNCHANGED <<timers, votes>>,
         \A m \in Messages : \A w \in Workers : Handles(w, m)' => Handles(w, m),
         NEW m \in Messages, OneCopy(m), c.id = m => ~UnderWay(m)
  PROVE  OneCopy(m)'
<1>1. /\ Len(vote_queue') = Len(vote_queue) + 1 /\ DOMAIN vote_queue' = 1 .. Len(vote_queue) + 1
      /\ DOMAIN vote_queue = 1 .. Len(vote_queue) /\ Len(vote_queue) \in Nat
      /\ \A i \in 1 .. Len(vote_queue) : vote_queue'[i] = vote_queue[i]
      /\ vote_queue'[Len(vote_queue) + 1] = c
  BY DEF Typed, TypeOK
<1>2. CASE c.id # m
  BY <1>1, <1>2 DEF OneCopy, Queued, Holds
<1>3. CASE c.id = m
  <2>1. /\ \A i \in 1 .. Len(vote_queue) : vote_queue[i].id # m
        /\ ~Holds(timers, m) /\ \A w \in Workers : ~Handles(w, m)
        /\ ~(votes[m] > 0)
    BY <1>1, <1>3 DEF UnderWay, Queued
  <2> QED BY <1>1, <2>1 DEF OneCopy, Queued, Holds
<1> QED BY <1>2, <1>3

LEMMA NextSingle == Typed /\ Single /\ [Next]_vars => Single'
<1> SUFFICES ASSUME Typed, Single, [Next]_vars PROVE Single'
  OBVIOUS
<1> USE QueueAssumption
<1>0. Workers \subseteq Procs /\ \A a \in Admins \cup {Checker} : a \in Procs /\ a \notin Workers
  BY DEF Procs
\* A step of a goroutine that is no worker, or none of theirs at all.
<1>1. ASSUME again \subseteq again', retried \subseteq retried', UNCHANGED <<vote_queue, timers, votes>>,
             \A w \in Workers : UNCHANGED <<at[w], held[w]>>
      PROVE  Single'
  BY <1>1, FewerCopies DEF Handles
<1>2. ASSUME NEW s \in AllSenders, SendCheck(s) \/ SendMark(s) \/ SendMarkNamed(s) \/ SendFails(s) PROVE Single'
  BY <1>1, <1>2 DEF SendCheck, SendMark, SendMarkNamed, SendFails, redisVars, idVars, history, sending
<1>3. ASSUME NEW s \in AllSenders, SendPush(s) PROVE Single'
  <2> DEFINE c == Message(s)
  <2>1. c \in Copies /\ c.id = MessageOf[s]
    BY DEF Message, Copies, Typed, TypeOK
  <2>2. /\ vote_queue' = Append(vote_queue, c) /\ UNCHANGED <<timers, votes, at, held, retried>>
        /\ again' = IF UnderWay(c.id) THEN again \cup {c.id} ELSE again
    BY <1>3, <2>1 DEF SendPush, NoteAgain, history, sending
  <2> HIDE DEF c
  <2>3. \A m \in Messages : \A w \in Workers : Handles(w, m)' => Handles(w, m)
    BY <2>2 DEF Handles
  <2>4. ASSUME NEW m \in Messages, m \notin again' \cup retried' PROVE OneCopy(m)'
    <3>1. OneCopy(m) /\ (c.id = m => ~UnderWay(m))
      BY <2>2, <2>4 DEF Single
    <3> QED BY <2>1, <2>2, <2>3, <3>1, NewInQueue
  <2> QED BY <2>4 DEF Single
<1>4. ASSUME NEW w \in Workers, Consume(w) PROVE Single'
  <2> DEFINE h == Head(vote_queue)
  <2>1. /\ vote_queue \in Seq(Copies) /\ vote_queue # <<>> /\ at[w] = "idle"
        /\ vote_queue' = Tail(vote_queue) /\ UNCHANGED <<timers, votes, again, retried>>
    BY <1>4 DEF Consume, history, Typed, TypeOK, sending
  <2>2. /\ Len(vote_queue) \in Nat /\ Len(vote_queue) >= 1 /\ h = vote_queue[1]
        /\ DOMAIN vote_queue = 1 .. Len(vote_queue)
        /\ DOMAIN vote_queue' = 1 .. Len(vote_queue) - 1
        /\ \A i \in 1 .. Len(vote_queue) - 1 : vote_queue'[i] = vote_queue[i + 1]
    BY <2>1
  <2>3. /\ at'[w] = "handle" /\ held'[w] = h
        /\ \A x \in Workers : x # w => at'[x] = at[x] /\ held'[x] = held[x]
    BY <1>0, <1>4 DEF Consume, Goto, Typed, TypeOK
  <2> HIDE DEF h
  <2>4. ASSUME NEW m \in Messages, OneCopy(m) PROVE OneCopy(m)'
    <3>1. Holds(timers, m)' <=> Holds(timers, m)
      BY <2>1 DEF Holds
    <3>2. CASE h.id # m
      <4>1. \A x \in Workers : Handles(x, m)' => Handles(x, m)
        BY <2>3, <3>2 DEF Handles
      <4>2. Queued(m)' => Queued(m)
        BY <2>2 DEF Queued
      <4>3. \A i, j \in DOMAIN vote_queue' :
              vote_queue'[i].id = m /\ vote_queue'[j].id = m => i = j
        <5> SUFFICES ASSUME NEW i \in 1 .. Len(vote_queue) - 1, NEW j \in 1 .. Len(vote_queue) - 1,
                            vote_queue[i + 1].id = m, vote_queue[j + 1].id = m
                     PROVE  i = j
          BY <2>2
        <5>1. i + 1 \in DOMAIN vote_queue /\ j + 1 \in DOMAIN vote_queue
          BY <2>2
        <5>2. i + 1 = j + 1
          BY <2>4, <5>1 DEF OneCopy
        <5> QED BY <5>2
      <4> QED BY <2>1, <2>4, <3>1, <4>1, <4>2, <4>3 DEF OneCopy
    <3>3. CASE h.id = m
      <4>1. Queued(m)
        BY <2>2, <3>3 DEF Queued
      <4>2. ~Queued(m)'
        <5> SUFFICES ASSUME NEW i \in 1 .. Len(vote_queue) - 1, vote_queue[i + 1].id = m PROVE FALSE
          BY <2>2 DEF Queued
        <5>1. i + 1 \in DOMAIN vote_queue /\ 1 \in DOMAIN vote_queue
          BY <2>2
        <5>2. i + 1 = 1
          BY <2>2, <2>4, <3>3, <5>1 DEF OneCopy
        <5> QED BY <5>2
      <4>3. \A x \in Workers : Handles(x, m)' => x = w
        <5>1. \A x \in Workers : ~Handles(x, m)
          BY <2>4, <4>1 DEF OneCopy
        <5> QED BY <2>3, <5>1 DEF Handles
      <4>4. ~Holds(timers, m) /\ ~(votes[m] > 0)
        BY <2>4, <4>1 DEF OneCopy
      <4>5. \A i, j \in DOMAIN vote_queue' : ~(vote_queue'[i].id = m /\ vote_queue'[j].id = m)
        BY <4>2 DEF Queued
      <4>6. \A c, d \in Copies : ~(c.id = m /\ timers'[c] > 0)
        BY <2>1, <4>4 DEF Holds
      <4>7. ~Holds(timers, m)' /\ ~(votes'[m] > 0)
        BY <2>1, <3>1, <4>4
      <4>8. \A x, y \in Workers : Handles(x, m)' /\ Handles(y, m)' => x = y
        BY <4>3
      <4> QED BY <4>2, <4>5, <4>6, <4>7, <4>8 DEF OneCopy
    <3> QED BY <3>2, <3>3
  <2> QED BY <2>1, <2>4 DEF Single
<1>6. ASSUME NEW w \in Workers, CountVote(w) PROVE Single'
  <2> DEFINE k == held[w].id
  <2>1. k \in Messages /\ Handles(w, k)
    BY <1>0, <1>6, HeldType DEF CountVote, Handles
  <2>2. /\ UNCHANGED <<vote_queue, timers, retried, held>> /\ again \subseteq again'
        /\ votes' = [votes EXCEPT ![k] = @ + 1]
        /\ Goto(w, "results") \/ (Goto(w, "failed") /\ k \in again')
    BY <1>6 DEF CountVote, redisVars, history, sending
  <2> HIDE DEF k
  <2>3. ASSUME NEW m \in Messages, m \notin again' \cup retried' PROVE OneCopy(m)'
    <3>1. OneCopy(m)
      BY <2>2, <2>3 DEF Single
    <3>2. \A x \in Workers : Handles(x, m)' => Handles(x, m) /\ (m = k => x # w)
      BY <1>0, <2>2, <2>3 DEF Goto, Handles, k, Typed, TypeOK
    <3>3. CASE m # k
      <4>1. votes'[m] = votes[m]
        BY <2>2, <3>3 DEF Typed, TypeOK
      <4> QED BY <2>2, <3>1, <3>2, <4>1 DEF OneCopy, Queued, Holds
    <3>4. CASE m = k
      <4>1. ~Queued(m) /\ ~Holds(timers, m) /\ ~(votes[m] > 0) /\ \A x \in Workers : Handles(x, m) => x = w
        BY <2>1, <3>1, <3>4 DEF OneCopy
      <4>2. votes'[m] = 1
        BY <2>1, <2>2, <3>4, <4>1 DEF Typed, TypeOK
      <4> QED BY <2>2, <3>1, <3>2, <3>4, <4>1, <4>2 DEF OneCopy, Queued, Holds
    <3> QED BY <3>3, <3>4
  <2> QED BY <2>3 DEF Single
<1>7. ASSUME NEW w \in Workers, RefuseVote(w) \/ ReadResults(w) \/ CheckRetries(w) PROVE Single'
  <2>1. UNCHANGED <<vote_queue, timers, votes, retried, held>> /\ again \subseteq again'
    BY <1>7 DEF RefuseVote, ReadResults, CheckRetries, redisVars, history, sending
  <2>2. \A m \in Messages \ (again' \cup retried') : \A x \in Workers : Handles(x, m)' => Handles(x, m)
    BY <1>0, <1>7 DEF RefuseVote, ReadResults, CheckRetries, Verdict, Goto, Handles, Typed, TypeOK
  <2> QED BY <2>1, <2>2, FewerCopies
<1>8. ASSUME NEW w \in Workers, CountRetry(w) PROVE Single'
  <2> DEFINE k == held[w].id
             c == Renewed(held[w], now)
  <2>1. k \in Messages /\ Handles(w, k) /\ c \in Copies /\ c.id = k
    BY <1>0, <1>8, HeldType, RenewedType DEF CountRetry, Handles, Typed, TypeOK
  <2>2. /\ UNCHANGED <<vote_queue, votes, again, retried, held>>
        /\ timers' = [timers EXCEPT ![c] = @ + 1] /\ Goto(w, "remove")
    BY <1>8 DEF CountRetry, With, redisVars, history, sending
  <2> HIDE DEF k, c
  <2>3. ASSUME NEW m \in Messages, OneCopy(m) PROVE OneCopy(m)'
    <3>1. \A x \in Workers : Handles(x, m)' => Handles(x, m) /\ (m = k => x # w)
      BY <1>0, <2>2 DEF Goto, Handles, k, Typed, TypeOK
    <3>2. \A d \in Copies : timers'[d] = IF d = c THEN timers[d] + 1 ELSE timers[d]
      BY <2>1, <2>2 DEF Typed, TypeOK, Bags
    <3>3. CASE m # k
      <4>1. \A d \in Copies : d.id = m => timers'[d] = timers[d]
        BY <2>1, <3>2, <3>3
      <4>2. Holds(timers, m)' <=> Holds(timers, m)
        BY <4>1 DEF Holds
      <4> QED BY <2>2, <2>3, <3>1, <4>1, <4>2 DEF OneCopy, Queued
    <3>4. CASE m = k
      <4>1. ~Queued(m) /\ ~Holds(timers, m) /\ ~(votes[m] > 0) /\ \A x \in Workers : Handles(x, m) => x = w
        BY <2>1, <2>3, <3>4 DEF OneCopy
      <4>2. \A d \in Copies : d.id = m => timers[d] = 0
        BY <4>1 DEF Holds, Bags, Typed, TypeOK
      <4>3. \A d \in Copies : d.id = m /\ timers'[d] > 0 => d = c /\ timers'[d] = 1
        BY <3>2, <4>2
      <4> QED BY <2>2, <2>3, <3>1, <3>4, <4>1, <4>3 DEF OneCopy, Queued
    <3> QED BY <3>3, <3>4
  <2> QED BY <2>2, <2>3 DEF Single
<1>9. ASSUME NEW w \in Workers, Bury(w) \/ Unlist(w) \/ Remove(w) PROVE Single'
  <2>1. UNCHANGED <<vote_queue, timers, votes, again, retried>>
    BY <1>9 DEF Bury, Unlist, Remove, history, sending
  <2>2. \A m \in Messages : \A x \in Workers : Handles(x, m)' => Handles(x, m)
    BY <1>0, <1>9 DEF Bury, Unlist, Remove, Release, Goto, Handles, Typed, TypeOK
  <2> QED BY <2>1, <2>2, FewerCopies
<1>10. ASSUME NEW c \in Copies, Requeue(c) PROVE Single'
  <2>1. /\ timers[c] > 0 /\ vote_queue' = Append(vote_queue, c)
        /\ UNCHANGED <<votes, again, retried, at, held>>
    BY <1>10 DEF Requeue, history, sending
  <2>2. \A d \in Copies : timers'[d] = IF d = c THEN timers[d] - 1 ELSE timers[d]
    BY <1>10 DEF Requeue, LRem, Typed, TypeOK, Bags
  <2>3. ASSUME NEW m \in Messages, OneCopy(m) PROVE OneCopy(m)'
    <3>1. \A x \in Workers : Handles(x, m)' <=> Handles(x, m)
      BY <2>1 DEF Handles
    <3>2. /\ DOMAIN vote_queue' = 1 .. Len(vote_queue) + 1
          /\ DOMAIN vote_queue = 1 .. Len(vote_queue) /\ Len(vote_queue) \in Nat
          /\ \A i \in 1 .. Len(vote_queue) : vote_queue'[i] = vote_queue[i]
          /\ vote_queue'[Len(vote_queue) + 1] = c
      BY <2>1 DEF Typed, TypeOK
    <3>3. CASE c.id # m
      <4>1. \A d \in Copies : d.id = m => timers'[d] = timers[d]
        BY <2>2, <3>3
      <4>2. (Holds(timers, m)' <=> Holds(timers, m)) /\ (Queued(m)' <=> Queued(m))
        BY <3>2, <3>3, <4>1 DEF Holds, Queued
      <4>3. \A i, j \in DOMAIN vote_queue' :
              vote_queue'[i].id = m /\ vote_queue'[j].id = m => i = j
        BY <2>3, <3>2, <3>3 DEF OneCopy
      <4> QED BY <2>1, <2>3, <3>1, <4>1, <4>2, <4>3 DEF OneCopy
    <3>4. CASE c.id = m
      <4>1. Holds(timers, m) /\ timers[c] = 1
        BY <2>1, <2>3, <3>4 DEF OneCopy, Holds
      <4>2. /\ ~Queued(m) /\ ~(votes[m] > 0) /\ \A x \in Workers : ~Handles(x, m)
            /\ \A d \in Copies : d.id = m /\ timers[d] > 0 => d = c
        BY <2>1, <2>3, <3>4, <4>1 DEF OneCopy
      <4>3. \A d \in Copies : d.id = m => ~(timers'[d] > 0)
        BY <2>2, <4>1, <4>2
      <4>4. \A i \in 1 .. Len(vote_queue) : vote_queue[i].id # m
        BY <3>2, <4>2 DEF Queued
      <4>5. \A i, j \in DOMAIN vote_queue' :
              vote_queue'[i].id = m /\ vote_queue'[j].id = m => i = j
        BY <3>2, <4>4
      <4>6. ~Holds(timers, m)'
        BY <4>3 DEF Holds
      <4>7. \A x \in Workers : ~Handles(x, m)'
        BY <3>1, <4>2
      <4>8. ~(votes'[m] > 0)
        BY <2>1, <4>2
      <4> QED BY <4>3, <4>5, <4>6, <4>7, <4>8 DEF OneCopy
    <3> QED BY <3>3, <3>4
  <2> QED BY <2>1, <2>3 DEF Single
<1>11. CASE ListExpired \/ CountTimeout \/ EndScan \/ (\E c \in Copies : CheckExpired(c))
            \/ Bury(Checker) \/ Unlist(Checker)
  BY <1>0, <1>1, <1>11 DEF ListExpired, CountTimeout, EndScan, CheckExpired, Bury, Unlist, TakeUp, Release,
     Goto, redisVars, idVars, history, Typed, TypeOK, sending
<1>12. CASE TakeBack
  <2> DEFINE k == held[Checker].id
             c == Renewed(held[Checker], scanTime)
  <2>1. k \in Messages /\ c \in Copies /\ c.id = k
    BY <1>0, <1>12, HeldType, RenewedType DEF TakeBack, Typed, TypeOK
  <2>2. /\ UNCHANGED <<vote_queue, votes, retried>>
        /\ timers' = [timers EXCEPT ![c] = @ + 1]
        /\ again' = IF UnderWay(k) THEN again \cup {k} ELSE again
    BY <1>12 DEF TakeBack, NoteAgain, With, history, sending
  <2>3. \A m \in Messages : \A x \in Workers : Handles(x, m)' <=> Handles(x, m)
    BY <1>0, <1>12 DEF TakeBack, Release, Goto, Handles, Typed, TypeOK
  <2> HIDE DEF k, c
  <2>4. ASSUME NEW m \in Messages, m \notin again' \cup retried' PROVE OneCopy(m)'
    <3>1. OneCopy(m)
      BY <2>2, <2>4 DEF Single
    <3>2. \A d \in Copies : timers'[d] = IF d = c THEN timers[d] + 1 ELSE timers[d]
      BY <2>1, <2>2 DEF Typed, TypeOK, Bags
    <3>3. CASE m # k
      <4>1. \A d \in Copies : d.id = m => timers'[d] = timers[d]
        BY <2>1, <3>2, <3>3
      <4>2. Holds(timers, m)' <=> Holds(timers, m)
        BY <4>1 DEF Holds
      <4> QED BY <2>2, <2>3, <3>1, <4>1, <4>2 DEF OneCopy, Queued
    <3>4. CASE m = k
      <4>1. ~Queued(m) /\ ~Holds(timers, m) /\ ~(votes[m] > 0) /\ \A x \in Workers : ~Handles(x, m)
        BY <2>2, <2>4, <3>4 DEF UnderWay
      <4>2. \A d \in Copies : d.id = m => timers[d] = 0
        BY <4>1 DEF Holds, Bags, Typed, TypeOK
      <4>3. \A d \in Copies : d.id = m /\ timers'[d] > 0 => d = c /\ timers'[d] = 1
        BY <3>2, <4>2
      <4> QED BY <2>2, <2>3, <3>1, <4>1, <4>3 DEF OneCopy, Queued
    <3> QED BY <3>3, <3>4
  <2> QED BY <2>4 DEF Single
<1>13. ASSUME NEW a \in Admins, ListDead(a) \/ Unbury(a) \/ ForgetRetries(a) \/ EndRetry(a) PROVE Single'
  BY <1>0, <1>1, <1>13 DEF ListDead, Unbury, ForgetRetries, EndRetry, Release, Goto, redisVars, history,
     Typed, TypeOK, sending
<1>14. ASSUME NEW a \in Admins, NEW c \in Copies, PushDead(a, c) PROVE Single'
  <2>1. /\ vote_queue' = Append(vote_queue, c) /\ UNCHANGED <<timers, votes, again>>
        /\ retried' = retried \cup {c.id}
    BY <1>14 DEF PushDead
  <2>2. \A m \in Messages : \A w \in Workers : Handles(w, m)' => Handles(w, m)
    BY <1>0, <1>14 DEF PushDead, TakeUp, Goto, Handles, Typed, TypeOK
  <2>3. ASSUME NEW m \in Messages, m \notin again' \cup retried' PROVE OneCopy(m)'
    <3>1. OneCopy(m) /\ c.id # m
      BY <2>1, <2>3 DEF Single
    <3> QED BY <2>1, <2>2, <3>1, NewInQueue
  <2> QED BY <2>3 DEF Single
<1>15. CASE ExpireIds \/ Tick \/ CloseDB \/ Stop \/ Restart
  BY <1>1, <1>15 DEF ExpireIds, Tick, CloseDB, Stop, Restart, redisVars, history, sending
<1>16. CASE Exit \/ Crash
  <2>1. /\ UNCHANGED <<vote_queue, votes, again, retried>> /\ \A c \in Copies : timers'[c] = 0
        /\ \A w \in Workers : at'[w] = "idle"
    BY <1>0, <1>16 DEF Exit, Crash, Die, EmptyBag, redisVars, sending
  <2>2. ASSUME NEW m \in Messages, OneCopy(m) PROVE OneCopy(m)'
    <3>1. /\ ~Holds(timers, m)' /\ \A w \in Workers : ~Handles(w, m)'
          /\ Queued(m)' <=> Queued(m)
      BY <2>1 DEF Holds, Handles, Queued
    <3>2. \A i, j \in DOMAIN vote_queue' :
            vote_queue'[i].id = m /\ vote_queue'[j].id = m => i = j
      BY <2>1, <2>2 DEF OneCopy
    <3>3. votes'[m] > 0 => votes'[m] = 1 /\ ~Queued(m)'
      BY <2>1, <2>2, <3>1 DEF OneCopy
    <3> QED BY <2>1, <3>1, <3>2, <3>3 DEF OneCopy
  <2> QED BY <2>1, <2>2 DEF Single
<1>17. CASE UNCHANGED vars
  BY <1>1, <1>17 DEF vars, redisVars, history, sending
<1> QED BY <1>2, <1>3, <1>4, <1>6, <1>7, <1>8, <1>9, <1>10, <1>11, <1>12, <1>13, <1>14, <1>15, <1>16, <1>17
        DEF Next, Send, ProcessMessage, CheckTimeouts, RetryDeadLetters

(* Consuming, retrying, burying, crashing and starting again never make two     *)
(* copies of one: a message that nobody queued once more while it was under way *)
(* is counted once at most, however many goroutines, exits and retries.         *)
THEOREM OneCopyCountsOnce == Spec => []DoublesExplained
<1>1. Typed /\ Single => DoublesExplained
  <2> SUFFICES ASSUME Typed, Single, NEW m \in Messages, votes[m] > 1, m \notin again \cup retried
               PROVE  FALSE
    BY DEF DoublesExplained
  <2>1. OneCopy(m) /\ votes[m] \in Nat
    BY DEF Single, Typed, TypeOK
  <2> QED BY <2>1 DEF OneCopy
<1> QED BY InitTyped, NextTyped, InitSingle, NextSingle, <1>1, PTL DEF Spec

-----------------------------------------------------------------------------
(* Counting the copies of a message *)

\* 1 for a copy of m, and 0 for any other.
One(c, m) == IF c.id = m THEN 1 ELSE 0

\* The places of m in a queue, and the copies of m in a bag told apart.
QueueTokens(q, m) == {i \in 1 .. Len(q) : q[i].id = m}
BagTokens(bag, m) == {t \in Copies \X (Nat \ {0}) : t[1].id = m /\ t[2] <= bag[t[1]]}

InQueue(q, m) == Cardinality(QueueTokens(q, m))
InBag(bag, m) == Cardinality(BagTokens(bag, m))

(* Two finite sets that differ in one element at most.                        *)
LEMMA DifferInOne ==
  ASSUME NEW S, NEW T, NEW x, IsFiniteSet(S), S \ {x} = T \ {x}
  PROVE  /\ IsFiniteSet(T) /\ Cardinality(S) \in Nat /\ Cardinality(T) \in Nat
         /\ Cardinality(T) = Cardinality(S) - (IF x \in S THEN 1 ELSE 0)
                                            + (IF x \in T THEN 1 ELSE 0)
<1> DEFINE R == S \ {x}
<1>1. IsFiniteSet(R) /\ Cardinality(R) = IF x \in S THEN Cardinality(S) - 1 ELSE Cardinality(S)
  BY FS_RemoveElement
<1>2. T = IF x \in T THEN R \cup {x} ELSE R
  OBVIOUS
<1>3. x \notin R
  OBVIOUS
<1> HIDE DEF R
<1>4. IsFiniteSet(R \cup {x}) /\ Cardinality(R \cup {x}) = Cardinality(R) + 1
  BY <1>1, <1>3, FS_AddElement
<1>5. IsFiniteSet(T)
  BY <1>1, <1>2, <1>4
<1>6. Cardinality(S) \in Nat /\ Cardinality(T) \in Nat /\ Cardinality(R) \in Nat
  BY <1>1, <1>5, FS_CardinalityType
<1>7. Cardinality(T) = IF x \in T THEN Cardinality(R) + 1 ELSE Cardinality(R)
  BY <1>2, <1>4
<1> QED BY <1>1, <1>5, <1>6, <1>7

LEMMA QueueFinite ==
  ASSUME NEW q \in Seq(Copies), NEW m
  PROVE  /\ IsFiniteSet(QueueTokens(q, m)) /\ InQueue(q, m) \in Nat
         /\ InQueue(q, m) > 0 => \E i \in DOMAIN q : q[i].id = m
<1>1. IsFiniteSet(1 .. Len(q)) /\ Len(q) \in Nat
  BY LenProperties, FS_Interval
<1>2. IsFiniteSet(QueueTokens(q, m))
  BY <1>1, FS_Subset DEF QueueTokens
<1>3. InQueue(q, m) > 0 => QueueTokens(q, m) # {}
  BY FS_EmptySet DEF InQueue
<1>4. DOMAIN q = 1 .. Len(q)
  BY LenProperties
<1> QED BY <1>2, <1>3, <1>4, FS_CardinalityType DEF InQueue, QueueTokens

(* A copy appended to a queue is one more of its message.                     *)
LEMMA QueueAppend ==
  ASSUME NEW q \in Seq(Copies), NEW c \in Copies, NEW m
  PROVE  InQueue(Append(q, c), m) = InQueue(q, m) + One(c, m)
<1> DEFINE n == Len(q) + 1
           S == QueueTokens(q, m)
           T == QueueTokens(Append(q, c), m)
<1>1. /\ Len(q) \in Nat /\ Len(Append(q, c)) = n /\ Append(q, c)[n] = c
      /\ \A i \in 1 .. Len(q) : Append(q, c)[i] = q[i]
  BY LenProperties, AppendProperties
<1>2. S \ {n} = T \ {n} /\ n \notin S /\ (n \in T <=> c.id = m)
  BY <1>1 DEF QueueTokens
<1>3. IsFiniteSet(S)
  BY QueueFinite
<1> HIDE DEF S, T, n
<1>4. /\ Cardinality(S) \in Nat
      /\ Cardinality(T) = Cardinality(S) - (IF n \in S THEN 1 ELSE 0) + (IF n \in T THEN 1 ELSE 0)
  BY <1>2, <1>3, DifferInOne
<1> QED BY <1>2, <1>4 DEF InQueue, One, S, T

(* The head taken from a queue is one less of its message.                    *)
LEMMA QueueTail ==
  ASSUME NEW q \in Seq(Copies), q # <<>>, NEW m
  PROVE  InQueue(Tail(q), m) = InQueue(q, m) - One(Head(q), m)
<1> DEFINE S == QueueTokens(Tail(q), m)
           T == QueueTokens(q, m)
           R == T \ {1}
           f == [i \in S |-> i + 1]
<1>1. /\ Len(q) \in Nat \ {0} /\ Tail(q) \in Seq(Copies) /\ Len(Tail(q)) = Len(q) - 1
      /\ \A i \in 1 .. Len(Tail(q)) : Tail(q)[i] = q[i + 1]
      /\ Head(q) = q[1]
  BY EmptySeq, HeadTailProperties
<1>2. IsFiniteSet(S) /\ IsFiniteSet(T)
  BY <1>1, QueueFinite
<1>3. /\ f \in [S -> R] /\ \A i, j \in S : f[i] = f[j] => i = j
  <2>1. \A i \in S : i \in Nat /\ i + 1 \in R
    BY <1>1 DEF QueueTokens
  <2> QED BY <2>1
<1>4. \A j \in R : \E i \in S : f[i] = j
  <2> SUFFICES ASSUME NEW j \in R PROVE j - 1 \in S /\ (j - 1) + 1 = j
    OBVIOUS
  <2>1. j \in 2 .. Len(q) /\ q[j].id = m
    BY <1>1 DEF QueueTokens
  <2>2. j - 1 \in 1 .. Len(Tail(q)) /\ Tail(q)[j - 1] = q[j]
    BY <1>1, <2>1
  <2> QED BY <2>1, <2>2 DEF QueueTokens
<1>5. 1 \in T <=> Head(q).id = m
  BY <1>1 DEF QueueTokens
<1> HIDE DEF S, T
<1>6. ExistsBijection(S, R)
  <2>1. f \in Bijection(S, R)
    BY <1>3, <1>4 DEF Bijection, Injection, Surjection, IsInjective
  <2> QED BY <2>1 DEF ExistsBijection
<1>7. Cardinality(R) = Cardinality(S)
  BY <1>2, <1>6, FS_Bijection
<1>8. Cardinality(R) = IF 1 \in T THEN Cardinality(T) - 1 ELSE Cardinality(T)
  BY <1>2, FS_RemoveElement
<1>9. Cardinality(T) \in Nat
  BY <1>2, FS_CardinalityType
<1> QED BY <1>5, <1>7, <1>8, <1>9 DEF InQueue, One, S, T

(* A copy added to a bag is one more of its message.                          *)
LEMMA BagWith ==
  ASSUME NEW bag \in Bags, NEW c \in Copies, NEW m, IsFiniteSet(BagTokens(bag, m))
  PROVE  /\ IsFiniteSet(BagTokens(With(bag, c), m))
         /\ InBag(With(bag, c), m) = InBag(bag, m) + One(c, m)
<1> DEFINE x == <<c, bag[c] + 1>>
           S == BagTokens(bag, m)
           T == BagTokens(With(bag, c), m)
<1>1. \A d \in Copies : bag[d] \in Nat /\ With(bag, c)[d] = IF d = c THEN bag[c] + 1 ELSE bag[d]
  BY DEF Bags, With
<1>2. x \in Copies \X (Nat \ {0}) /\ x[1] = c /\ x[2] = bag[c] + 1
  BY <1>1
<1>3. x \notin S /\ (x \in T <=> c.id = m)
  BY <1>1, <1>2 DEF BagTokens
<1>4. ASSUME NEW t \in Copies \X (Nat \ {0}), t # x
      PROVE  t[2] <= bag[t[1]] <=> t[2] <= With(bag, c)[t[1]]
  <2>1. t = <<t[1], t[2]>> /\ t[1] \in Copies /\ t[2] \in Nat
    OBVIOUS
  <2>2. CASE t[1] = c
    <3>1. t[2] # bag[c] + 1
      BY <1>4, <2>1, <2>2
    <3> QED BY <1>1, <2>1, <2>2, <3>1
  <2>3. CASE t[1] # c
    BY <1>1, <2>1, <2>3
  <2> QED BY <2>2, <2>3
<1>5. S \ {x} = T \ {x}
  BY <1>4 DEF BagTokens
<1> HIDE DEF x, S, T
<1>6. /\ IsFiniteSet(T) /\ Cardinality(S) \in Nat
      /\ Cardinality(T) = Cardinality(S) - (IF x \in S THEN 1 ELSE 0) + (IF x \in T THEN 1 ELSE 0)
  <2>1. IsFiniteSet(S)
    BY DEF S
  <2> QED BY <1>5, <2>1, DifferInOne
<1> QED BY <1>3, <1>6 DEF InBag, One, S, T

(* LREM takes one of the message at most, and none when it finds nothing.      *)
LEMMA BagLRem ==
  ASSUME NEW bag \in Bags, NEW c \in Copies, NEW m, IsFiniteSet(BagTokens(bag, m))
  PROVE  /\ IsFiniteSet(BagTokens(LRem(bag, c), m))
         /\ InBag(LRem(bag, c), m) \in Nat /\ InBag(bag, m) \in Nat
         /\ InBag(LRem(bag, c), m) >= InBag(bag, m) - One(c, m)
<1> DEFINE x == <<c, bag[c]>>
           S == BagTokens(bag, m)
           T == BagTokens(LRem(bag, c), m)
<1>1. \A d \in Copies :
        bag[d] \in Nat /\ LRem(bag, c)[d] = IF d = c THEN (IF bag[c] > 0 THEN bag[c] - 1 ELSE 0) ELSE bag[d]
  BY DEF Bags, LRem
<1>2. x[1] = c /\ x[2] = bag[c]
  OBVIOUS
<1>3. x \in S => c.id = m
  BY <1>2 DEF BagTokens
<1>4. ASSUME NEW t \in Copies \X (Nat \ {0}), t # x
      PROVE  t[2] <= bag[t[1]] <=> t[2] <= LRem(bag, c)[t[1]]
  <2>1. t = <<t[1], t[2]>> /\ t[1] \in Copies /\ t[2] \in Nat \ {0}
    OBVIOUS
  <2>2. CASE t[1] = c
    <3>1. t[2] # bag[c]
      BY <1>4, <2>1, <2>2
    <3> QED BY <1>1, <2>1, <2>2, <3>1
  <2>3. CASE t[1] # c
    BY <1>1, <2>1, <2>3
  <2> QED BY <2>2, <2>3
<1>5. S \ {x} = T \ {x}
  BY <1>4 DEF BagTokens
<1> HIDE DEF x, S, T
<1>6. /\ IsFiniteSet(T) /\ Cardinality(S) \in Nat /\ Cardinality(T) \in Nat
      /\ Cardinality(T) = Cardinality(S) - (IF x \in S THEN 1 ELSE 0) + (IF x \in T THEN 1 ELSE 0)
  <2>1. IsFiniteSet(S)
    BY DEF S
  <2> QED BY <1>5, <2>1, DifferInOne
<1> QED BY <1>3, <1>6 DEF InBag, One, S, T

(* A bag in which a message is counted has a copy of it, and the empty bag has none. *)
LEMMA BagHolds ==
  ASSUME NEW bag \in Bags, NEW m, IsFiniteSet(BagTokens(bag, m))
  PROVE  InBag(bag, m) \in Nat /\ (InBag(bag, m) > 0 <=> Holds(bag, m))
<1>1. ASSUME Holds(bag, m) PROVE BagTokens(bag, m) # {}
  <2>1. PICK c \in Copies : c.id = m /\ bag[c] > 0
    BY <1>1 DEF Holds
  <2>2. bag[c] \in Nat
    BY DEF Bags
  <2>3. <<c, 1>> \in BagTokens(bag, m)
    BY <2>1, <2>2 DEF BagTokens
  <2> QED BY <2>3
<1>2. ASSUME BagTokens(bag, m) # {} PROVE Holds(bag, m)
  <2>1. PICK t \in Copies \X (Nat \ {0}) : t[1].id = m /\ t[2] <= bag[t[1]]
    BY <1>2 DEF BagTokens
  <2>2. t[1] \in Copies /\ t[2] \in Nat \ {0} /\ bag[t[1]] \in Nat
    BY DEF Bags
  <2>3. bag[t[1]] > 0
    BY <2>1, <2>2
  <2> QED BY <2>1, <2>2, <2>3 DEF Holds
<1>3. Cardinality(BagTokens(bag, m)) \in Nat
  BY FS_CardinalityType
<1>4. Cardinality(BagTokens(bag, m)) = 0 <=> BagTokens(bag, m) = {}
  BY FS_EmptySet
<1> QED BY <1>1, <1>2, <1>3, <1>4 DEF InBag

LEMMA BagEmpty ==
  ASSUME NEW m PROVE IsFiniteSet(BagTokens(EmptyBag, m)) /\ InBag(EmptyBag, m) = 0
<1>1. BagTokens(EmptyBag, m) = {}
  <2> SUFFICES ASSUME NEW t \in Copies \X (Nat \ {0}), t[2] <= EmptyBag[t[1]] PROVE FALSE
    BY DEF BagTokens
  <2>1. t[1] \in Copies /\ t[2] \in Nat \ {0}
    OBVIOUS
  <2> QED BY <2>1 DEF EmptyBag
<1> QED BY <1>1, FS_EmptySet DEF InBag

-----------------------------------------------------------------------------
(* No accepted message gets lost *)
(*                                                                         *)
(* A list that is searched may hold equal copies, and LREM by one goroutine *)
(* may take the copy of another: that a copy is left cannot be said of any  *)
(* one of them.  It is said by counting, per message: what is queued, waits *)
(* and is processed outnumbers the goroutines about to LREM.                *)

\* The goroutines of W that are at one of the stages with a copy of m.
Busy(W, stages, m) == {p \in W : at[p] \in stages /\ held[p].id = m}

Removing(m) == Cardinality(Busy(Procs, {"remove"}, m))
Carrying(m) == Cardinality(Busy(Workers, {"handle", "failed", "count", "bury"}, m))
Unburying(m) == Cardinality(Busy(Procs, {"unbury"}, m))

Balance(m) ==
  InQueue(vote_queue, m) + InBag(timers, m) + InBag(vote_processing, m) - Removing(m)

Stock(m) ==
  InQueue(vote_queue, m) + InBag(timers, m) + InBag(vote_dead_letter, m)
    + Carrying(m) - Unburying(m)

\* What Balance and Stock count is finite.
Countable ==
  /\ IsFiniteSet({p \in Procs : at[p] # "idle"})
  /\ \A m \in Messages : /\ IsFiniteSet(BagTokens(vote_processing, m))
                         /\ IsFiniteSet(BagTokens(timers, m))
                         /\ IsFiniteSet(BagTokens(vote_dead_letter, m))

\* The message has been pushed, and its sender has not failed since.
Pushed(m) ==
  \E s \in AllSenders : /\ MessageOf[s] = m
                        /\ sender[s] = "ok" \/ (s \in NamedSenders /\ sender[s] = "mark")

\* m has more copies in the queue, with the timers and in vote_processing than
\* goroutines are about to remove; unless it is out of danger.
Accounted(m) ==
  \/ votes[m] > 0 \/ m \in interrupted \/ m \in retried \/ Holds(vote_dead_letter, m)
  \/ Balance(m) >= (IF Pushed(m) THEN 1 ELSE 0)

\* Before the first exit, m has more copies in the queue, with the timers, among
\* the dead letters and with the goroutines than are about to leave the dead letters.
Stocked(m) ==
  exits = 0 => votes[m] > 0 \/ Stock(m) >= (IF Pushed(m) THEN 1 ELSE 0)

Kept == Countable /\ \A m \in Messages : Accounted(m) /\ Stocked(m)

\* What a goroutine's stage tells of its message, and the sets of ids of theirs.
Traced ==
  /\ \A p \in Procs :
       /\ at[p] = "results" => votes[held[p].id] > 0
       /\ at[p] = "unlist" => held[p].id \in retried \/ Holds(vote_dead_letter, held[p].id)
       /\ at[p] = "unbury" => held[p].id \in retried
  /\ \A m \in vote_message_ids : \E s \in Senders : MessageOf[s] = m /\ sender[s] # "new"
  /\ \A m \in processed_vote_ids : \E s \in NamedSenders : MessageOf[s] = m /\ sender[s] = "ok"

\* 1 if p is one of the goroutines of Busy.
Is(p, W, stages, m) == IF p \in Busy(W, stages, m) THEN 1 ELSE 0

LEMMA BusyFinite ==
  ASSUME Countable, NEW W, W \subseteq Procs, NEW stages, "idle" \notin stages, NEW m
  PROVE  IsFiniteSet(Busy(W, stages, m)) /\ Cardinality(Busy(W, stages, m)) \in Nat
<1>1. Busy(W, stages, m) \subseteq {p \in Procs : at[p] # "idle"}
  BY DEF Busy
<1>2. IsFiniteSet(Busy(W, stages, m))
  BY <1>1, FS_Subset DEF Countable
<1> QED BY <1>2, FS_CardinalityType

(* A step of one goroutine changes what it is counted for.                    *)
LEMMA BusyStep ==
  ASSUME Countable, NEW p \in Procs,
         \A q \in Procs : q # p => at'[q] = at[q] /\ held'[q] = held[q],
         NEW W, W \subseteq Procs, NEW stages, "idle" \notin stages, NEW m
  PROVE  /\ Cardinality(Busy(W, stages, m)) \in Nat
         /\ Cardinality(Busy(W, stages, m)') =
              Cardinality(Busy(W, stages, m)) - Is(p, W, stages, m) + Is(p, W, stages, m)'
<1> DEFINE S == Busy(W, stages, m)
           T == Busy(W, stages, m)'
<1>1. IsFiniteSet(S)
  BY BusyFinite
<1>2. S \ {p} = T \ {p}
  BY DEF Busy
<1>3. /\ Cardinality(S) \in Nat
      /\ Cardinality(T) = Cardinality(S) - (IF p \in S THEN 1 ELSE 0) + (IF p \in T THEN 1 ELSE 0)
  <2> HIDE DEF S, T
  <2> QED BY <1>1, <1>2, DifferInOne
<1> QED BY <1>3 DEF Is

LEMMA BusyStepFinite ==
  ASSUME Countable, NEW p \in Procs, \A q \in Procs : q # p => at'[q] = at[q]
  PROVE  IsFiniteSet({q \in Procs : at'[q] # "idle"})
<1> DEFINE S == {q \in Procs : at[q] # "idle"}
           T == {q \in Procs : at'[q] # "idle"}
<1>1. IsFiniteSet(S)
  BY DEF Countable
<1>2. S \ {p} = T \ {p}
  OBVIOUS
<1> HIDE DEF S, T
<1>3. IsFiniteSet(T)
  BY <1>1, <1>2, DifferInOne
<1> QED BY <1>3 DEF T

(* All that is counted is a number.                                          *)
LEMMA CountsTyped ==
  ASSUME Typed, Countable, NEW m \in Messages
  PROVE  /\ InQueue(vote_queue, m) \in Nat /\ InBag(timers, m) \in Nat
         /\ InBag(vote_processing, m) \in Nat /\ InBag(vote_dead_letter, m) \in Nat
         /\ Removing(m) \in Nat /\ Carrying(m) \in Nat /\ Unburying(m) \in Nat
         /\ Balance(m) \in Int /\ Stock(m) \in Int
         /\ Balance(m) = InQueue(vote_queue, m) + InBag(timers, m) + InBag(vote_processing, m)
                           - Removing(m)
         /\ Stock(m) = InQueue(vote_queue, m) + InBag(timers, m) + InBag(vote_dead_letter, m)
                         + Carrying(m) - Unburying(m)
<1>1. InQueue(vote_queue, m) \in Nat
  BY QueueFinite DEF Typed, TypeOK
<1>2. InBag(timers, m) \in Nat /\ InBag(vote_processing, m) \in Nat /\ InBag(vote_dead_letter, m) \in Nat
  BY BagHolds DEF Typed, TypeOK, Countable
<1>3. Workers \subseteq Procs
  BY DEF Procs
<1>4. Removing(m) \in Nat /\ Carrying(m) \in Nat /\ Unburying(m) \in Nat
  BY <1>3, BusyFinite DEF Removing, Carrying, Unburying
<1> QED BY <1>1, <1>2, <1>4 DEF Balance, Stock

Numbers == \A m \in Messages : Balance(m) \in Int /\ Stock(m) \in Int

LEMMA CountsAreNumbers == Typed /\ Countable => Numbers
BY CountsTyped DEF Numbers

\* A step that keeps m accounted for.
Covers(m) ==
  /\ votes'[m] >= votes[m]
  /\ interrupted \subseteq interrupted' /\ retried \subseteq retried'
  /\ Holds(vote_dead_letter, m) => Holds(vote_dead_letter, m)' \/ m \in retried'
  /\ exits' = 0 => exits = 0
  /\ \/ Balance(m)' >= Balance(m)
     \/ votes'[m] > 0 \/ m \in interrupted' \/ m \in retried' \/ Holds(vote_dead_letter, m)'
  /\ exits' > 0 \/ votes'[m] > 0 \/ Stock(m)' >= Stock(m)
  /\ \/ Pushed(m)' => Pushed(m)
     \/ Balance(m)' >= Balance(m) + 1 /\ Stock(m)' >= Stock(m) + 1

LEMMA CoversKeeps ==
  ASSUME Typed, Typed', Countable, Countable', NEW m \in Messages,
         Accounted(m), Stocked(m), Covers(m)
  PROVE  Accounted(m)' /\ Stocked(m)'
<1>1. Balance(m) \in Int /\ Stock(m) \in Int
  BY CountsTyped
<1>2. Balance(m)' \in Int /\ Stock(m)' \in Int
  <2>1. Typed' /\ Countable' => Numbers'
    BY CountsAreNumbers, PTL
  <2> QED BY <2>1 DEF Numbers
<1>3. votes[m] \in Nat /\ votes'[m] \in Nat /\ exits \in Nat /\ exits' \in Nat
  BY DEF Typed, TypeOK
<1>4. Accounted(m)'
  BY <1>1, <1>2, <1>3 DEF Covers, Accounted
<1>5. Stocked(m)'
  BY <1>1, <1>2, <1>3 DEF Covers, Stocked
<1> QED BY <1>4, <1>5

\* A copy is added to a bag or taken from it.
BagStep(bag, new) ==
  new = bag \/ \E c \in Copies : new = With(bag, c) \/ new = LRem(bag, c)

LEMMA BagStepFinite ==
  ASSUME NEW bag \in Bags, NEW new, BagStep(bag, new), NEW m, IsFiniteSet(BagTokens(bag, m))
  PROVE  IsFiniteSet(BagTokens(new, m))
<1>1. CASE new = bag
  BY <1>1
<1>2. ASSUME NEW c \in Copies, new = With(bag, c) \/ new = LRem(bag, c)
      PROVE  IsFiniteSet(BagTokens(new, m))
  BY <1>2, BagWith, BagLRem
<1> QED BY <1>1, <1>2 DEF BagStep

(* A step of one goroutine leaves what is counted finite.                     *)
LEMMA CountableStep ==
  ASSUME Typed, Countable, NEW p \in Procs, \A q \in Procs : q # p => at'[q] = at[q],
         BagStep(vote_processing, vote_processing'), BagStep(timers, timers'),
         BagStep(vote_dead_letter, vote_dead_letter')
  PROVE  Countable'
<1>1. vote_processing \in Bags /\ timers \in Bags /\ vote_dead_letter \in Bags
  BY DEF Typed, TypeOK
<1>2. ASSUME NEW m \in Messages
      PROVE  /\ IsFiniteSet(BagTokens(vote_processing, m)')
             /\ IsFiniteSet(BagTokens(timers, m)')
             /\ IsFiniteSet(BagTokens(vote_dead_letter, m)')
  <2>1. /\ IsFiniteSet(BagTokens(vote_processing, m)) /\ IsFiniteSet(BagTokens(timers, m))
        /\ IsFiniteSet(BagTokens(vote_dead_letter, m))
    BY DEF Countable
  <2>2. IsFiniteSet(BagTokens(vote_processing', m))
    BY <1>1, <2>1, BagStepFinite
  <2>3. IsFiniteSet(BagTokens(timers', m))
    BY <1>1, <2>1, BagStepFinite
  <2>4. IsFiniteSet(BagTokens(vote_dead_letter', m))
    BY <1>1, <2>1, BagStepFinite
  <2> QED BY <2>2, <2>3, <2>4 DEF BagTokens
<1>3. IsFiniteSet({q \in Procs : at'[q] # "idle"})
  BY BusyStepFinite
<1> QED BY <1>2, <1>3 DEF Countable

(* What the step of a goroutine with the copy c changes in the counts of m.   *)
LEMMA StageCounts ==
  ASSUME Typed, Countable, NEW p \in Procs, NEW c, NEW m \in Messages, NEW from, NEW to,
         at[p] = from, at'[p] = to,
         from \in {"handle", "failed", "count", "bury", "remove", "unbury"} => held[p] = c,
         to \in {"handle", "failed", "count", "bury", "remove", "unbury"} => held'[p] = c,
         \A q \in Procs : q # p => at'[q] = at[q] /\ held'[q] = held[q]
  PROVE  /\ Removing(m)' = Removing(m) - (IF from = "remove" THEN One(c, m) ELSE 0)
                                       + (IF to = "remove" THEN One(c, m) ELSE 0)
         /\ p \in Workers =>
              Carrying(m)' = Carrying(m)
                - (IF from \in {"handle", "failed", "count", "bury"} THEN One(c, m) ELSE 0)
                + (IF to \in {"handle", "failed", "count", "bury"} THEN One(c, m) ELSE 0)
         /\ p \notin Workers => Carrying(m)' = Carrying(m)
         /\ Unburying(m)' = Unburying(m) - (IF from = "unbury" THEN One(c, m) ELSE 0)
                                         + (IF to = "unbury" THEN One(c, m) ELSE 0)
<1> DEFINE C == {"handle", "failed", "count", "bury"}
<1>1. Workers \subseteq Procs
  BY DEF Procs
<1>2. /\ Removing(m) \in Nat
      /\ Removing(m)' = Removing(m) - Is(p, Procs, {"remove"}, m) + Is(p, Procs, {"remove"}, m)'
  BY BusyStep DEF Removing
<1>3. /\ Carrying(m) \in Nat
      /\ Carrying(m)' = Carrying(m) - Is(p, Workers, C, m) + Is(p, Workers, C, m)'
  BY <1>1, BusyStep DEF Carrying
<1>4. /\ Unburying(m) \in Nat
      /\ Unburying(m)' = Unburying(m) - Is(p, Procs, {"unbury"}, m) + Is(p, Procs, {"unbury"}, m)'
  BY BusyStep DEF Unburying
<1>5. /\ Is(p, Procs, {"remove"}, m) = (IF from = "remove" THEN One(c, m) ELSE 0)
      /\ Is(p, Procs, {"remove"}, m)' = (IF to = "remove" THEN One(c, m) ELSE 0)
  BY DEF Is, Busy, One
<1>6. /\ Is(p, Procs, {"unbury"}, m) = (IF from = "unbury" THEN One(c, m) ELSE 0)
      /\ Is(p, Procs, {"unbury"}, m)' = (IF to = "unbury" THEN One(c, m) ELSE 0)
  BY DEF Is, Busy, One
<1>7. p \in Workers => /\ Is(p, Workers, C, m) = (IF from \in C THEN One(c, m) ELSE 0)
                       /\ Is(p, Workers, C, m)' = (IF to \in C THEN One(c, m) ELSE 0)
  BY DEF Is, Busy, One
<1>8. p \notin Workers => Is(p, Workers, C, m) = 0 /\ Is(p, Workers, C, m)' = 0
  BY DEF Is, Busy
<1> QED BY <1>2, <1>3, <1>4, <1>5, <1>6, <1>7, <1>8

LEMMA PrimedCounts ==
  ASSUME NEW m
  PROVE  /\ Balance(m)' = InQueue(vote_queue', m) + InBag(timers', m) + InBag(vote_processing', m)
                            - Removing(m)'
         /\ Stock(m)' = InQueue(vote_queue', m) + InBag(timers', m) + InBag(vote_dead_letter', m)
                          + Carrying(m)' - Unburying(m)'
         /\ Holds(vote_dead_letter, m)' = Holds(vote_dead_letter', m)
BY DEF Balance, Stock, InQueue, InBag, QueueTokens, BagTokens, Holds

LEMMA OneType == ASSUME NEW c, NEW m PROVE One(c, m) \in {0, 1}
BY DEF One

(* A copy more in a bag leaves the message there.                            *)
LEMMA HoldsWith ==
  ASSUME NEW bag \in Bags, NEW c \in Copies, NEW m
  PROVE  /\ Holds(bag, m) => Holds(With(bag, c), m)
         /\ c.id = m => Holds(With(bag, c), m)
<1>1. \A d \in Copies : bag[d] \in Nat /\ With(bag, c)[d] = IF d = c THEN bag[c] + 1 ELSE bag[d]
  BY DEF Bags, With
<1> QED BY <1>1 DEF Holds

(* LREM of a copy of another message leaves the message there.               *)
LEMMA HoldsLRem ==
  ASSUME NEW bag \in Bags, NEW c \in Copies, NEW m, Holds(bag, m), c.id # m
  PROVE  Holds(LRem(bag, c), m)
<1>1. \A d \in Copies : d # c => LRem(bag, c)[d] = bag[d]
  BY DEF Bags, LRem
<1> QED BY <1>1 DEF Holds

(* A step that touches none of what is counted.                              *)
LEMMA RestCovers ==
  ASSUME Typed, Countable,
         UNCHANGED <<vote_queue, vote_processing, vote_dead_letter, timers, at, held, votes,
                     exits, interrupted, retried>>,
         \A m \in Messages : Pushed(m)' => Pushed(m)
  PROVE  Countable' /\ \A m \in Messages : Covers(m)
<1>1. Countable'
  BY CountableStep, QueueAssumption DEF BagStep, Procs
<1>2. ASSUME NEW m \in Messages PROVE Covers(m)
  <2>1. Balance(m) \in Int /\ Stock(m) \in Int /\ votes[m] \in Nat
    BY CountsTyped DEF Typed, TypeOK
  <2>2. Balance(m)' = Balance(m) /\ Stock(m)' = Stock(m)
    BY DEF Balance, Stock, Removing, Carrying, Unburying, Busy
  <2>3. Holds(vote_dead_letter, m)' = Holds(vote_dead_letter, m)
    BY DEF Holds
  <2> QED BY <2>1, <2>2, <2>3 DEF Covers
<1> QED BY <1>1, <1>2

(* LPUSH by a sender: the message is there before the sender may be told.      *)
LEMMA PushCovers ==
  ASSUME Typed, Countable, NEW s \in AllSenders, SendPush(s)
  PROVE  Countable' /\ \A m \in Messages : Covers(m)
<1> DEFINE c == Message(s)
<1>1. c \in Copies /\ c.id = MessageOf[s]
  BY QueueAssumption DEF Message, Typed, TypeOK, Copies
<1>2. /\ vote_queue' = Append(vote_queue, c) /\ vote_queue \in Seq(Copies)
      /\ UNCHANGED <<vote_processing, vote_dead_letter, timers, at, held, votes, exits,
                     interrupted, retried>>
      /\ \A t \in AllSenders : t # s => sender'[t] = sender[t]
  BY DEF SendPush, history, Typed, TypeOK, sending
<1> HIDE DEF c
<1>3. Countable'
  BY <1>2, CountableStep, QueueAssumption DEF BagStep, Procs
<1>4. ASSUME NEW m \in Messages PROVE Covers(m)
  <2>1. /\ InQueue(vote_queue', m) = InQueue(vote_queue, m) + One(c, m)
        /\ One(c, m) \in {0, 1}
    BY <1>1, <1>2, QueueAppend, OneType
  <2>2. /\ Removing(m)' = Removing(m) /\ Carrying(m)' = Carrying(m)
        /\ Unburying(m)' = Unburying(m)
    BY <1>2 DEF Removing, Carrying, Unburying, Busy
  <2>3. Balance(m)' = Balance(m) + One(c, m) /\ Stock(m)' = Stock(m) + One(c, m)
    <3>1. /\ Balance(m)' = InQueue(vote_queue', m) + InBag(timers, m) + InBag(vote_processing, m)
                              - Removing(m)
          /\ Stock(m)' = InQueue(vote_queue', m) + InBag(timers, m) + InBag(vote_dead_letter, m)
                            + Carrying(m) - Unburying(m)
      BY <1>2, <2>2, PrimedCounts
    <3> QED BY <2>1, <3>1, CountsTyped
  <2>4. Balance(m) \in Int /\ Stock(m) \in Int /\ votes[m] \in Nat
    BY CountsTyped DEF Typed, TypeOK
  <2>5. MessageOf[s] # m => (Pushed(m)' => Pushed(m))
    BY <1>2 DEF Pushed
  <2>6. MessageOf[s] = m => One(c, m) = 1
    BY <1>1 DEF One
  <2>7. Holds(vote_dead_letter, m)' = Holds(vote_dead_letter, m)
    BY <1>2 DEF Holds
  <2> QED BY <1>2, <2>1, <2>3, <2>4, <2>5, <2>6, <2>7 DEF Covers
<1> QED BY <1>3, <1>4

\* What a step of the goroutine p with the copy c leaves alone, and its stages.
Works(p, c, from, to) ==
  /\ p \in Procs
  /\ at[p] = from /\ at'[p] = to
  /\ from \notin {"idle", "scan", "done"} => held[p] = c
  /\ to \notin {"idle", "scan", "done"} => held'[p] = c
  /\ \A q \in Procs : q # p => at'[q] = at[q] /\ held'[q] = held[q]
  /\ UNCHANGED <<sender, exits, interrupted>>

LEMMA WorksGoto ==
  ASSUME Typed, NEW p \in Procs, NEW from, NEW to, at[p] = from, Goto(p, to),
         UNCHANGED <<held, sender, exits, interrupted>>
  PROVE  Works(p, held[p], from, to)
BY DEF Works, Goto, Typed, TypeOK

LEMMA WorksRelease ==
  ASSUME Typed, NEW p \in Procs, NEW from, NEW to \in {"idle", "scan", "done"},
         at[p] = from, Release(p, to), UNCHANGED <<sender, exits, interrupted>>
  PROVE  Works(p, held[p], from, to)
BY DEF Works, Release, Goto, Typed, TypeOK

LEMMA WorksTake ==
  ASSUME Typed, NEW p \in Procs, NEW c, NEW from \in {"idle", "scan"}, NEW to, at[p] = from,
         Goto(p, to), held' = [held EXCEPT ![p] = c], UNCHANGED <<sender, exits, interrupted>>
  PROVE  Works(p, c, from, to)
BY DEF Works, Goto, Typed, TypeOK

(* What is left to show of a step of a goroutine.                            *)
LEMMA WorksCovers ==
  ASSUME Typed, Countable, NEW m \in Messages, NEW p, NEW c, NEW from, NEW to,
         Works(p, c, from, to), votes' = votes, retried \subseteq retried',
         Holds(vote_dead_letter, m) => Holds(vote_dead_letter, m)' \/ m \in retried',
         \/ Balance(m)' >= Balance(m)
         \/ votes[m] > 0 \/ m \in retried' \/ Holds(vote_dead_letter, m)',
         votes[m] > 0 \/ Stock(m)' >= Stock(m)
  PROVE  Covers(m)
<1>1. votes[m] \in Nat
  BY DEF Typed, TypeOK
<1>2. Pushed(m)' => Pushed(m)
  BY DEF Works, Pushed
<1> QED BY <1>1, <1>2 DEF Works, Covers

LEMMA WorksCounts ==
  ASSUME Typed, Countable, NEW m \in Messages, NEW p, NEW c, NEW from, NEW to,
         Works(p, c, from, to)
  PROVE  /\ One(c, m) \in {0, 1} /\ (One(c, m) = 1 <=> c.id = m)
         /\ Removing(m)' = Removing(m) - (IF from = "remove" THEN One(c, m) ELSE 0)
                                       + (IF to = "remove" THEN One(c, m) ELSE 0)
         /\ p \in Workers =>
              Carrying(m)' = Carrying(m)
                - (IF from \in {"handle", "failed", "count", "bury"} THEN One(c, m) ELSE 0)
                + (IF to \in {"handle", "failed", "count", "bury"} THEN One(c, m) ELSE 0)
         /\ p \notin Workers => Carrying(m)' = Carrying(m)
         /\ Unburying(m)' = Unburying(m) - (IF from = "unbury" THEN One(c, m) ELSE 0)
                                         + (IF to = "unbury" THEN One(c, m) ELSE 0)
<1>1. One(c, m) \in {0, 1} /\ (One(c, m) = 1 <=> c.id = m)
  BY DEF One
<1> QED BY <1>1, StageCounts DEF Works

(* A goroutine goes on without touching a list.                              *)
LEMMA QuietCovers ==
  ASSUME Typed, Countable, NEW p, NEW c, NEW from, NEW to, Works(p, c, from, to),
         UNCHANGED <<vote_queue, vote_processing, vote_dead_letter, timers, votes, retried>>,
         from \notin {"remove", "unbury"}, to \notin {"remove", "unbury"},
         p \in Workers => (from \in {"handle", "failed", "count", "bury"} <=>
                           to \in {"handle", "failed", "count", "bury"})
  PROVE  Countable' /\ \A m \in Messages : Covers(m)
<1>1. Countable'
  BY CountableStep DEF BagStep, Works
<1>2. ASSUME NEW m \in Messages PROVE Covers(m)
  <2>1. /\ Removing(m)' = Removing(m) /\ Carrying(m)' = Carrying(m)
        /\ Unburying(m)' = Unburying(m)
    <3>1. Removing(m) \in Nat /\ Carrying(m) \in Nat /\ Unburying(m) \in Nat
      BY CountsTyped
    <3>2. One(c, m) \in {0, 1}
      BY OneType
    <3>3. Removing(m)' = Removing(m) - 0 + 0 /\ Unburying(m)' = Unburying(m) - 0 + 0
      BY WorksCounts
    <3>4. CASE p \in Workers
      <4>1. Carrying(m)' = Carrying(m)
                - (IF from \in {"handle", "failed", "count", "bury"} THEN One(c, m) ELSE 0)
                + (IF to \in {"handle", "failed", "count", "bury"} THEN One(c, m) ELSE 0)
        BY <3>4, WorksCounts
      <4> QED BY <3>1, <3>2, <3>3, <3>4, <4>1
    <3>5. CASE p \notin Workers
      BY <3>1, <3>3, <3>5, WorksCounts
    <3> QED BY <3>4, <3>5
  <2>2. /\ Balance(m)' = InQueue(vote_queue, m) + InBag(timers, m) + InBag(vote_processing, m)
                            - Removing(m)
        /\ Stock(m)' = InQueue(vote_queue, m) + InBag(timers, m) + InBag(vote_dead_letter, m)
                          + Carrying(m) - Unburying(m)
        /\ Holds(vote_dead_letter, m)' = Holds(vote_dead_letter, m)
    BY <2>1, PrimedCounts
  <2>3. Balance(m)' >= Balance(m) /\ Stock(m)' >= Stock(m)
    BY <2>2, CountsTyped
  <2> QED BY <2>2, <2>3, WorksCovers
<1> QED BY <1>1, <1>2

(* The other goroutines' messages stay what their stages tell.                *)
LEMMA WorksTraced ==
  ASSUME Typed, Typed', Traced, \A m \in Messages : Covers(m),
         NEW p, NEW c, NEW from, NEW to, Works(p, c, from, to), UNCHANGED idVars,
         to = "results" => votes'[c.id] > 0,
         to = "unlist" => c.id \in retried' \/ Holds(vote_dead_letter', c.id),
         to = "unbury" => c.id \in retried'
  PROVE  Traced'
<1>1. ASSUME NEW q \in Procs
      PROVE  /\ at'[q] = "results" => votes'[held'[q].id] > 0
             /\ at'[q] = "unlist" =>
                  held'[q].id \in retried' \/ Holds(vote_dead_letter', held'[q].id)
             /\ at'[q] = "unbury" => held'[q].id \in retried'
  <2>1. CASE q = p
    BY <2>1 DEF Works
  <2>2. CASE q # p /\ at[q] \in {"results", "unlist", "unbury"}
    <3> DEFINE k == held[q].id
    <3>1. k \in Messages
      BY <2>2, HeldType
    <3>2. at'[q] = at[q] /\ held'[q] = held[q]
      BY <2>2 DEF Works
    <3>3. /\ votes'[k] >= votes[k] /\ retried \subseteq retried'
          /\ Holds(vote_dead_letter, k) => Holds(vote_dead_letter', k) \/ k \in retried'
      BY <3>1, PrimedCounts DEF Covers
    <3> HIDE DEF k
    <3>4. votes[k] > 0 => votes'[k] > 0
      BY <3>1, <3>3 DEF Typed, TypeOK
    <3> QED BY <2>2, <3>2, <3>3, <3>4 DEF Traced, k
  <2>3. CASE q # p /\ at[q] \notin {"results", "unlist", "unbury"}
    BY <2>3 DEF Works
  <2> QED BY <2>1, <2>2, <2>3
<1>2. /\ \A m \in vote_message_ids' : \E s \in Senders : MessageOf[s] = m /\ sender'[s] # "new"
      /\ \A m \in processed_vote_ids' : \E s \in NamedSenders : MessageOf[s] = m /\ sender'[s] = "ok"
  BY DEF Works, Traced, idVars, sending
<1>3. \A q \in Procs : Holds(vote_dead_letter, held[q].id)' = Holds(vote_dead_letter', held'[q].id)
  BY DEF Holds
<1> QED BY <1>1, <1>2, <1>3 DEF Traced

\* What a step keeps.
Keeps == Countable' /\ Traced' /\ \A m \in Messages : Covers(m)

(* The steps that touch no list.                                             *)
LEMMA QuietKeeps ==
  ASSUME Typed, Typed', Countable, Traced, NEW p, NEW c, NEW from, NEW to, Works(p, c, from, to),
         UNCHANGED <<vote_queue, vote_processing, vote_dead_letter, timers, votes, retried, idVars>>,
         from \notin {"remove", "unbury"}, to \notin {"remove", "unbury", "results", "unlist"},
         p \in Workers => (from \in {"handle", "failed", "count", "bury"} <=>
                           to \in {"handle", "failed", "count", "bury"})
  PROVE  Keeps
<1>1. Countable' /\ \A m \in Messages : Covers(m)
  BY QuietCovers
<1>2. Traced'
  BY <1>1, WorksTraced
<1> QED BY <1>1, <1>2 DEF Keeps

LEMMA QuietSteps ==
  ASSUME Typed, Typed', Countable, Traced,
         \/ \E w \in Workers : RefuseVote(w) \/ CheckRetries(w)
         \/ ListExpired \/ CountTimeout \/ EndScan \/ \E c \in Copies : CheckExpired(c)
         \/ \E a \in Admins : ListDead(a) \/ ForgetRetries(a) \/ EndRetry(a)
  PROVE  Keeps
<1>0. /\ Workers \subseteq Procs /\ Checker \in Procs \ Workers
      /\ \A a \in Admins : a \in Procs \ Workers
  BY QueueAssumption DEF Procs
<1>1. ASSUME NEW w \in Workers, RefuseVote(w) PROVE Keeps
  <2>1. Works(w, held[w], "handle", "failed")
    BY <1>0, <1>1, WorksGoto DEF RefuseVote, history, sending
  <2> QED BY <1>1, <2>1, QuietKeeps DEF RefuseVote, redisVars, idVars, history, sending
<1>2. ASSUME NEW w \in Workers, CheckRetries(w) PROVE Keeps
  <2>1. PICK to \in {"bury", "count"} : to = Verdict(held[w].id)
    BY DEF Verdict
  <2>2. Works(w, held[w], "failed", to)
    BY <1>0, <1>2, <2>1, WorksGoto DEF CheckRetries, history, sending
  <2> QED BY <1>2, <2>2, QuietKeeps DEF CheckRetries, redisVars, idVars, history, sending
<1>3. ASSUME ListExpired PROVE Keeps
  <2>1. Works(Checker, held[Checker], "idle", "scan")
    BY <1>0, <1>3, WorksGoto DEF ListExpired, history, sending
  <2> QED BY <1>0, <1>3, <2>1, QuietKeeps DEF ListExpired, redisVars, idVars, history, sending
<1>4. ASSUME CountTimeout PROVE Keeps
  <2>1. Works(Checker, held[Checker], "count", "take")
    BY <1>0, <1>4, WorksGoto DEF CountTimeout, history, sending
  <2> QED BY <1>0, <1>4, <2>1, QuietKeeps DEF CountTimeout, idVars, history, sending
<1>5. ASSUME EndScan PROVE Keeps
  <2>1. Works(Checker, held[Checker], "scan", "idle")
    BY <1>0, <1>5, WorksGoto DEF EndScan, history, sending
  <2> QED BY <1>0, <1>5, <2>1, QuietKeeps DEF EndScan, redisVars, idVars, history, sending
<1>6. ASSUME NEW c \in Copies, CheckExpired(c) PROVE Keeps
  <2>1. PICK to \in {"bury", "count"} : to = Verdict(c.id)
    BY DEF Verdict
  <2>2. Works(Checker, c, "scan", to)
    BY <1>0, <1>6, <2>1, WorksTake DEF CheckExpired, TakeUp, history, sending
  <2> QED BY <1>0, <1>6, <2>2, QuietKeeps DEF CheckExpired, redisVars, idVars, history, sending
<1>7. ASSUME NEW a \in Admins, ListDead(a) PROVE Keeps
  <2>1. Works(a, held[a], "idle", "scan")
    BY <1>0, <1>7, WorksGoto DEF ListDead, history, sending
  <2> QED BY <1>0, <1>7, <2>1, QuietKeeps DEF ListDead, redisVars, idVars, history, sending
<1>8. ASSUME NEW a \in Admins, ForgetRetries(a) PROVE Keeps
  <2>1. Works(a, held[a], "forget", "scan")
    BY <1>0, <1>8, WorksRelease DEF ForgetRetries, history, sending
  <2> QED BY <1>0, <1>8, <2>1, QuietKeeps DEF ForgetRetries, idVars, history, sending
<1>9. ASSUME NEW a \in Admins, EndRetry(a) PROVE Keeps
  <2>1. Works(a, held[a], "scan", "done")
    BY <1>0, <1>9, WorksGoto DEF EndRetry, history, sending
  <2> QED BY <1>0, <1>9, <2>1, QuietKeeps DEF EndRetry, redisVars, idVars, history, sending
<1> QED BY <1>1, <1>2, <1>3, <1>4, <1>5, <1>6, <1>7, <1>8, <1>9

LEMMA CountKeeps ==
  ASSUME Typed, Typed', Countable, Traced, NEW w \in Workers, CountVote(w)
  PROVE  Keeps
<1> DEFINE c == held[w]
<1>0. w \in Procs
  BY DEF Procs
<1>1. PICK to \in {"results", "failed"} : Goto(w, to)
  BY DEF CountVote
<1>2. Works(w, c, "handle", to)
  BY <1>0, <1>1, WorksGoto DEF CountVote, redisVars, history, sending
<1>3. /\ UNCHANGED <<vote_queue, vote_processing, vote_dead_letter, timers, retried, sender,
                     exits, interrupted, idVars>>
      /\ c.id \in Messages /\ votes \in [Messages -> Nat]
      /\ votes' = [votes EXCEPT ![c.id] = @ + 1]
  BY <1>0, HeldType DEF CountVote, redisVars, idVars, history, Typed, TypeOK, sending
<1> HIDE DEF c
<1>4. \A m \in Messages :
        /\ votes[m] \in Nat /\ votes'[m] \in Nat /\ votes'[m] >= votes[m]
        /\ c.id = m => votes'[m] > 0
  BY <1>3
<1>5. Countable'
  BY <1>2, <1>3, CountableStep DEF BagStep, Works
<1>6. ASSUME NEW m \in Messages PROVE Covers(m)
  <2>1. /\ One(c, m) \in {0, 1} /\ (One(c, m) = 1 <=> c.id = m)
        /\ Removing(m)' = Removing(m) - 0 + 0
        /\ Carrying(m)' = Carrying(m) - One(c, m) + (IF to = "failed" THEN One(c, m) ELSE 0)
        /\ Unburying(m)' = Unburying(m) - 0 + 0
    BY <1>2, WorksCounts
  <2>2. c.id # m => Balance(m)' = Balance(m) /\ Stock(m)' = Stock(m)
    <3>1. /\ Balance(m)' = InQueue(vote_queue, m) + InBag(timers, m) + InBag(vote_processing, m)
                              - Removing(m)'
          /\ Stock(m)' = InQueue(vote_queue, m) + InBag(timers, m) + InBag(vote_dead_letter, m)
                            + Carrying(m)' - Unburying(m)'
      BY <1>3, PrimedCounts
    <3> QED BY <2>1, <3>1, CountsTyped
  <2>3. Balance(m) \in Int /\ Stock(m) \in Int
    BY CountsTyped
  <2>4. (Pushed(m)' => Pushed(m)) /\ (Holds(vote_dead_letter, m)' = Holds(vote_dead_letter, m))
    BY <1>3 DEF Pushed, Holds
  <2> QED BY <1>3, <1>4, <2>2, <2>3, <2>4 DEF Covers
<1>7. Traced'
  BY <1>2, <1>3, <1>4, <1>6, WorksTraced
<1> QED BY <1>5, <1>6, <1>7 DEF Keeps

LEMMA ResultsKeeps ==
  ASSUME Typed, Typed', Countable, Traced, NEW w \in Workers, ReadResults(w)
  PROVE  Keeps
<1> DEFINE c == held[w]
<1>0. w \in Procs
  BY DEF Procs
<1>1. PICK to \in {"remove", "failed"} : Goto(w, to)
  BY DEF ReadResults
<1>2. Works(w, c, "results", to)
  BY <1>0, <1>1, WorksGoto DEF ReadResults, redisVars, history, sending
<1>3. /\ UNCHANGED <<vote_queue, vote_processing, vote_dead_letter, timers, retried, votes, idVars>>
      /\ votes[c.id] > 0
  BY <1>0 DEF ReadResults, redisVars, idVars, history, Traced, sending
<1> HIDE DEF c
<1>5. Countable'
  BY <1>2, <1>3, CountableStep DEF BagStep, Works
<1>6. ASSUME NEW m \in Messages PROVE Covers(m)
  <2>1. /\ One(c, m) \in {0, 1} /\ (One(c, m) = 1 <=> c.id = m)
        /\ Removing(m)' = Removing(m) - 0 + (IF to = "remove" THEN One(c, m) ELSE 0)
        /\ Carrying(m)' = Carrying(m) - 0 + (IF to = "failed" THEN One(c, m) ELSE 0)
        /\ Unburying(m)' = Unburying(m) - 0 + 0
    BY <1>2, WorksCounts
  <2>2. c.id # m => Balance(m)' = Balance(m) /\ Stock(m)' = Stock(m)
    <3>1. /\ Balance(m)' = InQueue(vote_queue, m) + InBag(timers, m) + InBag(vote_processing, m)
                              - Removing(m)'
          /\ Stock(m)' = InQueue(vote_queue, m) + InBag(timers, m) + InBag(vote_dead_letter, m)
                            + Carrying(m)' - Unburying(m)'
      BY <1>3, PrimedCounts
    <3> QED BY <2>1, <3>1, CountsTyped
  <2>3. Balance(m) \in Int /\ Stock(m) \in Int
    BY CountsTyped
  <2>4. Holds(vote_dead_letter, m)' = Holds(vote_dead_letter, m)
    BY <1>3 DEF Holds
  <2> QED BY <1>2, <1>3, <2>2, <2>3, <2>4, WorksCovers
<1>7. Traced'
  BY <1>2, <1>3, <1>6, WorksTraced
<1> QED BY <1>5, <1>6, <1>7 DEF Keeps

LEMMA ConsumeKeeps ==
  ASSUME Typed, Typed', Countable, Traced, NEW w \in Workers, Consume(w)
  PROVE  Keeps
<1> DEFINE c == Head(vote_queue)
<1>0. w \in Procs
  BY DEF Procs
<1>1. /\ vote_queue \in Seq(Copies) /\ vote_queue # <<>> /\ vote_queue' = Tail(vote_queue)
      /\ vote_processing \in Bags /\ vote_processing' = With(vote_processing, c)
      /\ UNCHANGED <<vote_dead_letter, timers, retried, votes, idVars>>
  BY DEF Consume, history, Typed, TypeOK, sending
<1>2. c \in Copies
  BY <1>1, HeadTailProperties
<1>3. Works(w, c, "idle", "handle")
  BY <1>0, WorksTake DEF Consume, history, sending
<1>4. \A m \in Messages : InQueue(vote_queue', m) = InQueue(vote_queue, m) - One(c, m)
  BY <1>1, QueueTail
<1> HIDE DEF c
<1>5. Countable'
  BY <1>1, <1>2, <1>3, CountableStep DEF BagStep, Works
<1>6. ASSUME NEW m \in Messages PROVE Covers(m)
  <2>1. /\ One(c, m) \in {0, 1}
        /\ Removing(m)' = Removing(m) - 0 + 0
        /\ Carrying(m)' = Carrying(m) - 0 + One(c, m)
        /\ Unburying(m)' = Unburying(m) - 0 + 0
    BY <1>3, WorksCounts
  <2>2. InBag(vote_processing', m) = InBag(vote_processing, m) + One(c, m)
    BY <1>1, <1>2, BagWith DEF Countable
  <2>3. Balance(m)' >= Balance(m) /\ Stock(m)' >= Stock(m)
    <3>1. /\ Balance(m)' = InQueue(vote_queue', m) + InBag(timers, m) + InBag(vote_processing', m)
                              - Removing(m)'
          /\ Stock(m)' = InQueue(vote_queue', m) + InBag(timers, m) + InBag(vote_dead_letter, m)
                            + Carrying(m)' - Unburying(m)'
      BY <1>1, PrimedCounts
    <3> QED BY <1>4, <2>1, <2>2, <3>1, CountsTyped
  <2>4. Holds(vote_dead_letter, m)' = Holds(vote_dead_letter, m)
    BY <1>1 DEF Holds
  <2> QED BY <1>1, <1>3, <2>3, <2>4, WorksCovers
<1>7. Traced'
  BY <1>1, <1>3, <1>6, WorksTraced
<1> QED BY <1>5, <1>6, <1>7 DEF Keeps

LEMMA RetryKeeps ==
  ASSUME Typed, Typed', Countable, Traced, NEW w \in Workers, CountRetry(w)
  PROVE  Keeps
<1> DEFINE c == held[w]
           r == Renewed(c, now)
<1>0. w \in Procs
  BY DEF Procs
<1>1. Works(w, c, "count", "remove")
  BY <1>0, WorksGoto DEF CountRetry, history, sending
<1>2. /\ timers \in Bags /\ timers' = With(timers, r)
      /\ UNCHANGED <<vote_queue, vote_processing, vote_dead_letter, retried, votes, idVars>>
      /\ r \in Copies /\ r.id = c.id
  BY <1>0, HeldType, RenewedType DEF CountRetry, idVars, history, Typed, TypeOK, sending
<1> HIDE DEF c, r
<1>3. Countable'
  BY <1>1, <1>2, CountableStep DEF BagStep, Works
<1>4. ASSUME NEW m \in Messages PROVE Covers(m)
  <2>1. /\ One(c, m) \in {0, 1} /\ One(r, m) = One(c, m)
        /\ Removing(m)' = Removing(m) - 0 + One(c, m)
        /\ Carrying(m)' = Carrying(m) - One(c, m) + 0
        /\ Unburying(m)' = Unburying(m) - 0 + 0
    BY <1>1, <1>2, WorksCounts DEF One
  <2>2. InBag(timers', m) = InBag(timers, m) + One(r, m)
    BY <1>2, BagWith DEF Countable
  <2>3. Balance(m)' >= Balance(m) /\ Stock(m)' >= Stock(m)
    <3>1. /\ Balance(m)' = InQueue(vote_queue, m) + InBag(timers', m) + InBag(vote_processing, m)
                              - Removing(m)'
          /\ Stock(m)' = InQueue(vote_queue, m) + InBag(timers', m) + InBag(vote_dead_letter, m)
                            + Carrying(m)' - Unburying(m)'
      BY <1>2, PrimedCounts
    <3> QED BY <2>1, <2>2, <3>1, CountsTyped
  <2>4. Holds(vote_dead_letter, m)' = Holds(vote_dead_letter, m)
    BY <1>2 DEF Holds
  <2> QED BY <1>1, <1>2, <2>3, <2>4, WorksCovers
<1>5. Traced'
  BY <1>1, <1>2, <1>4, WorksTraced
<1> QED BY <1>3, <1>4, <1>5 DEF Keeps

LEMMA RemoveKeeps ==
  ASSUME Typed, Typed', Countable, Traced, NEW w \in Workers, Remove(w)
  PROVE  Keeps
<1> DEFINE c == held[w]
<1>0. w \in Procs
  BY DEF Procs
<1>1. Works(w, c, "remove", "idle")
  BY <1>0, WorksRelease DEF Remove, history, sending
<1>2. /\ vote_processing \in Bags /\ vote_processing' = LRem(vote_processing, c)
      /\ UNCHANGED <<vote_queue, timers, vote_dead_letter, retried, votes, idVars>>
      /\ c \in Copies
  BY <1>0, HeldType DEF Remove, idVars, history, Typed, TypeOK, sending
<1> HIDE DEF c
<1>3. Countable'
  BY <1>1, <1>2, CountableStep DEF BagStep, Works
<1>4. ASSUME NEW m \in Messages PROVE Covers(m)
  <2>1. /\ One(c, m) \in {0, 1}
        /\ Removing(m)' = Removing(m) - One(c, m) + 0
        /\ Carrying(m)' = Carrying(m) - 0 + 0
        /\ Unburying(m)' = Unburying(m) - 0 + 0
    BY <1>1, WorksCounts
  <2>2. /\ InBag(vote_processing', m) >= InBag(vote_processing, m) - One(c, m)
        /\ InBag(vote_processing', m) \in Nat
    BY <1>2, BagLRem DEF Countable
  <2>3. Balance(m)' >= Balance(m) /\ Stock(m)' >= Stock(m)
    <3>1. /\ Balance(m)' = InQueue(vote_queue, m) + InBag(timers, m) + InBag(vote_processing', m)
                              - Removing(m)'
          /\ Stock(m)' = InQueue(vote_queue, m) + InBag(timers, m) + InBag(vote_dead_letter, m)
                            + Carrying(m)' - Unburying(m)'
      BY <1>2, PrimedCounts
    <3> QED BY <2>1, <2>2, <3>1, CountsTyped
  <2>4. Holds(vote_dead_letter, m)' = Holds(vote_dead_letter, m)
    BY <1>2 DEF Holds
  <2> QED BY <1>1, <1>2, <2>3, <2>4, WorksCovers
<1>5. Traced'
  BY <1>1, <1>2, <1>4, WorksTraced
<1> QED BY <1>3, <1>4, <1>5 DEF Keeps

LEMMA BuryKeeps ==
  ASSUME Typed, Typed', Countable, Traced, NEW p \in Procs, Bury(p)
  PROVE  Keeps
<1> DEFINE c == held[p]
<1>1. Works(p, c, "bury", "unlist")
  BY WorksGoto DEF Bury, history, sending
<1>2. /\ vote_dead_letter \in Bags /\ vote_dead_letter' = With(vote_dead_letter, c)
      /\ UNCHANGED <<vote_queue, timers, vote_processing, retried, votes, idVars>>
      /\ c \in Copies
  BY HeldType DEF Bury, idVars, history, Typed, TypeOK, sending
<1> HIDE DEF c
<1>3. Countable'
  BY <1>1, <1>2, CountableStep DEF BagStep, Works
<1>4. ASSUME NEW m \in Messages PROVE Covers(m)
  <2>1. /\ One(c, m) \in {0, 1}
        /\ Removing(m)' = Removing(m) - 0 + 0
        /\ Unburying(m)' = Unburying(m) - 0 + 0
    BY <1>1, WorksCounts
  <2>2. Carrying(m)' = Carrying(m) - One(c, m) + 0 \/ Carrying(m)' = Carrying(m)
    BY <1>1, WorksCounts
  <2>3. InBag(vote_dead_letter', m) = InBag(vote_dead_letter, m) + One(c, m)
    BY <1>2, BagWith DEF Countable
  <2>4. Balance(m)' >= Balance(m) /\ Stock(m)' >= Stock(m)
    <3>1. /\ Balance(m)' = InQueue(vote_queue, m) + InBag(timers, m) + InBag(vote_processing, m)
                              - Removing(m)'
          /\ Stock(m)' = InQueue(vote_queue, m) + InBag(timers, m) + InBag(vote_dead_letter', m)
                            + Carrying(m)' - Unburying(m)'
      BY <1>2, PrimedCounts
    <3> QED BY <2>1, <2>2, <2>3, <3>1, CountsTyped
  <2>5. Holds(vote_dead_letter, m) => Holds(vote_dead_letter, m)'
    BY <1>2, HoldsWith, PrimedCounts
  <2> QED BY <1>1, <1>2, <2>4, <2>5, WorksCovers
<1>5. Holds(vote_dead_letter', c.id)
  BY <1>2, HoldsWith
<1>6. Traced'
  BY <1>1, <1>2, <1>4, <1>5, WorksTraced
<1> QED BY <1>3, <1>4, <1>6 DEF Keeps

LEMMA UnlistKeeps ==
  ASSUME Typed, Typed', Countable, Traced, NEW p \in Procs, Unlist(p)
  PROVE  Keeps
<1> DEFINE c == held[p]
<1>1. PICK to \in {"remove", "scan"} : Works(p, c, "unlist", to)
  <2>1. CASE p \in Workers
    BY <2>1, WorksGoto DEF Unlist, history, sending
  <2>2. CASE p \notin Workers
    BY <2>2, WorksRelease DEF Unlist, history, sending
  <2> QED BY <2>1, <2>2
<1>2. /\ vote_processing \in Bags /\ vote_processing' = LRem(vote_processing, c)
      /\ UNCHANGED <<vote_queue, timers, vote_dead_letter, retried, votes, idVars>>
      /\ c \in Copies
      /\ c.id \in retried \/ Holds(vote_dead_letter, c.id)
  BY HeldType DEF Unlist, idVars, history, Typed, TypeOK, Traced, sending
<1> HIDE DEF c
<1>3. Countable'
  BY <1>1, <1>2, CountableStep DEF BagStep, Works
<1>4. ASSUME NEW m \in Messages PROVE Covers(m)
  <2>1. /\ One(c, m) \in {0, 1} /\ (One(c, m) = 1 <=> c.id = m)
        /\ Removing(m)' = Removing(m) - 0 + (IF to = "remove" THEN One(c, m) ELSE 0)
        /\ Unburying(m)' = Unburying(m) - 0 + 0
    BY <1>1, WorksCounts
  <2>2. Carrying(m)' = Carrying(m) - 0 + 0 \/ Carrying(m)' = Carrying(m)
    BY <1>1, WorksCounts
  <2>3. /\ InBag(vote_processing', m) >= InBag(vote_processing, m) - One(c, m)
        /\ InBag(vote_processing', m) \in Nat
    BY <1>2, BagLRem DEF Countable
  <2>4. (c.id # m => Balance(m)' >= Balance(m)) /\ Stock(m)' >= Stock(m)
    <3>1. /\ Balance(m)' = InQueue(vote_queue, m) + InBag(timers, m) + InBag(vote_processing', m)
                              - Removing(m)'
          /\ Stock(m)' = InQueue(vote_queue, m) + InBag(timers, m) + InBag(vote_dead_letter, m)
                            + Carrying(m)' - Unburying(m)'
      BY <1>2, PrimedCounts
    <3> QED BY <2>1, <2>2, <2>3, <3>1, CountsTyped
  <2>5. Holds(vote_dead_letter, m)' = Holds(vote_dead_letter, m)
    BY <1>2 DEF Holds
  <2>6. Balance(m)' >= Balance(m) \/ m \in retried' \/ Holds(vote_dead_letter, m)'
    BY <1>2, <2>4, <2>5
  <2> QED BY <1>1, <1>2, <2>4, <2>5, <2>6, WorksCovers
<1>6. Traced'
  BY <1>1, <1>2, <1>4, WorksTraced
<1> QED BY <1>3, <1>4, <1>6 DEF Keeps

LEMMA TakeBackKeeps ==
  ASSUME Typed, Typed', Countable, Traced, TakeBack
  PROVE  Keeps
<1> DEFINE c == held[Checker]
           r == Renewed(c, scanTime)
<1>0. Checker \in Procs \ Workers
  BY QueueAssumption DEF Procs
<1>1. Works(Checker, c, "take", "scan")
  BY <1>0, WorksRelease DEF TakeBack, history, sending
<1>2. /\ vote_processing \in Bags /\ vote_processing' = LRem(vote_processing, c)
      /\ timers \in Bags /\ timers' = With(timers, r)
      /\ UNCHANGED <<vote_queue, vote_dead_letter, retried, votes, idVars>>
      /\ c \in Copies /\ r \in Copies /\ r.id = c.id
  BY <1>0, HeldType, RenewedType DEF TakeBack, idVars, history, Typed, TypeOK, sending
<1> HIDE DEF c, r
<1>3. Countable'
  BY <1>1, <1>2, CountableStep DEF BagStep, Works
<1>4. ASSUME NEW m \in Messages PROVE Covers(m)
  <2>1. /\ One(c, m) \in {0, 1} /\ One(r, m) = One(c, m)
        /\ Removing(m)' = Removing(m) - 0 + 0
        /\ Carrying(m)' = Carrying(m)
        /\ Unburying(m)' = Unburying(m) - 0 + 0
    BY <1>0, <1>1, <1>2, WorksCounts DEF One
  <2>2. /\ InBag(vote_processing', m) >= InBag(vote_processing, m) - One(c, m)
        /\ InBag(vote_processing', m) \in Nat
    BY <1>2, BagLRem DEF Countable
  <2>3. InBag(timers', m) = InBag(timers, m) + One(r, m)
    BY <1>2, BagWith DEF Countable
  <2>4. Balance(m)' >= Balance(m) /\ Stock(m)' >= Stock(m)
    <3>1. /\ Balance(m)' = InQueue(vote_queue, m) + InBag(timers', m) + InBag(vote_processing', m)
                              - Removing(m)'
          /\ Stock(m)' = InQueue(vote_queue, m) + InBag(timers', m) + InBag(vote_dead_letter, m)
                            + Carrying(m)' - Unburying(m)'
      BY <1>2, PrimedCounts
    <3> QED BY <2>1, <2>2, <2>3, <3>1, CountsTyped
  <2>5. Holds(vote_dead_letter, m)' = Holds(vote_dead_letter, m)
    BY <1>2 DEF Holds
  <2> QED BY <1>1, <1>2, <2>4, <2>5, WorksCovers
<1>5. Traced'
  BY <1>1, <1>2, <1>4, WorksTraced
<1> QED BY <1>3, <1>4, <1>5 DEF Keeps

LEMMA PushDeadKeeps ==
  ASSUME Typed, Typed', Countable, Traced, NEW a \in Admins, NEW c \in Copies, PushDead(a, c)
  PROVE  Keeps
<1>0. a \in Procs \ Workers
  BY QueueAssumption DEF Procs
<1>1. Works(a, c, "scan", "unbury")
  BY <1>0, WorksTake DEF PushDead, TakeUp, sending
<1>2. /\ vote_queue \in Seq(Copies) /\ vote_queue' = Append(vote_queue, c)
      /\ retried' = retried \cup {c.id}
      /\ UNCHANGED <<vote_processing, vote_dead_letter, timers, votes, idVars>>
  BY DEF PushDead, idVars, Typed, TypeOK, sending
<1>3. Countable'
  BY <1>1, <1>2, CountableStep DEF BagStep, Works
<1>4. ASSUME NEW m \in Messages PROVE Covers(m)
  <2>1. /\ One(c, m) \in {0, 1}
        /\ Removing(m)' = Removing(m) - 0 + 0
        /\ Carrying(m)' = Carrying(m)
        /\ Unburying(m)' = Unburying(m) - 0 + One(c, m)
    BY <1>0, <1>1, WorksCounts
  <2>2. InQueue(vote_queue', m) = InQueue(vote_queue, m) + One(c, m)
    BY <1>2, QueueAppend
  <2>3. Balance(m)' >= Balance(m) /\ Stock(m)' >= Stock(m)
    <3>1. /\ Balance(m)' = InQueue(vote_queue', m) + InBag(timers, m) + InBag(vote_processing, m)
                              - Removing(m)'
          /\ Stock(m)' = InQueue(vote_queue', m) + InBag(timers, m) + InBag(vote_dead_letter, m)
                            + Carrying(m)' - Unburying(m)'
      BY <1>2, PrimedCounts
    <3> QED BY <2>1, <2>2, <3>1, CountsTyped
  <2>4. Holds(vote_dead_letter, m)' = Holds(vote_dead_letter, m)
    BY <1>2 DEF Holds
  <2> QED BY <1>1, <1>2, <2>3, <2>4, WorksCovers
<1>5. Traced'
  BY <1>1, <1>2, <1>4, WorksTraced
<1> QED BY <1>3, <1>4, <1>5 DEF Keeps

LEMMA UnburyKeeps ==
  ASSUME Typed, Typed', Countable, Traced, NEW a \in Admins, Unbury(a)
  PROVE  Keeps
<1> DEFINE c == held[a]
<1>0. a \in Procs \ Workers
  BY QueueAssumption DEF Procs
<1>1. Works(a, c, "unbury", "forget")
  BY <1>0, WorksGoto DEF Unbury, history, sending
<1>2. /\ vote_dead_letter \in Bags /\ vote_dead_letter' = LRem(vote_dead_letter, c)
      /\ UNCHANGED <<vote_queue, vote_processing, timers, votes, retried, idVars>>
      /\ c \in Copies /\ c.id \in retried
  BY <1>0, HeldType DEF Unbury, idVars, history, Typed, TypeOK, Traced, sending
<1> HIDE DEF c
<1>3. Countable'
  BY <1>1, <1>2, CountableStep DEF BagStep, Works
<1>4. ASSUME NEW m \in Messages PROVE Covers(m)
  <2>1. /\ One(c, m) \in {0, 1} /\ (One(c, m) = 1 <=> c.id = m)
        /\ Removing(m)' = Removing(m) - 0 + 0
        /\ Carrying(m)' = Carrying(m)
        /\ Unburying(m)' = Unburying(m) - One(c, m) + 0
    BY <1>0, <1>1, WorksCounts
  <2>2. /\ InBag(vote_dead_letter', m) >= InBag(vote_dead_letter, m) - One(c, m)
        /\ InBag(vote_dead_letter', m) \in Nat
    BY <1>2, BagLRem DEF Countable
  <2>3. Balance(m)' >= Balance(m) /\ Stock(m)' >= Stock(m)
    <3>1. /\ Balance(m)' = InQueue(vote_queue, m) + InBag(timers, m) + InBag(vote_processing, m)
                              - Removing(m)'
          /\ Stock(m)' = InQueue(vote_queue, m) + InBag(timers, m) + InBag(vote_dead_letter', m)
                            + Carrying(m)' - Unburying(m)'
      BY <1>2, PrimedCounts
    <3> QED BY <2>1, <2>2, <3>1, CountsTyped
  <2>4. Holds(vote_dead_letter, m) => Holds(vote_dead_letter, m)' \/ m \in retried'
    BY <1>2, HoldsLRem, PrimedCounts
  <2> QED BY <1>1, <1>2, <2>3, <2>4, WorksCovers
<1>5. Traced'
  BY <1>1, <1>2, <1>4, WorksTraced
<1> QED BY <1>3, <1>4, <1>5 DEF Keeps

LEMMA RequeueKeeps ==
  ASSUME Typed, Typed', Countable, Traced, NEW c \in Copies, Requeue(c)
  PROVE  Keeps
<1>1. /\ vote_queue \in Seq(Copies) /\ vote_queue' = Append(vote_queue, c)
      /\ timers \in Bags /\ timers' = LRem(timers, c)
      /\ UNCHANGED <<vote_processing, vote_dead_letter, at, held, votes, sender, exits,
                     interrupted, retried, idVars>>
  BY DEF Requeue, idVars, history, Typed, TypeOK, sending
<1>2. Countable'
  BY <1>1, CountableStep, QueueAssumption DEF BagStep, Procs
<1>3. ASSUME NEW m \in Messages PROVE Covers(m)
  <2>1. InQueue(vote_queue', m) = InQueue(vote_queue, m) + One(c, m) /\ One(c, m) \in {0, 1}
    BY <1>1, QueueAppend, OneType
  <2>2. InBag(timers', m) \in Nat /\ InBag(timers', m) >= InBag(timers, m) - One(c, m)
    BY <1>1, BagLRem DEF Countable
  <2>3. /\ Removing(m)' = Removing(m) /\ Carrying(m)' = Carrying(m)
        /\ Unburying(m)' = Unburying(m)
    BY <1>1 DEF Removing, Carrying, Unburying, Busy
  <2>4. Balance(m)' >= Balance(m) /\ Stock(m)' >= Stock(m)
    <3>1. /\ Balance(m)' = InQueue(vote_queue', m) + InBag(timers', m) + InBag(vote_processing, m)
                              - Removing(m)
          /\ Stock(m)' = InQueue(vote_queue', m) + InBag(timers', m) + InBag(vote_dead_letter, m)
                            + Carrying(m) - Unburying(m)
      BY <1>1, <2>3, PrimedCounts
    <3> QED BY <2>1, <2>2, <3>1, CountsTyped
  <2>5. (Pushed(m)' => Pushed(m)) /\ (Holds(vote_dead_letter, m)' = Holds(vote_dead_letter, m))
    BY <1>1 DEF Pushed, Holds
  <2>6. votes[m] \in Nat
    BY DEF Typed, TypeOK
  <2> QED BY <1>1, <2>4, <2>5, <2>6 DEF Covers
<1>4. Traced'
  BY <1>1 DEF Traced, Holds, idVars, sending
<1> QED BY <1>2, <1>3, <1>4 DEF Keeps

(* An exit loses the timers' copies, and notes it, and what no list holds.     *)
LEMMA DieKeeps ==
  ASSUME Typed, Typed', Countable, Traced, Die
  PROVE  Keeps
<1>1. /\ UNCHANGED <<vote_queue, vote_processing, vote_dead_letter, votes, retried, idVars>>
      /\ timers \in Bags /\ timers' = EmptyBag
      /\ interrupted' = interrupted \cup {c.id : c \in {d \in Copies : timers[d] > 0}}
      /\ \A p \in Procs : at'[p] = "idle"
      /\ exits' = exits + 1 /\ exits \in Nat
      /\ sender' = [s \in AllSenders |-> IF InFlight(s) THEN "failed" ELSE sender[s]]
  BY DEF Die, redisVars, idVars, Typed, TypeOK, sending
<1>2. Countable'
  <2>1. {p \in Procs : at'[p] # "idle"} = {}
    BY <1>1
  <2>2. IsFiniteSet({p \in Procs : at'[p] # "idle"})
    BY <2>1, FS_EmptySet
  <2>3. ASSUME NEW m \in Messages
        PROVE  /\ IsFiniteSet(BagTokens(vote_processing, m)')
               /\ IsFiniteSet(BagTokens(timers, m)')
               /\ IsFiniteSet(BagTokens(vote_dead_letter, m)')
    <3>1. /\ IsFiniteSet(BagTokens(vote_processing', m)) /\ IsFiniteSet(BagTokens(timers', m))
          /\ IsFiniteSet(BagTokens(vote_dead_letter', m))
      BY <1>1, BagEmpty DEF Countable
    <3> QED BY <3>1 DEF BagTokens
  <2> QED BY <2>2, <2>3 DEF Countable
<1>3. ASSUME NEW m \in Messages PROVE Covers(m)
  <2>1. Removing(m)' = 0
    <3>1. Busy(Procs, {"remove"}, m)' = {}
      BY <1>1 DEF Busy
    <3> QED BY <3>1, FS_EmptySet DEF Removing
  <2>2. InBag(timers', m) = 0
    BY <1>1, BagEmpty
  <2>3. Holds(timers, m) => m \in interrupted'
    BY <1>1 DEF Holds
  <2>4. ~Holds(timers, m) => InBag(timers, m) = 0
    BY <1>1, BagHolds DEF Countable
  <2>5. ~Holds(timers, m) => Balance(m)' >= Balance(m)
    <3>1. Balance(m)' = InQueue(vote_queue, m) + 0 + InBag(vote_processing, m) - 0
      BY <1>1, <2>1, <2>2, PrimedCounts
    <3> QED BY <2>4, <3>1, CountsTyped
  <2>6. Pushed(m)' => Pushed(m)
    BY <1>1 DEF Pushed, InFlight
  <2>7. Holds(vote_dead_letter, m)' = Holds(vote_dead_letter, m)
    BY <1>1 DEF Holds
  <2>8. votes[m] \in Nat
    BY DEF Typed, TypeOK
  <2> QED BY <1>1, <2>3, <2>5, <2>6, <2>7, <2>8 DEF Covers
<1>4. Traced'
  <2>1. \A m \in vote_message_ids' : \E s \in Senders : MessageOf[s] = m /\ sender'[s] # "new"
    BY <1>1 DEF Traced, idVars, AllSenders, sending
  <2>2. \A m \in processed_vote_ids' : \E s \in NamedSenders : MessageOf[s] = m /\ sender'[s] = "ok"
    BY <1>1 DEF Traced, idVars, AllSenders, InFlight, sending
  <2> QED BY <1>1, <2>1, <2>2 DEF Traced
<1> QED BY <1>2, <1>3, <1>4 DEF Keeps

(* The steps of a sender that push nothing.  Here the ids have to be unique:    *)
(* a sender whose id is known has pushed it itself, or another one of it has.  *)
LEMMA SenderKeeps ==
  ASSUME GeneratedIds, Typed, Typed', Countable, Traced, NEW s \in AllSenders,
         SendCheck(s) \/ SendMark(s) \/ SendMarkNamed(s) \/ SendFails(s)
  PROVE  Keeps
<1>1. /\ UNCHANGED <<vote_queue, vote_processing, vote_dead_letter, timers, at, held, votes,
                     exits, interrupted, retried>>
      /\ \A t \in AllSenders : t # s => sender'[t] = sender[t]
  BY DEF SendCheck, Skip, Proceed, SendMark, SendMarkNamed, SendFails, redisVars, history,
         Typed, TypeOK, sending
<1>2. Senders \subseteq AllSenders /\ NamedSenders \subseteq AllSenders
      /\ \A t \in AllSenders : t \in Senders <=> t \notin NamedSenders
  BY QueueAssumption DEF AllSenders
<1>3. CASE SendCheck(s)
  <2>1. sender[s] = "new" /\ UNCHANGED idVars
    BY <1>3 DEF SendCheck, redisVars, idVars, sending
  <2>2. /\ sender'[s] \in {"ok", "push", "mark"}
        /\ sender'[s] = "ok" => MessageOf[s] \in KnownIds(s)
        /\ sender'[s] = "mark" => s \notin NamedSenders
    BY <1>3 DEF SendCheck, Skip, Proceed, Typed, TypeOK
  <2>3. ASSUME MessageOf[s] \in KnownIds(s) PROVE s \in NamedSenders /\ Pushed(MessageOf[s])
    <3>1. s \in NamedSenders
      <4> SUFFICES ASSUME s \in Senders PROVE FALSE
        BY <1>2
      <4>1. MessageOf[s] \in vote_message_ids
        BY <1>2, <2>3 DEF KnownIds
      <4>2. PICK t \in Senders : MessageOf[t] = MessageOf[s] /\ sender[t] # "new"
        BY <4>1 DEF Traced
      <4> QED BY <2>1, <4>2 DEF GeneratedIds
    <3>2. MessageOf[s] \in processed_vote_ids
      BY <2>3, <3>1 DEF KnownIds
    <3> QED BY <1>2, <3>1, <3>2 DEF Traced, Pushed
  <2>4. \A m \in Messages : Pushed(m)' => Pushed(m)
    BY <1>1, <2>2, <2>3 DEF Pushed
  <2>5. Countable' /\ \A m \in Messages : Covers(m)
    BY <1>1, <2>4, RestCovers
  <2>6. \A t \in AllSenders : sender[t] # "new" => sender'[t] = sender[t]
    BY <1>1, <2>1
  <2>7. Traced'
    BY <1>1, <1>2, <2>1, <2>6 DEF Traced, Holds, idVars, sending
  <2> QED BY <2>5, <2>7 DEF Keeps
<1>4. CASE SendMark(s)
  <2>1. /\ s \in Senders /\ s \notin NamedSenders /\ sender'[s] = "push"
        /\ vote_message_ids' \subseteq vote_message_ids \cup {MessageOf[s]}
        /\ UNCHANGED processed_vote_ids
    BY <1>2, <1>4 DEF SendMark, Typed, TypeOK
  <2>2. \A m \in Messages : Pushed(m)' => Pushed(m)
    BY <1>1, <2>1 DEF Pushed
  <2>3. Countable' /\ \A m \in Messages : Covers(m)
    BY <1>1, <2>2, RestCovers
  <2>4. /\ \A m \in vote_message_ids' : \E t \in Senders : MessageOf[t] = m /\ sender'[t] # "new"
        /\ \A m \in processed_vote_ids' : \E t \in NamedSenders : MessageOf[t] = m /\ sender'[t] = "ok"
    BY <1>1, <1>2, <2>1 DEF Traced
  <2>5. Traced'
    BY <1>1, <2>4 DEF Traced, Holds
  <2> QED BY <2>3, <2>5 DEF Keeps
<1>5. CASE SendMarkNamed(s)
  <2>1. /\ s \in NamedSenders /\ s \notin Senders /\ sender[s] = "mark" /\ sender'[s] = "ok"
        /\ processed_vote_ids' \subseteq processed_vote_ids \cup {MessageOf[s]}
        /\ UNCHANGED vote_message_ids
    BY <1>2, <1>5 DEF SendMarkNamed, Typed, TypeOK
  <2>2. \A m \in Messages : Pushed(m)' => Pushed(m)
    BY <1>1, <2>1 DEF Pushed
  <2>3. Countable' /\ \A m \in Messages : Covers(m)
    BY <1>1, <2>2, RestCovers
  <2>4. /\ \A m \in vote_message_ids' : \E t \in Senders : MessageOf[t] = m /\ sender'[t] # "new"
        /\ \A m \in processed_vote_ids' : \E t \in NamedSenders : MessageOf[t] = m /\ sender'[t] = "ok"
    BY <1>1, <1>2, <2>1 DEF Traced
  <2>5. Traced'
    BY <1>1, <2>4 DEF Traced, Holds
  <2> QED BY <2>3, <2>5 DEF Keeps
<1>6. CASE SendFails(s)
  <2>1. sender[s] = "push" /\ sender'[s] = "failed" /\ UNCHANGED idVars
    BY <1>6 DEF SendFails, redisVars, idVars, Typed, TypeOK
  <2>2. \A m \in Messages : Pushed(m)' => Pushed(m)
    BY <1>1, <2>1 DEF Pushed
  <2>3. Countable' /\ \A m \in Messages : Covers(m)
    BY <1>1, <2>2, RestCovers
  <2>4. Traced'
    BY <1>1, <1>2, <2>1 DEF Traced, Holds, idVars
  <2> QED BY <2>3, <2>4 DEF Keeps
<1> QED BY <1>3, <1>4, <1>5, <1>6

LEMMA PushKeeps ==
  ASSUME Typed, Typed', Countable, Traced, NEW s \in AllSenders, SendPush(s)
  PROVE  Keeps
<1>1. Countable' /\ \A m \in Messages : Covers(m)
  BY PushCovers
<1>2. /\ UNCHANGED <<idVars, at, held, votes, retried, vote_dead_letter>>
      /\ \A t \in AllSenders : t # s => sender'[t] = sender[t]
      /\ sender[s] = "push" /\ sender'[s] \in {"mark", "ok", "failed"}
  BY DEF SendPush, history, Typed, TypeOK, sending
<1>3. /\ \A m \in vote_message_ids' : \E t \in Senders : MessageOf[t] = m /\ sender'[t] # "new"
      /\ \A m \in processed_vote_ids' : \E t \in NamedSenders : MessageOf[t] = m /\ sender'[t] = "ok"
  BY <1>2 DEF Traced, idVars, AllSenders, sending
<1>4. Traced'
  BY <1>2, <1>3 DEF Traced, Holds
<1> QED BY <1>1, <1>4 DEF Keeps

LEMMA RestKeeps ==
  ASSUME Typed, Typed', Countable, Traced,
         ExpireIds \/ Tick \/ CloseDB \/ Stop \/ Restart \/ UNCHANGED vars
  PROVE  Keeps
<1>1. UNCHANGED <<vote_queue, vote_processing, vote_dead_letter, timers, at, held, votes, sender,
                  processed_vote_ids, exits, interrupted, retried>>
  BY DEF ExpireIds, Tick, CloseDB, Stop, Restart, vars, redisVars, idVars, history, sending
<1>2. vote_message_ids' \subseteq vote_message_ids
  BY DEF ExpireIds, Tick, CloseDB, Stop, Restart, vars, redisVars, idVars, history, sending
<1>3. \A m \in Messages : Pushed(m)' => Pushed(m)
  BY <1>1 DEF Pushed
<1>4. Countable' /\ \A m \in Messages : Covers(m)
  BY <1>1, <1>3, RestCovers
<1>5. Traced'
  BY <1>1, <1>2 DEF Traced, Holds
<1> QED BY <1>4, <1>5 DEF Keeps

LEMMA InitKept == Init => Kept /\ Traced
<1> SUFFICES ASSUME Init PROVE Kept /\ Traced
  OBVIOUS
<1>1. Typed
  BY InitTyped
<1>2. Countable
  <2>1. {p \in Procs : at[p] # "idle"} = {}
    BY DEF Init, IdleProcs
  <2>2. IsFiniteSet({p \in Procs : at[p] # "idle"})
    BY <2>1, FS_EmptySet
  <2> QED BY <2>2, BagEmpty DEF Countable, Init, IdleProcs
<1>3. ASSUME NEW m \in Messages PROVE Accounted(m) /\ Stocked(m)
  <2>1. ~Pushed(m)
    BY DEF Pushed, Init
  <2>2. Removing(m) = 0 /\ Unburying(m) = 0
    <3>1. Busy(Procs, {"remove"}, m) = {} /\ Busy(Procs, {"unbury"}, m) = {}
      BY DEF Busy, Init, IdleProcs
    <3> QED BY <3>1, FS_EmptySet DEF Removing, Unburying
  <2>3. Balance(m) >= 0 /\ Stock(m) >= 0
    BY <1>1, <1>2, <2>2, CountsTyped
  <2> QED BY <2>1, <2>3 DEF Accounted, Stocked
<1>4. Traced
  BY DEF Init, IdleProcs, Traced
<1> QED BY <1>2, <1>3, <1>4 DEF Kept

LEMMA NextKept ==
  ASSUME GeneratedIds PROVE Typed /\ Typed' /\ Kept /\ Traced /\ [Next]_vars => Kept' /\ Traced'
<1> SUFFICES ASSUME Typed, Typed', Kept, Traced, [Next]_vars PROVE Kept' /\ Traced'
  OBVIOUS
<1>1. Countable
  BY DEF Kept
<1>2. Keeps
  <2>1. ASSUME NEW s \in AllSenders, Send(s) PROVE Keeps
    BY <1>1, <2>1, SenderKeeps, PushKeeps DEF Send
  <2>2. ASSUME NEW w \in Workers, Consume(w) \/ ProcessMessage(w) PROVE Keeps
    <3>1. w \in Procs
      BY DEF Procs
    <3>2. CASE Consume(w) \/ CountVote(w) \/ ReadResults(w) \/ CountRetry(w) \/ Remove(w)
      BY <1>1, <3>2, ConsumeKeeps, CountKeeps, ResultsKeeps, RetryKeeps, RemoveKeeps
    <3>3. CASE Bury(w) \/ Unlist(w)
      BY <1>1, <3>1, <3>3, BuryKeeps, UnlistKeeps
    <3>4. CASE RefuseVote(w) \/ CheckRetries(w)
      BY <1>1, <3>4, QuietSteps
    <3> QED BY <2>2, <3>2, <3>3, <3>4 DEF ProcessMessage
  <2>3. ASSUME NEW c \in Copies, Requeue(c) PROVE Keeps
    BY <1>1, <2>3, RequeueKeeps
  <2>4. ASSUME NEW a \in Admins, RetryDeadLetters(a) PROVE Keeps
    <3>1. CASE Unbury(a) \/ \E c \in Copies : PushDead(a, c)
      BY <1>1, <3>1, UnburyKeeps, PushDeadKeeps
    <3>2. CASE ListDead(a) \/ ForgetRetries(a) \/ EndRetry(a)
      BY <1>1, <3>2, QuietSteps
    <3> QED BY <2>4, <3>1, <3>2 DEF RetryDeadLetters
  <2>5. ASSUME CheckTimeouts PROVE Keeps
    <3>1. CASE Bury(Checker) \/ Unlist(Checker)
      <4>1. Checker \in Procs
        BY DEF Procs
      <4> QED BY <1>1, <3>1, <4>1, BuryKeeps, UnlistKeeps
    <3>2. CASE TakeBack
      BY <1>1, <3>2, TakeBackKeeps
    <3>3. CASE ListExpired \/ CountTimeout \/ EndScan \/ \E c \in Copies : CheckExpired(c)
      BY <1>1, <3>3, QuietSteps
    <3> QED BY <2>5, <3>1, <3>2, <3>3 DEF CheckTimeouts
  <2>6. CASE Exit \/ Crash
    BY <1>1, <2>6, DieKeeps DEF Exit, Crash
  <2>7. CASE ExpireIds \/ Tick \/ CloseDB \/ Stop \/ Restart \/ UNCHANGED vars
    BY <1>1, <2>7, RestKeeps
  <2> QED BY <2>1, <2>2, <2>3, <2>4, <2>5, <2>6, <2>7 DEF Next
<1>3. ASSUME NEW m \in Messages PROVE Accounted(m)' /\ Stocked(m)'
  BY <1>1, <1>2, CoversKeeps DEF Keeps, Kept
<1> QED BY <1>2, <1>3 DEF Keeps, Kept

LEMMA KeptIsSomewhere == Typed /\ Kept => AcceptedIsSomewhere
<1> SUFFICES ASSUME Typed, Kept, NEW m \in Messages, Sent(m), ~(votes[m] > 0), ~Queued(m),
                    ~Holds(vote_processing, m), ~Holds(vote_dead_letter, m), ~Holds(timers, m),
                    m \notin interrupted
             PROVE  m \in retried /\ (BeingProcessed(m) \/ exits > 0)
  BY DEF AcceptedIsSomewhere
<1>1. Countable /\ Accounted(m) /\ Stocked(m) /\ Pushed(m)
  BY DEF Kept, Sent, Pushed
<1>2. InQueue(vote_queue, m) \in Nat /\ ~(InQueue(vote_queue, m) > 0)
  BY QueueFinite DEF Typed, TypeOK, Queued
<1>3. /\ InBag(timers, m) \in Nat /\ ~(InBag(timers, m) > 0)
      /\ InBag(vote_processing, m) \in Nat /\ ~(InBag(vote_processing, m) > 0)
      /\ InBag(vote_dead_letter, m) \in Nat /\ ~(InBag(vote_dead_letter, m) > 0)
  BY <1>1, BagHolds DEF Countable, Typed, TypeOK
<1>4. m \in retried
  <2>1. Balance(m) = 0 + 0 + 0 - Removing(m) /\ Removing(m) \in Nat
    BY <1>1, <1>2, <1>3, CountsTyped
  <2> QED BY <1>1, <2>1 DEF Accounted
<1>5. ASSUME ~(exits > 0) PROVE BeingProcessed(m)
  <2>1. Stock(m) >= 1
    BY <1>1, <1>5 DEF Stocked, Typed, TypeOK
  <2>2. Carrying(m) > 0
    <3>1. Stock(m) = 0 + 0 + 0 + Carrying(m) - Unburying(m) /\ Carrying(m) \in Nat /\ Unburying(m) \in Nat
      BY <1>1, <1>2, <1>3, CountsTyped
    <3> QED BY <2>1, <3>1
  <2>3. Busy(Workers, {"handle", "failed", "count", "bury"}, m) # {}
    BY <2>2, FS_EmptySet DEF Carrying
  <2>4. PICK w \in Workers : at[w] \in {"handle", "failed", "count", "bury"} /\ held[w].id = m
    BY <2>3 DEF Busy
  <2>5. held[w] # NoCopy
    BY <2>4 DEF Typed, TypeOK, Procs
  <2> QED BY <2>4, <2>5 DEF BeingProcessed
<1> QED BY <1>4, <1>5

(* A vote the sender was told is queued is in a list, with a timer or with a    *)
(* goroutine until it is counted, whatever the consumer, the time-out check,    *)
(* the retry of dead letters, the timers and any number of crashes interleave:  *)
(* the generated ids being unique, as generateRedisMessageID says they are.     *)
THEOREM AcceptedIsKept == ASSUME GeneratedIds PROVE Spec => []AcceptedIsSomewhere
BY InitTyped, NextTyped, InitKept, NextKept, KeptIsSomewhere, PTL DEF Spec

-----------------------------------------------------------------------------
(* Messages given up *)

\* A goroutine about to bury its message, and one about to forget its retries.
Buried ==
  /\ BuriedAfterRetries
  /\ \A p \in Procs :
       /\ at[p] = "bury" =>
            vote_retries[held[p].id] >= MaxRetries \/ held[p].id \in retried
       /\ at[p] \in {"unbury", "forget"} => held[p].id \in retried

(* The count of retries falls only for a message an operator has retried.      *)
LEMMA BuriedStep ==
  ASSUME Typed, Typed', Buried, retried \subseteq retried',
         \A m \in Messages : vote_retries'[m] >= vote_retries[m] \/ m \in retried',
         \A m \in Messages : Holds(vote_dead_letter', m) =>
           Holds(vote_dead_letter, m) \/ vote_retries[m] >= MaxRetries \/ m \in retried,
         \A p \in Procs :
           \/ at'[p] = at[p] /\ held'[p] = held[p]
           \/ at'[p] \notin {"bury", "unbury", "forget"}
           \/ at'[p] = "bury" /\ vote_retries[held'[p].id] >= MaxRetries
           \/ at'[p] \in {"unbury", "forget"} /\ held'[p].id \in retried'
  PROVE  Buried'
<1>1. /\ \A m \in Messages : vote_retries[m] \in Nat /\ vote_retries'[m] \in Nat
      /\ MaxRetries \in Nat
  BY QueueAssumption DEF Typed, TypeOK
<1>2. \A p \in Procs : at'[p] \in {"bury", "unbury", "forget"} => held'[p].id \in Messages
  <2>1. \A p \in Procs : held'[p] \in Copies \cup {NoCopy} /\
          (at'[p] \in {"bury", "unbury", "forget"} => held'[p] # NoCopy)
    BY DEF Typed, TypeOK
  <2> QED BY <2>1 DEF Copies
<1>3. ASSUME NEW m \in Messages, Holds(vote_dead_letter', m)
      PROVE  vote_retries'[m] >= MaxRetries \/ m \in retried'
  <2>1. vote_retries[m] >= MaxRetries \/ m \in retried
    BY <1>3 DEF Buried, BuriedAfterRetries
  <2> QED BY <1>1, <2>1
<1>4. ASSUME NEW p \in Procs
      PROVE  /\ at'[p] = "bury" =>
                  vote_retries'[held'[p].id] >= MaxRetries \/ held'[p].id \in retried'
             /\ at'[p] \in {"unbury", "forget"} => held'[p].id \in retried'
  <2>1. /\ at'[p] = "bury" =>
             vote_retries[held'[p].id] >= MaxRetries \/ held'[p].id \in retried'
        /\ at'[p] \in {"unbury", "forget"} => held'[p].id \in retried'
    BY DEF Buried
  <2> QED BY <1>1, <1>2, <2>1
<1>5. \A m \in Messages : Holds(vote_dead_letter, m)' = Holds(vote_dead_letter', m)
  BY DEF Holds
<1> QED BY <1>3, <1>4, <1>5 DEF Buried, BuriedAfterRetries

LEMMA NextBuried == Typed /\ Typed' /\ Buried /\ [Next]_vars => Buried'
<1> SUFFICES ASSUME Typed, Typed', Buried, [Next]_vars PROVE Buried'
  OBVIOUS
<1> USE QueueAssumption
<1>0. /\ Workers \subseteq Procs /\ Admins \subseteq Procs /\ Checker \in Procs
      /\ \A m \in Messages : vote_retries[m] \in Nat
  BY DEF Procs, Typed, TypeOK
\* Steps that leave the retries and the dead letters alone.
<1>1. ASSUME UNCHANGED <<vote_retries, vote_dead_letter>>, retried \subseteq retried',
             \A p \in Procs :
               \/ at'[p] = at[p] /\ held'[p] = held[p]
               \/ at'[p] \notin {"bury", "unbury", "forget"}
               \/ at'[p] = "bury" /\ vote_retries[held'[p].id] >= MaxRetries
               \/ at'[p] \in {"unbury", "forget"} /\ held'[p].id \in retried'
      PROVE  Buried'
  BY <1>0, <1>1, BuriedStep
<1>2. ASSUME UNCHANGED <<vote_retries, vote_dead_letter, retried, at, held>> PROVE Buried'
  BY <1>1, <1>2
<1>3. ASSUME NEW s \in AllSenders, Send(s) PROVE Buried'
  BY <1>2, <1>3 DEF Send, SendCheck, SendMark, SendMarkNamed, SendPush, SendFails, redisVars, history
<1>4. ASSUME NEW w \in Workers, Consume(w) \/ CountVote(w) \/ RefuseVote(w) \/ ReadResults(w) \/ Remove(w)
      PROVE  Buried'
  <2>1. UNCHANGED <<vote_retries, vote_dead_letter, retried>>
    BY <1>4 DEF Consume, CountVote, RefuseVote, ReadResults, Remove, redisVars, history, sending
  <2>2. \A p \in Procs : \/ at'[p] = at[p] /\ held'[p] = held[p]
                         \/ at'[p] \notin {"bury", "unbury", "forget"}
    BY <1>4 DEF Consume, CountVote, RefuseVote, ReadResults, Remove, Goto, Release, Typed, TypeOK
  <2> QED BY <1>1, <2>1, <2>2
<1>5. ASSUME NEW w \in Workers, CheckRetries(w) PROVE Buried'
  <2>1. UNCHANGED <<vote_retries, vote_dead_letter, retried, held>>
    BY <1>5 DEF CheckRetries, redisVars, history, sending
  <2>2. \A p \in Procs : \/ at'[p] = at[p]
                         \/ at'[p] = "count"
                         \/ at'[p] = "bury" /\ vote_retries[held[p].id] >= MaxRetries
    BY <1>0, <1>5 DEF CheckRetries, Verdict, Goto, Typed, TypeOK
  <2> QED BY <1>1, <2>1, <2>2
<1>6. ASSUME NEW p \in Procs, CountRetry(p) \/ (p = Checker /\ CountTimeout) PROVE Buried'
  <2>1. /\ UNCHANGED <<vote_dead_letter, retried, held>>
        /\ vote_retries' = [vote_retries EXCEPT ![held[p].id] = @ + 1]
    BY <1>6 DEF CountRetry, CountTimeout, history, sending
  <2>2. \A m \in Messages : vote_retries'[m] >= vote_retries[m]
    BY <1>0, <2>1 DEF Typed, TypeOK
  <2>3. \A q \in Procs : at'[q] = at[q] \/ at'[q] \in {"remove", "take"}
    BY <1>6 DEF CountRetry, CountTimeout, Goto, Typed, TypeOK
  <2> QED BY <2>1, <2>2, <2>3, BuriedStep
<1>7. ASSUME NEW p \in Procs, Bury(p) PROVE Buried'
  <2> DEFINE c == held[p]
  <2>1. /\ UNCHANGED <<vote_retries, retried, held>> /\ vote_dead_letter \in Bags
        /\ vote_dead_letter' = With(vote_dead_letter, c)
        /\ c \in Copies
        /\ vote_retries[c.id] >= MaxRetries \/ c.id \in retried
    BY <1>7, HeldType DEF Bury, history, Buried, Typed, TypeOK, sending
  <2> HIDE DEF c
  <2>2. \A d \in Copies : d # c => vote_dead_letter'[d] = vote_dead_letter[d]
    BY <2>1 DEF With, Bags
  <2>3. \A m \in Messages : Holds(vote_dead_letter', m) =>
          Holds(vote_dead_letter, m) \/ vote_retries[m] >= MaxRetries \/ m \in retried
    BY <2>1, <2>2 DEF Holds
  <2>4. \A q \in Procs : at'[q] = at[q] \/ at'[q] = "unlist"
    BY <1>7 DEF Bury, Goto, Typed, TypeOK
  <2>5. \A m \in Messages : vote_retries'[m] >= vote_retries[m]
    BY <1>0, <2>1
  <2> QED BY <2>1, <2>3, <2>4, <2>5, BuriedStep
<1>8. ASSUME NEW p \in Procs, Unlist(p) PROVE Buried'
  <2>1. UNCHANGED <<vote_retries, vote_dead_letter, retried>>
    BY <1>8 DEF Unlist, history, sending
  <2>2. \A q \in Procs : \/ at'[q] = at[q] /\ held'[q] = held[q]
                         \/ at'[q] \in {"remove", "scan"}
    BY <1>8 DEF Unlist, Goto, Release, Typed, TypeOK
  <2> QED BY <1>1, <2>1, <2>2
<1>9. ASSUME NEW c \in Copies, Requeue(c) PROVE Buried'
  BY <1>2, <1>9 DEF Requeue, history, sending
<1>10. CASE ListExpired \/ EndScan \/ TakeBack
  <2>1. UNCHANGED <<vote_retries, vote_dead_letter, retried>>
    BY <1>10 DEF ListExpired, EndScan, TakeBack, redisVars, history, sending
  <2>2. \A q \in Procs : \/ at'[q] = at[q] /\ held'[q] = held[q]
                         \/ at'[q] \in {"scan", "idle"}
    BY <1>10 DEF ListExpired, EndScan, TakeBack, Goto, Release, Typed, TypeOK
  <2> QED BY <1>1, <2>1, <2>2
<1>11. ASSUME NEW c \in Copies, CheckExpired(c) PROVE Buried'
  <2>1. UNCHANGED <<vote_retries, vote_dead_letter, retried>>
    BY <1>11 DEF CheckExpired, redisVars, history, sending
  <2>2. \A q \in Procs : \/ at'[q] = at[q] /\ held'[q] = held[q]
                         \/ at'[q] = "count"
                         \/ at'[q] = "bury" /\ vote_retries[held'[q].id] >= MaxRetries
    BY <1>0, <1>11 DEF CheckExpired, TakeUp, Verdict, Goto, Typed, TypeOK
  <2> QED BY <1>1, <2>1, <2>2
<1>12. ASSUME NEW a \in Admins, ListDead(a) \/ EndRetry(a) PROVE Buried'
  <2>1. UNCHANGED <<vote_retries, vote_dead_letter, retried, held>>
    BY <1>12 DEF ListDead, EndRetry, redisVars, history, sending
  <2>2. \A q \in Procs : at'[q] = at[q] \/ at'[q] \in {"scan", "done"}
    BY <1>12 DEF ListDead, EndRetry, Goto, Typed, TypeOK
  <2> QED BY <1>1, <2>1, <2>2
<1>13. ASSUME NEW a \in Admins, NEW c \in Copies, PushDead(a, c) PROVE Buried'
  <2>1. /\ UNCHANGED <<vote_retries, vote_dead_letter>> /\ retried' = retried \cup {c.id}
    BY <1>13 DEF PushDead
  <2>2. \A q \in Procs : \/ at'[q] = at[q] /\ held'[q] = held[q]
                         \/ at'[q] = "unbury" /\ held'[q] = c
    BY <1>0, <1>13 DEF PushDead, TakeUp, Goto, Typed, TypeOK
  <2> QED BY <1>1, <2>1, <2>2
<1>14. ASSUME NEW a \in Admins, Unbury(a) PROVE Buried'
  <2>1. /\ UNCHANGED <<vote_retries, retried, held>> /\ held[a] \in Copies
        /\ held[a].id \in retried
        /\ vote_dead_letter \in Bags /\ vote_dead_letter' = LRem(vote_dead_letter, held[a])
    BY <1>0, <1>14, HeldType DEF Unbury, history, Buried, Typed, TypeOK, sending
  <2>2. \A d \in Copies : vote_dead_letter[d] \in Nat /\
          (vote_dead_letter'[d] > 0 => vote_dead_letter[d] > 0)
    BY <2>1 DEF LRem, Bags
  <2>3. \A m \in Messages : Holds(vote_dead_letter', m) => Holds(vote_dead_letter, m)
    BY <2>2 DEF Holds
  <2>4. \A q \in Procs : at'[q] = at[q] \/ (at'[q] = "forget" /\ q = a)
    BY <1>0, <1>14 DEF Unbury, Goto, Typed, TypeOK
  <2>5. \A m \in Messages : vote_retries'[m] >= vote_retries[m]
    BY <1>0, <2>1
  <2> QED BY <2>1, <2>3, <2>4, <2>5, BuriedStep
<1>15. ASSUME NEW a \in Admins, ForgetRetries(a) PROVE Buried'
  <2>1. /\ UNCHANGED <<vote_dead_letter, retried>>
        /\ vote_retries' = [vote_retries EXCEPT ![held[a].id] = 0]
        /\ held[a].id \in retried
    BY <1>0, <1>15 DEF ForgetRetries, history, Buried, sending
  <2>2. \A m \in Messages : vote_retries'[m] >= vote_retries[m] \/ m \in retried'
    BY <1>0, <2>1 DEF Typed, TypeOK
  <2>3. \A q \in Procs : \/ at'[q] = at[q] /\ held'[q] = held[q]
                         \/ at'[q] = "scan"
    BY <1>0, <1>15 DEF ForgetRetries, Goto, Release, Typed, TypeOK
  <2> QED BY <2>1, <2>2, <2>3, BuriedStep
<1>16. CASE ExpireIds \/ Tick \/ CloseDB \/ Stop \/ Restart \/ UNCHANGED vars
  BY <1>2, <1>16 DEF ExpireIds, Tick, CloseDB, Stop, Restart, vars, redisVars, history, sending
<1>17. CASE Exit \/ Crash
  <2>1. UNCHANGED <<vote_retries, vote_dead_letter, retried>> /\ \A q \in Procs : at'[q] = "idle"
    BY <1>17 DEF Exit, Crash, Die, redisVars, sending
  <2> QED BY <1>1, <2>1
<1> QED BY <1>0, <1>3, <1>4, <1>5, <1>6, <1>7, <1>8, <1>9, <1>10, <1>11, <1>12, <1>13, <1>14, <1>15,
        <1>16, <1>17 DEF Next, ProcessMessage, CheckTimeouts, RetryDeadLetters

(* No message is given up before its retries were counted MaxRetries times,     *)
(* however many goroutines, time-outs and crashes count them.                  *)
THEOREM GivenUpAfterRetries == Spec => []BuriedAfterRetries
<1>1. Init => Buried
  BY DEF Init, IdleProcs, EmptyBag, Buried, BuriedAfterRetries, Holds
<1>2. Buried => BuriedAfterRetries
  BY DEF Buried
<1> QED BY InitTyped, NextTyped, <1>1, <1>2, NextBuried, PTL DEF Spec

-----------------------------------------------------------------------------
(* The ledger of the votes *)

OnlyOf(bag, ids) == \A c \in Copies : bag[c] > 0 => c.id \in ids

\* No list, loop, timer or goroutine has a copy of a vote nobody has sent.
Origin ==
  /\ \A i \in DOMAIN vote_queue : vote_queue[i].id \in Offered
  /\ OnlyOf(vote_processing, Offered) /\ OnlyOf(vote_dead_letter, Offered)
  /\ OnlyOf(timers, Offered)
  /\ \A p \in Procs : OnlyOf(todo[p], Offered)
  /\ \A p \in Procs : held[p] # NoCopy => held[p].id \in Offered

(* What bags of sent votes turn into.                                        *)
LEMMA OnlyOfBags ==
  ASSUME NEW ids, NEW bag \in Bags, OnlyOf(bag, ids), NEW c \in Copies
  PROVE  /\ OnlyOf(LRem(bag, c), ids)
         /\ c.id \in ids => OnlyOf(With(bag, c), ids)
<1>1. \A d \in Copies : /\ bag[d] \in Nat
                        /\ With(bag, c)[d] = IF d = c THEN bag[c] + 1 ELSE bag[d]
                        /\ LRem(bag, c)[d] = IF d = c THEN IF bag[c] > 0 THEN bag[c] - 1 ELSE 0
                                                      ELSE bag[d]
  BY DEF Bags, With, LRem
<1>2. \A d \in Copies : LRem(bag, c)[d] > 0 => bag[d] > 0
  BY <1>1
<1> QED BY <1>1, <1>2 DEF OnlyOf

LEMMA OnlyOfEmpty == ASSUME NEW ids PROVE OnlyOf(EmptyBag, ids)
<1>1. \A c \in Copies : EmptyBag[c] = 0
  BY DEF EmptyBag
<1> QED BY <1>1 DEF OnlyOf

(* A sender that has started never becomes a new one.                        *)
LEMMA OfferedGrows ==
  ASSUME \A s \in AllSenders : sender[s] # "new" => sender'[s] # "new"
  PROVE  Offered \subseteq Offered'
BY DEF Offered

LEMMA SameOffered == UNCHANGED sender => Offered' = Offered
BY DEF Offered

(* A copy that joins the queue is one of a vote that was sent.               *)
LEMMA QueueOf ==
  ASSUME Typed, Origin, NEW c \in Copies, c.id \in Offered,
         vote_queue' = Append(vote_queue, c)
  PROVE  \A i \in DOMAIN vote_queue' : vote_queue'[i].id \in Offered
<1>1. /\ Len(vote_queue) \in Nat /\ DOMAIN vote_queue = 1 .. Len(vote_queue)
      /\ DOMAIN vote_queue' = 1 .. Len(vote_queue) + 1
      /\ \A i \in 1 .. Len(vote_queue) : vote_queue'[i] = vote_queue[i]
      /\ vote_queue'[Len(vote_queue) + 1] = c
  BY DEF Typed, TypeOK
<1> QED BY <1>1 DEF Origin

(* A step of the lists, loops and goroutines that brings in no new vote.     *)
LEMMA OriginStep ==
  ASSUME Origin, Offered \subseteq Offered',
         \A i \in DOMAIN vote_queue' : vote_queue'[i].id \in Offered',
         OnlyOf(vote_processing', Offered) \/ vote_processing' = vote_processing,
         OnlyOf(vote_dead_letter', Offered) \/ vote_dead_letter' = vote_dead_letter,
         OnlyOf(timers', Offered) \/ timers' = timers,
         \A p \in Procs : OnlyOf(todo'[p], Offered) \/ todo'[p] = todo[p],
         \A p \in Procs : \/ held'[p] = held[p] \/ held'[p] = NoCopy
                          \/ held'[p].id \in Offered
  PROVE  Origin'
<1>1. /\ OnlyOf(vote_processing', Offered) /\ OnlyOf(vote_dead_letter', Offered)
      /\ OnlyOf(timers', Offered)
      /\ \A p \in Procs : OnlyOf(todo'[p], Offered)
  BY DEF Origin
<1>2. /\ OnlyOf(vote_processing', Offered') /\ OnlyOf(vote_dead_letter', Offered')
      /\ OnlyOf(timers', Offered')
      /\ \A p \in Procs : OnlyOf(todo'[p], Offered')
  BY <1>1 DEF OnlyOf
<1>3. \A p \in Procs : held'[p] # NoCopy => held'[p].id \in Offered'
  BY DEF Origin
<1> QED BY <1>2, <1>3 DEF Origin, OnlyOf

LEMMA InitOrigin == Init => Origin
<1> SUFFICES ASSUME Init PROVE Origin
  OBVIOUS
<1>1. /\ vote_queue = <<>> /\ vote_processing = EmptyBag /\ vote_dead_letter = EmptyBag
      /\ timers = EmptyBag /\ \A p \in Procs : todo[p] = EmptyBag /\ held[p] = NoCopy
  BY DEF Init, IdleProcs
<1> QED BY <1>1, OnlyOfEmpty DEF Origin

LEMMA NextOrigin == Typed /\ Origin /\ [Next]_vars => Origin'
<1> SUFFICES ASSUME Typed, Origin, [Next]_vars PROVE Origin'
  OBVIOUS
<1> USE QueueAssumption
<1>0. /\ Workers \subseteq Procs /\ Admins \subseteq Procs /\ Checker \in Procs
      /\ vote_processing \in Bags /\ vote_dead_letter \in Bags /\ timers \in Bags
      /\ \A p \in Procs : todo[p] \in Bags
      /\ OnlyOf(vote_processing, Offered) /\ OnlyOf(vote_dead_letter, Offered)
      /\ OnlyOf(timers, Offered) /\ \A p \in Procs : OnlyOf(todo[p], Offered)
      /\ \A i \in DOMAIN vote_queue : vote_queue[i].id \in Offered
  BY DEF Procs, Typed, TypeOK, Origin
<1>1. ASSUME UNCHANGED <<vote_queue, vote_processing, vote_dead_letter, timers, todo>>,
             Offered \subseteq Offered',
             \A p \in Procs : \/ held'[p] = held[p] \/ held'[p] = NoCopy
                              \/ held'[p].id \in Offered
      PROVE  Origin'
  BY <1>0, <1>1, OriginStep
<1>2. ASSUME NEW s \in AllSenders, SendCheck(s) \/ SendMark(s) \/ SendMarkNamed(s) \/ SendFails(s)
      PROVE  Origin'
  <2>1. \A t \in AllSenders : sender[t] # "new" => sender'[t] # "new"
    BY <1>2 DEF SendCheck, Skip, Proceed, SendMark, SendMarkNamed, SendFails, Typed, TypeOK
  <2>2. UNCHANGED <<vote_queue, vote_processing, vote_dead_letter, timers, todo, held>>
    BY <1>2 DEF SendCheck, SendMark, SendMarkNamed, SendFails, redisVars, loopVars
  <2> QED BY <1>1, <2>1, <2>2, OfferedGrows
<1>3. ASSUME NEW s \in AllSenders, SendPush(s) PROVE Origin'
  <2> DEFINE c == Message(s)
  <2>1. c \in Copies /\ c.id \in Offered
    BY <1>3 DEF Message, Copies, SendPush, Offered, Typed, TypeOK
  <2>2. /\ vote_queue' = Append(vote_queue, c)
        /\ UNCHANGED <<vote_processing, vote_dead_letter, timers, todo, held>>
    BY <1>3 DEF SendPush, loopVars, sending
  <2>3. \A t \in AllSenders : sender[t] # "new" => sender'[t] # "new"
    BY <1>3 DEF SendPush, Typed, TypeOK
  <2> HIDE DEF c
  <2> QED BY <2>1, <2>2, <2>3, OfferedGrows, QueueOf, OriginStep
<1>4. ASSUME NEW w \in Workers, Consume(w) PROVE Origin'
  <2> DEFINE h == Head(vote_queue)
  <2>1. /\ vote_queue \in Seq(Copies) /\ vote_queue # <<>> /\ vote_queue' = Tail(vote_queue)
        /\ vote_processing' = With(vote_processing, h)
        /\ held' = [held EXCEPT ![w] = h]
        /\ UNCHANGED <<vote_dead_letter, timers, todo, sender>>
    BY <1>4 DEF Consume, loopVars, Typed, TypeOK, sending
  <2>2. /\ Len(vote_queue) \in Nat /\ Len(vote_queue) >= 1 /\ h = vote_queue[1] /\ h \in Copies
        /\ DOMAIN vote_queue = 1 .. Len(vote_queue)
        /\ DOMAIN vote_queue' = 1 .. Len(vote_queue) - 1
        /\ \A i \in 1 .. Len(vote_queue) - 1 : vote_queue'[i] = vote_queue[i + 1]
    BY <2>1
  <2> HIDE DEF h
  <2>3. h.id \in Offered /\ \A i \in DOMAIN vote_queue' : vote_queue'[i].id \in Offered
    <3>1. 1 \in DOMAIN vote_queue
      BY <2>2
    <3>2. ASSUME NEW i \in DOMAIN vote_queue' PROVE vote_queue'[i].id \in Offered
      <4>1. i + 1 \in DOMAIN vote_queue /\ vote_queue'[i] = vote_queue[i + 1]
        BY <2>2
      <4> QED BY <1>0, <4>1
    <3> QED BY <1>0, <2>2, <3>1, <3>2
  <2>4. \A p \in Procs : held'[p] = held[p] \/ held'[p] = h
    BY <2>1 DEF Typed, TypeOK
  <2>5. OnlyOf(vote_processing', Offered)
    BY <1>0, <2>1, <2>2, <2>3, OnlyOfBags
  <2> QED BY <1>0, <2>1, <2>3, <2>4, <2>5, SameOffered, OriginStep
<1>5. ASSUME NEW w \in Workers, CountVote(w) \/ RefuseVote(w) \/ ReadResults(w) \/ CheckRetries(w)
      PROVE  Origin'
  BY <1>1, <1>5, SameOffered DEF CountVote, RefuseVote, ReadResults, CheckRetries, redisVars, loopVars, sending
<1>6. ASSUME NEW w \in Workers, CountRetry(w) PROVE Origin'
  <2>1. held[w] \in Copies /\ held[w].id \in Offered
    BY <1>0, <1>6, HeldType DEF CountRetry, Origin
  <2>2. Renewed(held[w], now) \in Copies /\ Renewed(held[w], now).id \in Offered
    BY <2>1, RenewedType DEF Typed, TypeOK
  <2>3. /\ timers' = With(timers, Renewed(held[w], now))
        /\ UNCHANGED <<vote_queue, vote_processing, vote_dead_letter, todo, held, sender>>
    BY <1>6 DEF CountRetry, loopVars, sending
  <2>4. OnlyOf(timers', Offered)
    BY <1>0, <2>2, <2>3, OnlyOfBags
  <2> QED BY <1>0, <2>3, <2>4, SameOffered, OriginStep
<1>7. ASSUME NEW p \in Procs, Unlist(p) \/ (p \in Workers /\ Remove(p)) PROVE Origin'
  <2>1. held[p] \in Copies
    BY <1>7, HeldType DEF Unlist, Remove
  <2>2. /\ vote_processing' = LRem(vote_processing, held[p])
        /\ UNCHANGED <<vote_queue, vote_dead_letter, timers, todo, sender>>
    BY <1>7 DEF Unlist, Remove, loopVars, sending
  <2>3. \A q \in Procs : held'[q] = held[q] \/ held'[q] = NoCopy
    BY <1>7 DEF Unlist, Remove, Release, Typed, TypeOK
  <2>4. OnlyOf(vote_processing', Offered)
    BY <1>0, <2>1, <2>2, OnlyOfBags
  <2> QED BY <1>0, <2>2, <2>3, <2>4, SameOffered, OriginStep
<1>8. ASSUME NEW p \in Procs, Bury(p) PROVE Origin'
  <2>1. held[p] \in Copies /\ held[p].id \in Offered
    BY <1>8, HeldType DEF Bury, Origin
  <2>2. /\ vote_dead_letter' = With(vote_dead_letter, held[p])
        /\ UNCHANGED <<vote_queue, vote_processing, timers, todo, held, sender>>
    BY <1>8 DEF Bury, loopVars, sending
  <2>3. OnlyOf(vote_dead_letter', Offered)
    BY <1>0, <2>1, <2>2, OnlyOfBags
  <2> QED BY <1>0, <2>2, <2>3, SameOffered, OriginStep
<1>9. ASSUME NEW c \in Copies, Requeue(c) PROVE Origin'
  <2>1. c.id \in Offered
    BY <1>0, <1>9 DEF Requeue, OnlyOf
  <2>2. /\ timers' = LRem(timers, c) /\ vote_queue' = Append(vote_queue, c)
        /\ UNCHANGED <<vote_processing, vote_dead_letter, todo, held, sender>>
    BY <1>9 DEF Requeue, loopVars, sending
  <2>3. OnlyOf(timers', Offered)
    BY <1>0, <2>2, OnlyOfBags
  <2> QED BY <1>0, <2>1, <2>2, <2>3, SameOffered, QueueOf, OriginStep
<1>10. CASE ListExpired
  <2>1. /\ todo' = [todo EXCEPT ![Checker] =
                     [c \in Copies |-> IF Expired(c) THEN vote_processing[c] ELSE 0]]
        /\ UNCHANGED <<vote_queue, vote_processing, vote_dead_letter, timers, held, sender>>
    BY <1>10 DEF ListExpired, redisVars, sending
  <2>2. OnlyOf([c \in Copies |-> IF Expired(c) THEN vote_processing[c] ELSE 0], Offered)
    BY <1>0 DEF OnlyOf
  <2>3. \A p \in Procs : OnlyOf(todo'[p], Offered) \/ todo'[p] = todo[p]
    BY <2>1, <2>2 DEF Typed, TypeOK
  <2> QED BY <1>0, <2>1, <2>3, SameOffered, OriginStep
<1>11. ASSUME NEW p \in Procs, NEW c \in Copies,
              (p = Checker /\ CheckExpired(c)) \/ (p \in Admins /\ PushDead(p, c))
       PROVE  Origin'
  <2>1. /\ todo[p][c] > 0 /\ todo' = [todo EXCEPT ![p] = LRem(@, c)]
        /\ held' = [held EXCEPT ![p] = c]
        /\ UNCHANGED <<vote_processing, vote_dead_letter, timers, sender>>
        /\ vote_queue' = vote_queue \/ vote_queue' = Append(vote_queue, c)
    BY <1>11 DEF CheckExpired, PushDead, TakeUp, redisVars, sending
  <2>2. c.id \in Offered
    BY <1>0, <2>1 DEF OnlyOf
  <2>3. \A q \in Procs : OnlyOf(todo'[q], Offered) \/ todo'[q] = todo[q]
    <3>1. OnlyOf(LRem(todo[p], c), Offered)
      BY <1>0, OnlyOfBags
    <3>2. \A q \in Procs : todo'[q] = IF q = p THEN LRem(todo[p], c) ELSE todo[q]
      BY <2>1 DEF Typed, TypeOK
    <3> QED BY <3>1, <3>2
  <2>4. \A q \in Procs : held'[q] = held[q] \/ held'[q] = c
    BY <2>1 DEF Typed, TypeOK
  <2>5. \A i \in DOMAIN vote_queue' : vote_queue'[i].id \in Offered
    BY <1>0, <2>1, <2>2, QueueOf
  <2> QED BY <1>0, <2>1, <2>2, <2>3, <2>4, <2>5, SameOffered, OriginStep
<1>12. CASE CountTimeout \/ EndScan
  BY <1>1, <1>12, SameOffered DEF CountTimeout, EndScan, redisVars, loopVars, sending
<1>13. CASE TakeBack
  <2>1. held[Checker] \in Copies /\ held[Checker].id \in Offered /\ scanTime \in Times
    BY <1>0, <1>13, HeldType DEF TakeBack, Origin, Typed, TypeOK
  <2> DEFINE d == Renewed(held[Checker], scanTime)
  <2>2. d \in Copies /\ d.id \in Offered
    BY <2>1, RenewedType
  <2>3. /\ vote_processing' = LRem(vote_processing, held[Checker])
        /\ timers' = With(timers, d)
        /\ UNCHANGED <<vote_queue, vote_dead_letter, todo, sender>>
    BY <1>13 DEF TakeBack, loopVars, sending
  <2> HIDE DEF d
  <2>4. OnlyOf(timers', Offered) /\ OnlyOf(vote_processing', Offered)
    BY <1>0, <2>1, <2>2, <2>3, OnlyOfBags
  <2>5. \A q \in Procs : held'[q] = held[q] \/ held'[q] = NoCopy
    BY <1>13 DEF TakeBack, Release, Typed, TypeOK
  <2> QED BY <1>0, <2>3, <2>4, <2>5, SameOffered, OriginStep
<1>14. ASSUME NEW a \in Admins, ListDead(a) PROVE Origin'
  <2>1. /\ todo' = [todo EXCEPT ![a] = vote_dead_letter]
        /\ UNCHANGED <<vote_queue, vote_processing, vote_dead_letter, timers, held, sender>>
    BY <1>14 DEF ListDead, redisVars, sending
  <2>2. \A p \in Procs : todo'[p] = vote_dead_letter \/ todo'[p] = todo[p]
    BY <2>1 DEF Typed, TypeOK
  <2> QED BY <1>0, <2>1, <2>2, SameOffered, OriginStep
<1>15. ASSUME NEW a \in Admins, Unbury(a) PROVE Origin'
  <2>1. held[a] \in Copies
    BY <1>0, <1>15, HeldType DEF Unbury
  <2>2. /\ vote_dead_letter' = LRem(vote_dead_letter, held[a])
        /\ UNCHANGED <<vote_queue, vote_processing, timers, todo, held, sender>>
    BY <1>15 DEF Unbury, loopVars, sending
  <2>3. OnlyOf(vote_dead_letter', Offered)
    BY <1>0, <2>1, <2>2, OnlyOfBags
  <2> QED BY <1>0, <2>2, <2>3, SameOffered, OriginStep
<1>16. ASSUME NEW a \in Admins, ForgetRetries(a) \/ EndRetry(a) PROVE Origin'
  <2>1. UNCHANGED <<vote_queue, vote_processing, vote_dead_letter, timers, todo, sender>>
    BY <1>16 DEF ForgetRetries, EndRetry, redisVars, loopVars, sending
  <2>2. \A q \in Procs : held'[q] = held[q] \/ held'[q] = NoCopy
    BY <1>16 DEF ForgetRetries, EndRetry, Release, Typed, TypeOK
  <2> QED BY <1>1, <2>1, <2>2, SameOffered
<1>17. CASE ExpireIds \/ Tick \/ CloseDB \/ Stop \/ Restart \/ UNCHANGED vars
  BY <1>1, <1>17, SameOffered DEF ExpireIds, Tick, CloseDB, Stop, Restart, vars, redisVars, loopVars, sending
<1>18. CASE Exit \/ Crash
  <2>1. /\ UNCHANGED <<vote_queue, vote_processing, vote_dead_letter>> /\ timers' = EmptyBag
        /\ \A p \in Procs : todo'[p] = EmptyBag /\ held'[p] = NoCopy
    BY <1>18 DEF Exit, Crash, Die, redisVars, sending
  <2>2. \A t \in AllSenders : sender[t] # "new" => sender'[t] # "new"
    BY <1>18 DEF Exit, Crash, Die
  <2>3. Offered \subseteq Offered'
    BY <2>2, OfferedGrows
  <2> QED BY <1>0, <2>1, <2>3, OnlyOfEmpty, OriginStep
<1> QED BY <1>0, <1>2, <1>3, <1>4, <1>5, <1>6, <1>7, <1>8, <1>9, <1>10, <1>11, <1>12, <1>13, <1>14,
        <1>15, <1>16, <1>17, <1>18 DEF Next, Send, ProcessMessage, CheckTimeouts, RetryDeadLetters

(* A step that maps to a step of VoteLedger: the first step of a sender offers  *)
(* its vote, a copy more puts a vote in doubt, a COMMIT counts one, and the     *)
(* rest stutters.                                                              *)
LEMMA NextIsLedgerStep ==
  Typed /\ Typed' /\ Single /\ Origin /\ [Next]_vars => [Ledger!LedgerNext]_Ledger!ledgerVars
<1> SUFFICES ASSUME Typed, Typed', Single, Origin, [Next]_vars
             PROVE  [Ledger!LedgerNext]_Ledger!ledgerVars
  OBVIOUS
<1> USE QueueAssumption
<1> DEFINE doubtful == again \cup retried
<1>0. /\ Workers \subseteq Procs /\ Admins \subseteq Procs /\ Checker \in Procs
      /\ Offered \subseteq Messages
  BY DEF Procs, Offered
\* A copy more of a vote that was sent.
<1>1. ASSUME UNCHANGED votes, Offered' = Offered,
             doubtful' = doubtful \/ \E m \in Offered : doubtful' = doubtful \cup {m}
      PROVE  [Ledger!LedgerNext]_Ledger!ledgerVars
  BY <1>0, <1>1 DEF Ledger!LedgerNext, Ledger!Doubt, Ledger!ledgerVars
<1>2. ASSUME UNCHANGED <<votes, again, retried>>, Offered' = Offered
      PROVE  [Ledger!LedgerNext]_Ledger!ledgerVars
  BY <1>2 DEF Ledger!ledgerVars
<1>3. ASSUME NEW s \in AllSenders, SendCheck(s) PROVE [Ledger!LedgerNext]_Ledger!ledgerVars
  <2>1. \A t \in AllSenders : sender'[t] # "new" <=> sender[t] # "new" \/ t = s
    BY <1>3 DEF SendCheck, Skip, Proceed, Typed, TypeOK
  <2>2. Offered' = Offered \cup {MessageOf[s]}
    BY <2>1 DEF Offered
  <2>3. UNCHANGED <<votes, again, retried>>
    BY <1>3 DEF SendCheck
  <2> QED BY <2>2, <2>3 DEF Ledger!LedgerNext, Ledger!Offer
<1>4. ASSUME NEW s \in AllSenders,
             SendMark(s) \/ SendMarkNamed(s) \/ SendPush(s) \/ SendFails(s)
      PROVE  [Ledger!LedgerNext]_Ledger!ledgerVars
  <2>1. \A t \in AllSenders : sender'[t] # "new" <=> sender[t] # "new"
    BY <1>4 DEF SendMark, SendMarkNamed, SendPush, SendFails, Typed, TypeOK
  <2>2. Offered' = Offered /\ MessageOf[s] \in Offered
    BY <1>4, <2>1 DEF Offered, SendMark, SendMarkNamed, SendPush, SendFails
  <2>3. /\ UNCHANGED <<votes, retried>>
        /\ again' = again \/ again' = again \cup {MessageOf[s]}
    BY <1>4 DEF SendMark, SendMarkNamed, SendPush, SendFails, NoteAgain, history
  <2>4. doubtful' = doubtful \/ doubtful' = doubtful \cup {MessageOf[s]}
    BY <2>3
  <2> QED BY <1>1, <2>2, <2>3, <2>4
<1>5. ASSUME NEW w \in Workers, CountVote(w) PROVE [Ledger!LedgerNext]_Ledger!ledgerVars
  <2> DEFINE m == held[w].id
  <2>1. m \in Messages /\ m \in Offered
    BY <1>0, <1>5, HeldType DEF CountVote, Origin, Typed, TypeOK
  <2>2. votes[m] = 0 \/ m \in doubtful
    <3>1. SUFFICES ASSUME m \notin doubtful PROVE votes[m] = 0
      OBVIOUS
    <3>2. OneCopy(m) /\ Handles(w, m)
      BY <1>5, <2>1, <3>1 DEF Single, CountVote, Handles
    <3>3. ~(votes[m] > 0) /\ votes[m] \in Nat
      BY <2>1, <3>2 DEF OneCopy, Typed, TypeOK
    <3> QED BY <3>3
  <2>3. /\ votes' = [votes EXCEPT ![m] = @ + 1] /\ UNCHANGED <<sender, retried>>
        /\ again' = again \/ again' = again \cup {m}
    BY <1>5 DEF CountVote, history, sending
  <2>4. doubtful' = doubtful \/ doubtful' = doubtful \cup {m}
    BY <2>3
  <2> HIDE DEF m
  <2>5. Ledger!Count(m)
    BY <2>1, <2>2, <2>3, <2>4, SameOffered DEF Ledger!Count
  <2> QED BY <2>1, <2>5 DEF Ledger!LedgerNext
<1>6. ASSUME NEW w \in Workers, ReadResults(w) PROVE [Ledger!LedgerNext]_Ledger!ledgerVars
  <2>1. held[w].id \in Offered
    BY <1>0, <1>6, HeldType DEF ReadResults, Origin, Typed, TypeOK
  <2>2. /\ UNCHANGED <<votes, sender, retried>>
        /\ again' = again \/ again' = again \cup {held[w].id}
    BY <1>6 DEF ReadResults, history, sending
  <2>3. doubtful' = doubtful \/ doubtful' = doubtful \cup {held[w].id}
    BY <2>2
  <2> QED BY <1>1, <2>1, <2>2, <2>3, SameOffered
<1>7. CASE TakeBack
  <2>1. held[Checker].id \in Offered
    BY <1>0, <1>7, HeldType DEF TakeBack, Origin, Typed, TypeOK
  <2>2. /\ UNCHANGED <<votes, sender, retried>>
        /\ again' = again \/ again' = again \cup {held[Checker].id}
    BY <1>7 DEF TakeBack, NoteAgain, history, sending
  <2>3. doubtful' = doubtful \/ doubtful' = doubtful \cup {held[Checker].id}
    BY <2>2
  <2> QED BY <1>1, <2>1, <2>2, <2>3, SameOffered
<1>8. ASSUME NEW a \in Admins, NEW c \in Copies, PushDead(a, c)
      PROVE  [Ledger!LedgerNext]_Ledger!ledgerVars
  <2>1. c.id \in Offered
    BY <1>0, <1>8 DEF PushDead, TakeUp, Origin, OnlyOf
  <2>2. UNCHANGED <<votes, sender, again>> /\ retried' = retried \cup {c.id}
    BY <1>8 DEF PushDead, sending
  <2>3. doubtful' = doubtful \cup {c.id}
    BY <2>2
  <2> QED BY <1>1, <2>1, <2>2, <2>3, SameOffered
<1>9. CASE Exit \/ Crash
  <2>1. \A t \in AllSenders : sender'[t] # "new" <=> sender[t] # "new"
    <3>1. sender' = [s \in AllSenders |-> IF InFlight(s) THEN "failed" ELSE sender[s]]
      BY <1>9 DEF Exit, Crash, Die
    <3>2. ASSUME NEW t \in AllSenders PROVE sender'[t] # "new" <=> sender[t] # "new"
      <4>1. sender'[t] = IF InFlight(t) THEN "failed" ELSE sender[t]
        BY <3>1
      <4> QED BY <4>1 DEF InFlight
    <3> QED BY <3>2
  <2>2. Offered' = Offered
    BY <2>1 DEF Offered
  <2>3. UNCHANGED <<votes, again, retried>>
    BY <1>9 DEF Exit, Crash, Die
  <2> QED BY <1>2, <2>2, <2>3
<1>10. \/ \E s \in AllSenders : \/ SendCheck(s) \/ SendMark(s) \/ SendMarkNamed(s)
                                \/ SendPush(s) \/ SendFails(s)
       \/ \E w \in Workers : CountVote(w) \/ ReadResults(w)
       \/ TakeBack
       \/ \E a \in Admins, c \in Copies : PushDead(a, c)
       \/ Exit \/ Crash
       \/ UNCHANGED <<votes, again, retried, sender>>
  <2>1. CASE \E w \in Workers : Consume(w) \/ RefuseVote(w) \/ CheckRetries(w) \/ CountRetry(w)
                                \/ Bury(w) \/ Unlist(w) \/ Remove(w)
    BY <2>1 DEF Consume, RefuseVote, CheckRetries, CountRetry, Bury, Unlist, Remove, history, sending
  <2>2. CASE \/ ListExpired \/ CountTimeout \/ EndScan \/ Bury(Checker) \/ Unlist(Checker)
             \/ \E c \in Copies : CheckExpired(c) \/ Requeue(c)
    BY <2>2 DEF ListExpired, CountTimeout, EndScan, Bury, Unlist, CheckExpired, Requeue, history, sending
  <2>3. CASE \E a \in Admins : ListDead(a) \/ Unbury(a) \/ ForgetRetries(a) \/ EndRetry(a)
    BY <2>3 DEF ListDead, Unbury, ForgetRetries, EndRetry, history, sending
  <2>4. CASE ExpireIds \/ Tick \/ CloseDB \/ Stop \/ Restart \/ UNCHANGED vars
    BY <2>4 DEF ExpireIds, Tick, CloseDB, Stop, Restart, vars, history, sending
  <2> QED BY <2>1, <2>2, <2>3, <2>4
      DEF Next, Send, ProcessMessage, CheckTimeouts, RetryDeadLetters
<1>11. CASE UNCHANGED <<votes, again, retried, sender>>
  BY <1>2, <1>11, SameOffered
<1> QED BY <1>3, <1>4, <1>5, <1>6, <1>7, <1>8, <1>9, <1>10, <1>11

(* The queue implements the ledger it promises: nothing is counted that nobody *)
(* has sent, and nothing twice that was not in doubt before, through retries,   *)
(* time-outs, crashes and restarts.                                            *)
THEOREM QueueImplementsLedger == Spec => LedgerSpec
<1>1. Init => Ledger!LedgerInit
  BY DEF Init, Ledger!LedgerInit, Offered
<1> QED BY <1>1, InitTyped, NextTyped, InitSingle, NextSingle, InitOrigin, NextOrigin,
           NextIsLedgerStep, PTL DEF Spec, LedgerSpec, Ledger!LedgerSpec
=============================================================================
