----------------------------- MODULE VoteLedger -----------------------------
(***************************************************************************)
(* What the message queue promises of the counts: only votes that a sender  *)
(* has offered are counted, one at a time, and a vote is counted a second   *)
(* time only if the queue had put it in doubt before, by queuing it once    *)
(* more.                                                                    *)
(***************************************************************************)
EXTENDS Integers

CONSTANTS Messages

VARIABLES
  offered,    \* the votes somebody has sent
  tally,      \* how often each was counted
  doubtful    \* those queued once more

ledgerVars == <<offered, tally, doubtful>>

LedgerInit ==
  /\ offered = {}
  /\ tally = [m \in Messages |-> 0]
  /\ doubtful = {}

Offer(m) ==
  /\ offered' = offered \cup {m}
  /\ UNCHANGED <<tally, doubtful>>

Doubt(m) ==
  /\ m \in offered
  /\ doubtful' = doubtful \cup {m}
  /\ UNCHANGED <<offered, tally>>

Count(m) ==
  /\ m \in offered
  /\ tally[m] = 0 \/ m \in doubtful
  /\ tally' = [tally EXCEPT ![m] = @ + 1]
  /\ doubtful' \in {doubtful, doubtful \cup {m}}
  /\ UNCHANGED offered

LedgerNext == \E m \in Messages : Offer(m) \/ Doubt(m) \/ Count(m)

LedgerSpec == LedgerInit /\ [][LedgerNext]_ledgerVars
=============================================================================
