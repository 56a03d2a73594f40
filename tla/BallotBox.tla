------------------------------ MODULE BallotBox ------------------------------
(***************************************************************************)
(* What vote counting promises, whatever the handlers do in between: a      *)
(* ballot adds one to the count of each option it names, at once or one     *)
(* after the other, never twice to the same; otherwise a count changes only *)
(* by being put back to zero.                                               *)
(***************************************************************************)
EXTENDS Naturals

CONSTANTS Ballots, Options

VARIABLES
  tally,    \* the count of each option
  used      \* the options each ballot has already been counted for

boxVars == <<tally, used>>

BoxInit ==
  /\ tally = [o \in Options |-> 0]
  /\ used = [b \in Ballots |-> {}]

Cast(b, S) ==
  /\ S \cap used[b] = {}
  /\ used' = [used EXCEPT ![b] = @ \cup S]
  /\ tally' = [o \in Options |-> IF o \in S THEN tally[o] + 1 ELSE tally[o]]

Clear(S) ==
  /\ tally' = [o \in Options |-> IF o \in S THEN 0 ELSE tally[o]]
  /\ UNCHANGED used

BoxNext ==
  \/ \E b \in Ballots, S \in SUBSET Options : Cast(b, S)
  \/ \E S \in SUBSET Options : Clear(S)

BoxSpec == BoxInit /\ [][BoxNext]_boxVars
=============================================================================
