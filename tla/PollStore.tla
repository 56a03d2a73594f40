------------------------------ MODULE PollStore ------------------------------
(***************************************************************************)
(* The two MySQL tables of the backend, polls and poll_options             *)
(* (models/poll.go), the wall clock the handlers compare EndTime with, and  *)
(* the single SQL statements and single transactions the handlers issue.    *)
(*                                                                         *)
(* A row that was never inserted is "unused"; gorm.Model gives every row a  *)
(* deleted_at column, so DELETE only turns a "live" row into a "deleted"    *)
(* one and every gorm query reads live rows alone.  The id a row will have  *)
(* once it is inserted fixes the poll it belongs to (PollOf).  Question,    *)
(* Description and Text are not modelled: nothing branches on them.         *)
(***************************************************************************)
EXTENDS Integers

CONSTANTS
  Polls,     \* poll ids
  Options,   \* poll_option ids
  PollOf,    \* the poll_id column of every option row
  MaxTime    \* bound: the clock stops here

ASSUME StoreAssumption ==
  /\ PollOf \in [Options -> Polls]
  /\ MaxTime \in Nat

VARIABLES
  poll,      \* the polls table
  option,    \* the poll_options table
  now        \* time.Now()

storeVars == <<poll, option, now>>

Times == 0 .. MaxTime
NoTime == -1                \* EndTime = nil
RowState == {"unused", "live", "deleted"}
PollType == {"single", "multi"}

PollRow == [state: RowState, poll_type: PollType, is_active: BOOLEAN,
            end_time: Times \cup {NoTime}]
OptionRow == [state: RowState, votes: Nat]

UnusedPoll == [state |-> "unused", poll_type |-> "single",
               is_active |-> FALSE, end_time |-> NoTime]

(* What CreatePoll receives: the type, the end time, the rows of its options. *)
NewPoll == [poll_type: PollType, end_time: Times \cup {NoTime},
            opts: SUBSET Options]

StoreTypeOK ==
  /\ poll \in [Polls -> PollRow]
  /\ option \in [Options -> OptionRow]
  /\ now \in Times

StoreInit ==
  /\ poll = [p \in Polls |-> UnusedPoll]
  /\ option = [o \in Options |-> [state |-> "unused", votes |-> 0]]
  /\ now = 0

-----------------------------------------------------------------------------
(* Reads *)

OptionsOf(p) == {o \in Options : PollOf[o] = p}

(* SELECT ... FROM poll_options WHERE poll_id = p AND deleted_at IS NULL *)
LiveOptions(p) == {o \in OptionsOf(p) : option[o].state = "live"}

(* A result set of that query: the votes of each row, Absent where the     *)
(* query returned no such row.                                             *)
Absent == -1
ResultSet == [Options -> Nat \cup {Absent}]
NoResults == [o \in Options |-> Absent]
ReadOptions(p) ==
  [o \in Options |-> IF o \in LiveOptions(p) THEN option[o].votes ELSE Absent]

(* poll.EndTime != nil && time.Now().After( *poll.EndTime ) *)
Ended(row) == row.end_time # NoTime /\ now > row.end_time

(* The two checks both vote handlers make on the row they loaded. *)
AcceptsVotes(row) == row.is_active /\ ~Ended(row)

AtMostOne(S) == \A a, b \in S : a = b

-----------------------------------------------------------------------------
(* Writes: each operator is the table after the statement.                 *)

(* votes = votes + add[o], for the rows the statements name; the raw UPDATE *)
(* of SubmitVote reaches a row whatever its deleted_at.                     *)
AddVotes(add) ==
  [o \in Options |-> [option[o] EXCEPT !.votes = @ + add[o]]]

(* Mutant: the condition on deleted_at is inverted. *)
ZeroDeletedVotes(p) ==
  [o \in Options |-> IF o \in OptionsOf(p) /\ option[o].state = "deleted"
                    THEN [option[o] EXCEPT !.votes = 0]
                    ELSE option[o]]

(* UPDATE poll_options SET votes = 0 WHERE poll_id = p AND deleted_at IS NULL *)
ZeroVotes(p) ==
  [o \in Options |-> IF o \in LiveOptions(p) THEN [option[o] EXCEPT !.votes = 0]
                                             ELSE option[o]]

(* Mutant: the votes of the struct are added to those of the row. *)
SaveOptionAddsVotes(o, votes) ==
  [option EXCEPT ![o] = [state |-> "live", votes |-> option[o].votes + votes]]

(* Mutant: the struct is built from the body, which has no votes. *)
SaveOptionForgetsVotes(o, votes) ==
  [option EXCEPT ![o] = [state |-> "live", votes |-> 0]]

(* DB.Save(&opt) writes every column of the struct it was given.  When no   *)
(* live row has the id, gorm repeats it as INSERT ... ON DUPLICATE KEY      *)
(* UPDATE, which clears deleted_at: either way the row ends live with the   *)
(* votes of the struct.                                                     *)
SaveOption(o, votes) ==
  [option EXCEPT ![o] = [state |-> "live", votes |-> votes]]

(* DB.Save(&poll): the same for a poll, except that the INSERT replaces a   *)
(* zero is_active by the column's default, true.                            *)
SavePoll(p, row) ==
  [poll EXCEPT ![p] =
     IF poll[p].state = "live"
     THEN row
     ELSE [row EXCEPT !.is_active = TRUE]]

(* DELETE of one option by id. *)
DropOption(o) ==
  [option EXCEPT ![o].state = IF @ = "live" THEN "deleted" ELSE @]

-----------------------------------------------------------------------------
(* Handlers that are one transaction each, and the clock.                   *)

Tick ==
  /\ now < MaxTime
  /\ now' = now + 1
  /\ UNCHANGED <<poll, option>>

(* A poll has at least two options and does not end in the past. *)
CreatePoll(p, new) ==
  /\ poll[p].state = "unused"
  /\ new.opts \subseteq {o \in OptionsOf(p) : option[o].state = "unused"}
  /\ ~AtMostOne(new.opts)
  /\ new.end_time # NoTime => new.end_time >= now
  /\ poll' = [poll EXCEPT ![p] =
                [state |-> "live", poll_type |-> new.poll_type,
                 is_active |-> TRUE, end_time |-> new.end_time]]
  /\ option' = [o \in Options |->
                  IF o \in new.opts THEN [state |-> "live", votes |-> 0]
                                    ELSE option[o]]
  /\ UNCHANGED now

(* Options first, then the poll, in one transaction that is rolled back     *)
(* when there is no such poll.                                              *)
DeletePoll(p) ==
  /\ poll[p].state = "live"
  /\ poll' = [poll EXCEPT ![p].state = "deleted"]
  /\ option' = [o \in Options |->
                  IF o \in LiveOptions(p) THEN [option[o] EXCEPT !.state = "deleted"]
                                          ELSE option[o]]
  /\ UNCHANGED now

(* The polls the checker finds: is_active = true AND end_time < now. *)
ExpiredPolls ==
  {p \in Polls : poll[p].state = "live" /\ poll[p].is_active /\ Ended(poll[p])}

(* One UPDATE, issued every minute by startPollExpirationChecker. *)
CheckAndCloseExpiredPolls ==
  /\ ExpiredPolls # {}
  /\ poll' = [p \in Polls |->
                IF p \in ExpiredPolls THEN [poll[p] EXCEPT !.is_active = FALSE]
                                      ELSE poll[p]]
  /\ UNCHANGED <<option, now>>
=============================================================================
