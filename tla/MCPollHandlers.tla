--------------------------- MODULE MCPollHandlers ---------------------------
(* PollHandlers on small instances.                                         *)
EXTENDS PollHandlers, TLC

CONSTANTS p1, o1, o2, o3, a1, a2

(* One poll with two options, and a row for a third. *)
OnePoll == [o \in Options |-> p1]

Symmetry == Permutations(Voters) \cup Permutations(EnhancedVoters)
            \cup Permutations(Editors) \cup Permutations(Resetters)

NoTails == [a \in IPs |-> {}]

MultiOpenEnded == {[poll_type |-> "multi", end_time |-> NoTime, opts |-> {o1, o2}]}
EitherEnding == [poll_type: {"single", "multi"}, end_time: {0}, opts: {{o1, o2}}]

Vote(a, S) == [poll |-> p1, ip |-> a, opts |-> S]
Once(a, S) == [poll |-> p1, ip |-> a,
               times |-> [x \in Options |-> IF x \in S THEN 1 ELSE 0]]
Edit(active, body) == [poll |-> p1, poll_type |-> "keep", is_active |-> active,
                       end_time |-> NoTime, opts |-> body]

VoteAny == {Vote(a1, S) : S \in {{o1}, {o1, o2}}}
VoteOne == {Vote(a1, {o1})}
EnhancedBoth == {Once(a1, {o1, o2})}
EditOne == {Edit("keep", <<o1>>)}
EditMixed == {Edit("keep", <<o1, o3, o1>>), Edit("keep", <<o2, NoOption>>),
              Edit("off", <<>>)}
EditFields == {Edit("keep", <<>>), Edit("off", <<>>)}

(* Runs about the interleaving of handlers start with the poll just created  *)
(* and leave out the clock, the administrator and the lock's 24 hours.       *)
OpenInit ==
  /\ \E new \in NewPolls :
       /\ poll = [p \in Polls |->
                   [state |-> "live", poll_type |-> new.poll_type,
                    is_active |-> TRUE, end_time |-> new.end_time]]
       /\ option = [o \in Options |->
                     [state |-> IF o \in new.opts THEN "live" ELSE "unused",
                      votes |-> 0]]
  /\ now = 0
  /\ HandlersInit

OpenSpec == OpenInit /\ [][HandlerStep]_vars

-----------------------------------------------------------------------------
(* What a document says of these handlers, and a run refutes.                *)

(* "Data accuracy: ... concurrent operations cause no wrong counts"          *)
(* (requirements, line 24): every vote cast since the last reset is there.   *)
NoVoteLost == \A o \in Options : option[o].votes >= cast[o] - castAtReset[o]
=============================================================================
