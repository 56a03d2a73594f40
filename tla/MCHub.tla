------------------------------- MODULE MCHub -------------------------------
(* Instances of Hub for TLC.                                               *)
EXTENDS Hub, TLC

CONSTANTS c1, c2, c3, u1, u2, u3, p1

OnePoll == [x \in Clients \cup Updates |-> p1]
=============================================================================
