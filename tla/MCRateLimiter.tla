-------------------------- MODULE MCRateLimiter ----------------------------
(* Instances of RateLimiter for TLC.                                       *)
EXTENDS RateLimiter, TLC

CONSTANTS r1, r2, x1, a1, a2

OneNamesUser == [r \in Requests |-> IF r = r1 THEN x1 ELSE NoUser]

Narrow == [rate |-> 1, burst |-> 1]
OnAndOff == {[enabled |-> e, global |-> Narrow, user |-> Narrow] : e \in BOOLEAN}

Symmetry == Permutations(Admins)
=============================================================================
