----------------------------- MODULE MCRedisMQ -----------------------------
(* RedisMQ on small instances.                                              *)
EXTENDS RedisMQ, TLC

CONSTANTS m1, s1, n1, n2

ByName == [s \in {n1, n2} |-> m1]
ByCall == [s \in {s1} |-> m1]

WorkerSymmetry == Permutations(Workers)

(* Two calls with one id differ in nothing. *)
CallSymmetry ==
  {f @@ g : f \in Permutations(Workers), g \in Permutations(NamedSenders)}
=============================================================================
