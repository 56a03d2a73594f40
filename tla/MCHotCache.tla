---------------------------- MODULE MCHotCache -----------------------------
(* Instances of HotCache for TLC.                                          *)
EXTENDS HotCache, TLC

CONSTANTS r1, r2, r3, f1, w1

Symmetry == Permutations(Readers)
=============================================================================
