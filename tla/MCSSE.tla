------------------------------- MODULE MCSSE -------------------------------
(* Instances of SSE for TLC.                                               *)
EXTENDS SSE

CONSTANTS c1, c2, u1
=============================================================================
