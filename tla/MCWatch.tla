------------------------------- MODULE MCWatch -------------------------------
(* Three calls of Send on one watch, for TLC. *)
EXTENDS Watch, TLC

CONSTANTS s1, s2, s3
=============================================================================
