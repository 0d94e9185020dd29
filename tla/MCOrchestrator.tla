--------------------------- MODULE MCOrchestrator ---------------------------
(* Small instances of Orchestrator for TLC. *)
EXTENDS Orchestrator, TLC

CONSTANTS a, b, r1, r2, r3

\* A key for each request.
KeyOfTwoKeys == r1 :> a @@ r2 :> b
\* Requests of one key.
KeyOfOneKey == [r \in Req |-> a]

\* Requests r1 and r2 are interchangeable wherever both are of key a and are
\* treated alike by Unmapped and Unsupported.
SameKey == Permutations({r1, r2})
=============================================================================
