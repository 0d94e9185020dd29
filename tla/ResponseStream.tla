--------------------------- MODULE ResponseStream ---------------------------
(***************************************************************************)
(* What upstream.Client.OpenStream promises its caller, the orchestrator:  *)
(* a channel of responses whose versions never go back, until the caller   *)
(* calls the returned function; the channel is closed only when the client *)
(* has a reason to end the stream.  Orchestrator takes its upstream        *)
(* streams to be like this, and UpstreamClient implements it.              *)
(***************************************************************************)
EXTENDS Naturals

CONSTANT Version      \* versions of the stream's resource

VARIABLES
    supported,  \* the client knows the type URL of the request
    cancelled,  \* the caller has called the returned function
    down,       \* the client's connection was shut down
    closed,     \* the response channel is closed
    got         \* the last version received from the channel, 0 before

vars == <<supported, cancelled, down, closed, got>>

Init ==
    /\ supported \in BOOLEAN
    /\ cancelled = FALSE
    /\ down = FALSE
    /\ closed = FALSE
    /\ got = 0

\* A version may come again, after a reconnection.
Deliver ==
    /\ supported /\ ~closed /\ ~cancelled
    /\ got' \in {v \in Version : v >= got}
    /\ UNCHANGED <<supported, cancelled, down, closed>>

Close ==
    /\ cancelled \/ down \/ ~supported
    /\ closed' = TRUE
    /\ UNCHANGED <<supported, cancelled, down, got>>

Cancel ==
    /\ cancelled' = TRUE
    /\ UNCHANGED <<supported, down, closed, got>>

Shutdown ==
    /\ down' = TRUE
    /\ UNCHANGED <<supported, cancelled, closed, got>>

Next == Deliver \/ Close \/ Cancel \/ Shutdown

Spec == Init /\ [][Next]_vars
=============================================================================
