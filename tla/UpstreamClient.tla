--------------------------- MODULE UpstreamClient ---------------------------
(***************************************************************************)
(* One stream of the upstream client (internal/app/upstream/client.go):    *)
(* handleStreamsWithRetry, which opens a gRPC stream and starts send and   *)
(* recv for it, waits for both, and opens the next one; and SendMsg, which *)
(* send runs in a goroutine of its own (DoWithTimeout) so as to give it    *)
(* up, and which writes its version and nonce into the one request that    *)
(* all the attempts share.                                                 *)
(*                                                                         *)
(* recv hands each response to the orchestrator and then its version to    *)
(* send, over signal, for the ACK.  gRPC and the origin server may answer, *)
(* fail or hang at any time; a timer may fire whenever it is armed.        *)
(***************************************************************************)
EXTENDS Naturals, Sequences

CONSTANTS
    MaxVersion,   \* bound: versions 1..MaxVersion
    MaxAttempts,  \* bound: gRPC streams opened one after the other
    HasTimeout    \* CallOptions.StreamTimeout is set

ASSUME UpstreamAssumption ==
    /\ MaxVersion \in Nat
    /\ MaxAttempts \in Nat
    /\ HasTimeout \in BOOLEAN

Version == 1..MaxVersion
NoVersion == 0        \* the version of the first request of an attempt

VARIABLES
    supported,  \* the type URL of the request is a known one
    cancelled,  \* the function OpenStream returned was called (ctx is done)
    down,       \* the client was shut down: the connection and m.shutdown are closed
    panic,      \* the process has crashed
    hs,         \* where handleStreamsWithRetry stands; "closed": it has returned
    att,        \* the number of the attempt
    done,       \* childCtx of the attempt is done
    send,       \* where send stands, and what its SendMsg has returned
    sendRes,
    recv,       \* where recv stands, the version in its hands, the last received
    held,
    seen,
    signal,     \* the signal channel, of capacity 1
    msg,        \* the version written in the shared request
    calls,      \* the SendMsg goroutines that have not returned
    sent,       \* the versions of the requests sent in this attempt
    got         \* the last version the orchestrator received, NoVersion before

ctxVars == <<supported, cancelled, down, panic>>
sendVars == <<send, sendRes>>
recvVars == <<recv, held, seen>>
msgVars == <<msg, calls, sent>>
vars == <<ctxVars, hs, att, done, sendVars, recvVars, signal, msgVars, got>>

Call == [att : 1..MaxAttempts, ver : Version \union {NoVersion}, written : BOOLEAN]

TypeOK ==
    /\ supported \in BOOLEAN /\ cancelled \in BOOLEAN /\ down \in BOOLEAN
    /\ panic \in BOOLEAN
    /\ hs \in {"connect", "wait", "closed"}
    /\ att \in 0..MaxAttempts
    /\ done \in BOOLEAN
    /\ send \in {"none", "select", "sending", "exited"}
    /\ sendRes \in {"none", "ok", "error"}
    /\ recv \in {"none", "recv", "check", "offer", "signal", "exited"}
    /\ held \in Version \union {NoVersion}
    /\ seen \in Version \union {NoVersion}
    /\ signal \in {<<>>} \union {<<v>> : v \in Version \union {NoVersion}}
    /\ msg \in Version \union {NoVersion}
    /\ calls \subseteq Call
    /\ sent \in Seq(Version \union {NoVersion})
    /\ got \in Version \union {NoVersion}

Init ==
    /\ supported \in BOOLEAN
    /\ cancelled = FALSE /\ down = FALSE /\ panic = FALSE
    /\ hs = "connect"
    /\ att = 0
    /\ done = FALSE
    /\ send = "none" /\ sendRes = "none"
    /\ recv = "none" /\ held = NoVersion /\ seen = NoVersion
    /\ signal = <<>>
    /\ msg = NoVersion /\ calls = {} /\ sent = <<>>
    /\ got = NoVersion

HsAt(pc) == ~panic /\ hs = pc
SendAt(pc) == ~panic /\ send = pc
RecvAt(pc) == ~panic /\ recv = pc

----------------------------------------------------------------------------
\* handleStreamsWithRetry.

\* A new attempt.  A stream that cannot be created is tried again at once and
\* leaves nothing behind.
Connect ==
    /\ HsAt("connect") /\ ~down /\ ~cancelled /\ supported
    /\ att < MaxAttempts
    /\ att' = att + 1
    /\ hs' = "wait"
    /\ done' = FALSE
    /\ signal' = <<NoVersion>>
    /\ send' = "select" /\ sendRes' = "none"
    /\ recv' = "recv" /\ held' = NoVersion /\ seen' = NoVersion
    /\ sent' = <<>>
    /\ UNCHANGED <<ctxVars, msg, calls, got>>

\* Mutant: a shutdown of the client is not looked for.
CloseResponsesIfAsked ==
    /\ HsAt("connect")
    /\ cancelled \/ ~supported
    /\ hs' = "closed"
    /\ UNCHANGED <<ctxVars, att, done, sendVars, recvVars, signal, msgVars, got>>

\* close(respCh): shut down, cancelled, or an unsupported type URL.
CloseResponses ==
    /\ HsAt("connect")
    /\ down \/ cancelled \/ ~supported
    /\ hs' = "closed"
    /\ UNCHANGED <<ctxVars, att, done, sendVars, recvVars, signal, msgVars, got>>

\* Mutant: only send is waited for.
RetryEarly ==
    /\ HsAt("wait")
    /\ send = "exited"
    /\ hs' = "connect"
    /\ UNCHANGED <<ctxVars, att, done, sendVars, recvVars, signal, msgVars, got>>

\* Mutant: a stream that broke is not opened again.
RetryNever ==
    /\ HsAt("wait")
    /\ send = "exited" /\ recv = "exited"
    /\ hs' = "closed"
    /\ UNCHANGED <<ctxVars, att, done, sendVars, recvVars, signal, msgVars, got>>

\* wg.Wait() returns, close(signal).
Retry ==
    /\ HsAt("wait")
    /\ send = "exited" /\ recv = "exited"
    /\ hs' = "connect"
    /\ UNCHANGED <<ctxVars, att, done, sendVars, recvVars, signal, msgVars, got>>

----------------------------------------------------------------------------
\* send.

SendTake ==
    /\ SendAt("select")
    /\ signal # <<>>
    /\ calls' = calls \union {[att |-> att, ver |-> Head(signal), written |-> FALSE]}
    /\ signal' = <<>>
    /\ send' = "sending"
    /\ sendRes' = "none"
    /\ UNCHANGED <<ctxVars, hs, att, done, recvVars, msg, sent, got>>

\* ctx.Done(); select may prefer a pending signal.
SendQuit ==
    /\ SendAt("select")
    /\ done
    /\ send' = "exited"
    /\ UNCHANGED <<ctxVars, hs, att, done, sendRes, recvVars, signal, msgVars, got>>

\* SendMsg has returned in time: on an error, handleError cancels the attempt.
SendReturns ==
    /\ SendAt("sending")
    /\ sendRes # "none"
    /\ send' = IF sendRes = "ok" THEN "select" ELSE "exited"
    /\ done' = (done \/ sendRes = "error")
    /\ UNCHANGED <<ctxVars, hs, att, sendRes, recvVars, signal, msgVars, got>>

\* Mutant: SendMsg is called without a timeout.
SendGivesUpNever == FALSE /\ UNCHANGED vars

\* The context or the SendTimeout ends first: SendMsg is left running.
SendGivesUp ==
    /\ SendAt("sending")
    /\ send' = "exited"
    /\ done' = TRUE
    /\ UNCHANGED <<ctxVars, hs, att, sendRes, recvVars, signal, msgVars, got>>

\* SendMsg writes into the shared request ...
WriteRequest(c) ==
    /\ ~panic /\ c \in calls /\ ~c.written
    /\ msg' = c.ver
    /\ calls' = (calls \ {c}) \union {[c EXCEPT !.written = TRUE]}
    /\ UNCHANGED <<ctxVars, hs, att, done, sendVars, recvVars, signal, sent, got>>

\* ... and has gRPC send what is in it by then, or fails.
SendRequest(c) ==
    /\ ~panic /\ c \in calls /\ c.written
    /\ calls' = calls \ {c}
    /\ \/ /\ c.att = att /\ ~done /\ ~down
          /\ sent' = Append(sent, msg)
          /\ sendRes' = "ok"
       \/ /\ sendRes' = IF c.att = att THEN "error" ELSE sendRes
          /\ UNCHANGED sent
    /\ UNCHANGED <<ctxVars, hs, att, done, send, recvVars, signal, msg, got>>

----------------------------------------------------------------------------
\* recv.

\* The origin server answers a stream it has a request of.
RecvResponse ==
    /\ RecvAt("recv")
    /\ sent # <<>>
    /\ \E v \in Version :
          /\ v > seen /\ v >= got
          /\ held' = v /\ seen' = v
    /\ recv' = "check"
    /\ UNCHANGED <<ctxVars, hs, att, done, sendVars, signal, msgVars, got>>

\* The stream breaks; it does when its context is done or the client is down.
RecvError ==
    /\ RecvAt("recv")
    /\ recv' = "exited"
    /\ done' = TRUE
    /\ UNCHANGED <<ctxVars, hs, att, sendVars, held, seen, signal, msgVars, got>>

RecvCheck ==
    /\ RecvAt("check")
    /\ recv' = IF done THEN "exited" ELSE "offer"
    /\ UNCHANGED <<ctxVars, hs, att, done, sendVars, held, seen, signal, msgVars, got>>

\* The orchestrator takes the response; it reads no more once it has cancelled.
Deliver ==
    /\ RecvAt("offer") /\ ~cancelled
    /\ got' = held
    /\ recv' = "signal"
    /\ UNCHANGED <<ctxVars, hs, att, done, sendVars, held, seen, signal, msgVars>>

\* Mutant: a response nobody took is acknowledged all the same.
OfferTimesOutAcks ==
    /\ RecvAt("offer")
    /\ recv' = "signal"
    /\ UNCHANGED <<ctxVars, hs, att, done, sendVars, held, seen, signal, msgVars, got>>

\* Five seconds have passed: handleError cancels the attempt, but its err is
\* the nil one of RecvMsg, and unless the context is done it calls err.Error().
OfferTimesOut ==
    /\ RecvAt("offer")
    /\ IF done THEN recv' = "recv" /\ UNCHANGED panic
               ELSE panic' = TRUE /\ UNCHANGED recv
    /\ UNCHANGED <<supported, cancelled, down, hs, att, done, sendVars, held, seen, signal, msgVars, got>>

\* signal <- version: it waits while the channel is full.
Signal ==
    /\ RecvAt("signal")
    /\ signal = <<>>
    /\ signal' = <<held>>
    /\ recv' = "recv"
    /\ UNCHANGED <<ctxVars, hs, att, done, sendVars, held, seen, msgVars, got>>

----------------------------------------------------------------------------
\* The environment: the caller, the stream timeout, the root context.

Cancel ==
    /\ ~panic /\ ~cancelled
    /\ cancelled' = TRUE
    /\ done' = TRUE
    /\ UNCHANGED <<supported, down, panic, hs, att, sendVars, recvVars, signal, msgVars, got>>

StreamTimesOut ==
    /\ HasTimeout
    /\ HsAt("wait") /\ ~done
    /\ done' = TRUE
    /\ UNCHANGED <<ctxVars, hs, att, sendVars, recvVars, signal, msgVars, got>>

Shutdown ==
    /\ ~panic /\ ~down
    /\ down' = TRUE
    /\ UNCHANGED <<supported, cancelled, panic, hs, att, done, sendVars, recvVars, signal, msgVars, got>>

SendStep == SendTake \/ SendQuit \/ SendReturns \/ SendGivesUp
CallStep == \E c \in calls : WriteRequest(c) \/ SendRequest(c)
RecvStep == RecvResponse \/ RecvError \/ RecvCheck \/ Deliver \/ OfferTimesOut \/ Signal

Next ==
    \/ Connect \/ CloseResponses \/ Retry
    \/ SendStep \/ CallStep \/ RecvStep
    \/ Cancel \/ StreamTimesOut \/ Shutdown

Spec == Init /\ [][Next]_vars

\* Goroutines are scheduled and timers fire.  RecvMsg has to return only when
\* its stream is over; the server, the reader and a new attempt owe nothing.
Fairness ==
    /\ WF_vars(CloseResponses)
    /\ WF_vars(Retry)
    /\ WF_vars(SendStep)
    /\ WF_vars((done \/ down) /\ RecvError)
    /\ WF_vars(RecvCheck)
    /\ WF_vars(OfferTimesOut)
    /\ WF_vars(Signal)

FairSpec == Spec /\ Fairness

----------------------------------------------------------------------------
\* Properties.

Contract == INSTANCE ResponseStream WITH closed <- hs = "closed"

\* The client keeps the promise the orchestrator relies on: whatever attempts
\* fail, time out or overlap with a cancellation, versions never go back and
\* the response channel is closed only for a reason.
KeepsContract == Contract!Spec

\* No goroutine of an attempt is left that could send on the response channel
\* or on signal when handleStreamsWithRetry closes them (wg.Wait, client.go:283).
NoSendOnClosed ==
    \/ hs = "wait"
    \/ send \in {"none", "exited"} /\ recv \in {"none", "exited"}

\* A version is acknowledged to the origin server only after the orchestrator
\* has received it: what the receiver was too slow to take is not ACKed.
AcksDelivered == \A i \in 1..Len(sent) : sent[i] <= got

\* "It is safe to assume send goroutine will not leak" (client.go:291-294): send
\* ends when the context of its attempt is done, however SendMsg hangs.
SendEnds == done /\ hs = "wait" ~> send = "exited" \/ panic

\* recv waits for room in signal, and send, which would make it, has gone.
RecvStuck == recv = "signal" /\ signal # <<>> /\ send = "exited"

\* After a cancellation or a shutdown the response channel is closed, whatever
\* the attempt is doing; a full signal channel is the one thing in the way.
StreamEnds == cancelled \/ down ~> hs = "closed" \/ RecvStuck \/ panic

----------------------------------------------------------------------------
\* What the code's comments claim and the code does not keep.

\* "The only ways to exit the goroutine is by cancelling the context or when an
\* error occurs" (client.go:342): recv ends when its context is done.
RecvEnds == done /\ hs = "wait" ~> recv = "exited" \/ panic

\* "Timeout after 5 seconds" (client.go:372): a slow receiver costs an attempt,
\* not the process.
\* (In no configuration file: README.md, section 4.)
SlowReceiverTolerated == ~panic

(***************************************************************************)
(* The inductive invariant of UpstreamClientProofs, in parts.              *)
(***************************************************************************)
\* What has been started, was started by an attempt at a known type URL.
AttemptInv == send # "none" \/ recv # "none" => supported /\ att > 0

\* A response that waits for the orchestrator is no older than the one it has;
\* once taken, it is the one to acknowledge.
HeldInv ==
    /\ recv \in {"check", "offer", "signal"} => held \in Version
    /\ recv \in {"check", "offer"} => held >= got
    /\ recv = "signal" => held <= got

\* A version on its way to the origin server, in signal, in the hands of a SendMsg
\* of this or of an earlier attempt, or in the request they all share, was received
\* before.
AckInv ==
    /\ \A i \in 1..Len(signal) : signal[i] <= got
    /\ \A c \in calls : c.ver <= got
    /\ msg <= got

IInv ==
    /\ TypeOK
    /\ AttemptInv /\ HeldInv /\ AckInv
    /\ NoSendOnClosed /\ AcksDelivered
=============================================================================
