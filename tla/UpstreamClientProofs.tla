------------------------ MODULE UpstreamClientProofs ------------------------
(***************************************************************************)
(* Proofs about UpstreamClient, for any number of versions and attempts:   *)
(* the inductive invariant IInv, the safety properties that follow from    *)
(* it, and that the client implements ResponseStream.                      *)
(***************************************************************************)
EXTENDS UpstreamClient, TLAPS

\* What the signal channel holds, as the steps that take from it need it: it is
\* empty, or the sequence of one version.
LEMMA SignalHolds ==
    ASSUME TypeOK
    PROVE  /\ signal = <<>> \/ \E v \in Version \union {NoVersion} : signal = <<v>>
           /\ signal # <<>> => /\ Len(signal) = 1
                               /\ Head(signal) = signal[1]
                               /\ Head(signal) \in Version \union {NoVersion}
BY DEF TypeOK

\* An attempt begins with nothing sent.
LEMMA NothingSent == <<>> \in Seq(Version \union {NoVersion})
OBVIOUS

\* Nothing has been started, received or sent at first.
LEMMA InitIInv == Init => IInv
<1> SUFFICES ASSUME Init PROVE IInv
  OBVIOUS
<1> USE UpstreamAssumption DEF Version, NoVersion
<1>1. Len(sent) = 0 /\ Len(signal) = 0 /\ sent \in Seq(Version \union {NoVersion})
  BY NothingSent DEF Init
<1>2. TypeOK
  <2>1. signal \in {<<>>} \union {<<v>> : v \in Version \union {NoVersion}}
    BY DEF Init
  <2>2. att \in 0..MaxAttempts /\ calls \subseteq Call
    BY DEF Init
  <2> QED BY <1>1, <2>1, <2>2 DEF Init, TypeOK
<1>3. AttemptInv /\ HeldInv /\ NoSendOnClosed
  BY DEF Init, AttemptInv, HeldInv, NoSendOnClosed
<1>4. AckInv /\ AcksDelivered
  BY <1>1 DEF Init, AckInv, AcksDelivered
<1> QED BY <1>2, <1>3, <1>4 DEF IInv

----------------------------------------------------------------------------
\* TypeOK: each step takes the variables it changes to values of their types.
LEMMA TypeStep == TypeOK /\ AttemptInv /\ HeldInv /\ [Next]_vars => TypeOK'
<1> SUFFICES ASSUME TypeOK, AttemptInv, HeldInv, [Next]_vars PROVE TypeOK'
  OBVIOUS
<1> USE UpstreamAssumption DEF TypeOK, HsAt, SendAt, RecvAt, Version, NoVersion,
        ctxVars, sendVars, recvVars, msgVars
<1>1. CASE Connect
  <2>1. signal' \in {<<v>> : v \in Version \union {NoVersion}}
    BY <1>1 DEF Connect
  <2>2. sent' \in Seq(Version \union {NoVersion})
    BY <1>1, NothingSent DEF Connect
  <2>3. att' \in 0..MaxAttempts /\ got' \in Version \union {NoVersion}
    BY <1>1 DEF Connect
  <2>4. /\ supported' \in BOOLEAN /\ cancelled' \in BOOLEAN /\ down' \in BOOLEAN
        /\ panic' \in BOOLEAN /\ done' \in BOOLEAN /\ calls' \subseteq Call
        /\ msg' \in Version \union {NoVersion}
    BY <1>1 DEF Connect
  <2>5. /\ hs' = "wait" /\ send' = "select" /\ sendRes' = "none" /\ recv' = "recv"
        /\ held' = NoVersion /\ seen' = NoVersion
    BY <1>1 DEF Connect
  <2> QED BY <2>1, <2>2, <2>3, <2>4, <2>5
<1>2. CASE CloseResponses
  BY <1>2 DEF CloseResponses
<1>3. CASE Retry
  BY <1>3 DEF Retry
<1>4. CASE SendTake
  <2>1. [att |-> att, ver |-> Head(signal), written |-> FALSE] \in Call
    BY <1>4, SignalHolds DEF SendTake, Call, AttemptInv
  <2>2. calls' \subseteq Call
    BY <1>4, <2>1 DEF SendTake
  <2>3. signal' = <<>> /\ send' = "sending" /\ sendRes' = "none"
    BY <1>4 DEF SendTake
  <2>4. UNCHANGED <<ctxVars, hs, att, done, recvVars, msg, sent, got>>
    BY <1>4 DEF SendTake
  <2> QED BY ONLY TypeOK, <2>2, <2>3, <2>4 DEF TypeOK, ctxVars, recvVars
<1>5. CASE SendQuit
  BY <1>5 DEF SendQuit
<1>6. CASE SendReturns
  BY <1>6 DEF SendReturns
<1>7. CASE SendGivesUp
  BY <1>7 DEF SendGivesUp
<1>8. ASSUME NEW c \in calls, WriteRequest(c) PROVE TypeOK'
  <2>1. [c EXCEPT !.written = TRUE] \in Call /\ c.ver \in Version \union {NoVersion}
    BY DEF Call
  <2>2. calls' \subseteq Call
    BY <1>8, <2>1 DEF WriteRequest
  <2> QED BY <1>8, <2>1, <2>2 DEF WriteRequest
<1>9. ASSUME NEW c \in calls, SendRequest(c) PROVE TypeOK'
  BY <1>9 DEF SendRequest
<1>10. CASE RecvResponse
  BY <1>10 DEF RecvResponse
<1>11. CASE RecvError
  BY <1>11 DEF RecvError
<1>12. CASE RecvCheck
  BY <1>12 DEF RecvCheck
<1>13. CASE Deliver
  BY <1>13 DEF Deliver
<1>14. CASE OfferTimesOut
  <2>1. panic' \in BOOLEAN /\ recv' \in {"none", "recv", "check", "offer", "signal", "exited"}
    BY <1>14 DEF OfferTimesOut
  <2> QED BY <1>14, <2>1 DEF OfferTimesOut
<1>15. CASE Signal
  BY <1>15 DEF Signal
<1>16. CASE Cancel
  BY <1>16 DEF Cancel
<1>17. CASE StreamTimesOut
  BY <1>17 DEF StreamTimesOut
<1>18. CASE Shutdown
  BY <1>18 DEF Shutdown
<1>19. CASE UNCHANGED vars
  BY <1>19 DEF vars
<1> QED BY <1>1, <1>2, <1>3, <1>4, <1>5, <1>6, <1>7, <1>8, <1>9, <1>10, <1>11, <1>12,
           <1>13, <1>14, <1>15, <1>16, <1>17, <1>18, <1>19
        DEF Next, SendStep, CallStep, RecvStep

----------------------------------------------------------------------------
\* What is started belongs to an attempt, and only while it is waited for.
LEMMA AttemptStep ==
    TypeOK /\ AttemptInv /\ NoSendOnClosed /\ [Next]_vars => AttemptInv' /\ NoSendOnClosed'
<1> SUFFICES ASSUME TypeOK, AttemptInv, NoSendOnClosed, [Next]_vars
             PROVE  AttemptInv' /\ NoSendOnClosed'
  OBVIOUS
<1> USE DEF AttemptInv, NoSendOnClosed, HsAt, SendAt, RecvAt, ctxVars, sendVars, recvVars, msgVars
<1>1. att \in Nat
  BY UpstreamAssumption DEF TypeOK
<1>2. CASE Connect \/ CloseResponses \/ Retry
  BY <1>1, <1>2 DEF Connect, CloseResponses, Retry
<1>3. CASE SendStep
  BY <1>3 DEF SendStep, SendTake, SendQuit, SendReturns, SendGivesUp
<1>4. CASE CallStep
  BY <1>4 DEF CallStep, WriteRequest, SendRequest
<1>5. CASE RecvStep
  BY <1>5 DEF RecvStep, RecvResponse, RecvError, RecvCheck, Deliver, OfferTimesOut, Signal
<1>6. CASE Cancel \/ StreamTimesOut \/ Shutdown
  BY <1>6 DEF Cancel, StreamTimesOut, Shutdown
<1>7. CASE UNCHANGED vars
  BY <1>7 DEF vars
<1> QED BY <1>2, <1>3, <1>4, <1>5, <1>6, <1>7 DEF Next

\* The version in the hands of recv against the last one delivered: RecvResponse
\* takes one that is not older, Deliver makes them the same.
LEMMA HeldStep == TypeOK /\ HeldInv /\ [Next]_vars => HeldInv'
<1> SUFFICES ASSUME TypeOK, HeldInv, [Next]_vars PROVE HeldInv'
  OBVIOUS
<1> USE DEF HeldInv, HsAt, SendAt, RecvAt, ctxVars, sendVars, recvVars, msgVars
<1>1. held \in Nat /\ got \in Nat
  BY UpstreamAssumption DEF TypeOK, Version, NoVersion
<1>2. CASE Connect \/ CloseResponses \/ Retry
  BY <1>2 DEF Connect, CloseResponses, Retry
<1>3. CASE SendStep
  BY <1>3 DEF SendStep, SendTake, SendQuit, SendReturns, SendGivesUp
<1>4. CASE CallStep
  BY <1>4 DEF CallStep, WriteRequest, SendRequest
<1>5. CASE RecvResponse
  BY <1>5 DEF RecvResponse
<1>6. CASE RecvError \/ RecvCheck \/ OfferTimesOut \/ Signal
  BY <1>6 DEF RecvError, RecvCheck, OfferTimesOut, Signal
<1>7. CASE Deliver
  BY <1>1, <1>7 DEF Deliver
<1>8. CASE Cancel \/ StreamTimesOut \/ Shutdown
  BY <1>8 DEF Cancel, StreamTimesOut, Shutdown
<1>9. CASE UNCHANGED vars
  BY <1>9 DEF vars
<1> QED BY <1>2, <1>3, <1>4, <1>5, <1>6, <1>7, <1>8, <1>9 DEF Next, RecvStep

\* The last version delivered never goes back, whatever step is taken.
LEMMA GotGrows == TypeOK /\ HeldInv /\ [Next]_vars => got' >= got
<1> SUFFICES ASSUME TypeOK, HeldInv, [Next]_vars PROVE got' >= got
  OBVIOUS
<1> USE DEF HsAt, SendAt, RecvAt, ctxVars, sendVars, recvVars, msgVars
<1>1. got \in Nat
  BY UpstreamAssumption DEF TypeOK, Version, NoVersion
<1>2. CASE Deliver
  BY <1>2 DEF Deliver, HeldInv
<1>3. CASE Connect \/ CloseResponses \/ Retry
  BY <1>1, <1>3 DEF Connect, CloseResponses, Retry
<1>4. CASE SendStep
  BY <1>1, <1>4 DEF SendStep, SendTake, SendQuit, SendReturns, SendGivesUp
<1>5. CASE CallStep
  BY <1>1, <1>5 DEF CallStep, WriteRequest, SendRequest
<1>6. CASE RecvResponse \/ RecvError \/ RecvCheck \/ OfferTimesOut \/ Signal
  BY <1>1, <1>6 DEF RecvResponse, RecvError, RecvCheck, OfferTimesOut, Signal
<1>7. CASE Cancel \/ StreamTimesOut \/ Shutdown
  BY <1>1, <1>7 DEF Cancel, StreamTimesOut, Shutdown
<1>8. CASE UNCHANGED vars
  BY <1>1, <1>8 DEF vars
<1> QED BY <1>2, <1>3, <1>4, <1>5, <1>6, <1>7, <1>8 DEF Next, RecvStep

----------------------------------------------------------------------------
\* A version moves from recv to signal, from signal to a SendMsg, from there to the
\* shared request and to the origin server; Deliver comes before all of it.
LEMMA AckStep ==
    ASSUME TypeOK, TypeOK', HeldInv, got' >= got, [Next]_vars, AckInv, AcksDelivered
    PROVE  AckInv' /\ AcksDelivered'
<1> DEFINE V == Version \union {NoVersion}
<1> USE DEF AckInv, AcksDelivered, HsAt, SendAt, RecvAt, ctxVars, sendVars, recvVars, msgVars
<1>1. V \subseteq Nat /\ got \in Nat /\ got' \in Nat /\ msg \in Nat /\ sent \in Seq(V)
  BY UpstreamAssumption DEF TypeOK, Version, NoVersion
<1>2. \A c \in calls : c.ver \in Nat
  BY <1>1 DEF TypeOK, Call
<1>3. \A i \in 1..Len(sent) : sent[i] \in Nat
  BY <1>1
<1>4. ASSUME UNCHANGED <<signal, calls, msg, sent>> PROVE AckInv' /\ AcksDelivered'
  <2>1. Len(signal) \in Nat /\ \A i \in 1..Len(signal) : signal[i] \in Nat
    BY <1>1, SignalHolds
  <2>2. got <= got'
    BY <1>1
  <2>3. AckInv'
    BY <1>1, <1>2, <1>4, <2>1, <2>2
  <2>4. AcksDelivered'
    BY <1>1, <1>3, <1>4, <2>2
  <2> QED BY <2>3, <2>4
<1>5. CASE Connect
  BY <1>1, <1>5 DEF Connect, NoVersion
<1>6. CASE SendTake
  <2>1. Head(signal) <= got /\ Head(signal) = signal[1]
    BY <1>6, SignalHolds DEF SendTake
  <2>2. \A c \in calls' : c.ver <= got
    BY <1>6, <2>1 DEF SendTake
  <2>3. signal' = <<>> /\ UNCHANGED <<msg, sent, got>>
    BY <1>6 DEF SendTake
  <2> QED BY <2>2, <2>3
<1>7. ASSUME NEW c \in calls, WriteRequest(c) PROVE AckInv' /\ AcksDelivered'
  BY <1>1, <1>7 DEF WriteRequest, TypeOK, Call
<1>8. ASSUME NEW c \in calls, SendRequest(c) PROVE AckInv' /\ AcksDelivered'
  <2>1. AckInv'
    BY <1>8 DEF SendRequest
  <2>2. CASE sent' = Append(sent, msg)
    BY <1>1, <1>8, <2>2 DEF SendRequest
  <2>3. CASE UNCHANGED sent
    BY <1>8, <2>3 DEF SendRequest
  <2> QED BY <1>8, <2>1, <2>2, <2>3 DEF SendRequest
<1>9. CASE Signal
  BY <1>9 DEF Signal, HeldInv
<1>10. CASE CloseResponses \/ Retry
  BY <1>4, <1>10 DEF CloseResponses, Retry
<1>11. CASE SendQuit \/ SendReturns \/ SendGivesUp
  BY <1>4, <1>11 DEF SendQuit, SendReturns, SendGivesUp
<1>12. CASE RecvResponse \/ RecvError \/ RecvCheck \/ Deliver \/ OfferTimesOut
  BY <1>4, <1>12 DEF RecvResponse, RecvError, RecvCheck, Deliver, OfferTimesOut
<1>13. CASE Cancel \/ StreamTimesOut \/ Shutdown
  BY <1>4, <1>13 DEF Cancel, StreamTimesOut, Shutdown
<1>14. CASE UNCHANGED vars
  BY <1>4, <1>14 DEF vars
<1> QED BY <1>5, <1>6, <1>7, <1>8, <1>9, <1>10, <1>11, <1>12, <1>13, <1>14
        DEF Next, SendStep, CallStep, RecvStep

----------------------------------------------------------------------------
LEMMA StepIInv == IInv /\ [Next]_vars => IInv'
BY TypeStep, AttemptStep, HeldStep, GotGrows, AckStep DEF IInv

\* For any bound on versions and attempts, the inductive invariant holds.
THEOREM ClientInvariance == Spec => []IInv
BY InitIInv, StepIInv, PTL DEF Spec

\* Every variable keeps its type (client.go: the state of handleStreamsWithRetry,
\* send and recv).
THEOREM ClientTypeCorrect == Spec => []TypeOK
<1>1. IInv => TypeOK
  BY DEF IInv
<1> QED BY <1>1, ClientInvariance, PTL

\* When handleStreamsWithRetry closes signal and the response channel, no goroutine
\* of an attempt is left that could send on them.
THEOREM ChannelsClosedSafely == Spec => []NoSendOnClosed
<1>1. IInv => NoSendOnClosed
  BY DEF IInv
<1> QED BY <1>1, ClientInvariance, PTL

\* No version is acknowledged to the origin server before the orchestrator has
\* received it, though a SendMsg given up may still write into the shared request.
THEOREM AcksFollowDelivery == Spec => []AcksDelivered
<1>1. IInv => AcksDelivered
  BY DEF IInv
<1> QED BY <1>1, ClientInvariance, PTL

----------------------------------------------------------------------------
\* The refinement: each step of the client is one of ResponseStream, or none.
LEMMA InitContract == Init => Contract!Init
BY DEF Init, Contract!Init, NoVersion

LEMMA StepContract == IInv /\ [Next]_vars => [Contract!Next]_Contract!vars
<1> SUFFICES ASSUME IInv, [Next]_vars PROVE [Contract!Next]_Contract!vars
  OBVIOUS
<1> USE DEF HsAt, SendAt, RecvAt, ctxVars, sendVars, recvVars, msgVars, Contract!vars, Contract!Next
\* Only the handler's return changes what is closed; most steps change nothing
\* ResponseStream knows.
<1>1. CASE Connect
  BY <1>1 DEF Connect
<1>2. CASE CloseResponses
  BY <1>2 DEF CloseResponses, Contract!Close
<1>3. CASE Retry
  BY <1>3 DEF Retry
<1>4. CASE SendStep
  BY <1>4 DEF SendStep, SendTake, SendQuit, SendReturns, SendGivesUp
<1>5. CASE CallStep
  BY <1>5 DEF CallStep, WriteRequest, SendRequest
<1>6. CASE RecvResponse \/ RecvError \/ RecvCheck \/ OfferTimesOut \/ Signal
  BY <1>6 DEF RecvResponse, RecvError, RecvCheck, OfferTimesOut, Signal
\* A response is taken only while the attempt that received it is waited for.
<1>7. CASE Deliver
  <2>1. supported /\ hs # "closed"
    BY <1>7 DEF Deliver, IInv, AttemptInv, NoSendOnClosed
  <2>2. held \in Version /\ held >= got
    BY <1>7 DEF Deliver, IInv, HeldInv
  <2> QED BY <1>7, <2>1, <2>2 DEF Deliver, Contract!Deliver
<1>8. CASE Cancel
  BY <1>8 DEF Cancel, Contract!Cancel
<1>9. CASE StreamTimesOut
  BY <1>9 DEF StreamTimesOut
<1>10. CASE Shutdown
  BY <1>10 DEF Shutdown, Contract!Shutdown
<1>11. CASE UNCHANGED vars
  BY <1>11 DEF vars
<1> QED BY <1>1, <1>2, <1>3, <1>4, <1>5, <1>6, <1>7, <1>8, <1>9, <1>10, <1>11
        DEF Next, RecvStep

\* The client implements the contract the orchestrator takes its streams to keep:
\* versions never go back, nothing is delivered after a cancellation or a close,
\* and the channel is closed only for a reason.
THEOREM ClientKeepsContract == Spec => KeepsContract
BY InitContract, StepContract, ClientInvariance, PTL DEF Spec, KeepsContract, Contract!Spec
=============================================================================
