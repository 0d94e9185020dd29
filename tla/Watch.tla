-------------------------------- MODULE Watch --------------------------------
(***************************************************************************)
(* The watch of one downstream request (internal/app/transport/watchv2.go; *)
(* watchv3.go differs in the type of the response only), step by step.     *)
(* Fanouts and the goroutine of the cached response call Send, each with a *)
(* response; downstreamResponseMap takes the watch out of its map and      *)
(* calls Close, once; the server of the client's stream receives from the  *)
(* channel, which holds one response.                                      *)
(*                                                                         *)
(* w.mu is a sync.RWMutex: a call of Lock that waits keeps out later calls *)
(* of RLock.  Orchestrator takes Send and Close to be one step each; this  *)
(* module shows what becomes of Sends that overlap.                        *)
(***************************************************************************)
EXTENDS Naturals, Sequences

CONSTANT Call   \* calls of Send, each with a response of its own

VARIABLES
    at,         \* at[c]: the next step of call c
    result,     \* result[c]: what Send has done
    readers,    \* the calls that hold w.mu for reading
    writer,     \* w.mu and Close: "none", "waiting" or "held"
    closing,    \* the next step of Close
    closed,     \* w.closed
    out,        \* w.out, at most one response
    outClosed,  \* w.out has been closed
    panic,      \* a send on a closed channel
    got,        \* history: the responses the client has received
    before      \* history: before[c] are the calls that had returned by the
                \* time c was made

mutexVars == <<readers, writer>>
closeVars == <<closing, closed, outClosed>>
history == <<got, before>>
vars == <<at, result, mutexVars, closeVars, out, panic, history>>

Init ==
    /\ at = [c \in Call |-> "idle"]
    /\ result = [c \in Call |-> "none"]
    /\ readers = {} /\ writer = "none"
    /\ closing = "idle"
    /\ closed = FALSE
    /\ out = <<>> /\ outClosed = FALSE
    /\ panic = FALSE
    /\ got = <<>>
    /\ before = [c \in Call |-> {}]

Goto(c, from, to) == at[c] = from /\ at' = [at EXCEPT ![c] = to]
Returned(c) == at[c] = "returned"

-----------------------------------------------------------------------------
(***************************************************************************)
(* Send.                                                                   *)
(***************************************************************************)
Invoke(c) ==
    /\ Goto(c, "idle", "rlock")
    /\ before' = [before EXCEPT ![c] = {d \in Call : Returned(d)}]
    /\ UNCHANGED <<result, mutexVars, closeVars, out, panic, got>>

RLock(c) ==
    /\ Goto(c, "rlock", "check")
    /\ writer = "none"
    /\ readers' = readers \union {c}
    /\ UNCHANGED <<result, writer, closeVars, out, panic, history>>

Check(c) ==
    /\ IF closed
       THEN Goto(c, "check", "unlock") /\ result' = [result EXCEPT ![c] = "ignored"]
       ELSE Goto(c, "check", "dequeue") /\ UNCHANGED result
    /\ UNCHANGED <<mutexVars, closeVars, out, panic, history>>

\* Mutant: the older response stays in the queue.
DequeueNothing(c) ==
    /\ Goto(c, "dequeue", "enqueue")
    /\ UNCHANGED <<result, mutexVars, closeVars, out, panic, history>>
Dequeue(c) ==
    /\ Goto(c, "dequeue", "enqueue")
    /\ out' = <<>>
    /\ UNCHANGED <<result, mutexVars, closeVars, panic, history>>

\* Mutant: a blocked channel is drained, and nothing is sent.
EnqueueDrains(c) ==
    /\ Goto(c, "enqueue", "unlock")
    /\ out' = IF out = <<>> THEN <<c>> ELSE <<>>
    /\ result' = [result EXCEPT ![c] = IF out = <<>> THEN "sent" ELSE "blocked"]
    /\ UNCHANGED <<mutexVars, closeVars, panic, history>>
Enqueue(c) ==
    /\ Goto(c, "enqueue", "unlock")
    /\ panic' = outClosed
    /\ IF out = <<>>
       THEN out' = <<c>> /\ result' = [result EXCEPT ![c] = "sent"]
       ELSE result' = [result EXCEPT ![c] = "blocked"] /\ UNCHANGED out
    /\ UNCHANGED <<mutexVars, closeVars, history>>

\* Mutant: the lock is kept by a Send that fails.
RUnlockUnlessBlocked(c) ==
    /\ Goto(c, "unlock", "returned")
    /\ readers' = IF result[c] = "blocked" THEN readers ELSE readers \ {c}
    /\ UNCHANGED <<result, writer, closeVars, out, panic, history>>
RUnlock(c) ==
    /\ Goto(c, "unlock", "returned")
    /\ readers' = readers \ {c}
    /\ UNCHANGED <<result, writer, closeVars, out, panic, history>>

SendStep(c) == RLock(c) \/ Check(c) \/ Dequeue(c) \/ Enqueue(c) \/ RUnlock(c)

-----------------------------------------------------------------------------
(***************************************************************************)
(* Close.                                                                  *)
(***************************************************************************)
CloseGoto(from, to) == closing = from /\ closing' = to

Lock ==
    /\ CloseGoto("idle", "wait")
    /\ writer' = "waiting"
    /\ UNCHANGED <<at, result, readers, closed, out, outClosed, panic, history>>

\* Mutant: Close does not wait for the calls that hold the lock.
AcquireAtOnce ==
    /\ CloseGoto("wait", "flag")
    /\ writer' = "held"
    /\ UNCHANGED <<at, result, readers, closed, out, outClosed, panic, history>>
Acquire ==
    /\ CloseGoto("wait", "flag")
    /\ readers = {}
    /\ writer' = "held"
    /\ UNCHANGED <<at, result, readers, closed, out, outClosed, panic, history>>

SetClosed ==
    /\ CloseGoto("flag", "chan")
    /\ closed' = TRUE
    /\ UNCHANGED <<at, result, mutexVars, out, outClosed, panic, history>>

CloseChannel ==
    /\ CloseGoto("chan", "unlock")
    /\ outClosed' = TRUE
    /\ UNCHANGED <<at, result, mutexVars, closed, out, panic, history>>

Unlock ==
    /\ CloseGoto("unlock", "done")
    /\ writer' = "none"
    /\ UNCHANGED <<at, result, readers, closed, out, outClosed, panic, history>>

CloseStep == Acquire \/ SetClosed \/ CloseChannel \/ Unlock

\* The client's stream receives the response, also from a closed channel.
Receive ==
    /\ out # <<>>
    /\ got' = Append(got, out[1])
    /\ out' = <<>>
    /\ UNCHANGED <<at, result, mutexVars, closeVars, panic, before>>

Next ==
    \/ \E c \in Call : Invoke(c) \/ SendStep(c)
    \/ Lock \/ CloseStep
    \/ Receive

Spec == Init /\ [][Next]_vars

\* Goroutines run, and the mutex is granted to one that waits; nobody has to
\* call Send or Close, and the client need not receive.
FairSpec ==
    /\ Spec
    /\ \A c \in Call : WF_vars(SendStep(c))
    /\ WF_vars(CloseStep)
-----------------------------------------------------------------------------
(***************************************************************************)
(* Properties.                                                             *)
(***************************************************************************)
Inside == {"check", "dequeue", "enqueue", "unlock"}

\* The variables keep their types.
TypeOK ==
    /\ at \in [Call -> {"idle", "rlock", "returned"} \union Inside]
    /\ result \in [Call -> {"none", "sent", "blocked", "ignored"}]
    /\ readers \subseteq Call
    /\ writer \in {"none", "waiting", "held"}
    /\ closing \in {"idle", "wait", "flag", "chan", "unlock", "done"}
    /\ closed \in BOOLEAN /\ outClosed \in BOOLEAN /\ panic \in BOOLEAN
    /\ out \in {<<>>} \union {<<c>> : c \in Call}
    /\ got \in Seq(Call)
    /\ before \in [Call -> SUBSET Call]

\* "Close waits until all Send operations drain" and Send and Close never
\* panic together (watch.go:17-24): once the channel is closed, no Send has
\* passed its check of closed and is still to touch the channel.
DrainedBeforeClose ==
    ~panic /\ (outClosed => \A c \in Call : at[c] \notin {"dequeue", "enqueue"})

\* "stale responses are dropped in the event that a newer response arrives"
\* (watch.go:22-24), for Sends that do not overlap: the response in the queue
\* was not sent before a call that has returned, blocked or not, was made; and
\* the client receives no response after one whose call was made after the
\* response's own had returned.
StaleDropped ==
    /\ \A c, d \in Call :
        (out = <<c>> /\ Returned(d) /\ result[d] # "ignored") => c \notin before[d]
    /\ \A i, j \in DOMAIN got : i < j => got[j] \notin before[got[i]]

\* A Send fails ("should never happen because of the dequeue above",
\* watchv2.go:67) only when it overlaps one that has put its response in the
\* queue after the dequeue: the two could have come in the other order.
BlockedByOverlap ==
    \A c \in Call : result[c] = "blocked" =>
        \E d \in Call : result[d] = "sent" /\ d \notin before[c] /\ c \notin before[d]

\* No Send is in vain: when none is under way, the response in the queue, or
\* the last one received, is one that no later call was made to replace.
Quiet == \A c \in Call : at[c] \in {"idle", "rlock", "returned"}
Latest == IF out # <<>> THEN out ELSE IF got = <<>> THEN <<>> ELSE <<got[Len(got)]>>
NothingLost ==
    Quiet => \A d \in Call : (Returned(d) /\ result[d] # "ignored") =>
                \E c \in Call : Latest = <<c>> /\ c \notin before[d]

\* Every Send and every Close returns, whatever the client does: neither waits
\* for it, and a Close is not starved by Sends (sync.RWMutex).
SendReturns == \A c \in Call : at[c] = "rlock" ~> Returned(c)
CloseReturns == closing = "wait" ~> closing = "done"

(***************************************************************************)
(* The inductive invariant of WatchProofs, in parts.                       *)
(***************************************************************************)
\* Who holds the lock, and how far Close is.
LockInv ==
    /\ \A c \in Call : c \in readers <=> at[c] \in Inside
    /\ writer = "none" <=> closing \in {"idle", "done"}
    /\ closing \in {"flag", "chan", "unlock"} => readers = {}
    /\ closed <=> closing \in {"chan", "unlock", "done"}
    /\ outClosed => closed

\* What a call has done at each of its steps, and what it found.
CallInv ==
    \A c \in Call :
        /\ at[c] \in {"dequeue", "enqueue"} => ~closed
        /\ at[c] \in {"idle", "rlock", "check", "dequeue", "enqueue"} => result[c] = "none"
        /\ at[c] = "idle" => before[c] = {}
        /\ \A d \in before[c] : Returned(d)

\* After its dequeue a call finds only responses sent since it was made.
OrderInv ==
    /\ \A c, d \in Call :
        (at[d] \in {"enqueue", "unlock", "returned"} /\ result[d] # "ignored" /\ out = <<c>>)
            => c \notin before[d]
    /\ \A c \in Call : out = <<c>> => result[c] = "sent"
    /\ \A i \in DOMAIN got : result[got[i]] = "sent"

\* NothingLost, while calls are under way: a call that is about to send makes
\* up for the response it has dropped.
LatestInv ==
    \A d \in Call : (at[d] \in {"unlock", "returned"} /\ result[d] # "ignored") =>
        \/ \E c \in Call : Latest = <<c>> /\ c \notin before[d]
        \/ \E e \in Call : at[e] = "enqueue"

IInv ==
    /\ TypeOK /\ ~panic
    /\ LockInv /\ CallInv /\ OrderInv /\ LatestInv
    /\ StaleDropped /\ BlockedByOverlap
=============================================================================
