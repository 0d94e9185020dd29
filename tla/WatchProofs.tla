----------------------------- MODULE WatchProofs -----------------------------
(***************************************************************************)
(* Proofs about Watch, for any number of calls: the inductive invariant    *)
(* IInv and the safety properties that follow from it.                     *)
(***************************************************************************)
EXTENDS Watch, TLAPS

LEMMA InitInv == Init => IInv
<1> SUFFICES ASSUME Init PROVE IInv
  OBVIOUS
<1>1. got \in Seq(Call) /\ DOMAIN got = {}
  BY DEF Init
<1>2. TypeOK
  BY <1>1 DEF Init, TypeOK
<1>3. ~panic /\ LockInv /\ CallInv
  BY DEF Init, LockInv, CallInv, Inside
<1>4. OrderInv /\ LatestInv /\ StaleDropped /\ BlockedByOverlap
  BY <1>1 DEF Init, OrderInv, LatestInv, StaleDropped, BlockedByOverlap, Returned
<1> QED BY <1>2, <1>3, <1>4 DEF IInv

LEMMA InvokeInv == ASSUME IInv, NEW c \in Call, Invoke(c) PROVE IInv'
<1> USE DEF IInv, Invoke, Goto, mutexVars, closeVars, history
<1>1. TypeOK'
  BY DEF TypeOK, Inside
<1>2. ~panic' /\ LockInv'
  BY DEF TypeOK, Inside, LockInv, CallInv
<1>3. CallInv'
  BY DEF TypeOK, Inside, CallInv, LockInv, Returned
<1>4. OrderInv'
  BY DEF TypeOK, Inside, CallInv, OrderInv, Returned
<1>5. StaleDropped'
  BY DEF TypeOK, CallInv, StaleDropped, OrderInv, Returned
<1>6. BlockedByOverlap'
  BY DEF TypeOK, CallInv, BlockedByOverlap, OrderInv, Returned
<1>7. LatestInv'
  BY DEF TypeOK, CallInv, LatestInv, Latest, OrderInv, Returned
<1> QED BY <1>1, <1>2, <1>3, <1>4, <1>5, <1>6, <1>7

LEMMA RLockInv == ASSUME IInv, NEW c \in Call, RLock(c) PROVE IInv'
<1> USE DEF IInv, RLock, Goto, mutexVars, closeVars, history
<1>1. TypeOK'
  BY DEF TypeOK, Inside
<1>2. ~panic' /\ LockInv'
  BY DEF TypeOK, Inside, LockInv, CallInv
<1>3. CallInv'
  BY DEF TypeOK, Inside, CallInv, LockInv, Returned
<1>4. OrderInv'
  BY DEF TypeOK, Inside, CallInv, OrderInv, Returned
<1>5. StaleDropped'
  BY DEF TypeOK, CallInv, StaleDropped, OrderInv, Returned
<1>6. BlockedByOverlap'
  BY DEF TypeOK, CallInv, BlockedByOverlap, OrderInv, Returned
<1>7. LatestInv'
  BY DEF TypeOK, CallInv, LatestInv, Latest, OrderInv, Returned
<1> QED BY <1>1, <1>2, <1>3, <1>4, <1>5, <1>6, <1>7

LEMMA CheckInv == ASSUME IInv, NEW c \in Call, Check(c) PROVE IInv'
<1> USE DEF IInv, Check, Goto, mutexVars, closeVars, history
<1>1. TypeOK'
  BY DEF TypeOK, Inside
<1>2. ~panic' /\ LockInv'
  BY DEF TypeOK, Inside, LockInv, CallInv
<1>3. CallInv'
  BY DEF TypeOK, Inside, CallInv, LockInv, Returned
<1>4. OrderInv'
  BY DEF TypeOK, Inside, CallInv, OrderInv, Returned
<1>5. StaleDropped'
  BY DEF TypeOK, CallInv, StaleDropped, OrderInv, Returned
<1>6. BlockedByOverlap'
  BY DEF TypeOK, CallInv, BlockedByOverlap, OrderInv, Returned
<1>7. LatestInv'
  BY DEF TypeOK, CallInv, LatestInv, Latest, OrderInv, Returned
<1> QED BY <1>1, <1>2, <1>3, <1>4, <1>5, <1>6, <1>7

LEMMA DequeueInv == ASSUME IInv, NEW c \in Call, Dequeue(c) PROVE IInv'
<1> USE DEF IInv, Dequeue, Goto, mutexVars, closeVars, history
<1>1. TypeOK'
  BY DEF TypeOK, Inside
<1>2. ~panic' /\ LockInv'
  BY DEF TypeOK, Inside, LockInv, CallInv
<1>3. CallInv'
  BY DEF TypeOK, Inside, CallInv, LockInv, Returned
<1>4. OrderInv'
  BY DEF TypeOK, Inside, CallInv, OrderInv, Returned
<1>5. StaleDropped'
  BY DEF TypeOK, CallInv, StaleDropped, OrderInv, Returned
<1>6. BlockedByOverlap'
  BY DEF TypeOK, CallInv, BlockedByOverlap, OrderInv, Returned
<1>7. LatestInv'
  BY DEF TypeOK, CallInv, LatestInv, Latest, OrderInv, Returned
<1> QED BY <1>1, <1>2, <1>3, <1>4, <1>5, <1>6, <1>7

LEMMA EnqueueInv == ASSUME IInv, NEW c \in Call, Enqueue(c) PROVE IInv'
<1> USE DEF IInv, Enqueue, Goto, mutexVars, closeVars, history
<1>1. TypeOK'
  BY DEF TypeOK, Inside
<1>2. ~panic' /\ LockInv'
  BY DEF TypeOK, Inside, LockInv, CallInv
<1>3. CallInv'
  BY DEF TypeOK, Inside, CallInv, LockInv, Returned
<1>4. OrderInv'
  BY DEF TypeOK, Inside, CallInv, OrderInv, Returned
<1>5. StaleDropped'
  BY DEF TypeOK, CallInv, StaleDropped, OrderInv, Returned
<1>6. BlockedByOverlap'
  BY DEF TypeOK, CallInv, BlockedByOverlap, OrderInv, Returned
<1>7. LatestInv'
  BY DEF TypeOK, CallInv, LatestInv, Latest, OrderInv, Returned
<1> QED BY <1>1, <1>2, <1>3, <1>4, <1>5, <1>6, <1>7

LEMMA RUnlockInv == ASSUME IInv, NEW c \in Call, RUnlock(c) PROVE IInv'
<1> USE DEF IInv, RUnlock, Goto, mutexVars, closeVars, history
<1>1. TypeOK'
  BY DEF TypeOK, Inside
<1>2. ~panic' /\ LockInv'
  BY DEF TypeOK, Inside, LockInv, CallInv
<1>3. CallInv'
  BY DEF TypeOK, Inside, CallInv, LockInv, Returned
<1>4. OrderInv'
  BY DEF TypeOK, Inside, CallInv, OrderInv, Returned
<1>5. StaleDropped'
  BY DEF TypeOK, CallInv, StaleDropped, OrderInv, Returned
<1>6. BlockedByOverlap'
  BY DEF TypeOK, CallInv, BlockedByOverlap, OrderInv, Returned
<1>7. LatestInv'
  BY DEF TypeOK, CallInv, LatestInv, Latest, OrderInv, Returned
<1> QED BY <1>1, <1>2, <1>3, <1>4, <1>5, <1>6, <1>7

LEMMA LockStepInv == ASSUME IInv, Lock PROVE IInv'
<1> USE DEF IInv, Lock, CloseGoto, mutexVars, closeVars, history
<1>1. TypeOK'
  BY DEF TypeOK, Inside
<1>2. ~panic' /\ LockInv'
  BY DEF TypeOK, Inside, LockInv, CallInv
<1>3. CallInv'
  BY DEF TypeOK, Inside, CallInv, LockInv, Returned
<1>4. OrderInv'
  BY DEF TypeOK, Inside, CallInv, OrderInv, Returned
<1>5. StaleDropped'
  BY DEF TypeOK, CallInv, StaleDropped, OrderInv, Returned
<1>6. BlockedByOverlap'
  BY DEF TypeOK, CallInv, BlockedByOverlap, OrderInv, Returned
<1>7. LatestInv'
  BY DEF TypeOK, CallInv, LatestInv, Latest, OrderInv, Returned
<1> QED BY <1>1, <1>2, <1>3, <1>4, <1>5, <1>6, <1>7

LEMMA AcquireInv == ASSUME IInv, Acquire PROVE IInv'
<1> USE DEF IInv, Acquire, CloseGoto, mutexVars, closeVars, history
<1>1. TypeOK'
  BY DEF TypeOK, Inside
<1>2. ~panic' /\ LockInv'
  BY DEF TypeOK, Inside, LockInv, CallInv
<1>3. CallInv'
  BY DEF TypeOK, Inside, CallInv, LockInv, Returned
<1>4. OrderInv'
  BY DEF TypeOK, Inside, CallInv, OrderInv, Returned
<1>5. StaleDropped'
  BY DEF TypeOK, CallInv, StaleDropped, OrderInv, Returned
<1>6. BlockedByOverlap'
  BY DEF TypeOK, CallInv, BlockedByOverlap, OrderInv, Returned
<1>7. LatestInv'
  BY DEF TypeOK, CallInv, LatestInv, Latest, OrderInv, Returned
<1> QED BY <1>1, <1>2, <1>3, <1>4, <1>5, <1>6, <1>7

LEMMA SetClosedInv == ASSUME IInv, SetClosed PROVE IInv'
<1> USE DEF IInv, SetClosed, CloseGoto, mutexVars, closeVars, history
<1>1. TypeOK'
  BY DEF TypeOK, Inside
<1>2. ~panic' /\ LockInv'
  BY DEF TypeOK, Inside, LockInv, CallInv
<1>3. CallInv'
  BY DEF TypeOK, Inside, CallInv, LockInv, Returned
<1>4. OrderInv'
  BY DEF TypeOK, Inside, CallInv, OrderInv, Returned
<1>5. StaleDropped'
  BY DEF TypeOK, CallInv, StaleDropped, OrderInv, Returned
<1>6. BlockedByOverlap'
  BY DEF TypeOK, CallInv, BlockedByOverlap, OrderInv, Returned
<1>7. LatestInv'
  BY DEF TypeOK, CallInv, LatestInv, Latest, OrderInv, Returned
<1> QED BY <1>1, <1>2, <1>3, <1>4, <1>5, <1>6, <1>7

LEMMA CloseChannelInv == ASSUME IInv, CloseChannel PROVE IInv'
<1> USE DEF IInv, CloseChannel, CloseGoto, mutexVars, closeVars, history
<1>1. TypeOK'
  BY DEF TypeOK, Inside
<1>2. ~panic' /\ LockInv'
  BY DEF TypeOK, Inside, LockInv, CallInv
<1>3. CallInv'
  BY DEF TypeOK, Inside, CallInv, LockInv, Returned
<1>4. OrderInv'
  BY DEF TypeOK, Inside, CallInv, OrderInv, Returned
<1>5. StaleDropped'
  BY DEF TypeOK, CallInv, StaleDropped, OrderInv, Returned
<1>6. BlockedByOverlap'
  BY DEF TypeOK, CallInv, BlockedByOverlap, OrderInv, Returned
<1>7. LatestInv'
  BY DEF TypeOK, CallInv, LatestInv, Latest, OrderInv, Returned
<1> QED BY <1>1, <1>2, <1>3, <1>4, <1>5, <1>6, <1>7

LEMMA UnlockInv == ASSUME IInv, Unlock PROVE IInv'
<1> USE DEF IInv, Unlock, CloseGoto, mutexVars, closeVars, history
<1>1. TypeOK'
  BY DEF TypeOK, Inside
<1>2. ~panic' /\ LockInv'
  BY DEF TypeOK, Inside, LockInv, CallInv
<1>3. CallInv'
  BY DEF TypeOK, Inside, CallInv, LockInv, Returned
<1>4. OrderInv'
  BY DEF TypeOK, Inside, CallInv, OrderInv, Returned
<1>5. StaleDropped'
  BY DEF TypeOK, CallInv, StaleDropped, OrderInv, Returned
<1>6. BlockedByOverlap'
  BY DEF TypeOK, CallInv, BlockedByOverlap, OrderInv, Returned
<1>7. LatestInv'
  BY DEF TypeOK, CallInv, LatestInv, Latest, OrderInv, Returned
<1> QED BY <1>1, <1>2, <1>3, <1>4, <1>5, <1>6, <1>7

LEMMA ReceiveInv == ASSUME IInv, Receive PROVE IInv'
<1> USE DEF IInv, Receive, mutexVars, closeVars, history
<1>1. TypeOK'
  BY DEF TypeOK, Inside
<1>2. ~panic' /\ LockInv'
  BY DEF TypeOK, Inside, LockInv, CallInv
<1>3. CallInv'
  BY DEF TypeOK, Inside, CallInv, LockInv, Returned
<1>4. OrderInv'
  BY DEF TypeOK, Inside, CallInv, OrderInv, Returned
<1>5. StaleDropped'
  <2>1. PICK c \in Call : out = <<c>> /\ out[1] = c
    BY DEF TypeOK
  <2>2. got \in Seq(Call) /\ got' = Append(got, c) /\ out' = <<>>
    BY <2>1 DEF TypeOK
  <2>3. \A i \in DOMAIN got : c \notin before[got[i]]
    BY <2>1, <2>2 DEF TypeOK, Inside, CallInv, OrderInv
  <2>4. ASSUME NEW i \in DOMAIN got', NEW j \in DOMAIN got', i < j
        PROVE  got'[j] \notin before'[got'[i]]
    <3>1. CASE j \in DOMAIN got
      BY <3>1, <2>2, <2>4 DEF StaleDropped
    <3>2. CASE j = Len(got) + 1
      BY <3>2, <2>2, <2>3, <2>4
    <3> QED BY <2>2, <2>4, <3>1, <3>2
  <2> QED BY <2>2, <2>4 DEF StaleDropped
<1>6. BlockedByOverlap'
  BY DEF TypeOK, CallInv, BlockedByOverlap, OrderInv, Returned
<1>7. LatestInv'
  BY DEF TypeOK, CallInv, LatestInv, Latest, OrderInv, Returned
<1> QED BY <1>1, <1>2, <1>3, <1>4, <1>5, <1>6, <1>7

LEMMA NextInv == ASSUME IInv, [Next]_vars PROVE IInv'
<1>1. ASSUME NEW c \in Call, Invoke(c) \/ SendStep(c) PROVE IInv'
  BY <1>1, InvokeInv, RLockInv, CheckInv, DequeueInv, EnqueueInv, RUnlockInv DEF SendStep
<1>2. CASE Lock \/ CloseStep
  BY <1>2, LockStepInv, AcquireInv, SetClosedInv, CloseChannelInv, UnlockInv DEF CloseStep
<1>3. CASE Receive
  BY <1>3, ReceiveInv
<1>4. CASE UNCHANGED vars
  BY <1>4 DEF vars, mutexVars, closeVars, history, IInv, TypeOK, LockInv, CallInv, OrderInv,
              LatestInv, Latest, StaleDropped, BlockedByOverlap, Returned, Inside
<1> QED BY <1>1, <1>2, <1>3, <1>4 DEF Next

LEMMA Invariance == Spec => []IInv
<1>1. Init => IInv
  BY InitInv
<1>2. IInv /\ [Next]_vars => IInv'
  BY NextInv
<1> QED BY <1>1, <1>2, PTL DEF Spec

\* The variables of a watch keep their types, and its queue never holds more
\* than the one response its channel has room for (watchv2.go:27).
THEOREM WatchTypeCorrect == Spec => []TypeOK
<1>1. IInv => TypeOK
  BY DEF IInv
<1> QED BY <1>1, Invariance, PTL

\* However many Sends race a Close, none is past its check of closed when the
\* channel is closed, so that none sends on a closed channel.
THEOREM CloseDrains == Spec => []DrainedBeforeClose
<1>1. IInv => DrainedBeforeClose
  BY DEF IInv, DrainedBeforeClose, CallInv, LockInv
<1> QED BY <1>1, Invariance, PTL

\* A response is never queued, or delivered, after one that a later,
\* non-overlapping Send was made with (Send's drop of the older response).
THEOREM SendDropsStale == Spec => []StaleDropped
<1>1. IInv => StaleDropped
  BY DEF IInv
<1> QED BY <1>1, Invariance, PTL

\* Send fails only when another Send overlapped it and was not dropped.
THEOREM SendFailsByOverlap == Spec => []BlockedByOverlap
<1>1. IInv => BlockedByOverlap
  BY DEF IInv
<1> QED BY <1>1, Invariance, PTL

\* With no Send under way, the newest of the responses sent, or one that
\* overlapped it, is in the queue or was received last.
THEOREM SendKeepsLatest == Spec => []NothingLost
<1>1. IInv => NothingLost
  BY DEF IInv, NothingLost, Quiet, LatestInv, Returned
<1> QED BY <1>1, Invariance, PTL

=============================================================================
