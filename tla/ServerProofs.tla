---------------------------- MODULE ServerProofs ----------------------------
(***************************************************************************)
(* Proofs about Server, for any number of clients and of requests to the   *)
(* ready handler and any set of configurations: the inductive invariant    *)
(* IInv and the safety properties that follow from it.                     *)
(***************************************************************************)
EXTENDS Server, TLAPS

\* What the start-up reads without a check is there once Validate has accepted
\* the configuration.
LEMMA AcceptedMessages ==
    ASSUME boot \in Boot, ValidBootstrap(boot)
    PROVE  /\ boot.logging # Nil /\ boot.metrics_sink # Nil /\ boot.origin_server # Nil
           /\ boot.cache # Nil /\ boot.admin # Nil /\ boot.server # Nil
           /\ boot.metrics_sink.statsd # Nil
           /\ boot.metrics_sink.statsd.address # Nil /\ boot.metrics_sink.statsd.flush_interval # Nil
           /\ boot.origin_server.address # Nil /\ boot.admin.address # Nil /\ boot.server.address # Nil
           /\ boot.cache.ttl # Nil /\ ValidDuration(boot.cache.ttl)
<1>1. boot # Nil
  BY ServerAssumption
<1> QED
  BY <1>1 DEF ValidBootstrap, Required, ValidServer, ValidUpstream, ValidLogging, ValidCache,
              ValidMetricsSink, ValidStatsd, ValidAdmin

\* The number of servers made.
LEMMA Servers ==
    ASSUME TypeOK
    PROVE  /\ last \in Nat /\ GrpcServer = 1..last /\ GrpcServer \subseteq Nat
           /\ \A i \in GrpcServer : i # 0 /\ grpc[i] \in GrpcState
BY DEF TypeOK, GrpcTypeOK, last, GrpcServer

\* A sequence with one of its members replaced.
LEMMA Update ==
    ASSUME NEW S, NEW s \in Seq(S), NEW i, NEW v \in S
    PROVE  LET t == [s EXCEPT ![i] = v] IN
           /\ t \in Seq(S) /\ Len(t) = Len(s) /\ DOMAIN t = DOMAIN s
           /\ \A j \in 1..Len(s) : t[j] = IF j = i THEN v ELSE s[j]
<1> DEFINE t == [s EXCEPT ![i] = v]
<1>1. DOMAIN t = 1..Len(s) /\ \A j \in 1..Len(s) : t[j] = IF j = i THEN v ELSE s[j]
  OBVIOUS
<1>2. \A j \in 1..Len(s) : t[j] \in S
  BY <1>1
<1>3. t = [j \in 1..Len(s) |-> t[j]]
  BY <1>1
<1>4. Len(s) \in Nat /\ DOMAIN s = 1..Len(s)
  OBVIOUS
<1> HIDE DEF t
<1>5. t \in Seq(S)
  BY <1>2, <1>3, <1>4
<1>6. Len(t) = Len(s)
  BY <1>1, <1>4, <1>5
<1> QED
  BY <1>1, <1>4, <1>5, <1>6 DEF t
\* The servers after the part of GracefulStop that does not wait.
LEMMA StopAcceptingKeeps ==
    ASSUME TypeOK, StopAccepting
    PROVE  /\ grpc' \in Seq(GrpcState) /\ last' = last /\ GrpcServer' = GrpcServer
           /\ \A i \in GrpcServer :
                \/ i # last /\ grpc'[i] = grpc[i]
                \/ i = last /\ grpc[i] = "serving" /\ grpc'[i] = "draining"
                \/ i = last /\ grpc[i] = "bound" /\ grpc'[i] = "unserved"
                \/ i = last /\ grpc[i] \notin {"serving", "bound"} /\ grpc'[i] = grpc[i]
<1> DEFINE next == Refusing(grpc[last])
<1>1. grpc \in Seq(GrpcState)
  BY DEF TypeOK, GrpcTypeOK
<1>2. CASE last = 0
  BY <1>1, <1>2 DEF StopAccepting, last, GrpcServer
<1>3. CASE last # 0
  <2>1. next \in GrpcState
    BY <1>1, <1>3 DEF last, GrpcState, Refusing
  <2>2. grpc' = [grpc EXCEPT ![last] = next]
    BY <1>3 DEF StopAccepting
  <2>3. \/ next = "draining" /\ grpc[last] = "serving"
        \/ next = "unserved" /\ grpc[last] = "bound"
        \/ next = grpc[last] /\ grpc[last] \notin {"serving", "bound"}
    BY DEF Refusing
  <2> HIDE DEF next
  <2> QED
    BY <1>1, <2>1, <2>2, <2>3, Update DEF last, GrpcServer
<1> QED
  BY <1>2, <1>3

\* The servers when GracefulStop returns, when Serve is called, and when one
\* more is made.
LEMMA DrainedKeeps ==
    ASSUME TypeOK, NEW next, Drained(next), last # 0
    PROVE  /\ grpc' \in Seq(GrpcState) /\ last' = last /\ GrpcServer' = GrpcServer
           /\ \A i \in GrpcServer :
                grpc'[i] = IF i = last /\ grpc[i] = "draining" THEN "stopped" ELSE grpc[i]
<1> DEFINE over == IF grpc[last] = "draining" THEN "stopped" ELSE grpc[last]
<1>1. grpc \in Seq(GrpcState)
  BY DEF TypeOK, GrpcTypeOK
<1>2. over \in GrpcState
  BY <1>1 DEF last, GrpcState
<1>3. grpc' = [grpc EXCEPT ![last] = over]
  BY DEF Drained
<1>4. over = IF grpc[last] = "draining" THEN "stopped" ELSE grpc[last]
  OBVIOUS
<1> HIDE DEF over
<1> QED
  BY <1>1, <1>2, <1>3, <1>4, Update DEF last, GrpcServer

LEMMA ServeKeeps ==
    ASSUME TypeOK, NEW i \in GrpcServer, grpc' = [grpc EXCEPT ![i] = "serving"]
    PROVE  /\ grpc' \in Seq(GrpcState) /\ last' = last /\ GrpcServer' = GrpcServer
           /\ \A j \in GrpcServer : grpc'[j] = IF j = i THEN "serving" ELSE grpc[j]
<1>1. grpc \in Seq(GrpcState) /\ "serving" \in GrpcState
  BY DEF TypeOK, GrpcTypeOK, GrpcState
<1> QED
  BY <1>1, Update DEF last, GrpcServer

LEMMA StartKeeps ==
    ASSUME TypeOK, grpc' = Append(grpc, "bound")
    PROVE  /\ grpc' \in Seq(GrpcState) /\ last' = last + 1 /\ last \in Nat
           /\ GrpcServer = 1..last /\ GrpcServer' = 1..(last + 1)
           /\ \A j \in GrpcServer : grpc'[j] = grpc[j]
           /\ grpc'[last + 1] = "bound"
           /\ \A j \in GrpcServer' : j \in GrpcServer \/ j = last + 1
  BY DEF TypeOK, GrpcTypeOK, GrpcState, last, GrpcServer

LEMMA LoadInv == ASSUME IInv, Load PROVE IInv'
<1> USE DEF IInv, Load, Goto, End, At, Alive, Over, Looping, Starting, loopVars, grpcVars, adminVars
<1>1. TypeOK'
  <2>1. MainTypeOK'
    BY DEF TypeOK, MainTypeOK
  <2>2. LoopTypeOK'
    BY DEF TypeOK, LoopTypeOK
  <2>3. GrpcTypeOK'
    BY DEF TypeOK, GrpcTypeOK
  <2>4. AdminTypeOK'
    BY DEF TypeOK, AdminTypeOK
  <2> QED BY <2>1, <2>2, <2>3, <2>4 DEF TypeOK
<1>2. StartInv'
  BY DEF StartInv, TypeOK, MainTypeOK, GrpcTypeOK, last
<1>3. GrpcInv'
  BY DEF GrpcInv, StartInv, TypeOK, MainTypeOK, GrpcTypeOK, last, GrpcServer
<1>4. AdminInv'
  BY DEF AdminInv, StartInv, TypeOK, MainTypeOK, AdminTypeOK, last
<1>5. StopInv'
  BY DEF StopInv, StartInv, TypeOK, MainTypeOK, last
<1>6. ReadyMatches'
  BY DEF ReadyMatches, StartInv, TypeOK, MainTypeOK, last
<1>7. EndExplained'
  BY <1>2 DEF EndExplained, StartInv, StopInv, TypeOK, MainTypeOK, last, GrpcServer
<1> QED BY <1>1, <1>2, <1>3, <1>4, <1>5, <1>6, <1>7

LEMMA InitLoggerInv == ASSUME IInv, InitLogger PROVE IInv'
<1> USE DEF IInv, InitLogger, Reading, Goto, End, At, Alive, Over, Looping, Starting, loopVars, grpcVars, adminVars
<1>1. TypeOK'
  <2>1. MainTypeOK'
    BY DEF TypeOK, MainTypeOK
  <2>2. LoopTypeOK'
    BY DEF TypeOK, LoopTypeOK
  <2>3. GrpcTypeOK'
    BY DEF TypeOK, GrpcTypeOK
  <2>4. AdminTypeOK'
    BY DEF TypeOK, AdminTypeOK
  <2> QED BY <2>1, <2>2, <2>3, <2>4 DEF TypeOK
<1>2. StartInv'
  BY AcceptedMessages DEF StartInv, TypeOK, MainTypeOK, GrpcTypeOK, last
<1>3. GrpcInv'
  BY DEF GrpcInv, StartInv, TypeOK, MainTypeOK, GrpcTypeOK, last, GrpcServer
<1>4. AdminInv'
  BY DEF AdminInv, StartInv, TypeOK, MainTypeOK, AdminTypeOK, last
<1>5. StopInv'
  BY DEF StopInv, StartInv, TypeOK, MainTypeOK, last
<1>6. ReadyMatches'
  BY DEF ReadyMatches, StartInv, TypeOK, MainTypeOK, last
<1>7. EndExplained'
  BY <1>2 DEF EndExplained, StartInv, StopInv, TypeOK, MainTypeOK, last, GrpcServer
<1> QED BY <1>1, <1>2, <1>3, <1>4, <1>5, <1>6, <1>7

LEMMA InitMetricsInv == ASSUME IInv, InitMetrics PROVE IInv'
<1> USE DEF IInv, InitMetrics, Reading, Goto, End, At, Alive, Over, Looping, Starting, loopVars, grpcVars, adminVars
<1>1. TypeOK'
  <2>1. MainTypeOK'
    BY DEF TypeOK, MainTypeOK
  <2>2. LoopTypeOK'
    BY DEF TypeOK, LoopTypeOK
  <2>3. GrpcTypeOK'
    BY DEF TypeOK, GrpcTypeOK
  <2>4. AdminTypeOK'
    BY DEF TypeOK, AdminTypeOK
  <2> QED BY <2>1, <2>2, <2>3, <2>4 DEF TypeOK
<1>2. StartInv'
  BY AcceptedMessages DEF StartInv, TypeOK, MainTypeOK, GrpcTypeOK, last
<1>3. GrpcInv'
  BY DEF GrpcInv, StartInv, TypeOK, MainTypeOK, GrpcTypeOK, last, GrpcServer
<1>4. AdminInv'
  BY DEF AdminInv, StartInv, TypeOK, MainTypeOK, AdminTypeOK, last
<1>5. StopInv'
  BY DEF StopInv, StartInv, TypeOK, MainTypeOK, last
<1>6. ReadyMatches'
  BY DEF ReadyMatches, StartInv, TypeOK, MainTypeOK, last
<1>7. EndExplained'
  BY <1>2 DEF EndExplained, StartInv, StopInv, TypeOK, MainTypeOK, last, GrpcServer
<1> QED BY <1>1, <1>2, <1>3, <1>4, <1>5, <1>6, <1>7

LEMMA InitUpstreamInv == ASSUME IInv, InitUpstream PROVE IInv'
<1> USE DEF IInv, InitUpstream, Reading, Goto, End, At, Alive, Over, Looping, Starting, loopVars, grpcVars, adminVars
<1>1. TypeOK'
  <2>1. MainTypeOK'
    BY DEF TypeOK, MainTypeOK
  <2>2. LoopTypeOK'
    BY DEF TypeOK, LoopTypeOK
  <2>3. GrpcTypeOK'
    BY DEF TypeOK, GrpcTypeOK
  <2>4. AdminTypeOK'
    BY DEF TypeOK, AdminTypeOK
  <2> QED BY <2>1, <2>2, <2>3, <2>4 DEF TypeOK
<1>2. StartInv'
  BY AcceptedMessages DEF StartInv, TypeOK, MainTypeOK, GrpcTypeOK, last
<1>3. GrpcInv'
  BY DEF GrpcInv, StartInv, TypeOK, MainTypeOK, GrpcTypeOK, last, GrpcServer
<1>4. AdminInv'
  BY DEF AdminInv, StartInv, TypeOK, MainTypeOK, AdminTypeOK, last
<1>5. StopInv'
  BY DEF StopInv, StartInv, TypeOK, MainTypeOK, last
<1>6. ReadyMatches'
  BY DEF ReadyMatches, StartInv, TypeOK, MainTypeOK, last
<1>7. EndExplained'
  BY <1>2 DEF EndExplained, StartInv, StopInv, TypeOK, MainTypeOK, last, GrpcServer
<1> QED BY <1>1, <1>2, <1>3, <1>4, <1>5, <1>6, <1>7

LEMMA InitOrchestratorInv == ASSUME IInv, InitOrchestrator PROVE IInv'
<1> USE DEF IInv, InitOrchestrator, Reading, Goto, End, At, Alive, Over, Looping, Starting, loopVars, grpcVars, adminVars
<1>1. TypeOK'
  <2>1. MainTypeOK'
    BY DEF TypeOK, MainTypeOK
  <2>2. LoopTypeOK'
    BY DEF TypeOK, LoopTypeOK
  <2>3. GrpcTypeOK'
    BY DEF TypeOK, GrpcTypeOK
  <2>4. AdminTypeOK'
    BY DEF TypeOK, AdminTypeOK
  <2> QED BY <2>1, <2>2, <2>3, <2>4 DEF TypeOK
<1>2. StartInv'
  BY AcceptedMessages DEF StartInv, TypeOK, MainTypeOK, GrpcTypeOK, last
<1>3. GrpcInv'
  BY DEF GrpcInv, StartInv, TypeOK, MainTypeOK, GrpcTypeOK, last, GrpcServer
<1>4. AdminInv'
  BY DEF AdminInv, StartInv, TypeOK, MainTypeOK, AdminTypeOK, last
<1>5. StopInv'
  BY DEF StopInv, StartInv, TypeOK, MainTypeOK, last
<1>6. ReadyMatches'
  BY DEF ReadyMatches, StartInv, TypeOK, MainTypeOK, last
<1>7. EndExplained'
  BY <1>2 DEF EndExplained, StartInv, StopInv, TypeOK, MainTypeOK, last, GrpcServer
<1> QED BY <1>1, <1>2, <1>3, <1>4, <1>5, <1>6, <1>7

LEMMA SetUpInv == ASSUME IInv, SetUp PROVE IInv'
<1> USE DEF IInv, SetUp, Goto, End, At, Alive, Over, Looping, Starting, loopVars, grpcVars, adminVars
<1>1. TypeOK'
  <2>1. MainTypeOK'
    BY DEF TypeOK, MainTypeOK
  <2>2. LoopTypeOK'
    BY DEF TypeOK, LoopTypeOK
  <2>3. GrpcTypeOK'
    BY DEF TypeOK, GrpcTypeOK
  <2>4. AdminTypeOK'
    BY DEF TypeOK, AdminTypeOK
  <2> QED BY <2>1, <2>2, <2>3, <2>4 DEF TypeOK
<1>2. StartInv'
  BY AcceptedMessages DEF StartInv, TypeOK, MainTypeOK, GrpcTypeOK, last
<1>3. GrpcInv'
  BY DEF GrpcInv, StartInv, TypeOK, MainTypeOK, GrpcTypeOK, last, GrpcServer
<1>4. AdminInv'
  BY DEF AdminInv, StartInv, TypeOK, MainTypeOK, AdminTypeOK, last
<1>5. StopInv'
  BY DEF StopInv, StartInv, TypeOK, MainTypeOK, last
<1>6. ReadyMatches'
  BY DEF ReadyMatches, StartInv, TypeOK, MainTypeOK, last
<1>7. EndExplained'
  BY <1>2 DEF EndExplained, StartInv, StopInv, TypeOK, MainTypeOK, last, GrpcServer
<1> QED BY <1>1, <1>2, <1>3, <1>4, <1>5, <1>6, <1>7

LEMMA TakeDemandInv == ASSUME IInv, TakeDemand PROVE IInv'
<1> USE DEF IInv, TakeDemand, Goto, End, At, Alive, Over, Looping, Starting, loopVars, grpcVars, adminVars
<1>0. PICK d \in BOOLEAN : weboff = <<d>> /\ weboff[1] = d
  <2>1. CASE weboff = <<TRUE>>
    BY <2>1
  <2>2. CASE weboff = <<FALSE>>
    BY <2>2
  <2> QED
    BY <2>1, <2>2 DEF TypeOK, LoopTypeOK
<1>1. TypeOK'
  <2>1. MainTypeOK'
    BY DEF TypeOK, MainTypeOK
  <2>2. LoopTypeOK'
    BY <1>0 DEF TypeOK, LoopTypeOK
  <2>3. GrpcTypeOK'
    BY DEF TypeOK, GrpcTypeOK
  <2>4. AdminTypeOK'
    BY DEF TypeOK, AdminTypeOK
  <2> QED BY <2>1, <2>2, <2>3, <2>4 DEF TypeOK
<1>2. StartInv'
  BY DEF StartInv, TypeOK, MainTypeOK, GrpcTypeOK, last
<1>3. GrpcInv'
  BY DEF GrpcInv, StartInv, TypeOK, MainTypeOK, GrpcTypeOK, last, GrpcServer
<1>4. AdminInv'
  BY DEF AdminInv, StartInv, TypeOK, MainTypeOK, AdminTypeOK, last
<1>5. StopInv'
  BY <1>0 DEF StopInv, StartInv, ReadyMatches, TypeOK, MainTypeOK, LoopTypeOK, last
<1>6. ReadyMatches'
  BY DEF ReadyMatches, StartInv, TypeOK, MainTypeOK, last
<1>7. EndExplained'
  BY <1>2 DEF EndExplained, StartInv, StopInv, TypeOK, MainTypeOK, last, GrpcServer
<1> QED BY <1>1, <1>2, <1>3, <1>4, <1>5, <1>6, <1>7

LEMMA StartServerInv == ASSUME IInv, StartServer PROVE IInv'
<1> USE DEF IInv, StartServer, Goto, End, At, Alive, Over, Looping, Starting, loopVars, grpcVars, adminVars
<1>1. CASE pc' = "select" /\ cause' = cause /\ conn' = conn /\ grpc' = Append(grpc, "bound")
          /\ \A i \in GrpcServer : grpc[i] \notin {"bound", "unserved"}
  <2>0. /\ grpc' \in Seq(GrpcState) /\ last' = last + 1 /\ last \in Nat
        /\ GrpcServer = 1..last /\ GrpcServer' = 1..(last + 1)
        /\ \A j \in GrpcServer : grpc'[j] = grpc[j]
        /\ grpc'[last + 1] = "bound"
        /\ \A j \in GrpcServer' : j \in GrpcServer \/ j = last + 1
    BY <1>1, StartKeeps
  <2>1. (MainTypeOK /\ LoopTypeOK /\ AdminTypeOK)'
    <3>1. MainTypeOK'
      BY <1>1 DEF TypeOK, MainTypeOK
    <3>2. LoopTypeOK'
      BY <1>1 DEF TypeOK, LoopTypeOK
    <3>3. AdminTypeOK'
      BY <1>1 DEF TypeOK, AdminTypeOK
    <3> QED
      BY <3>1, <3>2, <3>3
  <2>2. GrpcTypeOK'
    BY <1>1, <2>0, Servers DEF TypeOK, GrpcTypeOK
  <2>3. StartInv'
    BY <1>1, <2>0, Servers DEF StartInv, TypeOK, MainTypeOK, GrpcTypeOK
  <2>4. GrpcInv'
    <3>1. current /\ pc = "start"
      BY DEF GrpcInv
    <3>2. \A i \in GrpcServer : grpc[i] \notin {"bound", "serving", "draining"}
      BY <3>1 DEF GrpcInv
    <3>3. \A c \in Client : conn[c] = 0
      BY <3>2 DEF GrpcInv
    <3>4. \A i \in GrpcServer' : (i \in GrpcServer /\ grpc'[i] = grpc[i]) \/ (i = last' /\ grpc'[i] = "bound")
      BY <2>0
    <3> QED
      BY <1>1, <3>1, <3>2, <3>3, <3>4 DEF GrpcInv
  <2>5. AdminInv'
    BY <1>1, <2>0, Servers DEF AdminInv, StartInv, AdminTypeOK, TypeOK, MainTypeOK, GrpcTypeOK
  <2>6. StopInv'
    <3>1. pc = "start" /\ last' # 0
      BY <2>0
    <3> QED
      BY <1>1, <3>1 DEF StopInv, TypeOK, MainTypeOK
  <2>7. ReadyMatches'
    BY <1>1, <2>0, Servers DEF ReadyMatches, StartInv, LoopTypeOK, TypeOK, MainTypeOK, GrpcTypeOK
  <2>8. EndExplained'
    BY <1>1, <2>0, Servers DEF EndExplained, StartInv, StopInv, TypeOK, MainTypeOK, GrpcTypeOK
  <2> QED
    BY <2>1, <2>2, <2>3, <2>4, <2>5, <2>6, <2>7, <2>8 DEF TypeOK
<1>2. CASE UNCHANGED grpcVars /\ pc' = "fatal" /\ cause' \in {"bind", "unserved"}
          /\ (cause' = "unserved" => \E i \in GrpcServer : grpc[i] = "unserved")
  <2>1. (MainTypeOK /\ LoopTypeOK /\ AdminTypeOK)'
    <3>1. MainTypeOK'
      BY <1>2 DEF TypeOK, MainTypeOK
    <3>2. LoopTypeOK'
      BY <1>2 DEF TypeOK, LoopTypeOK
    <3>3. AdminTypeOK'
      BY <1>2 DEF TypeOK, AdminTypeOK
    <3> QED
      BY <3>1, <3>2, <3>3
  <2>2. GrpcTypeOK'
    BY <1>2 DEF TypeOK, GrpcTypeOK, last, GrpcServer
  <2>3. StartInv'
    BY <1>2 DEF StartInv, TypeOK, MainTypeOK, GrpcTypeOK, last, GrpcServer
  <2>4. GrpcInv'
    BY <1>2 DEF GrpcInv, StartInv, TypeOK, MainTypeOK, GrpcTypeOK, last, GrpcServer
  <2>5. AdminInv'
    BY <1>2 DEF AdminInv, StartInv, AdminTypeOK, TypeOK, MainTypeOK, GrpcTypeOK, last, GrpcServer
  <2>6. StopInv'
    BY <1>2 DEF StopInv, StartInv, TypeOK, MainTypeOK, GrpcTypeOK, last, GrpcServer
  <2>7. ReadyMatches'
    BY <1>2 DEF ReadyMatches, StartInv, LoopTypeOK, TypeOK, MainTypeOK, GrpcTypeOK, last, GrpcServer
  <2>8. EndExplained'
    BY <1>2 DEF EndExplained, StartInv, StopInv, TypeOK, MainTypeOK, GrpcTypeOK, last, GrpcServer
  <2> QED
    BY <2>1, <2>2, <2>3, <2>4, <2>5, <2>6, <2>7, <2>8 DEF TypeOK
<1> QED
  BY <1>1, <1>2 DEF Listen, GrpcInv

LEMMA StopServerInv == ASSUME IInv, StopServer PROVE IInv'
<1> USE DEF IInv, StopServer, Goto, End, At, Alive, Over, Looping, Starting, loopVars, grpcVars, adminVars
<1>0. /\ grpc' \in Seq(GrpcState) /\ last' = last /\ GrpcServer' = GrpcServer
      /\ \A i \in GrpcServer :
           \/ i # last /\ grpc'[i] = grpc[i]
           \/ i = last /\ grpc[i] = "serving" /\ grpc'[i] = "draining"
           \/ i = last /\ grpc[i] = "bound" /\ grpc'[i] = "unserved"
           \/ i = last /\ grpc[i] \notin {"serving", "bound"} /\ grpc'[i] = grpc[i]
  BY StopAcceptingKeeps DEF StopServer
<1>1. TypeOK'
  <2>1. MainTypeOK'
    BY DEF TypeOK, MainTypeOK
  <2>2. LoopTypeOK'
    BY DEF TypeOK, LoopTypeOK
  <2>3. GrpcTypeOK'
    BY <1>0 DEF TypeOK, GrpcTypeOK
  <2>4. AdminTypeOK'
    BY DEF TypeOK, AdminTypeOK
  <2> QED BY <2>1, <2>2, <2>3, <2>4 DEF TypeOK
<1>2. StartInv'
  BY <1>0, Servers DEF StartInv, TypeOK, MainTypeOK, GrpcTypeOK
<1>3. GrpcInv'
  BY <1>0, Servers DEF GrpcInv, TypeOK, MainTypeOK, GrpcTypeOK, StartInv
<1>4. AdminInv'
  BY DEF AdminInv, StartInv, TypeOK, MainTypeOK, AdminTypeOK, last
<1>5. StopInv'
  BY <1>0, Servers DEF StopInv, TypeOK, MainTypeOK, GrpcTypeOK, StartInv
<1>6. ReadyMatches'
  BY DEF ReadyMatches, StartInv, TypeOK, MainTypeOK, last
<1>7. EndExplained'
  BY <1>0, Servers DEF EndExplained, TypeOK, MainTypeOK, GrpcTypeOK, StartInv, StopInv
<1> QED BY <1>1, <1>2, <1>3, <1>4, <1>5, <1>6, <1>7

LEMMA FinishStopInv == ASSUME IInv, FinishStop PROVE IInv'
<1> USE DEF IInv, FinishStop, Goto, End, At, Alive, Over, Looping, Starting, loopVars, grpcVars, adminVars
<1>a. last # 0
  BY DEF FinishStop, StopInv
<1>0. /\ grpc' \in Seq(GrpcState) /\ last' = last /\ GrpcServer' = GrpcServer
      /\ \A i \in GrpcServer :
           grpc'[i] = IF i = last /\ grpc[i] = "draining" THEN "stopped" ELSE grpc[i]
  BY <1>a, DrainedKeeps DEF FinishStop
<1> USE DEF FinishStop, Drained
<1>1. TypeOK'
  <2>1. MainTypeOK'
    BY DEF TypeOK, MainTypeOK
  <2>2. LoopTypeOK'
    BY DEF TypeOK, LoopTypeOK
  <2>3. GrpcTypeOK'
    BY <1>a, <1>0 DEF TypeOK, GrpcTypeOK
  <2>4. AdminTypeOK'
    BY DEF TypeOK, AdminTypeOK
  <2> QED BY <2>1, <2>2, <2>3, <2>4 DEF TypeOK
<1>2. StartInv'
  BY <1>a, <1>0, Servers DEF StartInv, TypeOK, MainTypeOK, GrpcTypeOK
<1>3. GrpcInv'
  <2>1. \A i \in GrpcServer : grpc[i] \in {"unserved", "stopped", "draining"}
    <3>1. pc = "drain" /\ ~current
      BY DEF GrpcInv
    <3>2. \A i \in GrpcServer : grpc[i] \in GrpcState
      BY Servers
    <3>3. \A i \in GrpcServer : grpc[i] \notin {"bound", "serving"}
      BY <3>1 DEF GrpcInv
    <3> QED
      BY <3>2, <3>3 DEF GrpcState
  <2>2. \A i \in GrpcServer : grpc[i] = "draining" => i = last
    BY DEF GrpcInv
  <2>3. \A i \in GrpcServer : grpc'[i] \in {"unserved", "stopped"}
    BY <1>0, <2>1, <2>2
  <2>4. \A c \in Client : conn[c] = 0
    BY <1>0, <2>1, <2>2 DEF GrpcInv
  <2> QED
    BY <1>0, <2>3, <2>4 DEF GrpcInv
<1>4. AdminInv'
  BY DEF AdminInv, StartInv, TypeOK, MainTypeOK, AdminTypeOK, last
<1>5. StopInv'
  BY <1>a, <1>0, Servers DEF StopInv, TypeOK, MainTypeOK, GrpcTypeOK, StartInv
<1>6. ReadyMatches'
  BY DEF ReadyMatches, StartInv, TypeOK, MainTypeOK, last
<1>7. EndExplained'
  BY <1>a, <1>0, Servers DEF EndExplained, TypeOK, MainTypeOK, GrpcTypeOK, StartInv, StopInv
<1> QED BY <1>1, <1>2, <1>3, <1>4, <1>5, <1>6, <1>7

LEMMA SignalInv == ASSUME IInv, Signal PROVE IInv'
<1> USE DEF IInv, Signal, Goto, End, At, Alive, Over, Looping, Starting, loopVars, grpcVars, adminVars
<1>1. TypeOK'
  <2>1. MainTypeOK'
    BY DEF TypeOK, MainTypeOK
  <2>2. LoopTypeOK'
    BY DEF TypeOK, LoopTypeOK
  <2>3. GrpcTypeOK'
    BY DEF TypeOK, GrpcTypeOK
  <2>4. AdminTypeOK'
    BY DEF TypeOK, AdminTypeOK
  <2> QED BY <2>1, <2>2, <2>3, <2>4 DEF TypeOK
<1>2. StartInv'
  BY DEF StartInv, TypeOK, MainTypeOK, GrpcTypeOK, last
<1>3. GrpcInv'
  BY DEF GrpcInv, StartInv, TypeOK, MainTypeOK, GrpcTypeOK, last, GrpcServer
<1>4. AdminInv'
  BY DEF AdminInv, StartInv, TypeOK, MainTypeOK, AdminTypeOK, last
<1>5. StopInv'
  BY DEF StopInv, StartInv, TypeOK, MainTypeOK, last
<1>6. ReadyMatches'
  BY DEF ReadyMatches, StartInv, TypeOK, MainTypeOK, last
<1>7. EndExplained'
  BY <1>2 DEF EndExplained, StartInv, StopInv, TypeOK, MainTypeOK, last, GrpcServer
<1> QED BY <1>1, <1>2, <1>3, <1>4, <1>5, <1>6, <1>7

LEMMA CloseAdminInv == ASSUME IInv, CloseAdmin PROVE IInv'
<1> USE DEF IInv, CloseAdmin, Goto, End, At, Alive, Over, Looping, Starting, loopVars, grpcVars, adminVars
<1>1. TypeOK'
  <2>1. MainTypeOK'
    BY DEF TypeOK, MainTypeOK
  <2>2. LoopTypeOK'
    BY DEF TypeOK, LoopTypeOK
  <2>3. GrpcTypeOK'
    BY DEF TypeOK, GrpcTypeOK
  <2>4. AdminTypeOK'
    BY DEF TypeOK, AdminTypeOK
  <2> QED BY <2>1, <2>2, <2>3, <2>4 DEF TypeOK
<1>2. StartInv'
  BY DEF StartInv, TypeOK, MainTypeOK, GrpcTypeOK, last
<1>3. GrpcInv'
  BY DEF GrpcInv, StartInv, TypeOK, MainTypeOK, GrpcTypeOK, last, GrpcServer
<1>4. AdminInv'
  BY DEF AdminInv, StopInv, TypeOK, MainTypeOK, AdminTypeOK
<1>5. StopInv'
  BY DEF StopInv, StartInv, TypeOK, MainTypeOK, last
<1>6. ReadyMatches'
  BY DEF ReadyMatches, StartInv, TypeOK, MainTypeOK, last
<1>7. EndExplained'
  BY <1>2 DEF EndExplained, StartInv, StopInv, TypeOK, MainTypeOK, last, GrpcServer
<1> QED BY <1>1, <1>2, <1>3, <1>4, <1>5, <1>6, <1>7

LEMMA AdminClosedInv == ASSUME IInv, AdminClosed PROVE IInv'
<1> USE DEF IInv, AdminClosed, Goto, End, At, Alive, Over, Looping, Starting, loopVars, grpcVars, adminVars
<1>1. TypeOK'
  <2>1. MainTypeOK'
    BY DEF TypeOK, MainTypeOK
  <2>2. LoopTypeOK'
    BY DEF TypeOK, LoopTypeOK
  <2>3. GrpcTypeOK'
    BY DEF TypeOK, GrpcTypeOK
  <2>4. AdminTypeOK'
    BY DEF TypeOK, AdminTypeOK
  <2> QED BY <2>1, <2>2, <2>3, <2>4 DEF TypeOK
<1>2. StartInv'
  BY DEF StartInv, TypeOK, MainTypeOK, GrpcTypeOK, last
<1>3. GrpcInv'
  BY DEF GrpcInv, StartInv, TypeOK, MainTypeOK, GrpcTypeOK, last, GrpcServer
<1>4. AdminInv'
  BY DEF AdminInv, StartInv, TypeOK, MainTypeOK, AdminTypeOK, last
<1>5. StopInv'
  BY DEF StopInv, StartInv, TypeOK, MainTypeOK, last
<1>6. ReadyMatches'
  BY DEF ReadyMatches, StartInv, TypeOK, MainTypeOK, last
<1>7. EndExplained'
  BY <1>2 DEF EndExplained, StartInv, StopInv, TypeOK, MainTypeOK, last, GrpcServer
<1> QED BY <1>1, <1>2, <1>3, <1>4, <1>5, <1>6, <1>7

LEMMA CancelInv == ASSUME IInv, Cancel PROVE IInv'
<1> USE DEF IInv, Cancel, Goto, End, At, Alive, Over, Looping, Starting, loopVars, grpcVars, adminVars
<1>0. /\ grpc' \in Seq(GrpcState) /\ last' = last /\ GrpcServer' = GrpcServer
      /\ \A i \in GrpcServer :
           \/ i # last /\ grpc'[i] = grpc[i]
           \/ i = last /\ grpc[i] = "serving" /\ grpc'[i] = "draining"
           \/ i = last /\ grpc[i] = "bound" /\ grpc'[i] = "unserved"
           \/ i = last /\ grpc[i] \notin {"serving", "bound"} /\ grpc'[i] = grpc[i]
  BY StopAcceptingKeeps DEF Cancel
<1>1. TypeOK'
  <2>1. MainTypeOK'
    BY DEF TypeOK, MainTypeOK
  <2>2. LoopTypeOK'
    BY DEF TypeOK, LoopTypeOK
  <2>3. GrpcTypeOK'
    BY <1>0 DEF TypeOK, GrpcTypeOK
  <2>4. AdminTypeOK'
    BY DEF TypeOK, AdminTypeOK
  <2> QED BY <2>1, <2>2, <2>3, <2>4 DEF TypeOK
<1>2. StartInv'
  BY <1>0, Servers DEF StartInv, TypeOK, MainTypeOK, GrpcTypeOK
<1>3. GrpcInv'
  BY <1>0, Servers DEF GrpcInv, TypeOK, MainTypeOK, GrpcTypeOK, StartInv
<1>4. AdminInv'
  BY DEF AdminInv, StartInv, TypeOK, MainTypeOK, AdminTypeOK, last
<1>5. StopInv'
  BY <1>0, Servers DEF StopInv, TypeOK, MainTypeOK, GrpcTypeOK, StartInv
<1>6. ReadyMatches'
  BY DEF ReadyMatches, StartInv, TypeOK, MainTypeOK, last
<1>7. EndExplained'
  BY <1>0, Servers DEF EndExplained, TypeOK, MainTypeOK, GrpcTypeOK, StartInv, StopInv
<1> QED BY <1>1, <1>2, <1>3, <1>4, <1>5, <1>6, <1>7

LEMMA FinishLastStopInv == ASSUME IInv, FinishLastStop PROVE IInv'
<1> USE DEF IInv, FinishLastStop, Goto, End, At, Alive, Over, Looping, Starting, loopVars, grpcVars, adminVars
<1>a. last # 0
  BY DEF FinishLastStop, StopInv
<1>0. /\ grpc' \in Seq(GrpcState) /\ last' = last /\ GrpcServer' = GrpcServer
      /\ \A i \in GrpcServer :
           grpc'[i] = IF i = last /\ grpc[i] = "draining" THEN "stopped" ELSE grpc[i]
  BY <1>a, DrainedKeeps DEF FinishLastStop
<1> USE DEF FinishLastStop, Drained
<1>1. TypeOK'
  <2>1. MainTypeOK'
    BY DEF TypeOK, MainTypeOK
  <2>2. LoopTypeOK'
    BY DEF TypeOK, LoopTypeOK
  <2>3. GrpcTypeOK'
    BY <1>a, <1>0 DEF TypeOK, GrpcTypeOK
  <2>4. AdminTypeOK'
    BY DEF TypeOK, AdminTypeOK
  <2> QED BY <2>1, <2>2, <2>3, <2>4 DEF TypeOK
<1>2. StartInv'
  BY <1>a, <1>0, Servers DEF StartInv, TypeOK, MainTypeOK, GrpcTypeOK
<1>3. GrpcInv'
  <2>1. \A i \in GrpcServer : grpc[i] \in {"unserved", "stopped", "draining"}
    <3>1. pc = "last drain"
      BY DEF GrpcInv
    <3>2. \A i \in GrpcServer : grpc[i] \in GrpcState
      BY Servers
    <3>3. \A i \in GrpcServer : grpc[i] \notin {"bound", "serving"}
      BY <3>1 DEF GrpcInv
    <3> QED
      BY <3>2, <3>3 DEF GrpcState
  <2>2. \A i \in GrpcServer : grpc[i] = "draining" => i = last
    BY DEF GrpcInv
  <2>3. \A i \in GrpcServer : grpc'[i] \in {"unserved", "stopped"}
    BY <1>0, <2>1, <2>2
  <2>4. \A c \in Client : conn[c] = 0
    BY <1>0, <2>1, <2>2 DEF GrpcInv
  <2> QED
    BY <1>0, <2>3, <2>4 DEF GrpcInv
<1>4. AdminInv'
  BY DEF AdminInv, StartInv, TypeOK, MainTypeOK, AdminTypeOK, last
<1>5. StopInv'
  BY <1>a, <1>0, Servers DEF StopInv, TypeOK, MainTypeOK, GrpcTypeOK, StartInv
<1>6. ReadyMatches'
  BY DEF ReadyMatches, StartInv, TypeOK, MainTypeOK, last
<1>7. EndExplained'
  BY <1>a, <1>0, Servers DEF EndExplained, TypeOK, MainTypeOK, GrpcTypeOK, StartInv, StopInv
<1> QED BY <1>1, <1>2, <1>3, <1>4, <1>5, <1>6, <1>7

LEMMA ReturnInv == ASSUME IInv, Return PROVE IInv'
<1> USE DEF IInv, Return, Goto, End, At, Alive, Over, Looping, Starting, loopVars, grpcVars, adminVars
<1>1. TypeOK'
  <2>1. MainTypeOK'
    BY DEF TypeOK, MainTypeOK
  <2>2. LoopTypeOK'
    BY DEF TypeOK, LoopTypeOK
  <2>3. GrpcTypeOK'
    BY DEF TypeOK, GrpcTypeOK
  <2>4. AdminTypeOK'
    BY DEF TypeOK, AdminTypeOK
  <2> QED BY <2>1, <2>2, <2>3, <2>4 DEF TypeOK
<1>2. StartInv'
  BY DEF StartInv, TypeOK, MainTypeOK, GrpcTypeOK, last
<1>3. GrpcInv'
  BY DEF GrpcInv, StartInv, TypeOK, MainTypeOK, GrpcTypeOK, last, GrpcServer
<1>4. AdminInv'
  BY DEF AdminInv, StartInv, TypeOK, MainTypeOK, AdminTypeOK, last
<1>5. StopInv'
  BY DEF StopInv, StartInv, TypeOK, MainTypeOK, last
<1>6. ReadyMatches'
  BY DEF ReadyMatches, StartInv, TypeOK, MainTypeOK, last
<1>7. EndExplained'
  BY <1>2 DEF EndExplained, StartInv, StopInv, TypeOK, MainTypeOK, last, GrpcServer
<1> QED BY <1>1, <1>2, <1>3, <1>4, <1>5, <1>6, <1>7

LEMMA RunAdminServerInv == ASSUME IInv, RunAdminServer PROVE IInv'
<1> USE DEF IInv, RunAdminServer, Goto, End, At, Alive, Over, Looping, Starting, loopVars, grpcVars, adminVars
<1>1. TypeOK'
  <2>1. MainTypeOK'
    BY DEF TypeOK, MainTypeOK
  <2>2. LoopTypeOK'
    BY DEF TypeOK, LoopTypeOK
  <2>3. GrpcTypeOK'
    BY DEF TypeOK, GrpcTypeOK
  <2>4. AdminTypeOK'
    BY DEF TypeOK, AdminTypeOK
  <2> QED BY <2>1, <2>2, <2>3, <2>4 DEF TypeOK
<1>2. StartInv'
  BY DEF StartInv, TypeOK, MainTypeOK, GrpcTypeOK, last
<1>3. GrpcInv'
  BY DEF GrpcInv, StartInv, TypeOK, MainTypeOK, GrpcTypeOK, last, GrpcServer
<1>4. AdminInv'
  BY DEF AdminInv, StartInv, TypeOK, MainTypeOK, AdminTypeOK, last
<1>5. StopInv'
  BY DEF StopInv, StartInv, TypeOK, MainTypeOK, last
<1>6. ReadyMatches'
  BY DEF ReadyMatches, StartInv, TypeOK, MainTypeOK, last
<1>7. EndExplained'
  BY <1>2 DEF EndExplained, StartInv, StopInv, TypeOK, MainTypeOK, last, GrpcServer
<1> QED BY <1>1, <1>2, <1>3, <1>4, <1>5, <1>6, <1>7

LEMMA ServeInv == ASSUME IInv, NEW i \in GrpcServer, Serve(i) PROVE IInv'
<1> USE DEF IInv, Serve, Goto, End, At, Alive, Over, Looping, Starting, loopVars, grpcVars, adminVars
<1>1. CASE pc' = pc /\ cause' = cause /\ grpc[i] = "bound"
          /\ grpc' = [grpc EXCEPT ![i] = "serving"]
  <2>0. /\ grpc' \in Seq(GrpcState) /\ last' = last /\ GrpcServer' = GrpcServer
        /\ \A j \in GrpcServer : grpc'[j] = IF j = i THEN "serving" ELSE grpc[j]
    BY <1>1, ServeKeeps
  <2>1. (MainTypeOK /\ LoopTypeOK /\ AdminTypeOK)'
    <3>1. MainTypeOK'
      BY <1>1 DEF TypeOK, MainTypeOK
    <3>2. LoopTypeOK'
      BY <1>1 DEF TypeOK, LoopTypeOK
    <3>3. AdminTypeOK'
      BY <1>1 DEF TypeOK, AdminTypeOK
    <3> QED
      BY <3>1, <3>2, <3>3
  <2>2. GrpcTypeOK'
    BY <1>1, <2>0, Servers DEF TypeOK, GrpcTypeOK
  <2>3. StartInv'
    BY <1>1, <2>0, Servers DEF StartInv, TypeOK, MainTypeOK, GrpcTypeOK
  <2>4. GrpcInv'
    <3>1. \A j \in GrpcServer : grpc'[j] # grpc[j] => j = i /\ grpc'[j] = "serving" /\ grpc[j] = "bound"
      BY <1>1, <2>0
    <3>2. i = last /\ \A c \in Client : conn[c] # i
      <4>1. i = last /\ grpc[i] = "bound"
        BY <1>1 DEF GrpcInv
      <4>2. i # 0
        BY Servers
      <4> QED
        BY <4>1, <4>2 DEF GrpcInv
    <3>3. \A c \in Client : conn[c] # 0 => conn[c] \in GrpcServer' /\ grpc'[conn[c]] \in {"serving", "draining"}
      BY <2>0, <3>1 DEF GrpcInv
    <3>4. \A j \in GrpcServer' : grpc'[j] \in {"bound", "serving", "draining"} => j = last'
      BY <2>0, <3>1, <3>2 DEF GrpcInv
    <3>5. \A j \in GrpcServer' : grpc'[j] \in {"bound", "serving"} =>
            \/ current /\ pc \notin {"start", "last drain", "return"}
            \/ pc \in {"stop"} \union Over
      BY <1>1, <2>0, <3>1 DEF GrpcInv
    <3>6. \A j \in GrpcServer' : grpc'[j] = "draining" => pc \in {"drain", "last drain"} \union Over
      BY <1>1, <2>0, <3>1 DEF GrpcInv
    <3> HIDE DEF Over
    <3> QED
      BY <1>1, <3>3, <3>4, <3>5, <3>6 DEF GrpcInv
  <2>5. AdminInv'
    BY <1>1, <2>0, Servers DEF AdminInv, StartInv, AdminTypeOK, TypeOK, MainTypeOK, GrpcTypeOK
  <2>6. StopInv'
    BY <1>1, <2>0, Servers DEF StopInv, StartInv, TypeOK, MainTypeOK, GrpcTypeOK
  <2>7. ReadyMatches'
    BY <1>1, <2>0, Servers DEF ReadyMatches, StartInv, LoopTypeOK, TypeOK, MainTypeOK, GrpcTypeOK
  <2>8. EndExplained'
    BY <1>1, <2>0, Servers DEF EndExplained, StartInv, StopInv, TypeOK, MainTypeOK, GrpcTypeOK
  <2> QED
    BY <2>1, <2>2, <2>3, <2>4, <2>5, <2>6, <2>7, <2>8 DEF TypeOK
<1>2. CASE pc' = "fatal" /\ cause' = "unserved" /\ grpc[i] = "unserved" /\ grpc' = grpc
  <2>1. (MainTypeOK /\ LoopTypeOK /\ AdminTypeOK)'
    <3>1. MainTypeOK'
      BY <1>2 DEF TypeOK, MainTypeOK
    <3>2. LoopTypeOK'
      BY <1>2 DEF TypeOK, LoopTypeOK
    <3>3. AdminTypeOK'
      BY <1>2 DEF TypeOK, AdminTypeOK
    <3> QED
      BY <3>1, <3>2, <3>3
  <2>2. GrpcTypeOK'
    BY <1>2 DEF TypeOK, GrpcTypeOK, last, GrpcServer
  <2>3. StartInv'
    BY <1>2 DEF StartInv, TypeOK, MainTypeOK, GrpcTypeOK, last, GrpcServer
  <2>4. GrpcInv'
    BY <1>2 DEF GrpcInv, StartInv, TypeOK, MainTypeOK, GrpcTypeOK, last, GrpcServer
  <2>5. AdminInv'
    BY <1>2 DEF AdminInv, StartInv, AdminTypeOK, TypeOK, MainTypeOK, GrpcTypeOK, last, GrpcServer
  <2>6. StopInv'
    BY <1>2 DEF StopInv, StartInv, TypeOK, MainTypeOK, GrpcTypeOK, last, GrpcServer
  <2>7. ReadyMatches'
    BY <1>2 DEF ReadyMatches, StartInv, LoopTypeOK, TypeOK, MainTypeOK, GrpcTypeOK, last, GrpcServer
  <2>8. EndExplained'
    BY <1>2 DEF EndExplained, StartInv, StopInv, TypeOK, MainTypeOK, GrpcTypeOK, last, GrpcServer
  <2> QED
    BY <2>1, <2>2, <2>3, <2>4, <2>5, <2>6, <2>7, <2>8 DEF TypeOK
<1> QED
  BY <1>1, <1>2

LEMMA PostInv == ASSUME IInv, NEW r \in Request, Post(r) PROVE IInv'
<1> USE DEF IInv, Post, Goto, End, At, Alive, Over, Looping, Starting, loopVars, grpcVars, adminVars
<1>1. TypeOK'
  <2>1. MainTypeOK'
    BY DEF TypeOK, MainTypeOK
  <2>2. LoopTypeOK'
    BY DEF TypeOK, LoopTypeOK
  <2>3. GrpcTypeOK'
    BY DEF TypeOK, GrpcTypeOK
  <2>4. AdminTypeOK'
    BY DEF TypeOK, AdminTypeOK
  <2> QED BY <2>1, <2>2, <2>3, <2>4 DEF TypeOK
<1>2. StartInv'
  BY DEF StartInv, TypeOK, MainTypeOK, GrpcTypeOK, last
<1>3. GrpcInv'
  BY DEF GrpcInv, StartInv, TypeOK, MainTypeOK, GrpcTypeOK, last, GrpcServer
<1>4. AdminInv'
  BY DEF AdminInv, StartInv, TypeOK, MainTypeOK, AdminTypeOK, last
<1>5. StopInv'
  BY DEF StopInv, StartInv, TypeOK, MainTypeOK, last
<1>6. ReadyMatches'
  BY DEF ReadyMatches, StartInv, TypeOK, MainTypeOK, last
<1>7. EndExplained'
  BY <1>2 DEF EndExplained, StartInv, StopInv, TypeOK, MainTypeOK, last, GrpcServer
<1> QED BY <1>1, <1>2, <1>3, <1>4, <1>5, <1>6, <1>7

LEMMA HandleReadyInv == ASSUME IInv, NEW r \in Request, NEW desired \in BOOLEAN, HandleReady(r, desired) PROVE IInv'
<1> USE DEF IInv, HandleReady, Handled, Goto, End, At, Alive, Over, Looping, Starting, loopVars, grpcVars, adminVars
<1>1. TypeOK'
  <2>1. MainTypeOK'
    BY DEF TypeOK, MainTypeOK
  <2>2. LoopTypeOK'
    BY DEF TypeOK, LoopTypeOK
  <2>3. GrpcTypeOK'
    BY DEF TypeOK, GrpcTypeOK
  <2>4. AdminTypeOK'
    BY DEF TypeOK, AdminTypeOK
  <2> QED BY <2>1, <2>2, <2>3, <2>4 DEF TypeOK
<1>2. StartInv'
  BY DEF AdminInv, StartInv, TypeOK, MainTypeOK, AdminTypeOK, last
<1>3. GrpcInv'
  BY DEF GrpcInv, StartInv, TypeOK, MainTypeOK, GrpcTypeOK, last, GrpcServer
<1>4. AdminInv'
  BY DEF AdminInv, StartInv, TypeOK, MainTypeOK, AdminTypeOK, last
<1>5. StopInv'
  <2>1. weboff = <<TRUE>> => weboff' = weboff
    <3>1. Len(<<TRUE>>) = 1 /\ Len(<<>>) = 0
      OBVIOUS
    <3>2. <<TRUE>> # <<>>
      BY <3>1
    <3> QED
      BY <3>2
  <2> QED
    BY <2>1 DEF AdminInv, StopInv, StartInv, TypeOK, MainTypeOK, AdminTypeOK, last
<1>6. ReadyMatches'
  <2>1. CASE ready # desired /\ weboff = <<>>
    <3>1. weboff' = <<desired>> /\ weboff'[1] = desired /\ ready' = desired
      BY <2>1
    <3> QED
      BY <2>1, <3>1 DEF ReadyMatches
  <2>2. CASE ~(ready # desired /\ weboff = <<>>)
    BY <2>2 DEF ReadyMatches
  <2> QED
    BY <2>1, <2>2
<1>7. EndExplained'
  BY <1>2 DEF EndExplained, StartInv, StopInv, TypeOK, MainTypeOK, last, GrpcServer
<1> QED BY <1>1, <1>2, <1>3, <1>4, <1>5, <1>6, <1>7

LEMMA ConnectInv == ASSUME IInv, NEW c \in Client, Connect(c) PROVE IInv'
<1> USE DEF IInv, Connect, Goto, End, At, Alive, Over, Looping, Starting, loopVars, grpcVars, adminVars
<1>1. TypeOK'
  <2>1. MainTypeOK'
    BY DEF TypeOK, MainTypeOK
  <2>2. LoopTypeOK'
    BY DEF TypeOK, LoopTypeOK
  <2>3. GrpcTypeOK'
    BY Servers DEF TypeOK, GrpcTypeOK
  <2>4. AdminTypeOK'
    BY DEF TypeOK, AdminTypeOK
  <2> QED BY <2>1, <2>2, <2>3, <2>4 DEF TypeOK
<1>2. StartInv'
  <2>1. PICK i \in GrpcServer : grpc[i] = "serving"
    OBVIOUS
  <2>2. last # 0
    BY <2>1, Servers
  <2>3. pc \notin {"load", "logging", "metrics", "upstream", "cache", "admin"}
    BY <2>2 DEF StartInv
  <2> QED
    BY <2>3 DEF StartInv, TypeOK, MainTypeOK
<1>3. GrpcInv'
  BY DEF GrpcInv, StartInv, TypeOK, MainTypeOK, GrpcTypeOK, last, GrpcServer
<1>4. AdminInv'
  BY DEF AdminInv, StartInv, TypeOK, MainTypeOK, AdminTypeOK, last
<1>5. StopInv'
  BY DEF StopInv, StartInv, TypeOK, MainTypeOK, last
<1>6. ReadyMatches'
  BY DEF ReadyMatches, StartInv, TypeOK, MainTypeOK, last
<1>7. EndExplained'
  BY <1>2 DEF EndExplained, StartInv, StopInv, TypeOK, MainTypeOK, last, GrpcServer
<1> QED BY <1>1, <1>2, <1>3, <1>4, <1>5, <1>6, <1>7

LEMMA DisconnectInv == ASSUME IInv, NEW c \in Client, Disconnect(c) PROVE IInv'
<1> USE DEF IInv, Disconnect, Goto, End, At, Alive, Over, Looping, Starting, loopVars, grpcVars, adminVars
<1>1. TypeOK'
  <2>1. MainTypeOK'
    BY DEF TypeOK, MainTypeOK
  <2>2. LoopTypeOK'
    BY DEF TypeOK, LoopTypeOK
  <2>3. GrpcTypeOK'
    BY DEF TypeOK, GrpcTypeOK
  <2>4. AdminTypeOK'
    BY DEF TypeOK, AdminTypeOK
  <2> QED BY <2>1, <2>2, <2>3, <2>4 DEF TypeOK
<1>2. StartInv'
  BY DEF StartInv, TypeOK, MainTypeOK, GrpcTypeOK, last
<1>3. GrpcInv'
  BY DEF GrpcInv, StartInv, TypeOK, MainTypeOK, GrpcTypeOK, last, GrpcServer
<1>4. AdminInv'
  BY DEF AdminInv, StartInv, TypeOK, MainTypeOK, AdminTypeOK, last
<1>5. StopInv'
  BY DEF StopInv, StartInv, TypeOK, MainTypeOK, last
<1>6. ReadyMatches'
  BY DEF ReadyMatches, StartInv, TypeOK, MainTypeOK, last
<1>7. EndExplained'
  BY <1>2 DEF EndExplained, StartInv, StopInv, TypeOK, MainTypeOK, last, GrpcServer
<1> QED BY <1>1, <1>2, <1>3, <1>4, <1>5, <1>6, <1>7

LEMMA OpenStreamInv == ASSUME IInv, NEW c \in Client, OpenStream(c) PROVE IInv'
<1> USE DEF IInv, OpenStream, Goto, End, At, Alive, Over, Looping, Starting, loopVars, grpcVars, adminVars
<1>1. TypeOK'
  <2>1. MainTypeOK'
    BY DEF TypeOK, MainTypeOK
  <2>2. LoopTypeOK'
    BY DEF TypeOK, LoopTypeOK
  <2>3. GrpcTypeOK'
    BY DEF TypeOK, GrpcTypeOK
  <2>4. AdminTypeOK'
    BY DEF TypeOK, AdminTypeOK
  <2> QED BY <2>1, <2>2, <2>3, <2>4 DEF TypeOK
<1>2. StartInv'
  BY DEF StartInv, TypeOK, MainTypeOK, GrpcTypeOK, last
<1>3. GrpcInv'
  BY DEF GrpcInv, StartInv, TypeOK, MainTypeOK, GrpcTypeOK, last, GrpcServer
<1>4. AdminInv'
  BY DEF AdminInv, StartInv, TypeOK, MainTypeOK, AdminTypeOK, last
<1>5. StopInv'
  BY DEF StopInv, StartInv, TypeOK, MainTypeOK, last
<1>6. ReadyMatches'
  BY DEF ReadyMatches, StartInv, TypeOK, MainTypeOK, last
<1>7. EndExplained'
  <2>1. boot.origin_server.stream_timeout_jitter.nanos < 0
    BY DEF JitterPanics, StringToDuration
  <2> QED
    BY <2>1 DEF EndExplained
<1> QED BY <1>1, <1>2, <1>3, <1>4, <1>5, <1>6, <1>7

LEMMA KillInv == ASSUME IInv, Kill PROVE IInv'
<1> USE DEF IInv, Kill, Goto, End, At, Alive, Over, Looping, Starting, loopVars, grpcVars, adminVars
<1>1. TypeOK'
  <2>1. MainTypeOK'
    BY DEF TypeOK, MainTypeOK
  <2>2. LoopTypeOK'
    BY DEF TypeOK, LoopTypeOK
  <2>3. GrpcTypeOK'
    BY DEF TypeOK, GrpcTypeOK
  <2>4. AdminTypeOK'
    BY DEF TypeOK, AdminTypeOK
  <2> QED BY <2>1, <2>2, <2>3, <2>4 DEF TypeOK
<1>2. StartInv'
  BY DEF StartInv, TypeOK, MainTypeOK, GrpcTypeOK, last
<1>3. GrpcInv'
  BY DEF GrpcInv, StartInv, TypeOK, MainTypeOK, GrpcTypeOK, last, GrpcServer
<1>4. AdminInv'
  BY DEF AdminInv, StartInv, TypeOK, MainTypeOK, AdminTypeOK, last
<1>5. StopInv'
  BY DEF StopInv, StartInv, TypeOK, MainTypeOK, last
<1>6. ReadyMatches'
  BY DEF ReadyMatches, StartInv, TypeOK, MainTypeOK, last
<1>7. EndExplained'
  BY <1>2 DEF EndExplained, StartInv, StopInv, TypeOK, MainTypeOK, last, GrpcServer
<1> QED BY <1>1, <1>2, <1>3, <1>4, <1>5, <1>6, <1>7

\* The invariant holds at first, and no step of the process, of its clients or
\* of a request breaks it.
LEMMA InitInv == ASSUME Init PROVE IInv
<1>1. TypeOK
  <2>1. MainTypeOK
    BY DEF Init, MainTypeOK, Starting
  <2>2. LoopTypeOK
    BY DEF Init, LoopTypeOK
  <2>3. GrpcTypeOK
    BY DEF Init, GrpcTypeOK
  <2>4. AdminTypeOK
    BY DEF Init, AdminTypeOK
  <2> QED
    BY <2>1, <2>2, <2>3, <2>4 DEF TypeOK
<1>2. last = 0 /\ GrpcServer = {}
  BY DEF Init, last, GrpcServer
<1> QED
  BY <1>1, <1>2 DEF Init, IInv, StartInv, GrpcInv, AdminInv, StopInv, ReadyMatches, EndExplained,
                    Starting, Looping, Over, At

LEMMA StutterInv == ASSUME IInv, UNCHANGED vars PROVE IInv'
<1> USE DEF IInv, vars, loopVars, grpcVars, adminVars, At
<1>1. TypeOK'
  <2>1. MainTypeOK' /\ LoopTypeOK'
    BY DEF TypeOK, MainTypeOK, LoopTypeOK
  <2>2. GrpcTypeOK' /\ AdminTypeOK'
    BY DEF TypeOK, GrpcTypeOK, AdminTypeOK
  <2> QED
    BY <2>1, <2>2 DEF TypeOK
<1>2. StartInv' /\ GrpcInv'
  BY DEF StartInv, GrpcInv, last, GrpcServer
<1>3. AdminInv' /\ StopInv' /\ ReadyMatches' /\ EndExplained'
  BY DEF AdminInv, StopInv, ReadyMatches, EndExplained, last, GrpcServer
<1> QED
  BY <1>1, <1>2, <1>3

LEMMA StepInv == ASSUME IInv, Next PROVE IInv'
<1>1. CASE StartUp
  BY <1>1, LoadInv, InitLoggerInv, InitMetricsInv, InitUpstreamInv, InitOrchestratorInv, SetUpInv
     DEF StartUp
<1>2. CASE Loop
  BY <1>2, TakeDemandInv, StartServerInv, StopServerInv, FinishStopInv, SignalInv, CloseAdminInv,
     AdminClosedInv, CancelInv, FinishLastStopInv, ReturnInv DEF Loop
<1>3. CASE RunAdminServer \/ Kill
  BY <1>3, RunAdminServerInv, KillInv
<1>4. ASSUME NEW i \in GrpcServer, Serve(i) PROVE IInv'
  BY <1>4, ServeInv
<1>5. ASSUME NEW r \in Request, NEW desired \in BOOLEAN, Post(r) \/ HandleReady(r, desired) PROVE IInv'
  BY <1>5, PostInv, HandleReadyInv
<1>6. ASSUME NEW c \in Client, Connect(c) \/ Disconnect(c) \/ OpenStream(c) PROVE IInv'
  BY <1>6, ConnectInv, DisconnectInv, OpenStreamInv
<1> QED
  BY <1>1, <1>2, <1>3, <1>4, <1>5, <1>6 DEF Next

LEMMA Invariance == Spec => []IInv
<1>1. Init => IInv
  BY InitInv
<1>2. IInv /\ [Next]_vars => IInv'
  BY StepInv, StutterInv
<1> QED
  BY <1>1, <1>2, PTL DEF Spec

\* Every variable keeps its type; weboff never holds more than one demand.
THEOREM ServerTypeCorrect == Spec => []TypeOK
<1>1. IInv => TypeOK
  BY DEF IInv
<1> QED
  BY <1>1, Invariance, PTL

\* The start-up of a configuration that Validate accepts dereferences no
\* message that is not there, whatever the configurations are.
THEOREM ValidatedStarts == Spec => []AcceptedStarts
<1>1. IInv => AcceptedStarts
  BY DEF IInv, StartInv, AcceptedStarts
<1> QED
  BY <1>1, Invariance, PTL

\* However the POSTs to the ready handler and the steps of main interleave,
\* the answer of the handler is the demand main acted on last, or will act on.
THEOREM ReadyAnswers == Spec => []ReadyMatches
<1>1. IInv => ReadyMatches
  BY DEF IInv
<1> QED
  BY <1>1, Invariance, PTL

\* Back in the select of its loop, main has waited for the streams of every
\* server it stopped, and only the last one accepts.
THEOREM StopsDrain == Spec => []StoppedMeansDrained
<1>1. ASSUME IInv, At("select") PROVE StoppedMeansDrained
  <2>1. \A i \in GrpcServer : grpc[i] # "draining"
    BY <1>1 DEF IInv, GrpcInv, At, Over
  <2>2. \A i \in GrpcServer : grpc[i] \in {"bound", "serving"} => current /\ i = last
    BY <1>1 DEF IInv, GrpcInv, At, Over
  <2>3. \A c \in Client : conn[c] # 0 => grpc[conn[c]] = "serving"
    BY <1>1, <2>1 DEF IInv, GrpcInv
  <2> QED
    BY <2>2, <2>3 DEF StoppedMeansDrained
<1>2. IInv => StoppedMeansDrained
  BY <1>1 DEF StoppedMeansDrained
<1> QED
  BY <1>2, Invariance, PTL

\* No handler of the admin server is under way once weboff is closed.
THEOREM WeboffSafe == Spec => []NoSendOnClosed
<1>1. IInv => NoSendOnClosed
  BY DEF IInv, AdminInv, NoSendOnClosed, At, TypeOK, MainTypeOK
<1> QED
  BY <1>1, Invariance, PTL

\* How the process may end.
THEOREM EndsExplained == Spec => []EndExplained
<1>1. IInv => EndExplained
  BY DEF IInv
<1> QED
  BY <1>1, Invariance, PTL
=============================================================================
