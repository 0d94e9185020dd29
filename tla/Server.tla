------------------------------- MODULE Server -------------------------------
(***************************************************************************)
(* The process: the command line (main.go), the start-up of its parts      *)
(* (RunWithContext), the loop that starts and stops the gRPC server on the *)
(* demand of the admin server's ready handler, and its end by a signal.    *)
(*                                                                         *)
(* The goroutines are main; one startServer per gRPC server, which calls   *)
(* Serve; RunAdminServer; and one per request of the admin server.  A      *)
(* client is one with a stream open; the streams end when the client       *)
(* leaves, or when the context is cancelled.                               *)
(*                                                                         *)
(* External, from how the code uses them: grpc.Server (GracefulStop closes *)
(* the listener that Serve was given and waits for the connections; Serve  *)
(* after it fails), http.Server (Shutdown waits for the handlers that run).*)
(***************************************************************************)
EXTENDS Bootstrap, Sequences

CONSTANTS
    Client,     \* downstream clients
    Request,    \* POSTs to the ready handler
    Boot,       \* the bootstrap configurations a file may hold
    Refused     \* whether a port to listen on may be taken by another process

ASSUME ServerAssumption ==
    /\ Nil \notin Boot     \* the file is read into a message, which is there
    /\ Refused \in BOOLEAN

VARIABLES
    boot,       \* the bootstrap configuration
    mode,       \* the flag --mode
    pc,         \* the step of main; "fatal", "panic" and "returned" end the process
    cause,      \* why it ended
    weboff,     \* the channel weboff, of capacity 1
    closed,     \* weboff is closed
    current,    \* currentState
    grpc,       \* grpc[i]: the state of the i-th gRPC server made
    conn,       \* conn[c]: the gRPC server client c has a stream with, or 0
    sigs,       \* the channel sigs holds a signal
    cancelled,  \* the context is cancelled
    admin,      \* the admin server: "off", "up" or "down"
    req,        \* req[r]: "new", "active" in the handler, or "done"
    ready       \* the variable ready of the ready handler

loopVars == <<weboff, closed, current, sigs, cancelled>>
grpcVars == <<grpc, conn>>
adminVars == <<admin, req, ready>>
vars == <<boot, mode, pc, cause, loopVars, grpcVars, adminVars>>

\* The variable server is the last gRPC server made, or nil when last is 0.
GrpcState == {"bound", "serving", "unserved", "draining", "stopped"}
GrpcServer == DOMAIN grpc
last == Len(grpc)

Init ==
    /\ boot \in Boot
    /\ mode \in {"serve", "validate", "other"}
    /\ pc = "load" /\ cause = "none"
    /\ weboff = <<>> /\ closed = FALSE
    /\ current = FALSE
    /\ grpc = <<>>
    /\ conn = [c \in Client |-> 0]
    /\ sigs = FALSE /\ cancelled = FALSE
    /\ admin = "off"
    /\ req = [r \in Request |-> "new"]
    /\ ready = TRUE

Starting == {"load", "logging", "metrics", "upstream", "cache", "admin"}
Looping == {"select", "start", "stop", "drain", "shutdown", "cancel", "last drain", "return"}
Over == {"fatal", "panic", "returned"}
Alive == pc \notin Over
At(step) == pc = step
Goto(step) == pc' = step /\ UNCHANGED cause
End(how, why) == pc' = how /\ cause' = why

-----------------------------------------------------------------------------
(***************************************************************************)
(* Start-up: main.go, and RunWithContext up to its loop.                   *)
(***************************************************************************)
\* Reading and translating the files; rules stands for what
\* FromYAMLToKeyerConfiguration answers.
Load ==
    /\ At("load")
    /\ \/ End("fatal", "file")
       \/ /\ ValidBootstrap(boot) /\ mode \in {"serve", "validate"}
          /\ Goto("logging")
       \/ /\ ~ValidBootstrap(boot) \/ mode = "other"
          /\ End("fatal", "configuration")
    /\ UNCHANGED <<boot, mode, loopVars, grpcVars, adminVars>>

\* A step that reads a field of m, which may be nil, and then goes on or fails.
Reading(step, m, next) ==
    /\ At(step)
    /\ IF m = Nil THEN End("panic", "unchecked") ELSE next
    /\ UNCHANGED <<boot, mode, loopVars, grpcVars, adminVars>>

\* The log file may be one that cannot be created.
InitLogger ==
    Reading("logging", boot.logging,
        Goto("metrics") \/ (boot.logging.path # "" /\ End("panic", "environment")))

\* The client resolves the address of the sink.
InitMetrics ==
    LET statsd == boot.metrics_sink.statsd IN
    Reading("metrics", boot.metrics_sink,
        IF statsd = Nil \/ statsd.address = Nil \/ statsd.flush_interval = Nil
        THEN End("panic", "unchecked")
        ELSE Goto("upstream") \/ End("panic", "environment"))

InitUpstream ==
    LET up == boot.origin_server IN
    Reading("upstream", up,
        IF up.address = Nil THEN End("panic", "unchecked")
        ELSE IF Parses(up.stream_timeout) /\ Parses(up.stream_timeout_jitter) /\ Parses(up.keep_alive_time)
             THEN Goto("cache") ELSE End("panic", "duration"))

\* orchestrator.New converts the TTL again and checks that it is not negative.
InitOrchestrator ==
    Reading("cache", boot.cache,
        IF boot.cache.ttl = Nil \/ ~ValidDuration(boot.cache.ttl)
        THEN End("panic", "unchecked") ELSE Goto("admin"))

\* Mutant: the channel is made empty, and the first server awaits a POST.
SetUpEmptyQueue ==
    /\ At("admin")
    /\ IF boot.admin = Nil \/ boot.server = Nil THEN End("panic", "unchecked")
       ELSE IF boot.admin.address = Nil \/ boot.server.address = Nil THEN End("panic", "unchecked")
       ELSE Goto(IF mode = "serve" THEN "select" ELSE "return")
    /\ weboff' = <<>>
    /\ UNCHANGED <<boot, mode, closed, current, sigs, cancelled, grpcVars, adminVars>>
\* The admin server, weboff with the first demand in it, and the handlers; a
\* run that only validates is over.
SetUp ==
    /\ At("admin")
    /\ IF boot.admin = Nil \/ boot.server = Nil THEN End("panic", "unchecked")
       ELSE IF boot.admin.address = Nil \/ boot.server.address = Nil THEN End("panic", "unchecked")
       ELSE Goto(IF mode = "serve" THEN "select" ELSE "return")
    /\ weboff' = <<TRUE>>
    /\ UNCHANGED <<boot, mode, closed, current, sigs, cancelled, grpcVars, adminVars>>

StartUp == Load \/ InitLogger \/ InitMetrics \/ InitUpstream \/ InitOrchestrator \/ SetUp

-----------------------------------------------------------------------------
(***************************************************************************)
(* The loop of RunWithContext.                                             *)
(***************************************************************************)
\* Mutant: once the server has been taken out of service it stays so.
TakeDemandOnce ==
    /\ At("select") /\ weboff # <<>>
    /\ weboff' = <<>>
    /\ IF weboff[1] = current \/ (last # 0 /\ weboff[1])
       THEN UNCHANGED <<pc, cause, current>>
       ELSE current' = weboff[1] /\ Goto(IF weboff[1] THEN "start" ELSE "stop")
    /\ UNCHANGED <<boot, mode, closed, sigs, cancelled, grpcVars, adminVars>>
\* case state := <-weboff
TakeDemand ==
    /\ At("select") /\ weboff # <<>>
    /\ weboff' = <<>>
    /\ IF weboff[1] = current
       THEN UNCHANGED <<pc, cause, current>>
       ELSE current' = weboff[1] /\ Goto(IF weboff[1] THEN "start" ELSE "stop")
    /\ UNCHANGED <<boot, mode, closed, sigs, cancelled, grpcVars, adminVars>>

\* The port is free but for another process, or a listener of this one that no
\* Serve has closed yet.
Listen(next) ==
    \/ /\ \A i \in GrpcServer : grpc[i] \notin {"bound", "unserved"}
       /\ next
    \/ /\ Refused
       /\ End("fatal", "bind") /\ UNCHANGED grpcVars
    \/ /\ \E i \in GrpcServer : grpc[i] \in {"bound", "unserved"}
       /\ End("fatal", "unserved") /\ UNCHANGED grpcVars

\* NewServer, registerEndpoints, net.Listen, and the start of startServer.
StartServer ==
    /\ At("start")
    /\ Listen(/\ grpc' = Append(grpc, "bound")
              /\ UNCHANGED conn
              /\ Goto("select"))
    /\ UNCHANGED <<boot, mode, loopVars, adminVars>>

\* startServer: Serve fails when GracefulStop came first.
Serve(i) ==
    /\ Alive
    /\ \/ /\ grpc[i] = "bound"
          /\ grpc' = [grpc EXCEPT ![i] = "serving"]
          /\ UNCHANGED <<pc, cause>>
       \/ /\ grpc[i] = "unserved"
          /\ End("fatal", "unserved")
          /\ UNCHANGED grpc
    /\ UNCHANGED <<boot, mode, loopVars, conn, adminVars>>

\* GracefulStop up to its wait, of a server that serves, that does not yet, or
\* that was stopped before.
Refusing(state) ==
    IF state = "serving" THEN "draining" ELSE IF state = "bound" THEN "unserved" ELSE state
StopAccepting == grpc' = IF last = 0 THEN grpc ELSE [grpc EXCEPT ![last] = Refusing(@)]

\* for state false; the nil server is that of a demand before the first.
StopServer ==
    /\ At("stop")
    /\ StopAccepting
    /\ IF last = 0 THEN End("panic", "no server") ELSE Goto("drain")
    /\ UNCHANGED <<boot, mode, loopVars, conn, adminVars>>

Drained(next) ==
    /\ grpc[last] = "draining" => \A c \in Client : conn[c] # last
    /\ grpc' = [grpc EXCEPT ![last] = IF @ = "draining" THEN "stopped" ELSE @]
    /\ Goto(next)
    /\ UNCHANGED <<boot, mode, loopVars, conn, adminVars>>

\* Mutant: GracefulStop is not waited for.
FinishStopAtOnce == At("drain") /\ Goto("select") /\ UNCHANGED <<boot, mode, loopVars, grpcVars, adminVars>>
\* GracefulStop returns.
FinishStop == At("drain") /\ Drained("select")

-----------------------------------------------------------------------------
(***************************************************************************)
(* case sig := <-sigs                                                      *)
(***************************************************************************)
Signal ==
    /\ At("select") /\ sigs
    /\ sigs' = FALSE
    /\ Goto("shutdown")
    /\ UNCHANGED <<boot, mode, weboff, closed, current, cancelled, grpcVars, adminVars>>

\* adminServer.Shutdown: no request from now on; it returns when none is
\* being handled.
CloseAdmin ==
    /\ At("shutdown") /\ admin # "down"
    /\ admin' = "down"
    /\ UNCHANGED <<boot, mode, pc, cause, loopVars, grpcVars, req, ready>>

\* Mutant: the handlers under way are not waited for.
AdminClosedAtOnce ==
    /\ At("shutdown") /\ admin = "down"
    /\ Goto("cancel")
    /\ UNCHANGED <<boot, mode, loopVars, grpcVars, adminVars>>
AdminClosed ==
    /\ At("shutdown") /\ admin = "down"
    /\ \A r \in Request : req[r] # "active"
    /\ Goto("cancel")
    /\ UNCHANGED <<boot, mode, loopVars, grpcVars, adminVars>>

\* Mutant: the context is left to the deferred cancel.
CancelDeferred ==
    /\ At("cancel")
    /\ StopAccepting
    /\ IF last = 0 THEN End("panic", "no server") ELSE Goto("last drain")
    /\ UNCHANGED <<boot, mode, loopVars, conn, adminVars>>
\* cancel() and GracefulStop of the server, which is nil before the first demand.
Cancel ==
    /\ At("cancel")
    /\ cancelled' = TRUE
    /\ StopAccepting
    /\ IF last = 0 THEN End("panic", "no server") ELSE Goto("last drain")
    /\ UNCHANGED <<boot, mode, weboff, closed, current, sigs, conn, adminVars>>

FinishLastStop == At("last drain") /\ Drained("return")

\* return: the deferred calls close weboff.
Return ==
    /\ At("return")
    /\ closed' = TRUE
    /\ End("returned", "none")
    /\ UNCHANGED <<boot, mode, weboff, current, sigs, cancelled, grpcVars, adminVars>>

Loop ==
    \/ TakeDemand \/ StartServer \/ StopServer \/ FinishStop
    \/ Signal \/ CloseAdmin \/ AdminClosed \/ Cancel \/ FinishLastStop
    \/ Return

-----------------------------------------------------------------------------
(***************************************************************************)
(* The other goroutines.                                                   *)
(***************************************************************************)
\* RunAdminServer, started with the loop; ListenAndServe fails, with an error
\* that is no failure, when Shutdown came first.
RunAdminServer ==
    /\ pc \in Looping /\ mode = "serve"
    /\ admin = "off"
    /\ \/ admin' = "up" /\ UNCHANGED <<pc, cause>>
       \/ Refused /\ End("fatal", "bind") /\ UNCHANGED admin
    /\ UNCHANGED <<boot, mode, loopVars, grpcVars, req, ready>>

\* A POST to /ready/true or /ready/false comes in.
Post(r) ==
    /\ Alive /\ admin = "up"
    /\ req[r] = "new"
    /\ req' = [req EXCEPT ![r] = "active"]
    /\ UNCHANGED <<boot, mode, pc, cause, loopVars, grpcVars, admin, ready>>

Handled(r) == Alive /\ req[r] = "active" /\ req' = [req EXCEPT ![r] = "done"]

\* Mutant: ready is set although weboff had no room.
HandleReadyRegardless(r, desired) ==
    /\ Handled(r)
    /\ IF ready # desired
       THEN weboff' = (IF weboff = <<>> THEN <<desired>> ELSE weboff) /\ ready' = desired
       ELSE UNCHANGED <<weboff, ready>>
    /\ UNCHANGED <<boot, mode, pc, cause, closed, current, sigs, cancelled, grpcVars, admin>>
\* readyHandler, POST: with mu held, so one at a time.  A demand that finds
\* weboff full is answered with an error.
HandleReady(r, desired) ==
    /\ Handled(r)
    /\ IF ready # desired /\ weboff = <<>>
       THEN weboff' = <<desired>> /\ ready' = desired
       ELSE UNCHANGED <<weboff, ready>>
    /\ UNCHANGED <<boot, mode, pc, cause, closed, current, sigs, cancelled, grpcVars, admin>>

-----------------------------------------------------------------------------
(***************************************************************************)
(* The environment: clients and signals.                                   *)
(***************************************************************************)
Connect(c) ==
    /\ Alive /\ conn[c] = 0
    /\ \E i \in GrpcServer : grpc[i] = "serving" /\ conn' = [conn EXCEPT ![c] = i]
    /\ UNCHANGED <<boot, mode, pc, cause, loopVars, grpc, adminVars>>

Disconnect(c) ==
    /\ Alive /\ conn[c] # 0
    /\ conn' = [conn EXCEPT ![c] = 0]
    /\ UNCHANGED <<boot, mode, pc, cause, loopVars, grpc, adminVars>>

\* The server of the streams ends them when its context is done.
EndStream(c) == cancelled /\ Disconnect(c)

\* The first request of a client opens an upstream stream.
OpenStream(c) ==
    /\ Alive /\ conn[c] # 0
    /\ JitterPanics(boot.origin_server)
    /\ End("panic", "jitter")
    /\ UNCHANGED <<boot, mode, loopVars, grpcVars, adminVars>>

\* SIGINT or SIGTERM, once signal.Notify was called.
Kill ==
    /\ pc \in Looping /\ mode = "serve" /\ ~sigs
    /\ sigs' = TRUE
    /\ UNCHANGED <<boot, mode, pc, cause, weboff, closed, current, cancelled, grpcVars, adminVars>>

Next ==
    \/ StartUp \/ Loop \/ RunAdminServer
    \/ \E i \in GrpcServer : Serve(i)
    \/ \E r \in Request : Post(r)
    \/ \E r \in Request, desired \in BOOLEAN : HandleReady(r, desired)
    \/ \E c \in Client : Connect(c) \/ Disconnect(c) \/ OpenStream(c)
    \/ Kill

Spec == Init /\ [][Next]_vars

\* Goroutines run.  Of the two cases of the select main takes each in the end
\* when both stay ready (it picks one at random), so that a signal is not put
\* off for ever by demands; clients need not leave.
Fairness ==
    /\ WF_vars(StartUp) /\ WF_vars(Loop) /\ SF_vars(Signal)
    /\ WF_vars(\E i \in GrpcServer : Serve(i))
    /\ \A r \in Request : WF_vars(\E desired \in BOOLEAN : HandleReady(r, desired))
    /\ \A c \in Client : WF_vars(EndStream(c))

FairSpec == Spec /\ Fairness

-----------------------------------------------------------------------------
(***************************************************************************)
(* Properties.                                                             *)
(***************************************************************************)
\* The variables keep their types; weboff has room for one demand.
MainTypeOK ==
    /\ boot \in Boot /\ mode \in {"serve", "validate", "other"}
    /\ pc \in Starting \union Looping \union Over
    /\ cause \in {"none", "file", "configuration", "unchecked", "environment", "duration",
                  "bind", "unserved", "no server", "jitter"}
LoopTypeOK ==
    /\ weboff \in {<<>>, <<TRUE>>, <<FALSE>>}
    /\ closed \in BOOLEAN /\ current \in BOOLEAN /\ sigs \in BOOLEAN /\ cancelled \in BOOLEAN
GrpcTypeOK ==
    /\ grpc \in Seq(GrpcState)
    /\ conn \in [Client -> Nat]
AdminTypeOK ==
    /\ admin \in {"off", "up", "down"}
    /\ req \in [Request -> {"new", "active", "done"}]
    /\ ready \in BOOLEAN
TypeOK == MainTypeOK /\ LoopTypeOK /\ GrpcTypeOK /\ AdminTypeOK

\* A configuration that Validate accepts gives the start-up everything it
\* reads without a check: no nil message is dereferenced (server.go:62-131),
\* and the cache takes its TTL.
AcceptedStarts == cause # "unchecked"

\* The answer of the ready handler is the demand main will act on next, or the
\* one it acted on last: no demand that was answered with 200 is dropped, and
\* none is one that main would ignore (server.go:147).
ReadyMatches ==
    pc \in Looping /\ mode = "serve" =>
        /\ ready = IF weboff = <<>> THEN current ELSE weboff[1]
        /\ weboff # <<>> => weboff[1] # current

\* Out of service, and back in the select, the process accepts nobody and has
\* waited for the streams it had; in service exactly the last server accepts.
\* No demand and no signal finds a server half stopped.
StoppedMeansDrained ==
    At("select") =>
        /\ \A i \in GrpcServer : grpc[i] \in {"bound", "serving"} => current /\ i = last
        /\ \A c \in Client : conn[c] # 0 => grpc[conn[c]] = "serving"

\* The handlers of the admin server are over when weboff is closed: none sends
\* on it (server.go:128, ready.go:42).
NoSendOnClosed == closed => \A r \in Request : req[r] # "active"

\* Once it loops, the process ends but for a signal only by a taken port, a
\* server stopped before Serve was called, or a jitter below zero, which
\* Validate accepts; and by a signal it panics only before the first demand.
EndExplained ==
    /\ At("fatal") => cause \in {"file", "configuration", "bind", "unserved"}
    /\ At("panic") =>
        \/ /\ cause \in {"environment", "duration"} /\ last = 0
        \/ /\ cause = "no server" /\ weboff = <<TRUE>> /\ last = 0
        \/ /\ cause = "jitter"
           /\ boot.origin_server.stream_timeout_jitter.nanos < 0
    /\ cause = "unserved" => \E i \in GrpcServer : grpc[i] = "unserved"
    /\ At("returned") => mode = "validate" \/ cancelled

\* While the ready handler says that the relay is in service it is, or will be,
\* unless the handler is told otherwise, a stop is waiting for the clients of
\* the server before, or the process is ending.
Ending == {"shutdown", "cancel", "last drain", "return"} \union Over
Stopping == At("drain") /\ \E c \in Client : conn[c] = last
ReadyServed ==
    (At("select") /\ ready) ~>
        \/ \E i \in GrpcServer : i = last /\ grpc[i] = "serving"
        \/ ~ready \/ Stopping \/ sigs \/ pc \in Ending

\* A signal ends the process, however many clients are connected, unless it
\* comes while a demand waits for clients who do not leave.
SignalStops == sigs ~> ~Alive \/ Stopping
-----------------------------------------------------------------------------
(***************************************************************************)
(* The inductive invariant of ServerProofs, in parts.                      *)
(***************************************************************************)
\* Before the loop nothing has happened; and past Load the configuration is valid.
StartInv ==
    /\ pc \in Starting =>
        /\ weboff = <<>> /\ ~current /\ ready /\ last = 0 /\ admin = "off"
        /\ \A c \in Client : conn[c] = 0
    /\ pc \in (Starting \union Looping) \ {"load"} =>
        ValidBootstrap(boot) /\ mode \in {"serve", "validate"}
    /\ cause # "unchecked"

\* Only the last server is not over, and main knows in what state it is.
GrpcInv ==
    /\ \A i \in GrpcServer : grpc[i] \in {"bound", "serving", "draining"} => i = last
    /\ \A i \in GrpcServer :
        grpc[i] \in {"bound", "serving"} =>
            \/ current /\ pc \notin {"start", "last drain", "return"}
            \/ pc \in {"stop"} \union Over
    /\ \A i \in GrpcServer : grpc[i] = "draining" => pc \in {"drain", "last drain"} \union Over
    /\ \A c \in Client : conn[c] # 0 =>
        conn[c] \in GrpcServer /\ grpc[conn[c]] \in {"serving", "draining"}
    /\ At("start") => current
    /\ pc \in {"stop", "drain"} => ~current

\* The handlers are over once Shutdown has returned.
AdminInv ==
    /\ mode # "serve" => admin = "off"
    /\ admin = "off" => \A r \in Request : req[r] = "new"
    /\ mode = "serve" /\ pc \in {"cancel", "last drain", "return", "returned"} =>
        admin = "down" /\ \A r \in Request : req[r] # "active"
    /\ closed => At("returned")

\* What main takes for granted when it stops a server, and when it returns.
StopInv ==
    /\ mode # "serve" => pc \in Starting \union {"return"} \union Over /\ last = 0
    /\ mode = "serve" /\ pc \in {"select", "shutdown", "cancel"} /\ last = 0 => weboff = <<TRUE>>
    /\ pc \in {"stop", "drain", "last drain"} => last # 0
    /\ pc \in {"last drain", "return", "returned"} => mode = "validate" \/ cancelled

IInv ==
    /\ TypeOK
    /\ StartInv /\ GrpcInv /\ AdminInv /\ StopInv
    /\ ReadyMatches /\ EndExplained
=============================================================================
