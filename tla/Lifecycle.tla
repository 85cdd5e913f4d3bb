------------------------------- MODULE Lifecycle -------------------------------
(*****************************************************************************)
(* The process (main.go): main starts the task processor, the HTTP gateway   *)
(* and the gRPC server, then waits for the five goroutines of its errgroup.  *)
(* A signal, or the first goroutine that returns an error, cancels the       *)
(* context; one goroutine per component then shuts it down.                  *)
(*                                                                           *)
(* The two goroutines of the gateway assign one captured variable, err,      *)
(* without synchronisation (lines 203-209 and 220-223).  A read that races   *)
(* gives the goroutine the value it assigned last, which the compiler may    *)
(* have kept in a register, or the one in memory.                            *)
(*****************************************************************************)
EXTENDS Naturals, FiniteSets

CONSTANTS
  Requests,  \* bound: the requests clients send
  Faults     \* what may go wrong: a subset of {"start", "listen", "accept"}

ASSUME FaultsAssumption == Faults \subseteq {"start", "listen", "accept"}

VARIABLES
  main,      \* what main does next
  pc,        \* where a goroutine stands
  signal,    \* one of interruptSignals has arrived
  listening, \* the servers that accept connections
  stopped,   \* the servers told to shut down
  request,   \* a request: "new", the server that handles it, or "done"
  err,       \* the err of runGatewayServer, in memory
  own,       \* the value a goroutine of the gateway assigned last
  groupErr,  \* the errgroup's error: the first one returned
  exit,      \* how the process ended: "no", "clean", "fatal"
  failed     \* history: the components that failed

vars == <<main, pc, signal, listening, stopped, request, err, own, groupErr,
          exit, failed>>

Servers == {"gateway", "grpc"}
Components == Servers \cup {"worker"}
Serve(s) == <<"serve", s>>
Stop(s) == <<"stop", s>>
Worker == <<"stop", "worker">>
Goroutines == {Worker} \cup {Serve(s) : s \in Servers} \cup {Stop(s) : s \in Servers}

Errors == {"nil", "ErrServerClosed", "failure"}

\* Where goroutine g can stand once it runs and before it returns.
Stages(g) ==
  CASE g = Worker -> {"start"}
    [] g = Serve("gateway") -> {"start", "serving", "test", "match", "report"}
    [] g = Stop("gateway") -> {"start", "stopping", "test", "report"}
    [] g = Serve("grpc") -> {"start", "serving"}
    [] g = Stop("grpc") -> {"start", "stopping"}

TypeOK ==
  /\ main \in {"worker", "gateway", "grpc", "wait", "ended"}
  /\ pc \in [Goroutines -> {"none", "start", "serving", "stopping", "test",
                            "match", "report", "returned"}]
  /\ \A g \in Goroutines : pc[g] \in {"none", "returned"} \cup Stages(g)
  /\ signal \in BOOLEAN
  /\ listening \subseteq Servers \ stopped
  /\ stopped \subseteq Servers
  /\ request \in [Requests -> Servers \cup {"new", "done"}]
  /\ err \in Errors
  /\ own \in [{Serve("gateway"), Stop("gateway")} -> Errors]
  /\ groupErr \in Errors
  /\ exit \in {"no", "clean", "fatal"}
  /\ failed \subseteq Components

Init ==
  /\ main = "worker"
  /\ pc = [g \in Goroutines |-> "none"]
  /\ signal = FALSE
  /\ listening = {}
  /\ stopped = {}
  /\ request = [r \in Requests |-> "new"]
  /\ err = "nil"
  /\ own = [g \in {Serve("gateway"), Stop("gateway")} |-> "nil"]
  /\ groupErr = "nil"
  /\ exit = "no"
  /\ failed = {}

-------------------------------------------------------------------------------
(* The errgroup and its context.                                             *)

\* Mutant of Cancelled: errgroup.Group without WithContext.
SignalOnly == signal

Cancelled == signal \/ groupErr # "nil"

Goto(g, next) == pc' = [pc EXCEPT ![g] = next]

\* A goroutine returns e; the group keeps the first error.
Return(g, e) ==
  /\ Goto(g, "returned")
  /\ groupErr' = IF groupErr = "nil" THEN e ELSE groupErr

Launch(gs, next) ==
  /\ pc' = [g \in Goroutines |-> IF g \in gs THEN "start" ELSE pc[g]]
  /\ main' = next

-------------------------------------------------------------------------------
(* main.                                                                     *)

Signal ==
  /\ exit = "no"
  /\ ~signal
  /\ signal' = TRUE
  /\ UNCHANGED <<main, pc, listening, stopped, request, err, own, groupErr,
                 exit, failed>>

\* log.Fatal: the process ends at once, whatever runs.
Fatal ==
  /\ exit' = "fatal"
  /\ main' = "ended"

RunTaskProcessor ==
  /\ main = "worker"
  /\ Launch({Worker}, "gateway")
  /\ UNCHANGED <<signal, listening, stopped, request, err, own, groupErr, exit,
                 failed>>

RunGatewayServer ==
  /\ main = "gateway"
  /\ Launch({Serve("gateway"), Stop("gateway")}, "grpc")
  /\ UNCHANGED <<signal, listening, stopped, request, err, own, groupErr, exit,
                 failed>>

RunGRPCServer ==
  /\ main = "grpc"
  /\ Launch({Serve("grpc"), Stop("grpc")}, "wait")
  /\ UNCHANGED <<signal, listening, stopped, request, err, own, groupErr, exit,
                 failed>>

\* A component cannot be set up: task.Start, NewServer, the registration of the
\* handlers, or the gRPC listener, which is opened before its goroutines start.
StartFails ==
  /\ main \in Components
  /\ "start" \in Faults
  /\ failed' = failed \cup {main}
  /\ Fatal
  /\ UNCHANGED <<pc, signal, listening, stopped, request, err, own, groupErr>>

\* waitGroup.Wait, then log.Fatal if there was an error.
Wait ==
  /\ main = "wait"
  /\ \A g \in Goroutines : pc[g] = "returned"
  /\ IF groupErr = "nil" THEN exit' = "clean" /\ main' = "ended" ELSE Fatal
  /\ UNCHANGED <<pc, signal, listening, stopped, request, err, own, groupErr,
                 failed>>

-------------------------------------------------------------------------------
(* The goroutines, while the process lives.                                  *)

Alive(g, at) == exit = "no" /\ pc[g] = at

StopWorker ==
  /\ Alive(Worker, "start")
  /\ Cancelled
  /\ Return(Worker, "nil")
  /\ UNCHANGED <<main, signal, listening, stopped, request, err, own, exit,
                 failed>>

\* Mutant of Listen: no look at inShutdown before the listener opens.
ListenAnyway(s) ==
  /\ Alive(Serve(s), "start")
  /\ listening' = listening \cup {s}
  /\ Goto(Serve(s), "serving")
  /\ UNCHANGED <<main, signal, stopped, request, err, own, groupErr, exit,
                 failed>>

\* A server told to stop before it starts does not listen any more.
Listen(s) ==
  /\ Alive(Serve(s), "start")
  /\ s \notin stopped
  /\ listening' = listening \cup {s}
  /\ Goto(Serve(s), "serving")
  /\ UNCHANGED <<main, signal, stopped, request, err, own, groupErr, exit,
                 failed>>

\* What Serve (ListenAndServe) returns: the server was told to stop, before or
\* while it served; or it failed.
ServeResult(s, e) ==
  \/ /\ pc[Serve(s)] \in {"start", "serving"}
     /\ s \in stopped
     /\ e = "ErrServerClosed"
     /\ UNCHANGED failed
  \/ /\ \/ pc[Serve(s)] = "start" /\ s = "gateway" /\ "listen" \in Faults
        \/ pc[Serve(s)] = "serving" /\ "accept" \in Faults
     /\ s \notin stopped
     /\ e = "failure"
     /\ failed' = failed \cup {s}

\* Mutant of GRPCResult: the error is logged and nil returned.
OnlyLogged(e) == "nil"

\* ErrServerStopped is no error.
GRPCResult(e) == IF e = "failure" THEN e ELSE "nil"

\* Serve waits for GracefulStop and returns nil, or ErrServerStopped if it was
\* called too late.
GRPCServeEnds ==
  \E e \in {"ErrServerClosed", "failure"} :
    /\ exit = "no"
    /\ ServeResult("grpc", e)
    /\ e = "ErrServerClosed" /\ pc[Serve("grpc")] = "serving" =>
         pc[Stop("grpc")] = "returned"
    /\ Return(Serve("grpc"), GRPCResult(e))
    /\ listening' = listening \ {"grpc"}
    /\ UNCHANGED <<main, signal, stopped, request, err, own, exit>>

\* GracefulStop, Shutdown: no new connection.
StopServer(s) ==
  /\ Alive(Stop(s), "start")
  /\ Cancelled
  /\ stopped' = stopped \cup {s}
  /\ listening' = listening \ {s}
  /\ Goto(Stop(s), "stopping")
  /\ UNCHANGED <<main, signal, request, err, own, groupErr, exit, failed>>

\* Mutant of Drained: Stop (Close) instead of GracefulStop (Shutdown).
AtOnce(s) == TRUE

\* They return once the requests in progress are done.
Drained(s) == \A r \in Requests : request[r] # s

GRPCStopped ==
  /\ Alive(Stop("grpc"), "stopping")
  /\ Drained("grpc")
  /\ Return(Stop("grpc"), "nil")
  /\ UNCHANGED <<main, signal, listening, stopped, request, err, own, exit,
                 failed>>

-------------------------------------------------------------------------------
(* The gateway's two goroutines and their err.                               *)

Assign(g, e) ==
  /\ err' = e
  /\ own' = [own EXCEPT ![g] = e]

Read(g) == {own[g], err}

\* err = httpServer.ListenAndServe()
GatewayServeEnds ==
  \E e \in {"ErrServerClosed", "failure"} :
    /\ exit = "no"
    /\ ServeResult("gateway", e)
    /\ Assign(Serve("gateway"), e)
    /\ listening' = listening \ {"gateway"}
    /\ Goto(Serve("gateway"), "test")
    /\ UNCHANGED <<main, signal, stopped, request, groupErr, exit>>

\* err = httpServer.Shutdown(context.Background())
GatewayStopped ==
  /\ Alive(Stop("gateway"), "stopping")
  /\ Drained("gateway")
  /\ Assign(Stop("gateway"), "nil")
  /\ Goto(Stop("gateway"), "test")
  /\ UNCHANGED <<main, signal, listening, stopped, request, groupErr, exit,
                 failed>>

GatewayGoroutine(g) == g \in {Serve("gateway"), Stop("gateway")}

\* if err != nil
Test(g) ==
  /\ GatewayGoroutine(g)
  /\ Alive(g, "test")
  /\ \E e \in Read(g) :
       IF e = "nil" THEN Return(g, "nil")
       ELSE /\ Goto(g, IF g = Serve("gateway") THEN "match" ELSE "report")
            /\ UNCHANGED groupErr
  /\ UNCHANGED <<main, signal, listening, stopped, request, err, own, exit,
                 failed>>

\* if errors.Is(err, http.ErrServerClosed)
Match ==
  LET g == Serve("gateway") IN
  /\ Alive(g, "match")
  /\ \E e \in Read(g) :
       IF e = "ErrServerClosed" THEN Return(g, "nil")
       ELSE Goto(g, "report") /\ UNCHANGED groupErr
  /\ UNCHANGED <<main, signal, listening, stopped, request, err, own, exit,
                 failed>>

\* return err, after the error is logged
Report(g) ==
  /\ GatewayGoroutine(g)
  /\ Alive(g, "report")
  /\ \E e \in Read(g) : Return(g, e)
  /\ UNCHANGED <<main, signal, listening, stopped, request, err, own, exit,
                 failed>>

-------------------------------------------------------------------------------
(* The requests.                                                             *)

Arrive(r, s) ==
  /\ exit = "no"
  /\ request[r] = "new"
  /\ s \in listening
  /\ request' = [request EXCEPT ![r] = s]
  /\ UNCHANGED <<main, pc, signal, listening, stopped, err, own, groupErr,
                 exit, failed>>

Finish(r) ==
  /\ exit = "no"
  /\ request[r] \in Servers
  /\ request' = [request EXCEPT ![r] = "done"]
  /\ UNCHANGED <<main, pc, signal, listening, stopped, err, own, groupErr,
                 exit, failed>>

-------------------------------------------------------------------------------

Main ==
  \/ RunTaskProcessor \/ RunGatewayServer \/ RunGRPCServer
  \/ StartFails \/ Wait

ServeEnds == GRPCServeEnds \/ GatewayServeEnds

Gateway ==
  \/ GatewayStopped \/ Match
  \/ \E g \in Goroutines : Test(g) \/ Report(g)

Next ==
  \/ Signal
  \/ Main
  \/ StopWorker \/ GRPCStopped \/ ServeEnds \/ Gateway
  \/ \E s \in Servers : Listen(s) \/ StopServer(s)
  \/ \E r \in Requests, s \in Servers : Arrive(r, s)
  \/ \E r \in Requests : Finish(r)

Spec == Init /\ [][Next]_vars

-------------------------------------------------------------------------------
(* Fairness: main and every goroutine go on, a handler returns (bcrypt, the   *)
(* sleep of CreateUser, queries), a closed listener ends Serve.  A server     *)
(* need not fail and a signal need not come.                                  *)

Fairness ==
  /\ WF_vars(Main)
  /\ WF_vars(StopWorker)
  /\ WF_vars(GRPCStopped)
  /\ WF_vars(ServeEnds /\ UNCHANGED failed)
  /\ WF_vars(Gateway)
  /\ \A s \in Servers : WF_vars(Listen(s)) /\ WF_vars(StopServer(s))
  /\ \A r \in Requests : WF_vars(Finish(r))

FairSpec == Spec /\ Fairness

-------------------------------------------------------------------------------
(* Properties.                                                               *)

\* When main is through with waiting, nothing is cut: no request is in
\* progress and no server accepts one (main.go lines 139-146, 215-227).
Drains ==
  exit = "clean" =>
    /\ \A r \in Requests : request[r] \in {"new", "done"}
    /\ listening = {}

\* A signal, or one server that fails, ends the whole process (main.go lines
\* 70-79): nothing waits for ever for something that will not come.
Ends == (signal \/ failed # {}) ~> exit # "no"

\* Some step that fairness speaks of can be taken: main's, a goroutine's, or a
\* handler's.
MainCanGo ==
  \/ main \in {"worker", "gateway", "grpc"}
  \/ main = "wait" /\ \A g \in Goroutines : pc[g] = "returned"

ServeCanGo(s) ==
  \/ pc[Serve(s)] = "start"
  \/ /\ pc[Serve(s)] = "serving"
     /\ s \in stopped
     /\ s = "grpc" => pc[Stop(s)] = "returned"

StopCanGo(s) ==
  \/ pc[Stop(s)] = "start" /\ Cancelled
  \/ pc[Stop(s)] = "stopping" /\ Drained(s)

CanGo ==
  \/ MainCanGo
  \/ pc[Worker] = "start" /\ Cancelled
  \/ \E s \in Servers : ServeCanGo(s) \/ StopCanGo(s)
  \/ \E g \in Goroutines : pc[g] \in {"test", "match", "report"}
  \/ \E r \in Requests : request[r] \in Servers

\* Nobody waits for everybody.  After a signal or a failed server the process
\* can always go on until it ends: main waits for goroutines, those for the
\* context, Shutdown for handlers, Serve for Shutdown, in no circle and with
\* nobody missing (main.go lines 70-79, 117-149, 199-230).
Unstuck == exit = "no" /\ (signal \/ failed # {}) => CanGo

\* A failure is not passed over in silence.  A process that ends as if all were
\* well had no failure at its start, nor of the gRPC server (main.go lines
\* 128-134); the gateway's can be lost, but only in the race with the Shutdown
\* that follows a signal.
FailureIsFatal ==
  exit = "clean" => /\ failed \subseteq {"gateway"}
                    /\ "gateway" \in failed => signal

\* The inductive invariant.  What main has not started yet does not run; a
\* shutdown goroutine moves only once the context is cancelled, and is past its
\* waiting only when its server has drained; and a failure of a server is in the
\* group's error, or (the gateway, until somebody is told to stop) on its way
\* there.
Launched(m) ==
  (IF m \in {"gateway", "grpc", "wait"} THEN {Worker} ELSE {})
  \cup (IF m \in {"grpc", "wait"} THEN {Serve("gateway"), Stop("gateway")} ELSE {})
  \cup (IF m = "wait" THEN {Serve("grpc"), Stop("grpc")} ELSE {})

StartedInOrder ==
  /\ main # "ended" =>
       \A g \in Goroutines : pc[g] = "none" <=> g \notin Launched(main)
  /\ main = "ended" <=> exit # "no"
  /\ exit = "clean" =>
       groupErr = "nil" /\ \A g \in Goroutines : pc[g] = "returned"

StoppedInOrder ==
  \A s \in Servers :
    /\ pc[Stop(s)] \notin {"none", "start"} => Cancelled /\ s \in stopped
    /\ pc[Stop(s)] \notin {"none", "start", "stopping"} => Drained(s)

FailureOnItsWay ==
  /\ "worker" \in failed => exit = "fatal"
  /\ "grpc" \in failed => groupErr # "nil" \/ exit = "fatal"
  /\ "gateway" \in failed =>
       \/ Cancelled \/ exit = "fatal"
       \/ /\ pc[Serve("gateway")] \in {"test", "match", "report"}
          /\ err = "failure" /\ own[Serve("gateway")] = "failure"

IInv ==
  /\ TypeOK
  /\ StartedInOrder
  /\ StoppedInOrder
  /\ FailureOnItsWay

\* A signal alone ends the process without error (main.go line 205: a server
\* that was closed on purpose makes the goroutine return nil).
FatalIsFailure == exit = "fatal" => failed # {}
===============================================================================
