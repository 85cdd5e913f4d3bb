---------------------------- MODULE Lifecycle_proofs ----------------------------
(* Proofs about the process: type correctness, Drains and FailureIsFatal, for *)
(* any number of requests and whatever may fail.                             *)
EXTENDS Lifecycle, Integers, TLAPS

GatewayServe == Serve("gateway")
GatewayStop == Stop("gateway")
GRPCServe == Serve("grpc")
GRPCStop == Stop("grpc")

\* The five goroutines are five.
LEMMA FiveGoroutines ==
  /\ Goroutines = {Worker, GatewayServe, GatewayStop, GRPCServe, GRPCStop}
  /\ \A s \in Servers : Serve(s) \in Goroutines /\ Stop(s) \in Goroutines
  /\ Worker # GatewayServe /\ Worker # GatewayStop /\ Worker # GRPCServe
  /\ Worker # GRPCStop /\ GatewayServe # GatewayStop /\ GatewayServe # GRPCServe
  /\ GatewayServe # GRPCStop /\ GatewayStop # GRPCServe /\ GatewayStop # GRPCStop
  /\ GRPCServe # GRPCStop
  BY DEF Goroutines, Worker, GatewayServe, GatewayStop, GRPCServe, GRPCStop, Serve,
         Stop, Servers

\* The invariant with the goroutines spelt out, which is easier for the provers.
SpeltType ==
  /\ main \in {"worker", "gateway", "grpc", "wait", "ended"}
  /\ pc \in [Goroutines -> {"none", "start", "serving", "stopping", "test",
                            "match", "report", "returned"}]
  /\ pc[Worker] \in {"none", "start", "returned"}
  /\ pc[GatewayServe] \in {"none", "start", "serving", "test", "match", "report",
                           "returned"}
  /\ pc[GatewayStop] \in {"none", "start", "stopping", "test", "report", "returned"}
  /\ pc[GRPCServe] \in {"none", "start", "serving", "returned"}
  /\ pc[GRPCStop] \in {"none", "start", "stopping", "returned"}
  /\ signal \in BOOLEAN
  /\ listening \subseteq Servers \ stopped
  /\ stopped \subseteq Servers
  /\ request \in [Requests -> Servers \cup {"new", "done"}]
  /\ err \in Errors
  /\ own \in [{Serve("gateway"), Stop("gateway")} -> Errors]
  /\ groupErr \in Errors
  /\ exit \in {"no", "clean", "fatal"}
  /\ failed \subseteq Components

Spelt ==
  /\ SpeltType
  /\ main = "worker" =>
       /\ pc[Worker] = "none" /\ pc[GatewayServe] = "none"
       /\ pc[GatewayStop] = "none" /\ pc[GRPCServe] = "none" /\ pc[GRPCStop] = "none"
  /\ main = "gateway" =>
       /\ pc[Worker] # "none"
       /\ pc[GatewayServe] = "none" /\ pc[GatewayStop] = "none"
       /\ pc[GRPCServe] = "none" /\ pc[GRPCStop] = "none"
  /\ main = "grpc" =>
       /\ pc[Worker] # "none" /\ pc[GatewayServe] # "none" /\ pc[GatewayStop] # "none"
       /\ pc[GRPCServe] = "none" /\ pc[GRPCStop] = "none"
  /\ main = "wait" =>
       /\ pc[Worker] # "none" /\ pc[GatewayServe] # "none" /\ pc[GatewayStop] # "none"
       /\ pc[GRPCServe] # "none" /\ pc[GRPCStop] # "none"
  /\ main = "ended" <=> exit # "no"
  /\ exit = "clean" =>
       /\ groupErr = "nil"
       /\ pc[Worker] = "returned" /\ pc[GatewayServe] = "returned"
       /\ pc[GatewayStop] = "returned" /\ pc[GRPCServe] = "returned"
       /\ pc[GRPCStop] = "returned"
  /\ pc[GatewayStop] \notin {"none", "start"} => Cancelled /\ "gateway" \in stopped
  /\ pc[GRPCStop] \notin {"none", "start"} => Cancelled /\ "grpc" \in stopped
  /\ pc[GatewayStop] \notin {"none", "start", "stopping"} => Drained("gateway")
  /\ pc[GRPCStop] \notin {"none", "start", "stopping"} => Drained("grpc")
  /\ "worker" \in failed => exit = "fatal"
  /\ "grpc" \in failed => groupErr # "nil" \/ exit = "fatal"
  /\ "gateway" \in failed =>
       \/ Cancelled \/ exit = "fatal"
       \/ /\ pc[GatewayServe] \in {"test", "match", "report"}
          /\ err = "failure" /\ own[GatewayServe] = "failure"

\* It says the same.
LEMMA SpeltIsIInv == IInv <=> Spelt
<1>1. /\ Stages(Worker) = {"start"}
      /\ Stages(GatewayServe) = {"start", "serving", "test", "match", "report"}
      /\ Stages(GatewayStop) = {"start", "stopping", "test", "report"}
      /\ Stages(GRPCServe) = {"start", "serving"}
      /\ Stages(GRPCStop) = {"start", "stopping"}
  BY FiveGoroutines DEF Stages, GatewayServe, GatewayStop, GRPCServe, GRPCStop
<1>2. TypeOK <=> SpeltType
  BY <1>1, FiveGoroutines DEF TypeOK, SpeltType
<1> QED
  BY <1>2, FiveGoroutines
     DEF IInv, StartedInOrder, StoppedInOrder, FailureOnItsWay, Spelt, Servers,
         GatewayServe, GatewayStop, GRPCServe, GRPCStop, Launched, TypeOK

-------------------------------------------------------------------------------

\* The invariant holds before main starts anything.
LEMMA InitInv == Init => Spelt
  BY FiveGoroutines DEF Init, Spelt, SpeltType, Errors, Drained, Servers

\* A signal, and every step of main.
LEMMA MainStep ==
  ASSUME Spelt, Signal \/ Main
  PROVE  Spelt'
<1> USE FiveGoroutines DEF Spelt, SpeltType, Errors, Cancelled, Drained
<1>1. CASE Signal
  BY <1>1 DEF Signal
<1>2. CASE RunTaskProcessor
  BY <1>2 DEF RunTaskProcessor, Launch
<1>3. CASE RunGatewayServer
  <2>1. /\ main = "gateway" /\ main' = "grpc"
        /\ UNCHANGED <<signal, listening, stopped, request, err, own, groupErr,
                       exit, failed>>
        /\ pc' = [g \in Goroutines |->
                    IF g \in {GatewayServe, GatewayStop} THEN "start" ELSE pc[g]]
    BY <1>3 DEF RunGatewayServer, Launch, GatewayServe, GatewayStop
  <2> QED
    BY <2>1
<1>4. CASE RunGRPCServer
  <2>1. /\ main = "grpc" /\ main' = "wait"
        /\ UNCHANGED <<signal, listening, stopped, request, err, own, groupErr,
                       exit, failed>>
        /\ pc' = [g \in Goroutines |->
                    IF g \in {GRPCServe, GRPCStop} THEN "start" ELSE pc[g]]
    BY <1>4 DEF RunGRPCServer, Launch, GRPCServe, GRPCStop
  <2> QED
    BY <2>1
<1>5. CASE StartFails
  BY <1>5 DEF StartFails, Fatal, Servers, Components
<1>6. CASE Wait
  BY <1>6 DEF Wait, Fatal
<1> QED
  BY <1>1, <1>2, <1>3, <1>4, <1>5, <1>6 DEF Main

\* The task processor and the gRPC server.
LEMMA GRPCStep ==
  ASSUME Spelt,
         StopWorker \/ GRPCServeEnds \/ GRPCStopped \/ Listen("grpc") \/ StopServer("grpc")
  PROVE  Spelt'
<1> USE FiveGoroutines DEF Spelt, SpeltType, Errors, Cancelled, Drained, Servers, Goto,
    Return, Alive
<1>1. CASE StopWorker
  BY <1>1 DEF StopWorker
<1>2. CASE GRPCServeEnds
  <2>1. PICK e \in {"ErrServerClosed", "failure"} :
          /\ exit = "no" /\ ServeResult("grpc", e)
          /\ Return(GRPCServe, GRPCResult(e)) /\ listening' = listening \ {"grpc"}
          /\ UNCHANGED <<main, signal, stopped, request, err, own, exit>>
    BY <1>2 DEF GRPCServeEnds, GRPCServe
  <2>2. failed' = failed \/ (e = "failure" /\ failed' = failed \cup {"grpc"})
    BY <2>1 DEF ServeResult
  <2>3. pc[Serve("grpc")] \in {"start", "serving"}
    BY <2>1 DEF ServeResult
  <2> QED
    BY <2>1, <2>2, <2>3 DEF GRPCResult, GRPCServe, Components, Servers
<1>3. CASE GRPCStopped
  BY <1>3 DEF GRPCStopped, GRPCStop
<1>4. CASE Listen("grpc")
  BY <1>4 DEF Listen, GRPCServe
<1>5. CASE StopServer("grpc")
  BY <1>5 DEF StopServer, GRPCStop
<1> QED
  BY <1>1, <1>2, <1>3, <1>4, <1>5

\* The gateway: whatever the race on err does, a failure without a signal reaches
\* the group.
LEMMA GatewayStep ==
  ASSUME Spelt,
         \/ GatewayServeEnds \/ Gateway
         \/ Listen("gateway") \/ StopServer("gateway")
  PROVE  Spelt'
<1> USE FiveGoroutines DEF Spelt, SpeltType, Errors, Cancelled, Drained, Servers, Goto,
    Return, Alive, Read
<1>1. CASE GatewayServeEnds
  <2>1. PICK e \in {"ErrServerClosed", "failure"} :
          /\ exit = "no" /\ ServeResult("gateway", e)
          /\ err' = e /\ own' = [own EXCEPT ![GatewayServe] = e]
          /\ listening' = listening \ {"gateway"}
          /\ pc' = [pc EXCEPT ![GatewayServe] = "test"]
          /\ UNCHANGED <<main, signal, stopped, request, groupErr, exit>>
    BY <1>1 DEF GatewayServeEnds, Assign, GatewayServe
  <2>2. failed' = failed \/ (e = "failure" /\ failed' = failed \cup {"gateway"})
    BY <2>1 DEF ServeResult
  <2>3. pc[Serve("gateway")] \in {"start", "serving"}
    BY <2>1 DEF ServeResult
  <2>4. GatewayServe \in {Serve("gateway"), Stop("gateway")}
    BY DEF GatewayServe
  <2> QED
    BY <2>1, <2>2, <2>3, <2>4 DEF GatewayServe, Components, Servers
<1>2. CASE GatewayStopped
  BY <1>2 DEF GatewayStopped, Assign, GatewayStop, GatewayServe
<1>3. CASE \E g \in Goroutines : Test(g)
  <2>1. PICK g \in {GatewayServe, GatewayStop} : Test(g)
    BY <1>3 DEF Test, GatewayGoroutine, GatewayServe, GatewayStop
  <2>2. own[g] \in Errors
    BY DEF GatewayServe, GatewayStop
  <2>3. CASE g = GatewayServe
    BY <2>1, <2>2, <2>3 DEF Test, GatewayServe
  <2>4. CASE g = GatewayStop
    BY <2>1, <2>2, <2>4 DEF Test, GatewayServe
  <2> QED
    BY <2>1, <2>3, <2>4
<1>4. CASE Match
  <2>1. own[GatewayServe] \in Errors
    BY DEF GatewayServe
  <2> QED
    BY <1>4, <2>1 DEF Match, GatewayServe
<1>5. CASE \E g \in Goroutines : Report(g)
  <2>1. PICK g \in {GatewayServe, GatewayStop} : Report(g)
    BY <1>5 DEF Report, GatewayGoroutine, GatewayServe, GatewayStop
  <2>2. own[g] \in Errors
    BY DEF GatewayServe, GatewayStop
  <2> QED
    BY <2>1, <2>2 DEF Report
<1>6. CASE Listen("gateway")
  BY <1>6 DEF Listen, GatewayServe
<1>7. CASE StopServer("gateway")
  BY <1>7 DEF StopServer, GatewayStop
<1> QED
  BY <1>1, <1>2, <1>3, <1>4, <1>5, <1>6, <1>7 DEF Gateway

\* A request is accepted by a server that listens, so by none that was stopped.
LEMMA RequestStep ==
  ASSUME Spelt,
         \/ \E r \in Requests, s \in Servers : Arrive(r, s)
         \/ \E r \in Requests : Finish(r)
         \/ UNCHANGED vars
  PROVE  Spelt'
<1> USE FiveGoroutines DEF Spelt, SpeltType, Errors, Cancelled, Drained, Servers
<1>1. CASE \E r \in Requests, s \in Servers : Arrive(r, s)
  BY <1>1 DEF Arrive
<1>2. CASE \E r \in Requests : Finish(r)
  BY <1>2 DEF Finish
<1>3. CASE UNCHANGED vars
  BY <1>3 DEF vars
<1> QED
  BY <1>1, <1>2, <1>3

-------------------------------------------------------------------------------

\* IInv holds of the process, with any number of requests and any faults.
THEOREM Invariance == Spec => []IInv
<1>1. Spelt /\ [Next]_vars => Spelt'
  BY MainStep, GRPCStep, GatewayStep, RequestStep DEF Next, ServeEnds, Servers
<1>2. Init => Spelt
  BY InitInv
<1>3. Spec => []Spelt
  BY <1>1, <1>2, PTL DEF Spec
<1> QED
  BY <1>3, SpeltIsIInv, PTL

\* A process that ends well has cut off no request.
THEOREM NothingIsCut == Spec => []Drains
<1>1. Spelt => Drains
  BY FiveGoroutines DEF Spelt, SpeltType, Drains, Drained, Servers
<1> QED
  BY <1>1, Invariance, SpeltIsIInv, PTL

\* A process that ends well had no failure that matters, in spite of the race.
THEOREM NoSilentFailure == Spec => []FailureIsFatal
<1>1. Spelt => FailureIsFatal
  BY FiveGoroutines DEF Spelt, SpeltType, FailureIsFatal, Cancelled, Components, Servers
<1> QED
  BY <1>1, Invariance, SpeltIsIInv, PTL

\* Whatever has happened to the process, once it has to end nothing in it waits
\* for ever: somebody's next step is possible until it has ended (main.go lines
\* 70-79).
THEOREM AlwaysSomebody == Spec => []Unstuck
<1>1. ASSUME Spelt PROVE Unstuck
  <2> SUFFICES ASSUME exit = "no", signal \/ failed # {}, ~CanGo PROVE FALSE
    BY DEF Unstuck
  <2> USE <1>1, FiveGoroutines DEF Spelt, SpeltType
  <2>1. main = "wait" /\ \E g \in Goroutines : pc[g] # "returned"
    BY DEF CanGo, MainCanGo
  <2>2. \A g \in Goroutines : pc[g] \notin {"none", "test", "match", "report"}
    BY <2>1 DEF CanGo
  <2>3. Cancelled
    BY <2>2 DEF Cancelled, CanGo, Servers, Components
  <2>4. Drained("gateway") /\ Drained("grpc")
    BY DEF CanGo, Drained, Servers
  <2>5. pc[Worker] = "returned" /\ pc[GatewayStop] = "returned"
        /\ pc[GRPCStop] = "returned"
    BY <2>2, <2>3, <2>4 DEF CanGo, StopCanGo, GatewayStop, GRPCStop, Servers
  <2>6. pc[GatewayServe] = "returned" /\ pc[GRPCServe] = "returned"
    BY <2>2, <2>5 DEF CanGo, ServeCanGo, GatewayServe, GRPCServe, GRPCStop, Servers
  <2> QED
    BY <2>1, <2>5, <2>6
<1> QED
  BY <1>1, Invariance, SpeltIsIInv, PTL

-------------------------------------------------------------------------------
(* Nothing goes round for ever either: the steps main and the goroutines have  *)
(* left, and the signal, are a number that each of them makes smaller.         *)

StageLeft(stage) ==
  CASE stage = "none" -> 6
    [] stage = "start" -> 5
    [] stage \in {"serving", "stopping"} -> 4
    [] stage = "test" -> 3
    [] stage = "match" -> 2
    [] stage = "report" -> 1
    [] stage = "returned" -> 0

MainLeft(next) ==
  CASE next = "worker" -> 4
    [] next = "gateway" -> 3
    [] next = "grpc" -> 2
    [] next = "wait" -> 1
    [] next = "ended" -> 0

StepsLeft ==
  MainLeft(main) + (IF signal THEN 0 ELSE 1)
    + StageLeft(pc[Worker])
    + StageLeft(pc[Serve("gateway")]) + StageLeft(pc[Stop("gateway")])
    + StageLeft(pc[Serve("grpc")]) + StageLeft(pc[Stop("grpc")])

LEMMA StepsLeftType == Spelt => StepsLeft \in 0..35
  BY FiveGoroutines DEF Spelt, SpeltType, StepsLeft, StageLeft, MainLeft,
     GatewayServe, GatewayStop, GRPCServe, GRPCStop

\* The numbers a step can change, and by how much at least.
LEMMA StagesLeft ==
  /\ StageLeft("none") = 6 /\ StageLeft("start") = 5 /\ StageLeft("serving") = 4
  /\ StageLeft("stopping") = 4 /\ StageLeft("test") = 3 /\ StageLeft("match") = 2
  /\ StageLeft("report") = 1 /\ StageLeft("returned") = 0
  /\ MainLeft("worker") = 4 /\ MainLeft("gateway") = 3 /\ MainLeft("grpc") = 2
  /\ MainLeft("wait") = 1 /\ MainLeft("ended") = 0
  BY DEF StageLeft, MainLeft

\* Nothing goes back and something goes on.
LEMMA FewerLeft ==
  ASSUME Spelt, Spelt', MainLeft(main') <= MainLeft(main), signal => signal',
         \A g \in Goroutines : StageLeft(pc'[g]) <= StageLeft(pc[g]),
         \/ MainLeft(main') < MainLeft(main)
         \/ ~signal /\ signal'
         \/ \E g \in Goroutines : StageLeft(pc'[g]) < StageLeft(pc[g])
  PROVE  StepsLeft' < StepsLeft
<1> DEFINE m == MainLeft(main)
           n == MainLeft(main')
           i == IF signal THEN 0 ELSE 1
           j == IF signal' THEN 0 ELSE 1
           S(g) == StageLeft(pc[g])
           T(g) == StageLeft(pc'[g])
<1>1. \A g \in Goroutines : S(g) \in Int /\ T(g) \in Int
  BY StagesLeft DEF Spelt, SpeltType
<1>2. m \in Int /\ n \in Int /\ i \in Int /\ j \in Int
  BY StagesLeft DEF Spelt, SpeltType
<1>3. StepsLeft = m + i + S(Worker) + S(GatewayServe) + S(GatewayStop)
                    + S(GRPCServe) + S(GRPCStop)
  BY DEF StepsLeft, GatewayServe, GatewayStop, GRPCServe, GRPCStop
<1>4. StepsLeft' = n + j + T(Worker) + T(GatewayServe) + T(GatewayStop)
                    + T(GRPCServe) + T(GRPCStop)
  BY DEF StepsLeft, GatewayServe, GatewayStop, GRPCServe, GRPCStop
<1>5. n <= m /\ j <= i /\ \A g \in Goroutines : T(g) <= S(g)
  BY DEF Spelt, SpeltType
<1>6. n < m \/ j < i \/ \E g \in Goroutines : T(g) < S(g)
  BY DEF Spelt, SpeltType
<1> HIDE DEF m, n, i, j, S, T
<1>7. \/ n < m \/ j < i \/ T(Worker) < S(Worker) \/ T(GatewayServe) < S(GatewayServe)
      \/ T(GatewayStop) < S(GatewayStop) \/ T(GRPCServe) < S(GRPCServe)
      \/ T(GRPCStop) < S(GRPCStop)
  BY <1>6, FiveGoroutines
<1> DEFINE Lower(g) == T(g) <= S(g) /\ T(g) \in Int /\ S(g) \in Int
<1>8. Lower(Worker) /\ Lower(GatewayServe) /\ Lower(GatewayStop)
      /\ Lower(GRPCServe) /\ Lower(GRPCStop)
  BY <1>1, <1>5, FiveGoroutines
<1> QED
  BY <1>2, <1>3, <1>4, <1>5, <1>7, <1>8

\* A goroutine goes on and leaves the others where they are.
GoesOn(g, next) ==
  /\ g \in Goroutines
  /\ pc' = [pc EXCEPT ![g] = next]
  /\ StageLeft(next) < StageLeft(pc[g])
  /\ UNCHANGED <<main, signal>>

LEMMA GoroutineStep ==
  ASSUME Spelt, Spelt', NEW g, NEW next, GoesOn(g, next)
  PROVE  StepsLeft' < StepsLeft
<1> USE DEF GoesOn
<1>1. \A h \in Goroutines : StageLeft(pc[h]) \in Int
  BY StagesLeft DEF Spelt, SpeltType
<1>2. MainLeft(main) \in Int
  BY StagesLeft DEF Spelt, SpeltType
<1>3. \A h \in Goroutines : pc'[h] = IF h = g THEN next ELSE pc[h]
  BY DEF Spelt, SpeltType
<1>4. \A h \in Goroutines : StageLeft(pc'[h]) <= StageLeft(pc[h])
  BY <1>1, <1>3, StagesLeft DEF Spelt, SpeltType
<1>5. StageLeft(pc'[g]) < StageLeft(pc[g])
  BY <1>3
<1> QED
  BY <1>2, <1>4, <1>5, FewerLeft

RequestStepOnly ==
  /\ \/ \E r \in Requests, s \in Servers : Arrive(r, s)
     \/ \E r \in Requests : Finish(r)
  /\ StepsLeft' = StepsLeft

LEMMA MainStepLess ==
  ASSUME Spelt, Spelt', Main
  PROVE  StepsLeft' < StepsLeft
<1>1. \A g \in Goroutines : StageLeft(pc[g]) \in Int
  BY StagesLeft, FiveGoroutines DEF Spelt, SpeltType
<1>2. MainLeft(main') < MainLeft(main) /\ signal' = signal
  BY StagesLeft DEF Main, RunTaskProcessor, RunGatewayServer, RunGRPCServer,
     StartFails, Wait, Launch, Fatal, Components, Servers, Spelt, SpeltType
<1>3. pc' = pc \/ \E gs \in SUBSET Goroutines :
                    /\ pc' = [g \in Goroutines |-> IF g \in gs THEN "start" ELSE pc[g]]
                    /\ \A g \in gs : pc[g] = "none"
  <2>1. CASE RunTaskProcessor
    BY <2>1, FiveGoroutines DEF RunTaskProcessor, Launch, Spelt
  <2>2. CASE RunGatewayServer
    <3>1. pc' = [g \in Goroutines |->
                   IF g \in {GatewayServe, GatewayStop} THEN "start" ELSE pc[g]]
      BY <2>2 DEF RunGatewayServer, Launch, GatewayServe, GatewayStop
    <3>2. pc[GatewayServe] = "none" /\ pc[GatewayStop] = "none"
      BY <2>2 DEF RunGatewayServer, Spelt
    <3> QED
      BY <3>1, <3>2, FiveGoroutines
  <2>3. CASE RunGRPCServer
    <3>1. pc' = [g \in Goroutines |->
                   IF g \in {GRPCServe, GRPCStop} THEN "start" ELSE pc[g]]
      BY <2>3 DEF RunGRPCServer, Launch, GRPCServe, GRPCStop
    <3>2. pc[GRPCServe] = "none" /\ pc[GRPCStop] = "none"
      BY <2>3 DEF RunGRPCServer, Spelt
    <3> QED
      BY <3>1, <3>2, FiveGoroutines
  <2>4. CASE StartFails \/ Wait
    BY <2>4 DEF StartFails, Wait
  <2> QED
    BY <2>1, <2>2, <2>3, <2>4 DEF Main
<1>4. \A g \in Goroutines : StageLeft(pc'[g]) <= StageLeft(pc[g])
  BY <1>1, <1>3, StagesLeft
<1>5. MainLeft(main) \in Int /\ MainLeft(main') \in Int
  BY StagesLeft DEF Spelt, SpeltType
<1>6. MainLeft(main') <= MainLeft(main)
  BY <1>2, <1>5
<1> QED
  BY <1>2, <1>4, <1>6, FewerLeft

LEMMA ComponentStepLess ==
  ASSUME Spelt,
         \/ StopWorker \/ GRPCStopped \/ ServeEnds \/ Gateway
         \/ \E s \in Servers : Listen(s) \/ StopServer(s)
  PROVE  \E g, next : GoesOn(g, next)
<1> USE StagesLeft, FiveGoroutines DEF GoesOn, Goto, Alive, Return, Servers
<1>1. CASE StopWorker
  <2>1. GoesOn(Worker, "returned")
    BY <1>1 DEF StopWorker
  <2> QED
    BY <2>1
<1>2. CASE GRPCStopped
  <2>1. GoesOn(Stop("grpc"), "returned")
    BY <1>2 DEF GRPCStopped
  <2> QED
    BY <2>1
<1>3. CASE GRPCServeEnds
  <2>1. GoesOn(Serve("grpc"), "returned")
    BY <1>3 DEF GRPCServeEnds, ServeResult
  <2> QED
    BY <2>1
<1>4. CASE GatewayServeEnds
  <2>1. GoesOn(Serve("gateway"), "test")
    BY <1>4 DEF GatewayServeEnds, ServeResult
  <2> QED
    BY <2>1
<1>5. CASE GatewayStopped
  <2>1. GoesOn(Stop("gateway"), "test")
    BY <1>5 DEF GatewayStopped
  <2> QED
    BY <2>1
<1>6. CASE Match
  <2>1. GoesOn(Serve("gateway"), "returned") \/ GoesOn(Serve("gateway"), "report")
    BY <1>6 DEF Match
  <2> QED
    BY <2>1
<1>7. ASSUME NEW g \in Goroutines, Test(g) PROVE \E h, next : GoesOn(h, next)
  <2>1. \E next \in {"returned", "match", "report"} : GoesOn(g, next)
    BY <1>7 DEF Test
  <2> QED
    BY <2>1
<1>8. ASSUME NEW g \in Goroutines, Report(g) PROVE \E h, next : GoesOn(h, next)
  <2>1. GoesOn(g, "returned")
    BY <1>8 DEF Report
  <2> QED
    BY <2>1
<1>9. ASSUME NEW s \in Servers, Listen(s) \/ StopServer(s)
      PROVE  \E h, next : GoesOn(h, next)
  <2>1. GoesOn(Serve(s), "serving") \/ GoesOn(Stop(s), "stopping")
    BY <1>9 DEF Listen, StopServer
  <2> QED
    BY <2>1
<1> HIDE DEF GoesOn, Goto, Alive, Return, Servers
<1> QED
  BY <1>1, <1>2, <1>3, <1>4, <1>5, <1>6, <1>7, <1>8, <1>9 DEF ServeEnds, Gateway

LEMMA OneStepLess ==
  ASSUME Spelt, Spelt', Next
  PROVE  StepsLeft' < StepsLeft \/ RequestStepOnly
<1>1. CASE Signal
  <2>1. UNCHANGED <<main, pc>> /\ ~signal /\ signal'
    BY <1>1 DEF Signal
  <2>2. MainLeft(main) \in Int /\ \A g \in Goroutines : StageLeft(pc[g]) \in Int
    BY StagesLeft, FiveGoroutines DEF Spelt, SpeltType
  <2> QED
    BY <2>1, <2>2, FewerLeft
<1>2. CASE \/ StopWorker \/ GRPCStopped \/ ServeEnds \/ Gateway
           \/ \E s \in Servers : Listen(s) \/ StopServer(s)
  BY <1>2, ComponentStepLess, GoroutineStep
<1>3. CASE \/ \E r \in Requests, s \in Servers : Arrive(r, s)
           \/ \E r \in Requests : Finish(r)
  <2>1. UNCHANGED <<main, pc, signal>>
    BY <1>3 DEF Arrive, Finish
  <2> QED
    BY <1>3, <2>1 DEF RequestStepOnly, StepsLeft
<1> QED
  BY <1>1, <1>2, <1>3, MainStepLess DEF Next

\* Between its start and its end the process takes at most 35 steps besides its
\* requests': it never goes back to something it has done (main.go lines 50-79).
THEOREM StepsRunOut ==
  Spec => /\ [](StepsLeft \in 0..35)
          /\ [][StepsLeft' < StepsLeft \/ RequestStepOnly]_vars
<1>1. Spec => []Spelt
  BY Invariance, SpeltIsIInv, PTL
<1>2. Spelt /\ Spelt' /\ [Next]_vars =>
        [StepsLeft' < StepsLeft \/ RequestStepOnly]_vars
  BY OneStepLess
<1> QED
  BY <1>1, <1>2, StepsLeftType, PTL DEF Spec

\* And a server that was told to stop gets no request any more, so the requests it
\* waits for only grow fewer (main.go lines 142-146, 219-224).
THEOREM StoppedTakesNoMore ==
  Spec => [][\A s \in stopped, r \in Requests : request'[r] = s => request[r] = s]_vars
<1>1. ASSUME Spelt, Next, NEW s \in stopped, NEW r \in Requests, request'[r] = s
      PROVE  request[r] = s
  <2>1. \/ UNCHANGED request
        \/ \E q \in Requests, p \in Servers : Arrive(q, p)
        \/ \E q \in Requests : Finish(q)
    BY <1>1 DEF Next, Main, ServeEnds, Gateway, Signal, RunTaskProcessor,
       RunGatewayServer, RunGRPCServer, StartFails, Wait, StopWorker,
       GRPCStopped, GRPCServeEnds, GatewayServeEnds, GatewayStopped, Match, Test,
       Report, Listen, StopServer
  <2> QED
    BY <1>1, <2>1 DEF Arrive, Finish, Spelt, SpeltType, Servers
<1>2. Spelt /\ [Next]_vars =>
        [\A s \in stopped, r \in Requests : request'[r] = s => request[r] = s]_vars
  BY <1>1
<1> QED
  BY <1>2, Invariance, SpeltIsIInv, PTL DEF Spec
===============================================================================
