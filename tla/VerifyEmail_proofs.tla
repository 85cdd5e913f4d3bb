-------------------------- MODULE VerifyEmail_proofs --------------------------
(* Proofs about CreateUser and its tasks, for any number of calls, names,    *)
(* addresses, retries and restarts.                                          *)
EXTENDS VerifyEmail, Integers, TLAPS

\* The invariant holds at the start.
LEMMA InitInv == Init => IInv
BY RetryAssumption
   DEF RetryAssumption, Init, IInv, TypeOK, OpenRows, StagesOK, HandlersOK,
       UserHasTask, RepliesAreTrue, OneWinner, MailGoesToUsers, Ended,
       InProgress

\* Every step of an RPC preserves it.
LEMMA RpcStep ==
  ASSUME IInv, NEW c \in Calls,
         \/ \E u \in User : CreateUser(c, u)
         \/ Rpc(c)
         \/ EnqueueFails(c) \/ CommitUnacknowledged(c) \/ DatabaseFails(c)
  PROVE  IInv'
<1> USE DEF IInv, TypeOK, OpenRows, StagesOK, HandlersOK, UserHasTask,
            RepliesAreTrue, OneWinner, MailGoesToUsers, Ended,
            Registered, InProgress, taskVars, lifeVars, Answer
<1>1. CASE \E u \in User : CreateUser(c, u)
  BY <1>1 DEF CreateUser
<1>2. CASE Insert(c)
  BY <1>2 DEF Insert, Waits, Conflict
<1>3. CASE InsertRejected(c)
  BY <1>3 DEF InsertRejected
<1>4. CASE Enqueue(c)
  BY <1>4 DEF Enqueue
<1>5. CASE EnqueueFails(c)
  BY <1>5 DEF EnqueueFails
<1>6. CASE Commit(c)
  BY <1>6 DEF Commit, Conflict
<1>7. CASE CommitUnacknowledged(c)
  BY <1>7 DEF CommitUnacknowledged, Conflict
<1>8. CASE DatabaseFails(c)
  BY <1>8 DEF DatabaseFails
<1>. QED
  BY <1>1, <1>2, <1>3, <1>4, <1>5, <1>6, <1>7, <1>8 DEF Rpc

\* Every step of a worker preserves it.
LEMMA WorkerStep ==
  ASSUME IInv, NEW c \in Calls,
         Worker(c) \/ PayloadDamaged(c) \/ GetUserFails(c) \/ ResultLost(c)
  PROVE  IInv'
<1> USE DEF IInv, TypeOK, OpenRows, StagesOK, HandlersOK, UserHasTask,
            RepliesAreTrue, OneWinner, MailGoesToUsers, Ended,
            Registered, rpcVars, lifeVars
<1>1. CASE Dequeue(c)
  BY <1>1 DEF Dequeue
<1>2. CASE ProcessTask(c)
  BY <1>2 DEF ProcessTask, Handled
<1>3. CASE UnmarshalFails(c) \/ ProcessTaskFails(c) \/ GetUserFails(c)
  BY <1>3 DEF UnmarshalFails, ProcessTaskFails, GetUserFails, Handled
<1>4. CASE Complete(c) \/ Skip(c)
  BY <1>4 DEF Complete, Skip
<1>5. CASE Fail(c) \/ LeaseExpired(c)
  <2>1. RetryOrArchive(c) /\ task[c] = "active"
    BY <1>5 DEF Fail, LeaseExpired
  <2>2. PICK x \in {"queued", "archived"} : task' = [task EXCEPT ![c] = x]
    BY <2>1 DEF RetryOrArchive
  <2>3. /\ retried' \in [Calls -> 0..MaxRetry]
        /\ task'[c] = "archived" => retried'[c] = MaxRetry
        /\ \A d \in Calls \ {c} : retried'[d] = retried[d]
    <3>1. retried[c] \in 0..MaxRetry /\ MaxRetry \in Nat
      BY RetryAssumption DEF RetryAssumption
    <3>2. CASE retried[c] < MaxRetry
      BY <2>1, <3>1, <3>2 DEF RetryOrArchive
    <3>3. CASE ~(retried[c] < MaxRetry)
      BY <2>1, <3>1, <3>3 DEF RetryOrArchive
    <3>. QED
      BY <3>2, <3>3
  <2>4. /\ handler' = [handler EXCEPT ![c] = "none"]
        /\ UNCHANGED <<damaged, mailed, rpcVars, lifeVars>>
    BY <1>5 DEF Fail, LeaseExpired
  <2>5. TypeOK' /\ OpenRows' /\ StagesOK'
    BY <2>1, <2>2, <2>3, <2>4
  <2>6. HandlersOK'
    BY <2>1, <2>2, <2>3, <2>4
  <2>7. UserHasTask' /\ RepliesAreTrue' /\ OneWinner' /\ MailGoesToUsers'
    BY <2>1, <2>2, <2>4
  <2>. QED
    BY <2>5, <2>6, <2>7
<1>6. CASE PayloadDamaged(c) \/ ResultLost(c)
  BY <1>6 DEF PayloadDamaged, ResultLost
<1>. QED
  BY <1>1, <1>2, <1>3, <1>4, <1>5, <1>6 DEF Worker

\* A shutdown, a crash and a start preserve it.
LEMMA LifeStep == IInv /\ Life => IInv'
<1> USE DEF IInv, TypeOK, OpenRows, StagesOK, HandlersOK, UserHasTask,
            RepliesAreTrue, OneWinner, MailGoesToUsers, Ended,
            Registered, InProgress, rpcVars, taskVars
<1>1. IInv /\ Shutdown => IInv'
  BY DEF Shutdown
<1>2. IInv /\ Exit => IInv'
  BY DEF Exit
<1>3. IInv /\ Crash => IInv'
  BY DEF Crash
<1>4. IInv /\ Start => IInv'
  BY RetryAssumption DEF Start, RetryAssumption
<1>. QED
  BY <1>1, <1>2, <1>3, <1>4 DEF Life

\* Every step preserves it.
LEMMA NextStep == IInv /\ [Next]_vars => IInv'
<1> SUFFICES ASSUME IInv, [Next]_vars PROVE IInv'
  OBVIOUS
<1>1. CASE Next
  BY <1>1, RpcStep, WorkerStep, LifeStep DEF Next, Fault
<1>2. CASE UNCHANGED vars
  BY <1>2 DEF IInv, TypeOK, OpenRows, StagesOK, HandlersOK, UserHasTask,
              RepliesAreTrue, OneWinner, MailGoesToUsers, Ended,
              Registered, vars, rpcVars, taskVars, lifeVars
<1>. QED
  BY <1>1, <1>2

\* The invariant of CreateUser and its tasks.
THEOREM Invariance == Spec => []IInv
BY InitInv, NextStep, PTL DEF Spec

\* Every variable stays in its range.
THEOREM TypeCorrect == Spec => []TypeOK
BY Invariance, PTL DEF IInv

\* A user that is committed has had its task enqueued.
THEOREM TaskForEveryUser == Spec => []UserHasTask
BY Invariance, PTL DEF IInv

\* "OK" and "AlreadyExists" are said with reason.
THEOREM TrueReplies == Spec => []RepliesAreTrue
BY Invariance, PTL DEF IInv

\* Calls that race for one name or address: one wins.
THEOREM RaceHasOneWinner == Spec => []OneWinner
BY Invariance, PTL DEF IInv

\* Mail goes to registered users.
THEOREM MailedAreUsers == Spec => []MailGoesToUsers
BY Invariance, PTL DEF IInv

-------------------------------------------------------------------------------
(* The refinement of Registration.                                           *)

Told == {req[c].name : c \in mailed}

Abstract == <<users, req, reply, Told>>

\* The abstract state starts as it should.
LEMMA RefineInit == Init => Registering!Init
BY DEF Init, Registering!Init

\* What an RPC does, seen from outside: it asks, joins, is refused, gives up, or
\* nothing is seen.
LEMMA RefineRpc ==
  ASSUME IInv, NEW c \in Calls,
         \/ \E u \in User : CreateUser(c, u)
         \/ Rpc(c)
         \/ EnqueueFails(c) \/ CommitUnacknowledged(c) \/ DatabaseFails(c)
  PROVE  [Registering!Next]_Abstract
<1>1. /\ reply \in [Calls -> {"none", "OK", "AlreadyExists", "Internal"}]
      /\ mailed \subseteq Calls /\ req \in [Calls -> User \cup {NoUser}]
      /\ pc[c] = "new" => c \notin mailed /\ req[c] = NoUser
      /\ pc[c] # "new" => req[c] # NoUser
      /\ pc[c] # "done" => reply[c] = "none"
      /\ pc[c] = "commit" => \A u \in users : ~Conflict(req[c], u)
  BY NoUserAssumption DEF IInv, TypeOK, StagesOK, HandlersOK, OpenRows
<1>2. ASSUME UNCHANGED <<req, mailed>> PROVE Told' = Told
  BY <1>2 DEF Told
<1>3. CASE \E u \in User : CreateUser(c, u)
  <2>1. PICK u \in User : CreateUser(c, u)
    BY <1>3
  <2>2. /\ pc[c] = "new" /\ req' = [req EXCEPT ![c] = u]
        /\ users' = users /\ reply' = reply /\ mailed' = mailed
    BY <2>1 DEF CreateUser, taskVars
  <2>3. Told' = Told
    BY <1>1, <2>2 DEF Told
  <2>4. Registering!Ask(c, u)
    BY <1>1, <2>2, <2>3 DEF Registering!Ask, Told
  <2> QED
    BY <2>4 DEF Registering!Next
<1>4. CASE Insert(c) \/ Enqueue(c)
  BY <1>2, <1>4 DEF Insert, Enqueue, taskVars, Abstract
<1>5. CASE InsertRejected(c)
  <2>1. /\ pc[c] = "insert" /\ \E u \in users : Conflict(req[c], u)
        /\ reply' = [reply EXCEPT ![c] = "AlreadyExists"]
        /\ UNCHANGED <<users, req, mailed>>
    BY <1>5 DEF InsertRejected, Answer, taskVars
  <2> QED
    BY <1>1, <1>2, <2>1 DEF Registering!Next, Registering!Refuse, Registering!Taken,
       Registering!Unanswered, Told
<1>6. CASE Commit(c) \/ CommitUnacknowledged(c)
  <2>1. /\ pc[c] = "commit" /\ users' = users \cup {req[c]}
        /\ UNCHANGED <<req, mailed>>
        /\ \E r \in {"OK", "Internal"} : reply' = [reply EXCEPT ![c] = r]
    BY <1>6 DEF Commit, CommitUnacknowledged, Answer, taskVars
  <2> QED
    BY <1>1, <1>2, <2>1 DEF Registering!Next, Registering!Join, Registering!Taken,
       Registering!Unanswered, Told
<1>7. CASE EnqueueFails(c) \/ DatabaseFails(c)
  <2>1. /\ pc[c] \in InProgress /\ reply' = [reply EXCEPT ![c] = "Internal"]
        /\ UNCHANGED <<users, req, mailed>>
    BY <1>7 DEF EnqueueFails, DatabaseFails, Answer, taskVars, InProgress
  <2> QED
    BY <1>1, <1>2, <2>1 DEF Registering!Next, Registering!GiveUp,
       Registering!Unanswered, Told, InProgress
<1> QED
  BY <1>3, <1>4, <1>5, <1>6, <1>7 DEF Rpc

\* A handler that finds its user mails to it; all else is not seen.
LEMMA RefineRest ==
  ASSUME IInv,
         \/ \E c \in Calls :
              Worker(c) \/ PayloadDamaged(c) \/ GetUserFails(c) \/ ResultLost(c)
         \/ Life
         \/ UNCHANGED vars
  PROVE  [Registering!Next]_Abstract
<1>1. CASE \E c \in Calls : ProcessTask(c)
  <2>1. PICK c \in Calls : ProcessTask(c)
    BY <1>1
  <2>2. PICK u \in users : u.name = req[c].name
    BY <2>1 DEF ProcessTask, Registered
  <2>3. UNCHANGED <<users, req, reply>> /\ mailed' = mailed \cup {c}
    BY <2>1 DEF ProcessTask, Handled, rpcVars
  <2>4. Told' = Told \cup {u.name}
    BY <2>2, <2>3 DEF Told
  <2> QED
    BY <2>3, <2>4 DEF Registering!Next, Registering!Mail, Told
<1>2. CASE UNCHANGED <<users, req, reply, mailed>>
  BY <1>2 DEF Abstract, Told
<1> QED
  BY <1>1, <1>2 DEF Worker, Dequeue, PayloadDamaged, UnmarshalFails, ProcessTaskFails,
     GetUserFails, Handled, Complete, Fail, Skip, ResultLost, LeaseExpired, Life,
     Shutdown, Exit, Crash, Start, vars, rpcVars, taskVars

\* Signing up is one step or none, for any number of calls, retries and restarts.
THEOREM Refinement == Spec => ImplementsRegistration
<1>1. IInv /\ [Next]_vars => [Registering!Next]_Abstract
  BY RefineRpc, RefineRest DEF Next, Fault
<1> QED
  BY <1>1, Invariance, RefineInit, PTL
     DEF Spec, ImplementsRegistration, Registering!Spec, Abstract, Told

-------------------------------------------------------------------------------
(* What is behind TasksEnd, up to fairness: no task goes round for ever.       *)

\* How many steps are left to c's task: four for each attempt, of which Dequeue,
\* the handler and its result take three, and a lost result one more.
TaskLeft(c) ==
  CASE task[c] = "queued" -> 4 * (MaxRetry - retried[c]) + 4
    [] task[c] = "active" ->
         4 * (MaxRetry - retried[c])
           + (CASE handler[c] = "running" -> 3
                [] handler[c] \in {"mailed", "failed", "skip"} -> 2
                [] handler[c] = "none" -> 1)
    [] OTHER -> 0

\* The same by stages, and where it is 0.
LEMMA TaskLeftIs ==
  ASSUME IInv, NEW c \in Calls
  PROVE  /\ TaskLeft(c) \in 0..(4 * MaxRetry + 4)
         /\ TaskLeft(c) = 0 <=> task[c] = "none" \/ Ended(c)
         /\ task[c] = "queued" => TaskLeft(c) = 4 * (MaxRetry - retried[c]) + 4
         /\ task[c] = "active" /\ handler[c] = "running" =>
              TaskLeft(c) = 4 * (MaxRetry - retried[c]) + 3
         /\ task[c] = "active" /\ handler[c] \in {"mailed", "failed", "skip"} =>
              TaskLeft(c) = 4 * (MaxRetry - retried[c]) + 2
         /\ task[c] = "active" /\ handler[c] = "none" =>
              TaskLeft(c) = 4 * (MaxRetry - retried[c]) + 1
<1>1. /\ task[c] \in {"none", "queued", "active", "archived", "completed"}
      /\ handler[c] \in {"none", "running", "mailed", "failed", "skip"}
      /\ retried[c] \in 0..MaxRetry /\ MaxRetry \in Nat
  BY RetryAssumption DEF RetryAssumption, IInv, TypeOK
<1>2. CASE task[c] = "queued"
  BY <1>1, <1>2 DEF TaskLeft, Ended
<1>3. CASE task[c] = "active" /\ handler[c] = "running"
  BY <1>1, <1>3 DEF TaskLeft, Ended
<1>4. CASE task[c] = "active" /\ handler[c] \in {"mailed", "failed", "skip"}
  BY <1>1, <1>4 DEF TaskLeft, Ended
<1>5. CASE task[c] = "active" /\ handler[c] = "none"
  BY <1>1, <1>5 DEF TaskLeft, Ended
<1>6. CASE task[c] \notin {"queued", "active"}
  <2>1. task[c] # "none" => Ended(c)
    BY <1>1, <1>6 DEF IInv, HandlersOK
  <2> QED
    BY <1>1, <1>6, <2>1 DEF TaskLeft, Ended
<1> QED
  BY <1>1, <1>2, <1>3, <1>4, <1>5, <1>6

\* A step of the task's worker or a fault on the way of its result.
TaskStep(c) == Worker(c) \/ GetUserFails(c) \/ ResultLost(c)

LEMMA TaskStepLess ==
  ASSUME IInv, IInv', NEW c \in Calls, TaskStep(c)
  PROVE  TaskLeft(c)' < TaskLeft(c)
<1>1. /\ retried \in [Calls -> 0..MaxRetry] /\ MaxRetry \in Nat
      /\ task \in [Calls -> {"none", "queued", "active", "archived", "completed"}]
      /\ handler \in [Calls -> {"none", "running", "mailed", "failed", "skip"}]
      /\ handler[c] # "none" => task[c] = "active"
  BY RetryAssumption DEF RetryAssumption, IInv, TypeOK, HandlersOK
<1>2. /\ task'[c] \in {"archived", "completed"} => TaskLeft(c)' = 0
      /\ task'[c] = "queued" => TaskLeft(c)' = 4 * (MaxRetry - retried'[c]) + 4
      /\ task'[c] = "active" /\ handler'[c] = "running" =>
           TaskLeft(c)' = 4 * (MaxRetry - retried'[c]) + 3
      /\ task'[c] = "active" /\ handler'[c] \in {"mailed", "failed", "skip"} =>
           TaskLeft(c)' = 4 * (MaxRetry - retried'[c]) + 2
      /\ task'[c] = "active" /\ handler'[c] = "none" =>
           TaskLeft(c)' = 4 * (MaxRetry - retried'[c]) + 1
  <2>1. task'[c] \in {"archived", "completed"} => TaskLeft(c)' = 0
    BY DEF TaskLeft
  <2>2. task'[c] = "queued" => TaskLeft(c)' = 4 * (MaxRetry - retried'[c]) + 4
    BY DEF TaskLeft
  <2>3. task'[c] = "active" /\ handler'[c] = "running" =>
          TaskLeft(c)' = 4 * (MaxRetry - retried'[c]) + 3
    BY DEF TaskLeft
  <2>4. task'[c] = "active" /\ handler'[c] \in {"mailed", "failed", "skip"} =>
          TaskLeft(c)' = 4 * (MaxRetry - retried'[c]) + 2
    BY DEF TaskLeft
  <2>5. task'[c] = "active" /\ handler'[c] = "none" =>
          TaskLeft(c)' = 4 * (MaxRetry - retried'[c]) + 1
    BY DEF TaskLeft
  <2> QED
    BY <2>1, <2>2, <2>3, <2>4, <2>5
<1>3. CASE Dequeue(c)
  BY <1>1, <1>2, <1>3, TaskLeftIs DEF Dequeue
<1>4. CASE \/ UnmarshalFails(c) \/ ProcessTask(c) \/ ProcessTaskFails(c)
         \/ GetUserFails(c)
  BY <1>1, <1>2, <1>4, TaskLeftIs
     DEF UnmarshalFails, ProcessTask, ProcessTaskFails, GetUserFails, Handled
<1>5. CASE Complete(c) \/ Skip(c)
  BY <1>1, <1>2, <1>5, TaskLeftIs DEF Complete, Skip
<1>6. CASE ResultLost(c)
  BY <1>1, <1>2, <1>6, TaskLeftIs DEF ResultLost
<1>7. CASE Fail(c) \/ LeaseExpired(c)
  <2>1. RetryOrArchive(c) /\ TaskLeft(c) >= 4 * (MaxRetry - retried[c]) + 1
    BY <1>1, <1>7, TaskLeftIs DEF Fail, LeaseExpired
  <2>2. CASE retried[c] < MaxRetry
    <3>1. task'[c] = "queued" /\ retried'[c] = retried[c] + 1
      BY <1>1, <2>1, <2>2 DEF RetryOrArchive
    <3>2. TaskLeft(c)' = 4 * (MaxRetry - (retried[c] + 1)) + 4
      <4>1. TaskLeft(c)' = 4 * (MaxRetry - retried'[c]) + 4
        BY <1>2, <3>1
      <4>2. retried'[c] = retried[c] + 1
        BY <3>1
      <4> QED
        BY <4>1, <4>2, Zenon
    <3>3. retried[c] \in Nat /\ TaskLeft(c) \in Int
      BY <1>1, TaskLeftIs
    <3> QED
      BY <1>1, <2>1, <3>2, <3>3
  <2>3. CASE ~(retried[c] < MaxRetry)
    <3>1. task'[c] = "archived" /\ retried[c] = MaxRetry
      <4>1. retried[c] \in 0..MaxRetry /\ MaxRetry \in Nat
        BY <1>1
      <4>2. task' = [task EXCEPT ![c] = "archived"]
        BY <2>1, <2>3 DEF RetryOrArchive
      <4>3. task'[c] = "archived"
        BY <1>1, <4>2
      <4> QED
        BY <2>3, <4>1, <4>3
    <3> QED
      BY <1>1, <1>2, <2>1, <3>1, TaskLeftIs
  <2> QED
    BY <2>2, <2>3
<1> QED
  BY <1>3, <1>4, <1>5, <1>6, <1>7 DEF TaskStep, Worker

\* Every step of a worker, a failure included, brings its task nearer to its end;
\* one that is over stays so; and nothing but a shutdown takes a task back, by
\* less than one attempt, since the attempt handed back is not counted
\* (task_send_verify_email.go 38-57, MaxRetry of rpc_create_user.go 40).
TaskMoves(c) ==
  /\ TaskStep(c) => TaskLeft(c)' < TaskLeft(c)
  /\ task[c] # "none" /\ ~Shutdown => TaskLeft(c)' <= TaskLeft(c)
  /\ Shutdown => TaskLeft(c)' <= TaskLeft(c) + 3
  /\ Ended(c) => Ended(c)'

\* A step that leaves a task, its retries and its handler alone leaves TaskLeft.
LEMMA TaskFrame ==
  ASSUME NEW c \in Calls, task'[c] = task[c], retried'[c] = retried[c],
         handler'[c] = handler[c], damaged \subseteq damaged'
  PROVE  TaskLeft(c)' = TaskLeft(c) /\ (Ended(c) => Ended(c)')
BY DEF TaskLeft, Ended

\* What the process does to a task: only a shutdown takes an attempt back.
LEMMA LifeMoves ==
  ASSUME IInv, IInv', Life, NEW c \in Calls
  PROVE  /\ ~Shutdown => TaskLeft(c)' <= TaskLeft(c)
         /\ Shutdown => TaskLeft(c)' <= TaskLeft(c) + 3
         /\ Ended(c) => Ended(c)'
<1>1. /\ retried[c] \in 0..MaxRetry /\ MaxRetry \in Nat
      /\ handler[c] \in {"none", "running", "mailed", "failed", "skip"}
      /\ handler[c] # "none" => task[c] = "active"
      /\ TaskLeft(c) \in Int
  BY RetryAssumption, TaskLeftIs DEF RetryAssumption, IInv, TypeOK, HandlersOK
<1>2. CASE handler'[c] = handler[c] /\ task'[c] = task[c] /\ retried'[c] = retried[c]
  <2>1. damaged' = damaged
    BY DEF Life, Shutdown, Exit, Crash, Start, taskVars
  <2>2. TaskLeft(c)' = TaskLeft(c) /\ (Ended(c) => Ended(c)')
    BY <1>2, <2>1, TaskFrame
  <2> QED
    BY <1>1, <2>2
<1>3. CASE Crash /\ handler[c] # "none"
  <2>1. task'[c] = "active" /\ handler'[c] = "none" /\ retried'[c] = retried[c]
    BY <1>1, <1>3 DEF Crash
  <2>2. TaskLeft(c)' = 4 * (MaxRetry - retried[c]) + 1 /\ ~Ended(c)
    BY <1>1, <1>3, <2>1 DEF TaskLeft, Ended
  <2>3. ~Shutdown
    BY <1>3 DEF Crash, Shutdown
  <2> QED
    BY <1>1, <1>3, <2>2, <2>3, TaskLeftIs
<1>4. CASE Shutdown /\ handler[c] # "none"
  <2>1. task'[c] = "queued" /\ retried'[c] = retried[c]
    BY <1>1, <1>4 DEF Shutdown
  <2>2. TaskLeft(c)' = 4 * (MaxRetry - retried[c]) + 4 /\ ~Ended(c)
    BY <1>1, <1>4, <2>1 DEF TaskLeft, Ended
  <2>3. TaskLeft(c) >= 4 * (MaxRetry - retried[c]) + 1
    BY <1>1, <1>4, TaskLeftIs
  <2> QED
    BY <1>1, <1>4, <2>2, <2>3
<1> QED
  BY <1>1, <1>2, <1>3, <1>4 DEF Life, Shutdown, Exit, Crash, Start, taskVars

\* No step of anybody takes a task back otherwise.
LEMMA AnyStepMoves ==
  ASSUME IInv, IInv', [Next]_vars, NEW c \in Calls
  PROVE  TaskMoves(c)
<1>1. TaskLeft(c) \in Int /\ TaskLeft(c)' \in Int
  <2>1. retried'[c] \in 0..MaxRetry /\ MaxRetry \in Nat
    BY RetryAssumption DEF RetryAssumption, IInv, TypeOK
  <2>2. handler'[c] \in {"none", "running", "mailed", "failed", "skip"}
    BY DEF IInv, TypeOK
  <2>3. TaskLeft(c)' \in Int
    BY <2>1, <2>2 DEF TaskLeft
  <2>4. TaskLeft(c) \in Int
    BY RetryAssumption, TaskLeftIs DEF RetryAssumption
  <2> QED
    BY <2>3, <2>4
<1>2. TaskStep(c) => TaskLeft(c)' < TaskLeft(c)
  BY TaskStepLess
<1>3. ASSUME UNCHANGED <<task, retried, handler>>, damaged \subseteq damaged'
      PROVE  TaskLeft(c)' <= TaskLeft(c) /\ (Ended(c) => Ended(c)')
  BY <1>1, <1>3, TaskFrame
<1>4. CASE TaskStep(c)
  <2>1. ~Ended(c)
    BY <1>4 DEF TaskStep, Worker, Dequeue, UnmarshalFails, ProcessTask,
       ProcessTaskFails, Handled, Complete, Skip, Fail, LeaseExpired, GetUserFails, ResultLost, IInv, HandlersOK, Ended
  <2>2. ~Shutdown
    BY <1>4 DEF TaskStep, Worker, Dequeue, UnmarshalFails, ProcessTask,
       ProcessTaskFails, Handled, Complete, Skip, Fail, LeaseExpired, GetUserFails, ResultLost, Shutdown, lifeVars
  <2>3. TaskLeft(c)' < TaskLeft(c)
    BY <1>2, <1>4
  <2>4. TaskLeft(c)' <= TaskLeft(c)
    BY <1>1, <2>3
  <2> QED
    BY <2>1, <2>2, <2>3, <2>4 DEF TaskMoves
<1>5. CASE \E d \in Calls \ {c} : TaskStep(d)
  <2>1. UNCHANGED <<service, damaged>>
    BY <1>5 DEF TaskStep, Worker, Dequeue, UnmarshalFails, ProcessTask,
       ProcessTaskFails, Handled, Complete, Skip, Fail, LeaseExpired, GetUserFails, ResultLost, lifeVars
  <2>2. task'[c] = task[c] /\ retried'[c] = retried[c] /\ handler'[c] = handler[c]
    BY <1>5 DEF TaskStep, Worker, Dequeue, UnmarshalFails, ProcessTask,
       ProcessTaskFails, Handled, Complete, Skip, Fail, LeaseExpired, RetryOrArchive, GetUserFails, ResultLost, IInv, TypeOK
  <2>3. ~Shutdown
    BY <2>1 DEF Shutdown
  <2> QED
    BY <1>1, <1>2, <2>1, <2>2, <2>3, TaskFrame DEF TaskMoves
<1>6. CASE \E d \in Calls : \/ \E u \in User : CreateUser(d, u)
                           \/ Rpc(d)
                           \/ EnqueueFails(d) \/ CommitUnacknowledged(d)
                           \/ DatabaseFails(d)
  <2>1. PICK d \in Calls : \/ \E u \in User : CreateUser(d, u)
                           \/ Rpc(d)
                           \/ EnqueueFails(d) \/ CommitUnacknowledged(d)
                           \/ DatabaseFails(d)
    BY <1>6
  <2>2. UNCHANGED <<retried, handler, damaged, service>>
    BY <2>1 DEF CreateUser, Rpc, Insert, InsertRejected, Enqueue, Commit, EnqueueFails,
       CommitUnacknowledged, DatabaseFails, taskVars, lifeVars
  <2>3. task'[c] = task[c] \/ task[c] = "none"
    BY <2>1 DEF CreateUser, Rpc, Insert, InsertRejected, Enqueue, Commit, EnqueueFails,
       CommitUnacknowledged, DatabaseFails, taskVars, lifeVars, IInv, StagesOK, TypeOK
  <2>4. ~Shutdown
    BY <2>2 DEF Shutdown
  <2>5. CASE task'[c] = task[c]
    BY <1>1, <1>2, <2>2, <2>4, <2>5, TaskFrame DEF TaskMoves
  <2>6. CASE task[c] = "none"
    BY <1>2, <2>4, <2>6 DEF TaskMoves, Ended
  <2> QED
    BY <2>3, <2>5, <2>6
<1>7. CASE Life
  BY <1>2, <1>7, LifeMoves DEF TaskMoves
<1>8. CASE UNCHANGED vars \/ \E d \in Calls : PayloadDamaged(d)
  <2>1. UNCHANGED <<task, retried, handler, service>> /\ damaged \subseteq damaged'
    BY <1>8 DEF PayloadDamaged, vars, taskVars, lifeVars
  <2>2. ~Shutdown
    BY <2>1 DEF Shutdown
  <2> QED
    BY <1>2, <1>3, <2>1, <2>2 DEF TaskMoves
<1> QED
  BY <1>4, <1>5, <1>6, <1>7, <1>8 DEF Next, Fault, TaskStep

\* No task goes round for ever: it has at most four steps for each attempt, 0 when
\* it is over, and every step of its worker, a failure included, uses one up; only
\* a shutdown gives some back (rpc_create_user.go 40, task_send_verify_email.go
\* 38-57, processor.go 52-54).
THEOREM TasksAdvance ==
  Spec => /\ [](\A c \in Calls :
                  /\ TaskLeft(c) \in 0..(4 * MaxRetry + 4)
                  /\ TaskLeft(c) = 0 <=> task[c] = "none" \/ Ended(c))
          /\ [][\A c \in Calls : TaskMoves(c)]_vars
<1>1. IInv => \A c \in Calls :
                /\ TaskLeft(c) \in 0..(4 * MaxRetry + 4)
                /\ TaskLeft(c) = 0 <=> task[c] = "none" \/ Ended(c)
  BY TaskLeftIs
<1>2. IInv /\ IInv' /\ [Next]_vars => [\A c \in Calls : TaskMoves(c)]_vars
  BY AnyStepMoves
<1> QED
  BY <1>1, <1>2, Invariance, PTL DEF Spec
===============================================================================
