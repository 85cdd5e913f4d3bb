------------------------------ MODULE VerifyEmail ------------------------------
(*****************************************************************************)
(* From the CreateUser RPC to the verification mail: the RPC                 *)
(* (gapi/rpc_create_user.go) inserts a user and, inside the same database    *)
(* transaction (db/sqlc/tx_create_user.go), puts a task into Redis; the task *)
(* processor of the same process (worker/) takes tasks out and mails.  The   *)
(* database and Redis commit apart, so a task may run before its user is     *)
(* committed, or have no user at all.                                        *)
(*                                                                           *)
(* asynq, the queue in Redis, is external: it is modelled as the code uses   *)
(* it.  A task is queued, is active while a worker has a lease on it, and is *)
(* retried when its handler fails or the lease runs out.  Delays (ProcessIn, *)
(* the back-off of a retry) are left out: a task may run at any time.        *)
(*****************************************************************************)
EXTENDS Naturals, FiniteSets

CONSTANTS
  Calls,        \* the CreateUser RPCs; a call enqueues at most one task
  Names,        \* the usernames they ask for
  Emails,       \* the addresses they give
  NoUser,       \* the request of an RPC that has not come yet
  MaxRetry,     \* rpc_create_user.go line 40: 10
  MaxStarts,    \* bound: how often the service is started again
  MaxDamaged    \* bound: how many tasks are damaged in Redis

ASSUME RetryAssumption ==
  MaxRetry \in Nat /\ MaxStarts \in Nat /\ MaxDamaged \in Nat

User == [name : Names, email : Emails]

ASSUME NoUserAssumption == NoUser \notin User

VARIABLES
  users,     \* table users, committed
  pc,        \* where an RPC stands: "new", ..., "done"
  req,       \* its request
  inserted,  \* the RPCs whose transaction holds an uncommitted row
  reply,     \* what its caller got: "none", "OK", "AlreadyExists", "Internal"
  task,      \* the task of an RPC in Redis
  retried,   \* how often that task was retried
  handler,   \* what the worker that holds the task has done
  damaged,   \* the tasks whose payload in Redis is no JSON
  service,   \* the process: "up", "stopping", "down"
  starts,    \* how often it was started again
  mailed     \* history: the tasks whose handler found the user

rpcVars == <<users, pc, req, inserted, reply>>
taskVars == <<task, retried, handler, damaged, mailed>>
lifeVars == <<service, starts>>
vars == <<rpcVars, taskVars, lifeVars>>

InProgress == {"insert", "enqueue", "commit"}

TypeOK ==
  /\ users \subseteq User
  /\ pc \in [Calls -> InProgress \cup {"new", "done"}]
  /\ req \in [Calls -> User \cup {NoUser}]
  /\ inserted \subseteq Calls
  /\ reply \in [Calls -> {"none", "OK", "AlreadyExists", "Internal"}]
  /\ task \in [Calls -> {"none", "queued", "active", "archived", "completed"}]
  /\ retried \in [Calls -> 0..MaxRetry]
  /\ handler \in [Calls -> {"none", "running", "mailed", "failed", "skip"}]
  /\ damaged \subseteq Calls
  /\ service \in {"up", "stopping", "down"}
  /\ starts \in 0..MaxStarts
  /\ mailed \subseteq Calls

Init ==
  /\ users = {}
  /\ pc = [c \in Calls |-> "new"]
  /\ req = [c \in Calls |-> NoUser]
  /\ inserted = {}
  /\ reply = [c \in Calls |-> "none"]
  /\ task = [c \in Calls |-> "none"]
  /\ retried = [c \in Calls |-> 0]
  /\ handler = [c \in Calls |-> "none"]
  /\ damaged = {}
  /\ service = "up"
  /\ starts = 0
  /\ mailed = {}

-------------------------------------------------------------------------------
(* The RPC.                                                                  *)

Answer(c, r) ==
  /\ pc' = [pc EXCEPT ![c] = "done"]
  /\ reply' = [reply EXCEPT ![c] = r]
  /\ inserted' = inserted \ {c}

\* A valid request (an invalid one is answered and changes nothing).
CreateUser(c, u) ==
  /\ service = "up"
  /\ pc[c] = "new"
  /\ pc' = [pc EXCEPT ![c] = "insert"]
  /\ req' = [req EXCEPT ![c] = u]
  /\ UNCHANGED <<users, inserted, reply, taskVars, lifeVars>>

\* The two unique columns of users.
Conflict(u, v) == u.name = v.name \/ u.email = v.email

\* Mutant of Waits: an insert does not see the rows of open transactions.
NeverWaits(c) == FALSE

\* The insert waits for an open transaction that holds a conflicting row.
Waits(c) == \E d \in inserted : Conflict(req[c], req[d])

Insert(c) ==
  /\ pc[c] = "insert"
  /\ ~Waits(c)
  /\ \A u \in users : ~Conflict(req[c], u)
  /\ inserted' = inserted \cup {c}
  /\ pc' = [pc EXCEPT ![c] = "enqueue"]
  /\ UNCHANGED <<users, req, reply, taskVars, lifeVars>>

\* unique_violation: the transaction rolls back, no task is enqueued.
InsertRejected(c) ==
  /\ pc[c] = "insert"
  /\ ~Waits(c)
  /\ \E u \in users : Conflict(req[c], u)
  /\ Answer(c, "AlreadyExists")
  /\ UNCHANGED <<users, req, taskVars, lifeVars>>

\* Mutant of Enqueue: the task is left for later (AfterCreate after the commit).
EnqueueSkipped(c) ==
  /\ pc[c] = "enqueue"
  /\ pc' = [pc EXCEPT ![c] = "commit"]
  /\ UNCHANGED <<users, req, inserted, reply, taskVars, lifeVars>>

\* AfterCreate: DistributeTaskSendVerifyEmail, before the commit.
Enqueue(c) ==
  /\ pc[c] = "enqueue"
  /\ task' = [task EXCEPT ![c] = "queued"]
  /\ pc' = [pc EXCEPT ![c] = "commit"]
  /\ UNCHANGED <<users, req, inserted, reply, retried, handler, damaged,
                 mailed, lifeVars>>

\* Redis fails, and may have stored the task all the same: the transaction
\* rolls back.
EnqueueFails(c) ==
  /\ pc[c] = "enqueue"
  /\ task' \in {task, [task EXCEPT ![c] = "queued"]}
  /\ Answer(c, "Internal")
  /\ UNCHANGED <<users, req, retried, handler, damaged, mailed, lifeVars>>

Commit(c) ==
  /\ pc[c] = "commit"
  /\ users' = users \cup {req[c]}
  /\ Answer(c, "OK")
  /\ UNCHANGED <<req, taskVars, lifeVars>>

\* The commit takes place but its acknowledgement is lost.
CommitUnacknowledged(c) ==
  /\ pc[c] = "commit"
  /\ users' = users \cup {req[c]}
  /\ Answer(c, "Internal")
  /\ UNCHANGED <<req, taskVars, lifeVars>>

\* Mutant of DatabaseFails: execTX drops the error of its commit.
FailureIgnored(c) ==
  /\ pc[c] \in {"insert", "commit"}
  /\ Answer(c, "OK")
  /\ UNCHANGED <<users, req, taskVars, lifeVars>>

\* The database fails, or the caller gives up (ctx is the RPC's: its
\* cancellation rolls the transaction back): a task already enqueued stays.
DatabaseFails(c) ==
  /\ pc[c] \in {"insert", "commit"}
  /\ Answer(c, "Internal")
  /\ UNCHANGED <<users, req, taskVars, lifeVars>>

-------------------------------------------------------------------------------
(* The task processor.                                                       *)

\* The queue of the task, and those the server takes tasks from.
TaskQueue == "critical"

Served == {"critical", "default", "low"}

Dequeue(c) ==
  /\ service = "up"
  /\ TaskQueue \in Served
  /\ task[c] = "queued"
  /\ task' = [task EXCEPT ![c] = "active"]
  /\ handler' = [handler EXCEPT ![c] = "running"]
  /\ UNCHANGED <<retried, damaged, mailed, rpcVars, lifeVars>>

\* Somebody else writes to the same Redis, or another release of the service
\* with another payload: what is stored for the task is no JSON any more.
PayloadDamaged(c) ==
  /\ task[c] = "queued"
  /\ Cardinality(damaged) < MaxDamaged
  /\ damaged' = damaged \cup {c}
  /\ UNCHANGED <<task, retried, handler, mailed, rpcVars, lifeVars>>

\* The handler comes to an end, with or without an error.
Handled(c, result) ==
  /\ handler[c] = "running"
  /\ handler' = [handler EXCEPT ![c] = result]
  /\ UNCHANGED <<task, retried, damaged, rpcVars, lifeVars>>

\* json.Unmarshal fails: asynq.SkipRetry.
UnmarshalFails(c) ==
  /\ Handled(c, "skip")
  /\ c \in damaged
  /\ UNCHANGED mailed

Registered(n) == \E u \in users : u.name = n

\* Mutant of ProcessTask: the payload is trusted, no GetUser.
ProcessTaskUnchecked(c) ==
  /\ Handled(c, "mailed")
  /\ c \notin damaged
  /\ mailed' = mailed \cup {c}

\* ProcessTaskSendVerifyEmail: GetUser by the name in the payload, then mail.
ProcessTask(c) ==
  /\ Handled(c, "mailed")
  /\ c \notin damaged
  /\ Registered(req[c].name)
  /\ mailed' = mailed \cup {c}

\* GetUser finds no such user (yet): an error like any other, because the
\* lines that would have skipped the retries are commented out (46-48).
ProcessTaskFails(c) ==
  /\ Handled(c, "failed")
  /\ c \notin damaged
  /\ ~Registered(req[c].name)
  /\ UNCHANGED mailed

GetUserFails(c) ==
  /\ Handled(c, "failed")
  /\ c \notin damaged
  /\ UNCHANGED mailed

\* The handler is through: asynq takes the task out of Redis.
Complete(c) ==
  /\ handler[c] = "mailed"
  /\ task' = [task EXCEPT ![c] = "completed"]
  /\ handler' = [handler EXCEPT ![c] = "none"]
  /\ UNCHANGED <<retried, damaged, mailed, rpcVars, lifeVars>>

\* SkipRetry: the archive, at once.
Skip(c) ==
  /\ handler[c] = "skip"
  /\ task' = [task EXCEPT ![c] = "archived"]
  /\ handler' = [handler EXCEPT ![c] = "none"]
  /\ UNCHANGED <<retried, damaged, mailed, rpcVars, lifeVars>>

\* Mutant of RetryOrArchive: the lines 46-48 of task_send_verify_email.go put
\* back in.
SkipRetryOnNoRows(c) ==
  IF retried[c] < MaxRetry /\ Registered(req[c].name)
  THEN /\ task' = [task EXCEPT ![c] = "queued"]
       /\ retried' = [retried EXCEPT ![c] = @ + 1]
  ELSE /\ task' = [task EXCEPT ![c] = "archived"]
       /\ UNCHANGED retried

\* MaxRetry retries after the first attempt, then the archive.
RetryOrArchive(c) ==
  IF retried[c] < MaxRetry
  THEN /\ task' = [task EXCEPT ![c] = "queued"]
       /\ retried' = [retried EXCEPT ![c] = @ + 1]
  ELSE /\ task' = [task EXCEPT ![c] = "archived"]
       /\ UNCHANGED retried

Fail(c) ==
  /\ handler[c] = "failed"
  /\ handler' = [handler EXCEPT ![c] = "none"]
  /\ RetryOrArchive(c)
  /\ UNCHANGED <<damaged, mailed, rpcVars, lifeVars>>

\* Redis does not take note of what the handler did.
ResultLost(c) ==
  /\ handler[c] \in {"mailed", "failed", "skip"}
  /\ handler' = [handler EXCEPT ![c] = "none"]
  /\ UNCHANGED <<task, retried, damaged, mailed, rpcVars, lifeVars>>

\* The recoverer finds an active task that no worker holds any more.
LeaseExpired(c) ==
  /\ service = "up"
  /\ task[c] = "active"
  /\ handler[c] = "none"
  /\ RetryOrArchive(c)
  /\ UNCHANGED <<handler, damaged, mailed, rpcVars, lifeVars>>

-------------------------------------------------------------------------------
(* The process.                                                              *)

\* A signal: no new RPC; the processor takes no new task and hands back those
\* its workers do not finish in time.  The handed back attempt is not counted.
Shutdown ==
  /\ service = "up"
  /\ service' = "stopping"
  /\ task' = [c \in Calls |-> IF handler[c] = "none" THEN task[c] ELSE "queued"]
  /\ handler' = [c \in Calls |-> "none"]
  /\ UNCHANGED <<retried, damaged, mailed, starts, rpcVars>>

\* GracefulStop waits for the RPCs in progress (main.go lines 140-146).
Exit ==
  /\ service = "stopping"
  /\ \A c \in Calls : pc[c] \notin InProgress
  /\ service' = "down"
  /\ UNCHANGED <<starts, rpcVars, taskVars>>

\* Mutant of Crash: the open transactions outlive the process.
CrashKeepsRows ==
  /\ service # "down"
  /\ service' = "down"
  /\ pc' = [c \in Calls |-> IF pc[c] \in InProgress THEN "done" ELSE pc[c]]
  /\ handler' = [c \in Calls |-> "none"]
  /\ UNCHANGED <<users, req, inserted, reply, task, retried, damaged, mailed,
                 starts>>

\* Open transactions roll back; Redis keeps the tasks as they are.
Crash ==
  /\ service # "down"
  /\ service' = "down"
  /\ pc' = [c \in Calls |-> IF pc[c] \in InProgress THEN "done" ELSE pc[c]]
  /\ inserted' = {}
  /\ handler' = [c \in Calls |-> "none"]
  /\ UNCHANGED <<users, req, reply, task, retried, damaged, mailed, starts>>

Start ==
  /\ service = "down"
  /\ starts < MaxStarts
  /\ starts' = starts + 1
  /\ service' = "up"
  /\ UNCHANGED <<rpcVars, taskVars>>

-------------------------------------------------------------------------------

Rpc(c) ==
  \/ Insert(c) \/ InsertRejected(c) \/ Enqueue(c) \/ Commit(c)

Fault(c) ==
  \/ EnqueueFails(c) \/ CommitUnacknowledged(c) \/ DatabaseFails(c)
  \/ PayloadDamaged(c) \/ GetUserFails(c) \/ ResultLost(c)

Worker(c) ==
  \/ Dequeue(c) \/ ProcessTask(c) \/ ProcessTaskFails(c) \/ UnmarshalFails(c)
  \/ Complete(c) \/ Fail(c) \/ Skip(c) \/ LeaseExpired(c)

Life == Shutdown \/ Exit \/ Crash \/ Start

Next ==
  \/ \E c \in Calls, u \in User : CreateUser(c, u)
  \/ \E c \in Calls : Rpc(c) \/ Fault(c) \/ Worker(c)
  \/ Life

Spec == Init /\ [][Next]_vars

\* The server goes on with every RPC and asynq with every task.  Nothing makes
\* a call, a fault or a shutdown happen, and nothing restarts the service.
Fairness ==
  \A c \in Calls : WF_vars(Rpc(c)) /\ WF_vars(Worker(c))

FairSpec == Spec /\ Fairness

-------------------------------------------------------------------------------
(* Properties.                                                               *)

\* No user without a task: whatever fails between the database and Redis, a
\* user that is committed has had its task enqueued (what AfterCreate inside
\* the transaction is for, tx_create_user.go lines 17-25).
UserHasTask ==
  \A u \in users : \E c \in Calls : req[c] = u /\ task[c] # "none"

\* "OK" is said of a user that exists, with its task; "AlreadyExists" of a
\* request that left nothing, neither row nor task, because of an existing row.
RepliesAreTrue ==
  \A c \in Calls :
    /\ reply[c] = "OK" => req[c] \in users /\ task[c] # "none"
    /\ reply[c] = "AlreadyExists" =>
         /\ task[c] = "none"
         /\ \E u \in users : Conflict(req[c], u)

\* Of calls that race for one name or one address, one wins.
OneWinner ==
  \A u, v \in users : u # v => ~Conflict(u, v)

\* A task enqueued by a transaction that rolled back mails nobody, unless
\* somebody else has registered the name; and a task leaves Redis as completed
\* only when it has mailed.
MailGoesToUsers ==
  /\ \A c \in mailed : Registered(req[c].name)
  /\ \A c \in Calls : task[c] = "completed" => c \in mailed

\* A task that is over: it has mailed, or it has failed every time, or nobody can
\* read it.  No other way out of Redis is open to it.
Ended(c) ==
  \/ task[c] = "completed"
  \/ task[c] = "archived" /\ (retried[c] = MaxRetry \/ c \in damaged)

\* The inductive invariant: the rows of open transactions conflict with nothing,
\* so that a commit cannot fail on them, and a call that may still commit has
\* its task; a handler runs only for an active task, and a task is completed
\* only by a handler that mailed.
OpenRows ==
  \A c \in inserted :
    /\ \A d \in inserted \ {c} : ~Conflict(req[c], req[d])
    /\ \A u \in users : ~Conflict(req[c], u)

StagesOK ==
  \A c \in Calls :
    /\ IF pc[c] = "new" THEN req[c] = NoUser ELSE req[c] \in User
    /\ c \in inserted <=> pc[c] \in {"enqueue", "commit"}
    /\ pc[c] \in {"new", "insert", "enqueue"} => task[c] = "none"
    /\ pc[c] = "commit" => task[c] # "none"
    /\ pc[c] # "done" => reply[c] = "none"

HandlersOK ==
  \A c \in Calls :
    /\ handler[c] # "none" => task[c] = "active"
    /\ handler[c] = "mailed" => c \in mailed
    /\ handler[c] = "skip" => c \in damaged
    /\ c \in mailed => task[c] # "none"
    /\ task[c] \in {"completed", "archived"} => Ended(c)

IInv ==
  /\ TypeOK
  /\ OpenRows
  /\ StagesOK
  /\ HandlersOK
  /\ UserHasTask
  /\ RepliesAreTrue
  /\ OneWinner
  /\ MailGoesToUsers

\* Signing up is one step or none (Registration), and mail goes to users only,
\* however the calls, the two stores' failures, crashes, retries and second
\* deliveries interleave (rpc_create_user.go 54-70, tx_create_user.go,
\* task_send_verify_email.go 38-57).
Registering == INSTANCE Registration WITH told <- {req[c].name : c \in mailed}

ImplementsRegistration == Registering!Spec

\* As long as the service is started again whenever it is down, every task
\* that is enqueued ends, and not before its time: a task that runs before its
\* user is committed finds no user, and must not be given up for that.
TasksEnd ==
  []<>(service = "up") =>
     \A c \in Calls : task[c] = "queued" ~> Ended(c)
===============================================================================
