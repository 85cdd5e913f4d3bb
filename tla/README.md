# The bank, specified

TLA+ modules that model this repository, TLC runs that check them on small
instances, and theorems about them that TLAPS checks. Line numbers are those of
the files under `src/`.

## The system

A bank with accounts in three currencies, transfers between them, users,
sessions, and a verification mail after sign-up. One process (`main.go`) runs a
gRPC server, an HTTP gateway in front of the same RPCs, and a task processor
that takes tasks out of Redis. Money and users live in PostgreSQL.

| Component | State it keeps | Operations | Talks to |
|---|---|---|---|
| Store, transfers (`db/sqlc/tx_transfer.go`, `store.go`) | tables accounts, entries, transfers | `TransferTx`: five statements in one transaction | PostgreSQL, concurrently from every goroutine |
| Store, accounts (`db/sqlc/account.sql.go`) | table accounts | create, read, list, update, add to the balance, delete | PostgreSQL |
| Store, users (`tx_create_user.go`, `user.sql.go`) | table users | `CreateUserTx` with the callback `AfterCreate`; `GetUser`, `UpdateUser` | PostgreSQL, and Redis through the callback |
| Store, sessions (`session.sql.go`) | table sessions | create, read | PostgreSQL |
| `gapi` | none | RPCs `CreateUser`, `LoginUser`, `UpdateUser`; authorization | store, distributor, tokens |
| `api` (gin) | none | users, log-in, renewal of tokens, accounts, transfers | store, tokens. `runGinServer` (main.go 230) is never called: this server does not run |
| Worker | queues in Redis (asynq) | distribute, process a task, shut down | Redis, store |
| Tokens | none, a secret key | create, verify (JWT; the PASETO maker is not used) | clock |
| Process | goroutines of an errgroup, a context | start, serve, shut down | signals |
| Doors (`pb` handlers and gateway, `gapi/logger.go`, `gapi/error.go`) | none | decode a request, call its method, render and log the answer | `gapi` |
| Validation (`val`, gin's bindings), passwords (`util/password.go`) | none | pure functions | called by `gapi` and `api` |
| Configuration, generated messages, assets | none | start-up, or nothing | |

What is hard in it:

* **Concurrent transfers.** Five statements per transfer interleave with those
  of others at READ COMMITTED. Row locks can form cycles; the order of the two
  updates (tx_transfer.go 49-53) is all that prevents it.
* **A dropped error.** `TransferTx` ends its closure with `return nil` (line 54)
  whatever `addMoney` returned. Only the aborted transaction makes COMMIT fail.
* **Two stores.** `CreateUserTx` puts a task into Redis before PostgreSQL
  commits (tx_create_user.go 24): the task may run before its user exists, or
  have no user at all.
* **Retries and crashes.** Tasks are delivered at least once; the process may
  die at any statement; an acknowledgement of COMMIT may be lost.
* **Shutdown.** Five goroutines, two servers, and one captured variable `err`
  that two of the goroutines share (main.go 203-209, 220-223).
* **Checks written more than once.** The fields of a request are checked in three
  places of `gapi` and two of gin, and bcrypt has a limit of its own; the first
  page of accounts is enough only because of three numbers in three files.

What makes each component correct: for transfers, that they are atomic, keep the
books balanced, never deadlock and report what happened; for sign-up, that a
committed user has its task, a task reaches its end and mails only users, and
one of the calls that race for a name wins; for the doors, that who may sign up
may log in, and that the log tells what the caller was told; for the process,
that it ends when told to, finishes its requests and reports failures, and only
failures. `hazards` in `PROJECT.json` lists every spot where these can go wrong.

## The modules

| Module | Models |
|---|---|
| `Schema` | the tables that hold money, their foreign keys, `DoubleEntry` and `Conservation` |
| `Ledger` | the abstract specification: a transfer is one step |
| `Ledger_proofs` | sums of amounts, and why the books balance |
| `TransferTx` | the store at the grain of one SQL statement; implements `Ledger` |
| `TransferTx_proofs` | theorems about it |
| `TransferAPI` | `createAccount` and `createTransfer` over HTTP, composed with `Ledger` |
| `TransferAPI_proofs` | theorems about it |
| `Listing` | `getAccount`, `listAccount` and its int32 offset, over the state of `TransferAPI` |
| `Listing_proofs` | theorems about it |
| `Registration` | the abstract specification of sign-up: one step or none |
| `VerifyEmail` | `CreateUser`, `CreateUserTx`, the task queue, the task processor; implements `Registration` |
| `VerifyEmail_proofs` | theorems about it |
| `Access` | the abstract specification of log-in: who may act as whom, until when |
| `Sessions` | log-in, renewal, the check of tokens, `UpdateUser`; implements `Access` |
| `Sessions_proofs` | theorems about it |
| `Endpoints` | the gRPC, HTTP and gin doors: decoding, validation, statuses, logging |
| `Endpoints_proofs` | theorems about it |
| `Lifecycle` | `main` and its goroutines |
| `Lifecycle_proofs` | theorems about it |
| `MC*` | values of the constants, symmetry |

`map` in `PROJECT.json` names the source lines of every definition. Operators
whose comment begins with "Mutant of" are not part of a specification: each is
a plausible bug, put in place of the named operator to see that a property
notices it.

### TransferTx

A client is a goroutine in `TransferTx`; `pc[c]` is the statement it executes
next. Each statement is one action that does all that the statement and the Go
code up to the next one do: `Begin` (`BeginTx`), `CreateTransfer`,
`CreateFromEntry`, `CreateToEntry`, `AddFirst`, `AddSecond` (the two calls in
`addMoney`), `Commit`, `Rollback`. `StatementFails` is a failure of the server
or the connection at any of them, `CommitLost` and `CommitUnacknowledged` those
around COMMIT, `Crash` the end of the process or of the database.

PostgreSQL is external and modelled as the code relies on it:

* a transaction's rows and balances are invisible to others until COMMIT, which
  publishes all of them in one step;
* UPDATE takes FOR NO KEY UPDATE on its row and computes the sum on the version
  that is current when the lock is granted (READ COMMITTED); the foreign keys
  of an insert take FOR KEY SHARE, which conflicts with DELETE only;
* a statement that fails aborts the transaction and releases its locks; the
  driver answers a COMMIT of such a transaction with an error and rolls back;
* a sum that is no bigint makes the statement fail.

A row of transfers and of entries carries its transaction's number, which
PostgreSQL keeps in `xmin`; the schema ties entries to transfers by nothing
else. `unlogged` is a history variable: what `CreateAccount`, `UpdateAccount`
and `AddAccountBalance` put into an account outside a transfer. No handler calls
the last two, nor `DeleteAccount`, but the store offers them, so they interleave.

PostgreSQL would break a deadlock after a second by failing one statement. The
model lets a statement fail at any time but never relies on it: `NoDeadlock`
says that there is nothing to break.

### TransferAPI

The gin handlers `createAccount` and `createTransfer` with the columns owner and
currency. A transfer makes three calls of the store: `ValidFrom` (read,
currency, owner), `ValidTo` (read, currency), `TransferTx`; between them other
requests create accounts and an operator deletes accounts or sets balances. An
account whose insert is rejected or fails takes an id of the sequence with it. The
store's own transfer is `Ledger`'s step `Post`: the module builds on what
`TransferTx` is proved to implement, not on its statements. The answers are the
HTTP statuses. A request carries the user its token names; how tokens come to be
is not part of this module, and the handlers that only read are in `Listing`.
`main.go` never starts this server, but the code and its tests are kept, and its
checks are the only ones there are in front of `TransferTx`.

### Listing

`getAccount` and `listAccount` make one query each and change nothing, so they are
operators on the state of `TransferAPI`, and `PagesAreRight` is an invariant of
its behaviours: it speaks of every request that could come at any moment. `Wrapped`
is the multiplication of two int32, with `MaxInt32` cut down to 7 in the run so
that products wrap. An offset that wrapped may be negative, which PostgreSQL
refuses (500), or not, which shows the first page again; no line of the code
promises anything for such a `page_id`, and the property does not either.
`PagesAssumption` names what the pages rest on: there are no more currencies (3)
than the smallest page has rows (5).

### VerifyEmail

`pc[c]` follows an RPC through the insert, the enqueue inside the transaction
and the commit; `task[c]`, `retried[c]` and `handler[c]` its task through Redis
and a worker. An insert waits for an open transaction that holds a conflicting
name or address, as PostgreSQL's unique indexes do. Faults: Redis refuses the
task, or stores it and reports an error; the database fails before the commit,
or after it; `GetUser` fails; Redis does not note a handler's result; the
process stops or dies and is started again; what Redis holds for a task is no
JSON. The service itself stores nothing of that kind, but a release with another
payload, or anybody with the address of Redis, can; the handler then asks for the
archive at once (`SkipRetry`, task_send_verify_email.go 39-42), which is the
one way out that takes no retries. Delays (`ProcessIn`, back-off, the
sleep in the RPC) are left out: a task may run at any time, which includes
before its user is committed. `service` is the process; shutting down hands the
active tasks back, and waits for the RPCs.

`Registration` is what a caller may rely on: a user joins in one step, at the
commit, or leaves nothing; nobody joins beside a user with the name or address;
mail goes to the names of users. Its state is that of `VerifyEmail` without
Redis, transactions and the process, and the names mailed to in place of the
tasks that did it: a second delivery is a stutter.

### Sessions

`pc[c]` is where the handler that thread `c` runs stands, `call[c]` what it
holds: between any two steps the clock may tick, another call may run, an
operator may set `is_blocked` (no query does). A step ends where the handler
waits for the store or for bcrypt; what it does between two waits takes no time,
so that a check of the clock and the `CreateToken` after it are one step. Both
servers' log-in handlers take the same steps; `map` names lines of either.
A token is its payload: id, user, time of issue and of expiry. Nothing in it
says whether it is an access or a refresh token, in the code or in the model:
`VerifyToken` accepts either wherever a token is asked for, and only the look-up
of its session tells them apart. The two differ in how long they last, which
`IsRefresh` uses to state properties. A stored hash stands for the password it
was made from. `full_name`, a column like `email` without its index, is left out.
A request names a token that some caller was given, so every caller may use
any token; sign-up is in `VerifyEmail`, and the users here exist from the start.
PostgreSQL rounds a session's `expired_at` to whole microseconds, where a token
keeps nanoseconds: `Rounding` is half a microsecond in ticks of the clock, and a
session ends that much before or after its token.

History: `proved`, when a user's password was last checked; `known` and
`wasBlocked` inside `call`, the passwords the user has had and whether the
session was blocked since the request came.

### Endpoints

A call goes from a door to the store, or is answered on the way. A text is known
by its length, in bytes and in characters, and by the patterns it matches, which is
what package `val`, gin's bindings and bcrypt look at. `Verdict` is a handler up
to its first call of the store, in the order of its checks; `Refused` and
`Passed` are what becomes of all requests there can be. The gateway calls the
methods itself (`RegisterBankHandlerServer`), so that a request it takes is
logged by `HttpLogger` only, with the status its `ResponseRecorder` saw; a gRPC
request by `GRPCLogger`, unless it cannot be decoded: then it is answered
before the interceptor runs (service_bank_grpc.pb.go 109-111). The store is one
step here: what the handlers do in it is in `VerifyEmail` and `Sessions`.
Addresses are not stored, so any address may be taken. Requests for paths that
no method is registered for, and the swagger files, are left out.

### Lifecycle

`main` starts the components in the order of lines 72-74, each of which may fail
to be set up and then ends the process (`StartFails`); each goroutine of the
errgroup has a `pc`. The two servers' goroutines are modelled statement by
statement where they touch `err`. That access is a data race, so a read may
give what the goroutine stored last (the compiler may keep it in a register) or
what is in memory; that covers what the builds do, except a torn interface
value. What Serve and Shutdown promise is external: Shutdown and GracefulStop
stop the listener and return when no request is in progress; Serve returns an
error as soon as the listener is closed, except gRPC's, which waits for
GracefulStop.

## The runs

| Run | Question | Instance | Distinct states |
|---|---|---|---|
| `transfer_concurrent` | can row locks form a cycle, or a value overflow? | 3 clients, 3 accounts, 3 transfers of 1, bigint cut down to -2..1 | 2.1 million |
| `transfer_ledger` | do the statements add up to whole transfers, whatever else runs? | 2 clients, 3 account ids, 2 transfers, the other queries | 290 000 |
| `transfer_live` | does every call return? | 2 clients, 2 transfers, fairness | 12 000 |
| `api_transfers` | do the checks in front of a transfer still hold when it takes place, and does a user see all accounts? | 2 requests, 2 users, 2 currencies, 3 account ids, pages of 2 to 4, int32 up to 7 | 620 000 |
| `signup_safety` | is sign-up right under races, faults, restarts? | 3 calls, 2 names, 2 addresses, 1 retry, 1 restart, 1 damaged task | 3.6 million |
| `signup_live` | does every task end? | 2 calls, 2 names, 1 address, 2 retries, 1 restart, 1 damaged task | 190 000 |
| `sessions_tokens` | how long does access last, and who renews? | 2 threads, 1 user, 2 passwords, 3 tokens, 6 ticks, durations 1 and 2, rounding 1 | 3.5 million |
| `sessions_users` | do log-ins and updates of users get in each other's way? | 2 threads, 2 users, 2 passwords, 3 addresses, 4 tokens, 1 tick | 590 000 |
| `process_faults` | does the process end, with requests finished and failures told? | 2 requests, every fault, a signal at any time | 12 000 |
| `process_signal` | does a signal alone end it without an error? | 1 request, no fault | stops at a violation |
| `front_door` | are those who may sign up let in, and is the log true? | 2 calls, 3 doors, 3 names, 5 passwords, valid and invalid names and addresses | 250 000 |
| `password_length` | is every valid request served? | 1 call, passwords of 72 and 73 bytes | stops at a violation |

All but `process_signal` and `password_length` pass. Three clients and three
accounts are enough for a cycle of three locks, for opposite transfers and for
an account that pays itself next to another transfer; the proofs cover larger
instances. The bigint range is cut down so that an overflow happens within the
bounds: the sequence of transfers that overflows an account of -2..1 is that of
the real range, shorter. Six ticks hold a log-in, a renewal at the last moment
of its session, rounded up, and the end of the access token it gave, for which
three tokens are enough. The four tokens of `sessions_users` are two log-ins:
the first gives the token with which the password is changed before and during
the second, or the two give two users theirs. The clock stands still there,
since what races is reads and writes of a row. `MaxAccountID`, `MaxTx`, `Requests`,
`MaxStarts`, `MaxDamaged`, `MaxToken`, `MaxNow` and the sets of amounts are
bounds of the model; `MaxRetry` is 10 in the code (rpc_create_user.go 40) and 1 or 2 in the
runs, and nothing tells the numbers apart but the length of a behaviour.
Clients, calls, names, passwords and addresses are interchangeable, so that
symmetry is used where only safety is checked. The texts of `front_door` lie on
both sides of every bound and in every set of characters that a check tells
apart; two calls are enough, since a property relates a call to one row or one
record. Every bounded model stops when its calls are used up, and the real
service may be idle for ever, so TLC's own deadlock check is off; `NoDeadlock`,
`Unstuck`, `EveryCallReturns`, `TasksEnd` and `Ends` say what must not hang.

### What they show

* `NoDeadlock`: of any group of clients one waits for nobody in the group.
* `DoubleEntry`, `Conservation`: entries come in pairs with their transfer, every
  balance is what was put in by hand plus its entries, and all balances together
  are what was put in by hand, after any interleaving, failure, overflow or crash.
* `AckedIsPosted`: a nil error always means a committed transfer, the dropped
  error of `addMoney` notwithstanding. The converse does not hold and is not
  claimed: when the acknowledgement of COMMIT is lost, the caller gets an error
  for a transfer that took place.
* `AckIsCurrent`: the balances returned are those of the ledger at the moment of
  the commit. When an account pays itself, the `to` balance returned is the one
  between the two updates, and the property leaves it out.
* `ImplementsLedger`: the abstract ledger sees only whole transfers.
* `OwnMoney`, `CurrenciesApart`, `OnlyOwnersPay`, `AnswersAreTrue`: the reads in
  front of `TransferTx` are outside its transaction, yet what they found is true
  of every transfer in the books. It takes three things the code does not
  mention: owner and currency are never updated, foreign keys keep an account
  that has transfers, and the sequence never hands out an id twice (the mutant
  for `OwnMoney` takes away the last).
* `PagesAreRight`: the first page of any size shows a user exactly the accounts
  `getAccount` shows, whatever is created or deleted meanwhile, and later pages
  are empty as long as their offset fits.
* `ImplementsRegistration`: races, failures of either store, retries, second
  deliveries, crashes and restarts are all steps of the abstract sign-up, or
  not seen from outside at all.
* `SignedUpCanLogIn`: the five validators agree. A user of the other server may
  still be refused: gin takes capital letters in a name and `gapi` underscores.
* `LogTellsTruth`: what is logged is what was answered, "info" only if it
  succeeded. The one thing never logged is a gRPC request that cannot be decoded.
* `UserHasTask`, `RepliesAreTrue`, `OneWinner`, `MailGoesToUsers`: see the
  comments in `VerifyEmail`.
* `TasksEnd`: a task that runs before its user is committed fails and must be
  tried again, so ending means having mailed, or having failed every time, or
  being unreadable. The mutant puts the lines back in that are commented out in
  the handler (46-48): then a task whose worker was faster than the commit is
  archived, and its user never gets the mail.
* `ImplementsAccess`: a token acts for its user at most the sum of the two
  durations, and half a microsecond, after a password was checked, although the
  session is read while time passes. That holds because
  the session's own expiry is checked after the read (token.go 58): the mutant
  that leaves the check out, which VerifyToken seems to make redundant, is
  caught only when the store is slow.
* `BlockedStaysOut`: a block ends renewal. It ends nothing else: tokens given out
  before stay valid until they expire, because only renewal reads sessions.
* `RefusedForCause`: a refresh token a caller holds renews until it is blocked or
  about to expire, within half a microsecond, whatever failed when its session was
  inserted.
* `LoginKnowsPassword`: a log-in that races with a change of password presents one
  its user had since the request came. A new password ends no session; the code
  does not promise that.
* `OnlyOwnersChange`: of two updates of one user in different columns both last,
  and a stamp is that of its password. Stamps may go back: of two changes of
  password the last to be written may have been stamped first.
* `Drains`, `FailureIsFatal`, `Ends`: a clean end leaves no request in progress;
  a failure of the gRPC server is always reported, one of the gateway unless it
  races with the shutdown a signal started; a signal or a failure ends the
  process. `Unstuck`: on the way there somebody can always go on, so that the
  order in which the goroutines wait for the context, for each other and for
  the requests has no circle.

### Two disagreements with the code

`process_signal` violates `FatalIsFailure`. After a signal and without any
failure, `Shutdown` stores nil in `err` (main.go 220), the serving goroutine
then stores `http.ErrServerClosed` (203), and the shutdown goroutine reads that
at line 221, returns it, and main ends with `log.Fatal` (78). Line 205 says that
a closed server is no error. The same race is why `FailureIsFatal` has to
except the gateway when a signal has arrived: `Shutdown`'s nil can overwrite a
real failure between lines 203 and 204. A variable of its own in each goroutine
would mend both.

`password_length` violates `ValidIsServed`. A password of 73 to 100 bytes is valid
(validator.go 34-36: 6 to 100), yet `HashPassword` fails on it, because bcrypt in
the version of go.mod refuses more than 72 bytes, and the caller gets
`codes.Internal` from `CreateUser` (28) or `UpdateUser` (47). gin's binding has
no upper bound at all. 72 in place of 100 would mend it.

### Fairness

* `TransferTx`: weak fairness of every statement, because the driver and the
  server carry on. Strong fairness of the two updates, because PostgreSQL queues
  the waiters of a row lock: a lock that is free again and again is granted.
  None for failures, crashes, new calls and queries.
* `VerifyEmail`: weak fairness of each RPC and of each task's worker. None for
  faults, shutdown or start: `TasksEnd` is conditional on the service being up
  again and again (the compose file restarts nothing by itself).
* `Lifecycle`: weak fairness of `main`, of every goroutine and of every request
  in progress: handlers consist of bcrypt, a sleep and queries, and end. None
  for signals and failures. `GracefulStop` and `Shutdown(context.Background())`
  have no deadline, so a handler that hung would hang the process too.

## The proofs

The eight `_proofs` modules are checked by `tlapm`; what they prove holds for
every number of clients, accounts, calls, users, tokens, retries, every duration
and every range of bigint that the named assumptions (`BoundsAssumption`,
`ValuesAssumption`, `CallsAssumption`, `NamesAssumption`, `RetryAssumption`,
`NoUserAssumption`, `DurationsAssumption`, `PagesAssumption`, `TextsAssumption`,
`RecordsAssumption`, `FaultsAssumption`) allow. `DeadlockFree` also covers every
finite group among any number of clients.

**Ledger.** That the books balance is a statement about sums over sets of
entries. The community modules define such a sum by a recursive function on
subsets, and the theorems that would unfold it by induction take an operator.
`Ledger_proofs` builds what it needs from a minimal counterexample instead: a
set of natural numbers has a least one (`LeastNumber`), hence a non-empty family
of finite sets has a smallest member (`SmallestSubset`), hence the function
exists (`SumsExist`), and any two that take away one chosen element at a time
agree (`SumsAgree`). `SumRemove` then frees the sum of the order in which
elements are taken, and `SumAdd`, `SumDisjoint` and `SumOfSums` are what the
steps use. `LedgerInv` adds to `Conservation` and `DoubleEntry` that entries
belong to accounts that exist and that account numbers are behind the sequence
(`EntriesHaveAccounts`). Without the former closing an account could leave
entries behind, and without the latter a new account could inherit some.
`EntryAdds` and `PostAdds` are the step `Post`: two new entries that cancel out,
which nobody wrote before because the transaction's number is new.
`LedgerConserves` is carried to the statements of `TransferTx` by its refinement
(`BooksBalance`), and likewise to `TransferAPI`, where every step is a step of
the ledger or none (`LedgerKept`).

**TransferTx.** None of the properties is inductive. `IInv` adds what makes them
so: for every running transaction the rows it has inserted, the rows it has
locked and the sums it has computed, as a function of the statement it stands
at (`RowsOK`, `SumsOK`); that a client with no call or with an aborted
transaction holds nothing (`StageOK`); that update locks exclude each other and
key-share locks keep accounts in place (`LocksOK`); and that transaction numbers
are unique (`NumbersOK`). The heart is `SumsOK`: a pending balance is the
*committed* balance plus the legs done so far, which stays true because nobody
else can change a balance whose row is locked. `LocalStep` and `Frame` deal once
with what a step of one client leaves alone, then there is one lemma per
statement. `PublishIsPost` says that COMMIT of such a transaction is exactly
`Ledger`'s `Post`; hence `Refinement`, and from it `DoubleEntryBooks` (proved
of the ledger) and `ResultsAreCurrent`. In particular it is proved that an
update inside a transfer always finds its row, so that the branch in which
`addMoney` returns `sql.ErrNoRows` and the half transfer would be committed is
never taken. `DeadlockFree`: a client that waits holds only its first row, and
waits for its second, which has a larger id; so in a chain of waiting clients
the awaited ids grow, and a finite group has one that waits for nobody. Two
theorems say what is behind `EveryCallReturns`, up to fairness. `SomebodyGoes`:
as long as calls are in progress one of them finds the row of its next statement
free, since clients without a call hold no lock. `CallsMoveOn`: every statement
and every failure brings a call nearer to its end, in at most six steps, nobody
else's step takes it back, and a new call uses up a transaction number.

**TransferAPI.** `IInv` adds what keeps a check valid after it was made: a checked
account has an id below the sequence, and either still has the owner and the
currency that were read or is gone (`ChecksHold`); a transfer's accounts exist
and its request is over (`TransfersOK`); no user has two accounts in a currency
(`OneAccountPerCurrency`, the constraint of migration 2, which `Listing` needs).
`PayersPay`, `TrueAnswers` and the action property `OwnersPay` follow. `NoExchange`: the
accounts of one currency are closed under transfers, so the sums of their
balances and of what was put into them stay equal, which the sums of
`Ledger_proofs` show as they do for the whole bank.

**Listing.** `OnePageIsEnough`: by `OneAccountPerCurrency` the currency is an injection
from a user's accounts into the currencies (`FewAccounts`), so that there are at
most as many as a page has rows, and a window on so few rows is all of them at
offset 0 and none at a page's size or more (`WindowOfFew`). `PagesPartition`
goes beyond the two or three accounts a user can have: of any finite set of
rows the windows of the pages 1, 2, ... hold each row exactly once. A row's
rank is the number of rows before it; ranks are one-to-one (`RankGrows`), and a
window is the rows whose rank lies between offset and offset plus limit
(`WindowIsRanks`). It speaks of one state: rows deleted between two requests shift
the later pages, which the code does not prevent.

**VerifyEmail.** `IInv` adds that the rows of open transactions conflict neither
with each other nor with committed ones (so a commit cannot fail on them), that
a call that may still commit has its task, and that a handler runs only for an
active task, and that a task leaves Redis only as `Ended` says. `UserHasTask`,
`RepliesAreTrue`, `OneWinner` and `MailGoesToUsers` are conjuncts of it. `Refinement`: by `OpenRows`
the commit finds the name and address free, which is the guard of
`Registration`'s `Join`; every other step of the store, Redis, the workers and the
process maps to an answer, a mail or a stutter. `TasksAdvance` is what is behind
`TasksEnd`, up to fairness: the steps left to a task are at most four for each
attempt, every step of its worker uses one up, a handler's failure, a lost result
and an expired lease included, and only a shutdown gives an attempt back, since
asynq does not count it. A deployment that is shut down again and again in the middle of
a handler could therefore retry for ever; the run's bound on restarts excludes it.

**Sessions.** `IInv` adds where a token comes from: its user's password was
checked no longer ago than its expiry shows (`IssuedOK`, `SessionOK`), ids tell
tokens and sessions apart (`IdsOK`), the tokens of a log-in in progress are new
(`FreshOK`), and what a renewal has read is still in the table but for a block
(`FoundOK`). `Frame` deals with the steps that only move one call, then there
is one lemma per remaining step. The heart is `RenewableMeans`: the four
checks together with `IInv` imply that the password was checked no longer ago
than a refresh token lasts, and the rounding, so that the new token's expiry is
within the bound. A renewal is a `Grant` of `Access`, and not always a stutter:
between the end of the token and that of its session, rounded up, access may have
been lost and comes back. `Refinement`, `PasswordWasKnown`, `NoBlockedRenewal`,
`RefusalsHaveCause` and `OwnersChange` follow, and
`AccessIsEarned`, the bound read off the tokens themselves.

**Endpoints.** `IInv` adds that what waits for the store has passed the checks of
its server (`PassedOK`). `PassedIsChecked` compares the validators, for texts of
any length and pattern; `LoggedAsAnswered` the two ways in which an error becomes a
status; `AnswerStep` deals with every step that answers a call.

**Lifecycle.** `IInv` adds the stages each goroutine has (`Stages`, part of `TypeOK`),
in which order main starts them (`StartedInOrder`), that a
shutdown goroutine moves only once the context is cancelled and is past its
waiting only when its server has drained, and where a failure is on its way from a
server to the errgroup (`FailureOnItsWay`): as long as nobody cancelled, both
copies of `err` hold it, so that the race cannot lose it. `Spelt` is the same
invariant with the five goroutines written out, which the provers find easier.

`AlwaysSomebody` proves `Unstuck`, by going through the stages at which each waits:
main for the errgroup, a serving goroutine for its shutdown, a shutdown for the
context and then for requests, which wait for nobody. `StepsRunOut`: main and
its goroutines take at most 35 steps between them, for every step but those of
requests makes `StepsLeft` smaller. `StoppedTakesNoMore`: a server that was told
to stop gets no request, so that those its shutdown waits for only grow fewer.
The three together are `Ends`, but for the fairness that turns a step that can be
taken into one that is.

Every invariant and action property and every refinement that a passing run
checks is a theorem. Left to TLC are the three liveness properties themselves,
`EveryCallReturns`, `TasksEnd` and `Ends`: what they need of fairness and
ENABLED is out of the provers' reach. The theorems `SomebodyGoes`, `CallsMoveOn`,
`TasksAdvance`, `AlwaysSomebody`, `StepsRunOut` and `StoppedTakesNoMore` are what
can be proved of them.

## The plan

Done: all modules of the table above and the proofs of every machine. What could
follow:

1. `UpdateUser` beside sign-up: an address that is changed into one a running
   insert asks for, and a mail to an address that has changed. `Sessions` and
   `VerifyEmail` have the two halves, each with the same unique index.
2. gin's `createUser` beside `gapi`'s: it registers without a task, so that
   `UserHasTask` would not hold of a deployment that starts both servers.

## Not modelled

* The generated messages, mock store and clients' halves of `pb`, the swagger
  assets, the Makefile, Docker files and CI: no logic of the bank's own.
  (docker-compose.yaml does not set REDIS_ADDRESS for the service; a deployment
  matter.)
* Queries nothing calls: `GetAccountForUpdate`, `GetEntry`, `ListEntries`,
  `GetTransfer`, `ListTransfers`. The first locks a row, the others read.
* Cryptography: that a hash tells its password apart and that a signature cannot
  be made without the key is assumed. The PASETO maker is never constructed.
* User agent and client address (metadata.go), which are stored and never read.
* Configuration and random data; the wording and layout of answers and logs.
* Migrations as a process; their constraints are in the tables' models.
* An overdraft rule: neither the code nor the schema has one, so balances may
  become negative, in the model too.
