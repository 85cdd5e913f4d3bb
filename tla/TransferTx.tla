------------------------------ MODULE TransferTx ------------------------------
(*****************************************************************************)
(* The store (db/sqlc) at the grain of one SQL statement: any number of      *)
(* goroutines call SQLStore.TransferTx at once, each statement of a call is  *)
(* one step, and the one-statement queries of the store interleave with      *)
(* them.                                                                     *)
(*                                                                           *)
(* PostgreSQL, at the isolation level store.go asks for (BeginTx with nil    *)
(* options: READ COMMITTED), is modelled as far as the code depends on it:   *)
(* uncommitted rows, the two row locks the statements take, what happens to  *)
(* a transaction when a statement fails, and COMMIT.                         *)
(*****************************************************************************)
EXTENDS Schema

CONSTANTS
  Clients,       \* the goroutines that call TransferTx, one call at a time
  NoCall,        \* a client that has no call in progress
  HandBalances,  \* balances CreateAccount and UpdateAccount write
  HandAmounts    \* amounts AddAccountBalance adds outside a transfer

ASSUME CallsAssumption ==
  /\ NoCall \notin Transfer
  /\ HandBalances \subseteq Int64
  /\ HandAmounts \subseteq Int64

VARIABLES
  pc,         \* the statement a client executes next
  call,       \* its arguments (TransferTxParams) and transaction number
  txn,        \* its transaction: "none", "active", "failed"
  inserted,   \* rows of transfers it inserted and has not committed
  posted,     \* rows of entries it inserted and has not committed
  shared,     \* accounts it holds a FOR KEY SHARE lock on
  locked,     \* accounts it holds a FOR NO KEY UPDATE lock on
  pending,    \* the uncommitted balances of the accounts in locked
  result,     \* the balances in TransferTxResult
  nextTx,     \* the number of the next transaction
  acked       \* history: the results returned with a nil error

work == <<inserted, posted, shared, locked, pending>>
vars == <<tables, pc, call, txn, work, result, nextTx, acked>>

Statements ==
  {"CreateTransfer", "CreateFromEntry", "CreateToEntry", "AddFirst",
   "AddSecond", "Commit", "Rollback"}

Balances == [from : Int64, to : Int64]
Ack == [tx : TxIDs, from : Int64, to : Int64]

NoResult == [from |-> 0, to |-> 0]
NoBalances == [a \in AccountIDs |-> 0]

TypeOK ==
  /\ TablesOK
  /\ pc \in [Clients -> Statements \cup {"idle"}]
  /\ call \in [Clients -> Transfer \cup {NoCall}]
  /\ txn \in [Clients -> {"none", "active", "failed"}]
  /\ inserted \in [Clients -> SUBSET Transfer]
  /\ posted \in [Clients -> SUBSET Entry]
  /\ shared \in [Clients -> SUBSET AccountIDs]
  /\ locked \in [Clients -> SUBSET AccountIDs]
  /\ pending \in [Clients -> [AccountIDs -> Int64]]
  /\ result \in [Clients -> Balances]
  /\ nextTx \in 1..(MaxTx + 1)
  /\ acked \subseteq Ack

Init ==
  /\ TablesInit
  /\ pc = [c \in Clients |-> "idle"]
  /\ call = [c \in Clients |-> NoCall]
  /\ txn = [c \in Clients |-> "none"]
  /\ inserted = [c \in Clients |-> {}]
  /\ posted = [c \in Clients |-> {}]
  /\ shared = [c \in Clients |-> {}]
  /\ locked = [c \in Clients |-> {}]
  /\ pending = [c \in Clients |-> NoBalances]
  /\ result = [c \in Clients |-> NoResult]
  /\ nextTx = 1
  /\ acked = {}

-------------------------------------------------------------------------------
(* Rows and locks.                                                           *)

\* A statement sees the last committed version of a row, or its own.
Current(c, a) == IF a \in locked[c] THEN pending[c][a] ELSE balance[a]

\* Mutant of UpdateGranted: the balance is read without waiting for the row.
NoWait(c, a) == TRUE

\* FOR NO KEY UPDATE conflicts with itself, not with FOR KEY SHARE.
UpdateGranted(c, a) == \A d \in Clients \ {c} : a \notin locked[d]

\* The FOR UPDATE lock of a DELETE conflicts with both.
DeleteGranted(a) == \A d \in Clients : a \notin shared[d] \cup locked[d]

\* A failed statement aborts the transaction: PostgreSQL drops its rows and
\* releases its locks at once, and refuses every statement until it ends.
DropWork(c) ==
  /\ inserted' = [inserted EXCEPT ![c] = {}]
  /\ posted' = [posted EXCEPT ![c] = {}]
  /\ shared' = [shared EXCEPT ![c] = {}]
  /\ locked' = [locked EXCEPT ![c] = {}]
  /\ pending' = [pending EXCEPT ![c] = NoBalances]

Abort(c) ==
  /\ DropWork(c)
  /\ txn' = [txn EXCEPT ![c] = "failed"]

Return(c) ==
  /\ DropWork(c)
  /\ txn' = [txn EXCEPT ![c] = "none"]
  /\ pc' = [pc EXCEPT ![c] = "idle"]
  /\ call' = [call EXCEPT ![c] = NoCall]
  /\ result' = [result EXCEPT ![c] = NoResult]

-------------------------------------------------------------------------------
(* TransferTx, statement by statement.                                       *)

\* BeginTx.  A BeginTx that fails returns its error and leaves nothing behind.
Begin(c, from, to, amount) ==
  /\ pc[c] = "idle"
  /\ nextTx \in TxIDs
  /\ nextTx' = nextTx + 1
  /\ call' = [call EXCEPT ![c] = [tx |-> nextTx, from |-> from, to |-> to,
                                  amount |-> amount]]
  /\ txn' = [txn EXCEPT ![c] = "active"]
  /\ pc' = [pc EXCEPT ![c] = "CreateTransfer"]
  /\ UNCHANGED <<tables, work, result, acked>>

\* Mutant of CreateTransfer: the query runs on the pool, not on the transaction
\* (execTX with New(store.db) for New(tx)).
CreateTransferOutside(c) ==
  /\ pc[c] = "CreateTransfer"
  /\ {call[c].from, call[c].to} \subseteq accounts
  /\ transfers' = transfers \cup {call[c]}
  /\ shared' = [shared EXCEPT ![c] = @ \cup {call[c].from, call[c].to}]
  /\ pc' = [pc EXCEPT ![c] = "CreateFromEntry"]
  /\ UNCHANGED <<accounts, balance, entries, nextAccountID, unlogged, call,
                 txn, inserted, posted, locked, pending, result, nextTx, acked>>

\* The foreign keys of the new row lock the accounts FOR KEY SHARE.  That lock
\* is never refused: only a DELETE would, and it holds its own for one step.
CreateTransfer(c) ==
  /\ pc[c] = "CreateTransfer"
  /\ {call[c].from, call[c].to} \subseteq accounts
  /\ inserted' = [inserted EXCEPT ![c] = @ \cup {call[c]}]
  /\ shared' = [shared EXCEPT ![c] = @ \cup {call[c].from, call[c].to}]
  /\ pc' = [pc EXCEPT ![c] = "CreateFromEntry"]
  /\ UNCHANGED <<tables, call, txn, posted, locked, pending, result, nextTx,
                 acked>>

\* No such account: foreign_key_violation.
CreateTransferRejected(c) ==
  /\ pc[c] = "CreateTransfer"
  /\ ~({call[c].from, call[c].to} \subseteq accounts)
  /\ Abort(c)
  /\ pc' = [pc EXCEPT ![c] = "Rollback"]
  /\ UNCHANGED <<tables, call, result, nextTx, acked>>

\* The foreign key of an entry: without the row the statement fails.
CreateEntry(c, e, next) ==
  /\ IF e.account \in accounts
     THEN /\ posted' = [posted EXCEPT ![c] = @ \cup {e}]
          /\ shared' = [shared EXCEPT ![c] = @ \cup {e.account}]
          /\ pc' = [pc EXCEPT ![c] = next]
          /\ UNCHANGED <<txn, inserted, locked, pending>>
     ELSE /\ Abort(c)
          /\ pc' = [pc EXCEPT ![c] = "Rollback"]
  /\ UNCHANGED <<tables, call, result, nextTx, acked>>

CreateFromEntry(c) ==
  /\ pc[c] = "CreateFromEntry"
  /\ CreateEntry(c, FromEntry(call[c]), "CreateToEntry")

\* Mutants of CreateToEntry: the entry of the wrong account; no entry at all.
CreateToEntrySwapped(c) ==
  /\ pc[c] = "CreateToEntry"
  /\ CreateEntry(c, [ToEntry(call[c]) EXCEPT !.account = call[c].from],
                 "AddFirst")

CreateToEntryTwice(c) ==
  /\ pc[c] = "CreateToEntry"
  /\ CreateEntry(c, FromEntry(call[c]), "AddFirst")

CreateToEntry(c) ==
  /\ pc[c] = "CreateToEntry"
  /\ CreateEntry(c, ToEntry(call[c]), "AddFirst")

\* Mutant of FromFirst: the payer's account always comes first.
PayerFirst(t) == TRUE

\* addMoney goes through the two accounts in the order of their ids.
FromFirst(t) == t.from < t.to

\* The account and the amount of the n-th AddAccountBalance.
FromLeg(t) == [account |-> t.from, amount |-> -t.amount, side |-> "from"]
ToLeg(t) == [account |-> t.to, amount |-> t.amount, side |-> "to"]

\* Mutant of FirstLeg: the results of addMoney assigned in the wrong order.
FirstLegSwapped(t) == IF FromFirst(t) THEN FromLeg(t)
                                      ELSE [ToLeg(t) EXCEPT !.side = "from"]

FirstLeg(t) == IF FromFirst(t) THEN FromLeg(t) ELSE ToLeg(t)
SecondLeg(t) == IF FromFirst(t) THEN ToLeg(t) ELSE FromLeg(t)

\* UPDATE ... SET balance = balance + amount, once the row lock is granted.
\* A statement that fails (the sum is out of the range of bigint) or that finds
\* no row ends addMoney early; TransferTx drops that error and commits.
AddMoney(c, leg, next) ==
  LET sum == Current(c, leg.account) + leg.amount
      found == leg.account \in accounts
  IN
  /\ UpdateGranted(c, leg.account)
  /\ IF found /\ InRange(sum)
     THEN /\ locked' = [locked EXCEPT ![c] = @ \cup {leg.account}]
          /\ pending' = [pending EXCEPT ![c][leg.account] = sum]
          /\ result' = [result EXCEPT ![c][leg.side] = sum]
          /\ pc' = [pc EXCEPT ![c] = next]
          /\ UNCHANGED <<txn, inserted, posted, shared>>
     ELSE /\ pc' = [pc EXCEPT ![c] = "Commit"]
          /\ IF found THEN Abort(c) ELSE UNCHANGED <<txn, work>>
          /\ UNCHANGED result
  /\ UNCHANGED <<tables, call, nextTx, acked>>

AddFirst(c) ==
  /\ pc[c] = "AddFirst"
  /\ AddMoney(c, FirstLeg(call[c]), "AddSecond")

AddSecond(c) ==
  /\ pc[c] = "AddSecond"
  /\ AddMoney(c, SecondLeg(call[c]), "Commit")

\* COMMIT makes every row and every balance of the transaction visible at once.
Publish(c) ==
  /\ transfers' = transfers \cup inserted[c]
  /\ entries' = entries \cup posted[c]
  /\ balance' = [a \in AccountIDs |-> Current(c, a)]
  /\ UNCHANGED <<accounts, nextAccountID, unlogged>>

Commit(c) ==
  /\ pc[c] = "Commit"
  /\ txn[c] = "active"
  /\ Publish(c)
  /\ acked' = acked \cup {[tx |-> call[c].tx, from |-> result[c].from,
                           to |-> result[c].to]}
  /\ Return(c)
  /\ UNCHANGED nextTx

\* The transaction commits, its acknowledgement does not reach the client:
\* TransferTx returns an error for a transfer that took place.
CommitUnacknowledged(c) ==
  /\ pc[c] = "Commit"
  /\ txn[c] = "active"
  /\ Publish(c)
  /\ Return(c)
  /\ UNCHANGED <<nextTx, acked>>

\* Mutant of CommitRefused: execTX drops the error of Commit.
CommitErrorDropped(c) ==
  /\ pc[c] = "Commit"
  /\ txn[c] = "failed"
  /\ acked' = acked \cup {[tx |-> call[c].tx, from |-> result[c].from,
                           to |-> result[c].to]}
  /\ Return(c)
  /\ UNCHANGED <<tables, nextTx>>

\* The driver refuses to commit a failed transaction: it rolls back and
\* returns an error, the only trace of the error addMoney returned.
CommitRefused(c) ==
  /\ pc[c] = "Commit"
  /\ txn[c] = "failed"
  /\ Return(c)
  /\ UNCHANGED <<tables, nextTx, acked>>

Rollback(c) ==
  /\ pc[c] = "Rollback"
  /\ Return(c)
  /\ UNCHANGED <<tables, nextTx, acked>>

-------------------------------------------------------------------------------
(* Failures.                                                                 *)

\* A statement other than COMMIT fails on the server, or its connection does.
\* An error of addMoney is dropped and the transaction goes on to Commit.
StatementFails(c) ==
  /\ txn[c] = "active"
  /\ pc[c] # "Commit"
  /\ Abort(c)
  /\ pc' = [pc EXCEPT ![c] = IF pc[c] \in {"AddFirst", "AddSecond"}
                             THEN "Commit" ELSE "Rollback"]
  /\ UNCHANGED <<tables, call, result, nextTx, acked>>

\* The connection is lost before COMMIT reaches the server, which rolls back.
CommitLost(c) ==
  /\ pc[c] = "Commit"
  /\ txn[c] = "active"
  /\ Return(c)
  /\ UNCHANGED <<tables, nextTx, acked>>

\* The process dies, or the database restarts: what is committed stays, the
\* transactions in progress are gone and nobody gets an answer.
Crash ==
  /\ \E c \in Clients : pc[c] # "idle"
  /\ pc' = [c \in Clients |-> "idle"]
  /\ call' = [c \in Clients |-> NoCall]
  /\ txn' = [c \in Clients |-> "none"]
  /\ inserted' = [c \in Clients |-> {}]
  /\ posted' = [c \in Clients |-> {}]
  /\ shared' = [c \in Clients |-> {}]
  /\ locked' = [c \in Clients |-> {}]
  /\ pending' = [c \in Clients |-> NoBalances]
  /\ result' = [c \in Clients |-> NoResult]
  /\ UNCHANGED <<tables, nextTx, acked>>

-------------------------------------------------------------------------------
(* The one-statement queries of the store, each a transaction of its own.    *)

\* An insert that violates a constraint still consumes an id of the sequence.
CreateAccount(b) ==
  /\ nextAccountID \in AccountIDs
  /\ nextAccountID' = nextAccountID + 1
  /\ \/ /\ accounts' = accounts \cup {nextAccountID}
        /\ balance' = [balance EXCEPT ![nextAccountID] = b]
        /\ unlogged' = [unlogged EXCEPT ![nextAccountID] = b]
     \/ UNCHANGED <<accounts, balance, unlogged>>
  /\ UNCHANGED <<entries, transfers, pc, call, txn, work, result, nextTx,
                 acked>>

\* A write of one balance that no entry records, once the row lock is granted.
SetBalance(a, b) ==
  /\ a \in accounts
  /\ \A d \in Clients : a \notin locked[d]
  /\ balance' = [balance EXCEPT ![a] = b]
  /\ unlogged' = [unlogged EXCEPT ![a] = @ + (b - balance[a])]
  /\ UNCHANGED <<accounts, entries, transfers, nextAccountID, pc, call, txn,
                 work, result, nextTx, acked>>

UpdateAccount(a, b) == SetBalance(a, b)

AddAccountBalance(a, m) ==
  /\ InRange(balance[a] + m)
  /\ SetBalance(a, balance[a] + m)

\* DELETE waits for every lock on the row; the foreign keys then refuse it if
\* a committed row refers to the account.
DeleteAccount(a) ==
  /\ a \in accounts
  /\ DeleteGranted(a)
  /\ ~Referenced(a)
  /\ accounts' = accounts \ {a}
  /\ balance' = [balance EXCEPT ![a] = 0]
  /\ unlogged' = [unlogged EXCEPT ![a] = 0]
  /\ UNCHANGED <<entries, transfers, nextAccountID, pc, call, txn, work,
                 result, nextTx, acked>>

-------------------------------------------------------------------------------

Statement(c) ==
  \/ CreateTransfer(c) \/ CreateTransferRejected(c)
  \/ CreateFromEntry(c) \/ CreateToEntry(c)
  \/ AddFirst(c) \/ AddSecond(c)
  \/ Commit(c) \/ CommitRefused(c) \/ Rollback(c)

Failure(c) == StatementFails(c) \/ CommitLost(c) \/ CommitUnacknowledged(c)

Query ==
  \/ \E b \in HandBalances : CreateAccount(b)
  \/ \E a \in AccountIDs, b \in HandBalances : UpdateAccount(a, b)
  \/ \E a \in AccountIDs, m \in HandAmounts : AddAccountBalance(a, m)
  \/ \E a \in AccountIDs : DeleteAccount(a)

Next ==
  \/ \E c \in Clients, from, to \in AccountIDs, amount \in Amounts :
        Begin(c, from, to, amount)
  \/ \E c \in Clients : Statement(c) \/ Failure(c)
  \/ Crash
  \/ Query

Spec == Init /\ [][Next]_vars

-------------------------------------------------------------------------------
(* Fairness: the driver and the server go on with every call.  A row lock is  *)
(* handed out in the order of the requests (PostgreSQL queues them on the     *)
(* tuple), so a client whose lock is free again and again gets it.  Nothing   *)
(* makes a failure, a crash, a new call or a query happen.                    *)

Fairness ==
  \A c \in Clients :
    /\ WF_vars(CreateTransfer(c) \/ CreateTransferRejected(c))
    /\ WF_vars(CreateFromEntry(c))
    /\ WF_vars(CreateToEntry(c))
    /\ SF_vars(AddFirst(c))
    /\ SF_vars(AddSecond(c))
    /\ WF_vars(Commit(c) \/ CommitRefused(c))
    /\ WF_vars(Rollback(c))

FairSpec == Spec /\ Fairness

-------------------------------------------------------------------------------
(* What holds between any two statements: the invariant the proofs in module  *)
(* TransferTx_proofs rest on.                                                 *)

\* A client without a call holds nothing; a failed transaction holds nothing
\* either and waits to be ended; the statements of a transaction are all done
\* on behalf of one call.
Idle(c) ==
  /\ pc[c] = "idle"
  /\ call[c] = NoCall
  /\ txn[c] = "none"

Empty(c) ==
  /\ inserted[c] = {}
  /\ posted[c] = {}
  /\ shared[c] = {}
  /\ locked[c] = {}

Running(c) ==
  /\ pc[c] \in Statements \ {"Rollback"}
  /\ call[c] \in Transfer
  /\ txn[c] = "active"

Failed(c) ==
  /\ pc[c] \in {"Commit", "Rollback"}
  /\ call[c] \in Transfer
  /\ txn[c] = "failed"

StageOK(c) == (Idle(c) /\ Empty(c)) \/ Running(c) \/ (Failed(c) /\ Empty(c))

\* What a running transaction has written and locked when it reaches each
\* statement.
RowsOK(c) ==
  LET t == call[c] IN
  /\ inserted[c] = IF pc[c] = "CreateTransfer" THEN {} ELSE {t}
  /\ shared[c] = IF pc[c] = "CreateTransfer" THEN {} ELSE {t.from, t.to}
  /\ posted[c] = CASE pc[c] \in {"CreateTransfer", "CreateFromEntry"} -> {}
                   [] pc[c] = "CreateToEntry" -> {FromEntry(t)}
                   [] OTHER -> {FromEntry(t), ToEntry(t)}
  /\ locked[c] = CASE pc[c] = "AddSecond" -> {FirstLeg(t).account}
                   [] pc[c] = "Commit" -> {t.from, t.to}
                   [] OTHER -> {}

\* What it has computed: the pending balances are the committed ones and the
\* legs done so far, and the result repeats them.
SumsOK(c) ==
  LET t == call[c] IN
  /\ pc[c] = "AddSecond" =>
       LET leg == FirstLeg(t) IN
       /\ pending[c][leg.account] = balance[leg.account] + leg.amount
       /\ result[c][leg.side] = pending[c][leg.account]
  /\ pc[c] = "Commit" =>
       /\ \A a \in {t.from, t.to} :
            pending[c][a] = balance[a] + (IF a = t.to THEN t.amount ELSE 0)
                                       - (IF a = t.from THEN t.amount ELSE 0)
       /\ result[c].from = pending[c][t.from]
       /\ t.from # t.to => result[c].to = pending[c][t.to]

ClientOK(c) ==
  /\ StageOK(c)
  /\ txn[c] = "active" => RowsOK(c) /\ SumsOK(c)

\* Row locks exclude each other and keep the rows of a transfer in place.
LocksOK ==
  /\ \A c, d \in Clients : c # d => locked[c] \cap locked[d] = {}
  /\ \A c \in Clients : shared[c] \subseteq accounts

\* Every account has an id of its own, every call a transaction number.
NumbersOK ==
  /\ \A a \in accounts : a < nextAccountID
  /\ \A t \in transfers : t.tx < nextTx
  /\ \A c \in Clients : call[c] # NoCall =>
       /\ call[c].tx < nextTx
       /\ \A t \in transfers : t.tx # call[c].tx
       /\ \A d \in Clients \ {c} : call[d] # NoCall => call[d].tx # call[c].tx

-------------------------------------------------------------------------------
(* Properties.                                                               *)

\* The row a client waits for and the client that makes it wait.
Target(c) == IF pc[c] = "AddFirst" THEN FirstLeg(call[c]).account
                                   ELSE SecondLeg(call[c]).account
Waits(c, d) ==
  /\ c # d
  /\ pc[c] \in {"AddFirst", "AddSecond"} /\ txn[c] = "active"
  /\ Target(c) \in locked[d]

\* Whatever the transfers in progress, in any group of clients one waits for
\* nobody in the group, so that no cycle of row locks ever forms: what the
\* order of the two updates is for (tx_transfer.go lines 49-53) and what
\* TestTransferTxDeadlock (store_test.go lines 118-152) tries on two accounts.
NoDeadlock ==
  \A S \in (SUBSET Clients) \ {{}} :
     \E c \in S : \A d \in S : ~Waits(c, d)

\* A result returned without error belongs to a committed transfer, then and
\* for ever: the error of addMoney that TransferTx drops (tx_transfer.go lines
\* 49-54) never turns into a success for a transfer that did not take place.
AckedIsPosted == \A r \in acked : \E t \in transfers : t.tx = r.tx

\* The inductive invariant.
IInv ==
  /\ TypeOK
  /\ \A c \in Clients : ClientOK(c)
  /\ LocksOK
  /\ NumbersOK
  /\ AckedIsPosted

\* The balances a call returns without error are those the ledger shows at the
\* moment the transfer takes place, whatever ran in between (store_test.go
\* lines 90-102 tries it for transfers between the same two accounts).  When
\* an account pays itself the "to" balance is the one between the two updates.
AckIsCurrent ==
  [][\A r \in acked' \ acked : \A t \in transfers' :
       t.tx = r.tx =>
         /\ r.from = balance'[t.from]
         /\ t.from # t.to => r.to = balance'[t.to]]_vars

\* The statements of concurrent calls add up to whole transfers.
L == INSTANCE Ledger
ImplementsLedger == L!Spec

\* Every call of TransferTx returns (TestTransferTxDeadlock, store_test.go
\* lines 149-152, waits for all of them).
EveryCallReturns == \A c \in Clients : pc[c] # "idle" ~> pc[c] = "idle"
===============================================================================
