-------------------------------- MODULE Schema --------------------------------
(*****************************************************************************)
(* The tables of the bank that hold money (db/migration/000001), as          *)
(* committed: a table is the set of its rows, a column of accounts is a      *)
(* function of the id.                                                       *)
(*                                                                           *)
(* A row of transfers or of entries carries the number of the transaction    *)
(* that inserted it (the xmin column PostgreSQL keeps with every row): the   *)
(* schema has no column that ties an entry to its transfer.                  *)
(*****************************************************************************)
EXTENDS Integers, FiniteSets, FiniteSetsExt

CONSTANTS
  MaxAccountID,    \* bound: the last id the sequence of accounts.id hands out
  MaxTx,           \* bound: the number of calls of TransferTx
  MaxInt64,        \* the greatest bigint, 2^63 - 1 in the real database
  Amounts,         \* the amounts callers pass; api/transfer.go: binding gt=0
  Seeded,          \* the accounts that exist when the service starts
  SeedBalances     \* what they may hold then

ASSUME BoundsAssumption ==
  /\ MaxAccountID \in Nat
  /\ MaxTx \in Nat
  /\ MaxInt64 \in Nat
  /\ Seeded \in 0..MaxAccountID

AccountIDs == 1..MaxAccountID
TxIDs == 1..MaxTx
Int64 == (-MaxInt64 - 1)..MaxInt64

ASSUME ValuesAssumption ==
  /\ Amounts \subseteq 1..MaxInt64
  /\ SeedBalances \subseteq Int64

\* Mutant of InRange: sums are not checked.
Unchecked(n) == TRUE

\* PostgreSQL refuses a statement whose result is no bigint.
InRange(n) == n \in Int64

Transfer == [tx : TxIDs, from : AccountIDs, to : AccountIDs, amount : Amounts]
Entry == [tx : TxIDs, account : AccountIDs, amount : Int64]

VARIABLES
  accounts,       \* the ids that have a row in table accounts
  balance,        \* column balance of that table (0 where there is no row)
  entries,        \* table entries
  transfers,      \* table transfers
  nextAccountID,  \* the sequence behind accounts.id
  unlogged        \* history: what each account holds that no entry records

tables == <<accounts, balance, entries, transfers, nextAccountID, unlogged>>

TablesOK ==
  /\ accounts \subseteq AccountIDs
  /\ balance \in [AccountIDs -> Int64]
  /\ entries \subseteq Entry
  /\ transfers \subseteq Transfer
  /\ nextAccountID \in 1..(MaxAccountID + 1)
  /\ unlogged \in [AccountIDs -> Int]

\* The service starts on a database that holds accounts and no transfer yet.
TablesInit ==
  /\ accounts = 1..Seeded
  /\ nextAccountID = Seeded + 1
  /\ \E b \in [1..Seeded -> SeedBalances] :
        balance = [a \in AccountIDs |-> IF a \in 1..Seeded THEN b[a] ELSE 0]
  /\ unlogged = balance
  /\ entries = {}
  /\ transfers = {}

-------------------------------------------------------------------------------

\* A row of another table refers to account a (the three foreign keys).
Referenced(a) ==
  \/ \E e \in entries : e.account = a
  \/ \E t \in transfers : t.from = a \/ t.to = a

\* The two entries of transfer t (tx_transfer.go lines 31-47).
FromEntry(t) == [tx |-> t.tx, account |-> t.from, amount |-> -t.amount]
ToEntry(t) == [tx |-> t.tx, account |-> t.to, amount |-> t.amount]

-------------------------------------------------------------------------------

\* Whatever runs, is refused, fails or crashes, the committed entries are the
\* two of every committed transfer and no others: no call of TransferTx leaves
\* a part of itself behind (tx_transfer.go lines 25-47).
DoubleEntry ==
  /\ \A t \in transfers : {FromEntry(t), ToEntry(t)} \subseteq entries
  /\ \A e \in entries : \E t \in transfers : e \in {FromEntry(t), ToEntry(t)}

EntryAmount(e) == e.amount
EntriesOf(a) == {e \in entries : e.account = a}

\* The books balance: an account holds what was put in it by hand and what its
\* entries add up to, the entries of all accounts cancel out, and so the bank
\* holds what was put in by hand: no transfer makes or loses money.  The code
\* writes the entries and the balances with separate statements
\* (tx_transfer.go lines 31-58), under concurrency, failures and overflow.
Conservation ==
  /\ \A a \in accounts :
       balance[a] = unlogged[a] + MapThenSumSet(EntryAmount, EntriesOf(a))
  /\ MapThenSumSet(EntryAmount, entries) = 0
  /\ SumFunctionOnSet(balance, accounts) = SumFunctionOnSet(unlogged, accounts)
===============================================================================
