-------------------------------- MODULE Ledger --------------------------------
(*****************************************************************************)
(* What the store promises about money, whatever runs concurrently inside    *)
(* it: a transfer is one step, which writes one row of transfers, two rows   *)
(* of entries and both balances.  Between two steps nothing is half done.    *)
(*                                                                           *)
(* Module TransferTx describes how db/sqlc gets there, one SQL statement at  *)
(* a time, and implements this specification.                                *)
(*****************************************************************************)
EXTENDS Schema

\* An id from the sequence is used once, or lost with a rejected insert.
Open(b) ==
  /\ nextAccountID \in AccountIDs
  /\ nextAccountID' = nextAccountID + 1
  /\ \/ /\ accounts' = accounts \cup {nextAccountID}
        /\ balance' = [balance EXCEPT ![nextAccountID] = b]
        /\ unlogged' = [unlogged EXCEPT ![nextAccountID] = b]
     \/ UNCHANGED <<accounts, balance, unlogged>>
  /\ UNCHANGED <<entries, transfers>>

\* A balance set by hand: no entry records it.
Adjust(a, b) ==
  /\ a \in accounts
  /\ balance' = [balance EXCEPT ![a] = b]
  /\ unlogged' = [unlogged EXCEPT ![a] = @ + (b - balance[a])]
  /\ UNCHANGED <<accounts, entries, transfers, nextAccountID>>

Close(a) ==
  /\ a \in accounts
  /\ ~Referenced(a)
  /\ accounts' = accounts \ {a}
  /\ balance' = [balance EXCEPT ![a] = 0]
  /\ unlogged' = [unlogged EXCEPT ![a] = 0]
  /\ UNCHANGED <<entries, transfers, nextAccountID>>

\* What transfer t adds to the balance of account a.
Delta(t, a) ==
  (IF a = t.to THEN t.amount ELSE 0) - (IF a = t.from THEN t.amount ELSE 0)

\* The transfer, its two entries and both balances, in one step and once.
Post(t) ==
  /\ {t.from, t.to} \subseteq accounts
  /\ \A u \in transfers : u.tx # t.tx
  /\ transfers' = transfers \cup {t}
  /\ entries' = entries \cup {FromEntry(t), ToEntry(t)}
  /\ balance' = [a \in AccountIDs |-> balance[a] + Delta(t, a)]
  /\ \A a \in AccountIDs : InRange(balance'[a])
  /\ UNCHANGED <<accounts, nextAccountID, unlogged>>

Next ==
  \/ \E b \in Int64 : Open(b)
  \/ \E a \in AccountIDs, b \in Int64 : Adjust(a, b)
  \/ \E a \in AccountIDs : Close(a)
  \/ \E t \in Transfer : Post(t)

Spec == TablesInit /\ [][Next]_tables

-------------------------------------------------------------------------------
(* Why the books always balance.                                             *)

\* Every account has a number the sequence has passed, so a new one has none of
\* the entries; and an account with entries stays (the foreign key).
EntriesHaveAccounts ==
  /\ \A a \in accounts : a < nextAccountID
  /\ \A e \in entries : e.account \in accounts

\* The inductive invariant.
LedgerInv ==
  /\ TablesOK
  /\ IsFiniteSet(entries)
  /\ EntriesHaveAccounts
  /\ DoubleEntry
  /\ Conservation
===============================================================================
