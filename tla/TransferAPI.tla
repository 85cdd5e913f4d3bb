------------------------------ MODULE TransferAPI ------------------------------
(*****************************************************************************)
(* Accounts and transfers over HTTP (api/account.go, api/transfer.go): a     *)
(* transfer is three calls of the store, two reads that check the accounts   *)
(* and then TransferTx, and other requests come in between.                  *)
(*                                                                           *)
(* The store is taken at its word: TransferTx is the step Post of Ledger,    *)
(* which module TransferTx implements.                                       *)
(*****************************************************************************)
EXTENDS Ledger

CONSTANTS
  Users,      \* registered users: rows of users are never deleted
  Currencies, \* util/currency.go
  NoUser,     \* the owner of an account that does not exist
  NoCurrency, \* its currency
  NoRequest   \* a request that has not come yet

VARIABLES
  owner,      \* column owner of accounts
  currency,   \* column currency of accounts
  pc,         \* the next call of the store a request for a transfer makes
  req,        \* the request, with the user its token names
  status      \* the answer

columns == <<owner, currency>>
requests == <<pc, req, status>>
vars == <<tables, columns, requests>>

Request == [user : Users, from : AccountIDs, to : AccountIDs, amount : Amounts,
            currency : Currencies]

ASSUME NamesAssumption ==
  /\ NoUser \notin Users
  /\ NoCurrency \notin Currencies
  /\ NoRequest \notin Request

TypeOK ==
  /\ TablesOK
  /\ owner \in [AccountIDs -> Users \cup {NoUser}]
  /\ currency \in [AccountIDs -> Currencies \cup {NoCurrency}]
  /\ pc \in [TxIDs -> {"new", "validFrom", "validTo", "transfer", "done"}]
  /\ req \in [TxIDs -> Request \cup {NoRequest}]
  /\ status \in [TxIDs -> {"none", "OK", "BadRequest", "Unauthorized",
                           "NotFound", "InternalServerError"}]

\* Constraint owner_currency_key, of the rows there are.
OneAccountPerCurrency ==
  \A a, b \in accounts :
     owner[a] = owner[b] /\ currency[a] = currency[b] => a = b

Init ==
  /\ TablesInit
  /\ \E o \in [accounts -> Users], k \in [accounts -> Currencies] :
       /\ owner = [a \in AccountIDs |-> IF a \in accounts THEN o[a] ELSE NoUser]
       /\ currency = [a \in AccountIDs |->
                        IF a \in accounts THEN k[a] ELSE NoCurrency]
  /\ OneAccountPerCurrency
  /\ pc = [r \in TxIDs |-> "new"]
  /\ req = [r \in TxIDs |-> NoRequest]
  /\ status = [r \in TxIDs |-> "none"]

-------------------------------------------------------------------------------
(* Accounts.                                                                 *)

\* The user has an account in this currency: unique_violation.
Taken(u, k) == \E a \in accounts : owner[a] = u /\ currency[a] = k

\* createAccount, of the user of the token, with balance 0.  An insert that is
\* rejected (Forbidden), or that the database fails to carry out
\* (InternalServerError), takes an id of the sequence with it.
CreateAccount(u, k) ==
  /\ Open(0)
  /\ IF nextAccountID \in accounts'
     THEN /\ ~Taken(u, k)
          /\ owner' = [owner EXCEPT ![nextAccountID] = u]
          /\ currency' = [currency EXCEPT ![nextAccountID] = k]
     ELSE UNCHANGED columns
  /\ UNCHANGED requests

\* The store's queries that no handler calls.
UpdateAccount(a, b) ==
  /\ Adjust(a, b)
  /\ UNCHANGED <<columns, requests>>

\* Mutant of DeleteAccount: ids are max(id) + 1 rather than from a sequence.
DeleteAccountFreesID(a) ==
  /\ a \in accounts
  /\ ~Referenced(a)
  /\ accounts' = accounts \ {a}
  /\ nextAccountID' = IF a + 1 = nextAccountID THEN a ELSE nextAccountID
  /\ balance' = [balance EXCEPT ![a] = 0]
  /\ unlogged' = [unlogged EXCEPT ![a] = 0]
  /\ owner' = [owner EXCEPT ![a] = NoUser]
  /\ currency' = [currency EXCEPT ![a] = NoCurrency]
  /\ UNCHANGED <<entries, transfers, requests>>

DeleteAccount(a) ==
  /\ Close(a)
  /\ owner' = [owner EXCEPT ![a] = NoUser]
  /\ currency' = [currency EXCEPT ![a] = NoCurrency]
  /\ UNCHANGED requests

-------------------------------------------------------------------------------
(* createTransfer.                                                           *)

\* A request that passed authMiddleware and the binding of its body.
Receive(r, q) ==
  /\ pc[r] = "new"
  /\ pc' = [pc EXCEPT ![r] = "validFrom"]
  /\ req' = [req EXCEPT ![r] = q]
  /\ UNCHANGED <<tables, columns, status>>

Goto(r, next) ==
  /\ pc' = [pc EXCEPT ![r] = next]
  /\ UNCHANGED status

Answer(r, s) ==
  /\ pc' = [pc EXCEPT ![r] = "done"]
  /\ status' = [status EXCEPT ![r] = s]

\* GetAccount and what validAccount makes of the row it finds.
ValidAccount(r, a) == a \in accounts /\ currency[a] = req[r].currency

InvalidAccount(r, a) ==
  /\ ~ValidAccount(r, a)
  /\ Answer(r, IF a \in accounts THEN "BadRequest" ELSE "NotFound")

\* Mutant of Authorized: the owner is not looked at.
Anyone(r) == TRUE

Authorized(r) == owner[req[r].from] = req[r].user

ValidFrom(r) ==
  /\ pc[r] = "validFrom"
  /\ \/ InvalidAccount(r, req[r].from)
     \/ /\ ValidAccount(r, req[r].from)
        /\ IF Authorized(r) THEN Goto(r, "validTo") ELSE Answer(r, "Unauthorized")
  /\ UNCHANGED <<tables, columns, req>>

\* Mutants of ValidTo: the currency of the payee is not compared; the answer is
\* written and the handler goes on (no return in line 39).
ValidToExists(r) ==
  /\ pc[r] = "validTo"
  /\ IF req[r].to \in accounts THEN Goto(r, "transfer") ELSE Answer(r, "NotFound")
  /\ UNCHANGED <<tables, columns, req>>

ValidToGoesOn(r) ==
  /\ pc[r] = "validTo"
  /\ pc' = [pc EXCEPT ![r] = "transfer"]
  /\ status' = [status EXCEPT ![r] =
                  IF ValidAccount(r, req[r].to) THEN "none" ELSE "BadRequest"]
  /\ UNCHANGED <<tables, columns, req>>

ValidTo(r) ==
  /\ pc[r] = "validTo"
  /\ \/ InvalidAccount(r, req[r].to)
     \/ ValidAccount(r, req[r].to) /\ Goto(r, "transfer")
  /\ UNCHANGED <<tables, columns, req>>

GetAccountFails(r) ==
  /\ pc[r] \in {"validFrom", "validTo"}
  /\ Answer(r, "InternalServerError")
  /\ UNCHANGED <<tables, columns, req>>

\* Mutant of Args: payer and payee change places.
ArgsSwapped(r) == [tx |-> r, from |-> req[r].to, to |-> req[r].from,
                   amount |-> req[r].amount]

\* TransferTxParams.
Args(r) == [tx |-> r, from |-> req[r].from, to |-> req[r].to,
            amount |-> req[r].amount]

TransferTx(r) ==
  /\ pc[r] = "transfer"
  /\ Post(Args(r))
  /\ \/ Answer(r, "OK")
     \/ Answer(r, "InternalServerError")  \* the acknowledgement is lost
  /\ UNCHANGED <<columns, req>>

\* An account is gone, a sum is no bigint, or the database fails.
TransferTxFails(r) ==
  /\ pc[r] = "transfer"
  /\ Answer(r, "InternalServerError")
  /\ UNCHANGED <<tables, columns, req>>

-------------------------------------------------------------------------------

CreateTransfer(r) ==
  \/ ValidFrom(r) \/ ValidTo(r) \/ GetAccountFails(r)
  \/ TransferTx(r) \/ TransferTxFails(r)

Requested ==
  \/ \E u \in Users, k \in Currencies : CreateAccount(u, k)
  \/ \E r \in TxIDs, q \in Request : Receive(r, q)
  \/ \E r \in TxIDs : CreateTransfer(r)

ByHand ==
  \/ \E a \in AccountIDs, b \in SeedBalances : UpdateAccount(a, b)
  \/ \E a \in AccountIDs : DeleteAccount(a)

APINext == Requested \/ ByHand

APISpec == Init /\ [][APINext]_vars

-------------------------------------------------------------------------------
(* Properties.                                                               *)

\* What the checks found still holds when TransferTx relies on it, unless the
\* account is gone for good: no other account ever takes its id.
Checked(r, a) ==
  /\ a < nextAccountID
  /\ a \in accounts => currency[a] = req[r].currency

ChecksHold ==
  \A r \in TxIDs :
    /\ pc[r] \in {"validTo", "transfer"} =>
         /\ Checked(r, req[r].from)
         /\ req[r].from \in accounts => owner[req[r].from] = req[r].user
    /\ pc[r] = "transfer" => Checked(r, req[r].to)

\* Every transfer there is was asked for by the owner of the account that paid,
\* in the currency of both accounts, then and ever since: nothing slips in
\* between the checks (api/transfer.go lines 27-40) and the transfer (line 47).
OwnMoney ==
  \A t \in transfers :
    LET q == req[t.tx] IN
    /\ t = Args(t.tx)
    /\ owner[t.from] = q.user
    /\ currency[t.from] = q.currency /\ currency[t.to] = q.currency

\* No money changes from one currency into another: the entries of each currency
\* cancel out (lines 66-70 of validAccount, for both accounts).
CurrenciesApart ==
  \A k \in Currencies :
     MapThenSumSet(EntryAmount, {e \in entries : currency[e.account] = k}) = 0

\* An answer tells what happened: OK means that the transfer is in the books, a
\* refusal that it is not and never will be (lines 27-52).
AnswersAreTrue ==
  \A r \in TxIDs :
    /\ status[r] = "OK" => Args(r) \in transfers
    /\ status[r] \in {"BadRequest", "Unauthorized", "NotFound"} =>
         pc[r] = "done" /\ \A t \in transfers : t.tx # r

\* The inductive invariant.
IdsOK == \A a \in accounts : a < nextAccountID

\* A transfer belongs to one request, which is over; its accounts stay.
TransfersOK ==
  \A t \in transfers :
    /\ t.from \in accounts /\ t.to \in accounts
    /\ pc[t.tx] = "done"
    /\ status[t.tx] \in {"OK", "InternalServerError"}

RequestsOK ==
  \A r \in TxIDs :
    /\ pc[r] # "done" => status[r] = "none"
    /\ pc[r] # "new" => req[r] \in Request

IInv ==
  /\ TypeOK
  /\ OneAccountPerCurrency
  /\ IdsOK
  /\ TransfersOK
  /\ RequestsOK
  /\ ChecksHold
  /\ OwnMoney
  /\ AnswersAreTrue

\* Nobody takes money out of an account but its owner, by a transfer, or an
\* operator, by hand (lines 32-36).
OnlyOwnersPay ==
  [][\A a \in accounts \cap accounts' :
       balance'[a] < balance[a] =>
         \/ unlogged'[a] # unlogged[a]
         \/ \E r \in TxIDs : /\ pc[r] = "transfer" /\ pc'[r] = "done"
                             /\ req[r].user = owner[a]]_vars
===============================================================================
