-------------------------- MODULE TransferAPI_proofs --------------------------
(* The invariant of TransferAPI and its properties, for any number of users, *)
(* currencies, accounts and requests.                                        *)
EXTENDS TransferAPI, Ledger_proofs

\* Zero is a bigint.
LEMMA ZeroFits == 0 \in Int64 /\ Int64 \subseteq Int
BY BoundsAssumption DEF BoundsAssumption, Int64

\* An amount is a positive bigint, and so is its opposite a bigint.
LEMMA AmountFits ==
  ASSUME NEW m \in Amounts
  PROVE  m \in Nat /\ m \in Int64 /\ -m \in Int64
BY BoundsAssumption, ValuesAssumption
   DEF BoundsAssumption, ValuesAssumption, Int64

\* The service starts on a database that satisfies the invariant.
LEMMA InitInv == Init => IInv
<1> SUFFICES ASSUME Init PROVE IInv
  OBVIOUS
<1> USE BoundsAssumption, ValuesAssumption, NamesAssumption
      DEF BoundsAssumption, ValuesAssumption, NamesAssumption
<1>1. TypeOK
  <2>1. PICK b \in [1..Seeded -> SeedBalances] :
          balance = [a \in AccountIDs |-> IF a \in 1..Seeded THEN b[a] ELSE 0]
    BY DEF Init, TablesInit
  <2>2. \A a \in 1..Seeded : b[a] \in Int64
    OBVIOUS
  <2>3. balance \in [AccountIDs -> Int64]
    BY <2>1, <2>2, ZeroFits
  <2>4. unlogged \in [AccountIDs -> Int]
    BY <2>3, ZeroFits DEF Init, TablesInit
  <2>5. TablesOK
    BY <2>3, <2>4 DEF Init, TablesInit, TablesOK, AccountIDs
  <2>. QED
    BY <2>5 DEF Init, TablesInit, TypeOK, AccountIDs, TxIDs
<1>2. OneAccountPerCurrency /\ IdsOK
  BY DEF Init, TablesInit, IdsOK
<1>3. TransfersOK /\ RequestsOK /\ ChecksHold /\ OwnMoney /\ AnswersAreTrue
  BY DEF Init, TablesInit, TransfersOK, RequestsOK, ChecksHold, OwnMoney,
         AnswersAreTrue
<1>. QED
  BY <1>1, <1>2, <1>3 DEF IInv

\* A step that touches no account a request knows of keeps what the requests
\* have checked, also when it takes the next id.
LEMMA CheckedLonger ==
  ASSUME IInv, pc' = pc, req' = req,
         nextAccountID' \in {nextAccountID, nextAccountID + 1},
         accounts' \subseteq accounts \cup {nextAccountID},
         \A a \in AccountIDs \ {nextAccountID} :
            owner'[a] = owner[a] /\ currency'[a] = currency[a]
  PROVE  ChecksHold'
<1>1. nextAccountID \in Int
  BY DEF IInv, TypeOK, TablesOK
<1>2. \A r \in TxIDs : pc[r] # "new" =>
        req[r].from \in AccountIDs /\ req[r].to \in AccountIDs
  BY DEF IInv, RequestsOK, Request
<1>3. \A a \in AccountIDs : a \in Int
  BY DEF AccountIDs
<1> SUFFICES ASSUME NEW r \in TxIDs
             PROVE  /\ pc[r] \in {"validTo", "transfer"} =>
                         /\ Checked(r, req[r].from)'
                         /\ req[r].from \in accounts' =>
                              owner'[req[r].from] = req[r].user
                    /\ pc[r] = "transfer" => Checked(r, req[r].to)'
  BY DEF ChecksHold
<1>4. ASSUME NEW a \in AccountIDs, Checked(r, a)
      PROVE  Checked(r, a)' /\ a # nextAccountID
  BY <1>1, <1>3, <1>4 DEF Checked
<1>5. ASSUME pc[r] \in {"validTo", "transfer"}
      PROVE  /\ Checked(r, req[r].from)'
             /\ req[r].from \in accounts' => owner'[req[r].from] = req[r].user
  <2>1. /\ req[r].from \in AccountIDs
        /\ Checked(r, req[r].from)
        /\ req[r].from \in accounts => owner[req[r].from] = req[r].user
    BY <1>2, <1>5 DEF IInv, ChecksHold
  <2>. QED
    BY <1>4, <2>1
<1>6. ASSUME pc[r] = "transfer" PROVE Checked(r, req[r].to)'
  <2>1. req[r].to \in AccountIDs /\ Checked(r, req[r].to)
    BY <1>2, <1>6 DEF IInv, ChecksHold
  <2>. QED
    BY <1>4, <2>1
<1>. QED
  BY <1>5, <1>6

\* Opening an account takes a new id, so that no request that was checked
\* before notices it.
LEMMA CreateAccountStep ==
  ASSUME IInv, NEW u \in Users, NEW k \in Currencies, CreateAccount(u, k)
  PROVE  IInv'
<1> USE BoundsAssumption DEF BoundsAssumption
<1> DEFINE n == nextAccountID
<1>1. n \in AccountIDs /\ nextAccountID' = n + 1 /\ n \notin accounts
  BY DEF CreateAccount, Open, IInv, IdsOK, TypeOK, TablesOK, AccountIDs
<1>2. UNCHANGED <<entries, transfers, pc, req, status>>
  BY DEF CreateAccount, Open, requests
<1>3. CASE n \notin accounts'
  <2>1. UNCHANGED <<accounts, balance, unlogged, owner, currency>>
    BY <1>1, <1>3 DEF CreateAccount, Open, columns
  <2>2. TypeOK'
    <3>1. nextAccountID' \in 1..(MaxAccountID + 1)
      BY <1>1 DEF AccountIDs
    <3>2. TablesOK'
      BY <1>2, <2>1, <3>1 DEF IInv, TypeOK, TablesOK
    <3>. QED
      BY <1>2, <2>1, <3>2 DEF IInv, TypeOK
  <2>3. OneAccountPerCurrency' /\ IdsOK' /\ TransfersOK' /\ RequestsOK'
    BY <1>1, <1>2, <2>1 DEF IInv, OneAccountPerCurrency, IdsOK, TransfersOK,
       RequestsOK, TypeOK, TablesOK, AccountIDs
  <2>4. ChecksHold'
    <3>1. nextAccountID \in Int
      BY DEF IInv, TypeOK, TablesOK
    <3>. QED
      BY <1>1, <1>2, <2>1, <3>1, CheckedLonger DEF IInv
  <2>5. OwnMoney' /\ AnswersAreTrue'
    BY <1>2, <2>1 DEF IInv, OwnMoney, AnswersAreTrue, Args
  <2>. QED
    BY <2>2, <2>3, <2>4, <2>5 DEF IInv
<1>4. CASE n \in accounts'
  <2>1. /\ accounts' = accounts \cup {n}
        /\ ~Taken(u, k)
        /\ balance' = [balance EXCEPT ![n] = 0]
        /\ unlogged' = [unlogged EXCEPT ![n] = 0]
        /\ owner' = [owner EXCEPT ![n] = u]
        /\ currency' = [currency EXCEPT ![n] = k]
    BY <1>1, <1>4 DEF CreateAccount, Open
  <2>2. TypeOK'
    <3>1. nextAccountID' \in 1..(MaxAccountID + 1)
      BY <1>1 DEF AccountIDs
    <3>2. TablesOK'
      BY <1>1, <1>2, <2>1, <3>1, ZeroFits DEF IInv, TypeOK, TablesOK
    <3>. QED
      BY <1>2, <2>1, <3>2 DEF IInv, TypeOK
  <2>3. OneAccountPerCurrency'
    BY <1>1, <1>4, <2>1 DEF IInv, OneAccountPerCurrency, Taken, TypeOK, TablesOK
  <2>4. IdsOK' /\ TransfersOK' /\ RequestsOK'
    BY <1>1, <1>2, <2>1 DEF IInv, IdsOK, TransfersOK,
       RequestsOK, TypeOK, TablesOK, AccountIDs
  <2>5. ChecksHold'
    <3>1. \A a \in AccountIDs \ {n} : owner'[a] = owner[a] /\ currency'[a] = currency[a]
      BY <2>1 DEF IInv, TypeOK
    <3>. QED
      BY <1>1, <1>2, <2>1, <3>1, CheckedLonger DEF IInv
  <2>6. OwnMoney' /\ AnswersAreTrue'
    BY <1>1, <1>2, <2>1 DEF IInv, OwnMoney, AnswersAreTrue, TransfersOK, Args,
       TypeOK, TablesOK
  <2>. QED
    BY <2>2, <2>3, <2>4, <2>5, <2>6 DEF IInv
<1>. QED
  BY <1>3, <1>4

\* A balance set by hand is no part of what the invariant is about.
LEMMA UpdateAccountStep ==
  ASSUME IInv, NEW a \in AccountIDs, NEW b \in SeedBalances, UpdateAccount(a, b)
  PROVE  IInv'
<1> USE BoundsAssumption, ValuesAssumption DEF BoundsAssumption, ValuesAssumption
<1>1. /\ balance' = [balance EXCEPT ![a] = b]
      /\ unlogged' = [unlogged EXCEPT ![a] = @ + (b - balance[a])]
      /\ UNCHANGED <<accounts, entries, transfers, nextAccountID, owner, currency,
                     pc, req, status>>
  BY DEF UpdateAccount, Adjust, columns, requests
<1>2. TypeOK'
  <2>1. unlogged[a] + (b - balance[a]) \in Int
    BY DEF IInv, TypeOK, TablesOK, Int64
  <2>. QED
    BY <1>1, <2>1 DEF IInv, TypeOK, TablesOK
<1>3. OneAccountPerCurrency' /\ IdsOK' /\ TransfersOK' /\ RequestsOK'
  BY <1>1 DEF IInv, OneAccountPerCurrency, IdsOK, TransfersOK, RequestsOK
<1>4. ChecksHold' /\ OwnMoney' /\ AnswersAreTrue'
  BY <1>1 DEF IInv, ChecksHold, Checked, OwnMoney, AnswersAreTrue, Args
<1>. QED
  BY <1>2, <1>3, <1>4 DEF IInv

\* An account that is deleted has no transfer, and its id does not come back.
LEMMA DeleteAccountStep ==
  ASSUME IInv, NEW a \in AccountIDs, DeleteAccount(a)
  PROVE  IInv'
<1> USE BoundsAssumption DEF BoundsAssumption
<1>1. /\ accounts' = accounts \ {a}
      /\ balance' = [balance EXCEPT ![a] = 0]
      /\ unlogged' = [unlogged EXCEPT ![a] = 0]
      /\ owner' = [owner EXCEPT ![a] = NoUser]
      /\ currency' = [currency EXCEPT ![a] = NoCurrency]
      /\ UNCHANGED <<entries, transfers, nextAccountID, pc, req, status>>
  BY DEF DeleteAccount, Close, requests
<1>2. \A t \in transfers : t.from # a /\ t.to # a
  BY DEF DeleteAccount, Close, Referenced
<1>3. TypeOK'
  BY <1>1 DEF IInv, TypeOK, TablesOK, Int64
<1>4. OneAccountPerCurrency'
  BY <1>1 DEF IInv, OneAccountPerCurrency, TypeOK, TablesOK
<1>5. IdsOK' /\ TransfersOK' /\ RequestsOK'
  BY <1>1, <1>2 DEF IInv, IdsOK, TransfersOK, RequestsOK
<1>6. ChecksHold'
  BY <1>1 DEF IInv, ChecksHold, Checked, TypeOK, TablesOK, Request
<1>7. OwnMoney' /\ AnswersAreTrue'
  BY <1>1, <1>2 DEF IInv, OwnMoney, AnswersAreTrue, Args, TypeOK, TablesOK, Transfer
<1>. QED
  BY <1>3, <1>4, <1>5, <1>6, <1>7 DEF IInv

-------------------------------------------------------------------------------

\* A request that comes in.
LEMMA ReceiveStep ==
  ASSUME IInv, NEW r \in TxIDs, NEW q \in Request, Receive(r, q)
  PROVE  IInv'
<1>1. /\ pc[r] = "new"
      /\ pc' = [pc EXCEPT ![r] = "validFrom"]
      /\ req' = [req EXCEPT ![r] = q]
      /\ UNCHANGED <<accounts, balance, entries, transfers, nextAccountID,
                     unlogged, owner, currency, status>>
  BY DEF Receive, tables, columns
<1>2. \A t \in transfers : t.tx \in TxIDs /\ t.tx # r
  BY <1>1 DEF IInv, TransfersOK, TypeOK, TablesOK, Transfer
<1>3. TypeOK' /\ OneAccountPerCurrency' /\ IdsOK'
  BY <1>1 DEF IInv, TypeOK, TablesOK, OneAccountPerCurrency, IdsOK
<1>4. TransfersOK' /\ RequestsOK' /\ ChecksHold'
  BY <1>1, <1>2 DEF IInv, TransfersOK, RequestsOK, ChecksHold, Checked, TypeOK
<1>5. OwnMoney' /\ AnswersAreTrue'
  BY <1>1, <1>2 DEF IInv, OwnMoney, AnswersAreTrue, RequestsOK, Args, TypeOK
<1>. QED
  BY <1>3, <1>4, <1>5 DEF IInv

\* A check moves its request on, if what it read allows it, or answers it.
LEMMA CheckStep ==
  ASSUME IInv, NEW r \in TxIDs,
         \/ ValidFrom(r) \/ ValidTo(r) \/ GetAccountFails(r) \/ TransferTxFails(r)
  PROVE  IInv'
<1> DEFINE s == status'[r]
<1>1. /\ UNCHANGED <<accounts, balance, entries, transfers, nextAccountID,
                     unlogged, owner, currency, req>>
      /\ pc[r] \in {"validFrom", "validTo", "transfer"}
  BY DEF ValidFrom, ValidTo, GetAccountFails, TransferTxFails, tables, columns
<1>2. \/ /\ pc' = [pc EXCEPT ![r] = "done"]
         /\ \E e \in {"BadRequest", "Unauthorized", "NotFound",
                      "InternalServerError"} : status' = [status EXCEPT ![r] = e]
      \/ /\ pc[r] = "validFrom"
         /\ pc' = [pc EXCEPT ![r] = "validTo"]
         /\ status' = status
         /\ ValidAccount(r, req[r].from) /\ Authorized(r)
      \/ /\ pc[r] = "validTo"
         /\ pc' = [pc EXCEPT ![r] = "transfer"]
         /\ status' = status
         /\ ValidAccount(r, req[r].to)
  BY DEF ValidFrom, ValidTo, GetAccountFails, TransferTxFails, InvalidAccount,
         Answer, Goto
<1>3. \A t \in transfers : t.tx \in TxIDs /\ t.tx # r
  BY <1>1 DEF IInv, TransfersOK, TypeOK, TablesOK, Transfer
<1>4. TypeOK' /\ OneAccountPerCurrency' /\ IdsOK'
  BY <1>1, <1>2 DEF IInv, TypeOK, TablesOK, OneAccountPerCurrency, IdsOK
<1>5. TransfersOK' /\ RequestsOK'
  BY <1>1, <1>2, <1>3 DEF IInv, TransfersOK, RequestsOK, TypeOK
<1>6. ChecksHold'
  BY <1>1, <1>2 DEF IInv, ChecksHold, Checked, IdsOK, ValidAccount, Authorized,
                    TypeOK
<1>7. OwnMoney' /\ AnswersAreTrue'
  BY <1>1, <1>2, <1>3 DEF IInv, OwnMoney, AnswersAreTrue, RequestsOK, Args, TypeOK
<1>. QED
  BY <1>4, <1>5, <1>6, <1>7 DEF IInv

\* The transfer itself: what was checked before still holds.
LEMMA TransferTxStep ==
  ASSUME IInv, NEW r \in TxIDs, TransferTx(r)
  PROVE  IInv'
<1> USE BoundsAssumption DEF BoundsAssumption
<1> DEFINE t == Args(r)
<1>1. /\ pc[r] = "transfer"
      /\ {t.from, t.to} \subseteq accounts
      /\ transfers' = transfers \cup {t}
      /\ entries' = entries \cup {FromEntry(t), ToEntry(t)}
      /\ balance' = [a \in AccountIDs |-> balance[a] + Delta(t, a)]
      /\ \A a \in AccountIDs : balance'[a] \in Int64
      /\ UNCHANGED <<accounts, nextAccountID, unlogged, owner, currency, req>>
  BY DEF TransferTx, Post, InRange, columns
<1>2. \E s \in {"OK", "InternalServerError"} :
        pc' = [pc EXCEPT ![r] = "done"] /\ status' = [status EXCEPT ![r] = s]
  BY DEF TransferTx, Answer
<1>3. req[r] \in Request /\ t \in Transfer /\ t.tx = r
  BY <1>1 DEF IInv, RequestsOK, Request, Transfer, Args
<1>4. \A v \in transfers : v.tx \in TxIDs /\ v.tx # r
  BY <1>1 DEF IInv, TransfersOK, TypeOK, TablesOK, Transfer
<1>5. \A v \in transfers' : v = t \/ (v \in transfers /\ v.tx \in TxIDs /\ v.tx # r)
  BY <1>1, <1>4
<1>6. TypeOK'
  <2>1. FromEntry(t) \in Entry /\ ToEntry(t) \in Entry
    <3> HIDE DEF t
    <3>1. t.amount \in Amounts
      BY <1>3 DEF Transfer
    <3>2. t.amount \in Int64 /\ -t.amount \in Int64
      BY <3>1, AmountFits
    <3>. QED
      BY <1>3, <3>2 DEF Transfer, Entry, FromEntry, ToEntry
  <2>2. TablesOK'
    BY <1>1, <1>3, <2>1 DEF IInv, TypeOK, TablesOK
  <2>. QED
    BY <1>1, <1>2, <2>2 DEF IInv, TypeOK
<1>7. OneAccountPerCurrency' /\ IdsOK'
  BY <1>1 DEF IInv, OneAccountPerCurrency, IdsOK
<1>8. TransfersOK'
  BY <1>1, <1>2, <1>3, <1>5 DEF IInv, TransfersOK, TypeOK
<1>9. RequestsOK' /\ ChecksHold'
  BY <1>1, <1>2 DEF IInv, RequestsOK, ChecksHold, Checked, TypeOK
<1>10. OwnMoney'
  <2>1. /\ owner[t.from] = req[r].user
        /\ currency[t.from] = req[r].currency
        /\ currency[t.to] = req[r].currency
    BY <1>1 DEF IInv, ChecksHold, Checked, Args
  <2>. QED
    BY <1>1, <1>3, <1>5, <2>1 DEF IInv, OwnMoney, Args
<1>11. AnswersAreTrue'
  BY <1>1, <1>2, <1>5 DEF IInv, AnswersAreTrue, Args, TypeOK
<1>. QED
  BY <1>6, <1>7, <1>8, <1>9, <1>10, <1>11 DEF IInv

\* Every step keeps the invariant.
LEMMA NextStep == IInv /\ [APINext]_vars => IInv'
<1> SUFFICES ASSUME IInv, [APINext]_vars PROVE IInv'
  OBVIOUS
<1>1. CASE Requested
  BY <1>1, CreateAccountStep, ReceiveStep, CheckStep, TransferTxStep
     DEF Requested, CreateTransfer
<1>2. CASE ByHand
  BY <1>2, UpdateAccountStep, DeleteAccountStep DEF ByHand
<1>3. CASE UNCHANGED vars
  BY <1>3 DEF IInv, TypeOK, TablesOK, OneAccountPerCurrency, IdsOK, TransfersOK,
     RequestsOK, ChecksHold, Checked, OwnMoney, AnswersAreTrue, Args, vars,
     tables, columns, requests
<1>. QED
  BY <1>1, <1>2, <1>3 DEF APINext

\* The invariant of accounts and transfers over HTTP.
THEOREM Invariance == APISpec => []IInv
BY InitInv, NextStep, PTL DEF APISpec

\* What createTransfer checked with two reads (api/transfer.go lines 27-40) holds
\* of every transfer in the books: its payer asked for it, in the currency of
\* both accounts.
THEOREM PayersPay == APISpec => []OwnMoney
<1>1. IInv => OwnMoney
  BY DEF IInv
<1>. QED
  BY <1>1, Invariance, PTL

\* An answer of createTransfer tells what happened to the transfer (lines 27-52).
THEOREM TrueAnswers == APISpec => []AnswersAreTrue
<1>1. IInv => AnswersAreTrue
  BY DEF IInv
<1>. QED
  BY <1>1, Invariance, PTL

\* A balance that stays did not go down.
LEMMA Unmoved ==
  ASSUME IInv, NEW a \in accounts, balance'[a] = balance[a]
  PROVE  ~(balance'[a] < balance[a])
<1>1. balance[a] \in Int
  BY ZeroFits DEF IInv, TypeOK, TablesOK
<1>. QED
  BY <1>1

\* A balance goes down only by a transfer its owner asked for, or by hand (lines
\* 32-36): no request of anybody else, however timed, takes money out.
THEOREM OwnersPay == APISpec => OnlyOwnersPay
<1> DEFINE OwnersOnly == \A a \in accounts \cap accounts' :
       balance'[a] < balance[a] =>
         \/ unlogged'[a] # unlogged[a]
         \/ \E r \in TxIDs : /\ pc[r] = "transfer" /\ pc'[r] = "done"
                             /\ req[r].user = owner[a]
<1>1. ASSUME IInv, [APINext]_vars PROVE [OwnersOnly]_vars
  <2>1. CASE \E r \in TxIDs : TransferTx(r)
    <3>1. PICK r \in TxIDs : TransferTx(r)
      BY <2>1
    <3> DEFINE t == Args(r)
    <3>2. /\ pc[r] = "transfer" /\ pc'[r] = "done"
          /\ balance' = [a \in AccountIDs |-> balance[a] + Delta(t, a)]
      BY <1>1, <3>1 DEF TransferTx, Post, Answer, IInv, TypeOK
    <3>3. t \in Transfer
      BY <1>1, <3>2 DEF IInv, RequestsOK, Request, Transfer, Args
    <3>4. \A a \in accounts : balance'[a] < balance[a] => a = t.from
      <4> SUFFICES ASSUME NEW a \in accounts, a # t.from
                   PROVE  ~(balance'[a] < balance[a])
        OBVIOUS
      <4>1. balance[a] \in Int /\ a \in AccountIDs
        BY <1>1, ZeroFits DEF IInv, TypeOK, TablesOK
      <4>2. t.amount \in Nat
        BY <3>3, AmountFits DEF Transfer
      <4>3. Delta(t, a) \in Nat
        <5> HIDE DEF t
        <5>. QED
          BY <4>2 DEF Delta
      <4>4. balance'[a] = balance[a] + Delta(t, a)
        BY <3>2, <4>1
      <4>. QED
        BY <4>1, <4>3, <4>4
    <3>5. t.from \in accounts => owner[t.from] = req[r].user
      BY <1>1, <3>2 DEF IInv, ChecksHold, Args
    <3>. QED
      BY <3>2, <3>4, <3>5
  <2>2. CASE \E a \in AccountIDs, b \in SeedBalances : UpdateAccount(a, b)
    <3>1. PICK a \in AccountIDs, b \in SeedBalances : UpdateAccount(a, b)
      BY <2>2
    <3>2. /\ balance' = [balance EXCEPT ![a] = b]
          /\ unlogged' = [unlogged EXCEPT ![a] = @ + (b - balance[a])]
      BY <3>1 DEF UpdateAccount, Adjust
    <3>3. balance[a] \in Int /\ unlogged[a] \in Int /\ b \in Int
      BY <1>1, ZeroFits, ValuesAssumption
         DEF IInv, TypeOK, TablesOK, ValuesAssumption
    <3>4. balance'[a] < balance[a] => unlogged'[a] # unlogged[a]
      BY <1>1, <3>2, <3>3 DEF IInv, TypeOK, TablesOK
    <3>5. \A x \in accounts \ {a} : balance'[x] = balance[x]
      BY <1>1, <3>2 DEF IInv, TypeOK, TablesOK
    <3>. QED
      BY <1>1, <3>4, <3>5, Unmoved
  <2>3. CASE \E a \in AccountIDs : DeleteAccount(a)
    <3>1. \A x \in accounts \cap accounts' : balance'[x] = balance[x]
      BY <1>1, <2>3 DEF DeleteAccount, Close, IInv, TypeOK, TablesOK
    <3>. QED
      BY <1>1, <3>1, Unmoved
  <2>4. CASE \E u \in Users, k \in Currencies : CreateAccount(u, k)
    <3>1. nextAccountID \notin accounts
      BY <1>1 DEF IInv, IdsOK, TypeOK, TablesOK, AccountIDs
    <3>2. \A x \in accounts : balance'[x] = balance[x]
      BY <1>1, <2>4, <3>1 DEF CreateAccount, Open, IInv, TypeOK, TablesOK
    <3>. QED
      BY <1>1, <3>2, Unmoved
  <2>5. CASE \/ \E r \in TxIDs, q \in Request : Receive(r, q)
             \/ \E r \in TxIDs : \/ ValidFrom(r) \/ ValidTo(r)
                                  \/ GetAccountFails(r) \/ TransferTxFails(r)
    <3>1. balance' = balance
      BY <2>5 DEF Receive, ValidFrom, ValidTo, GetAccountFails, TransferTxFails,
                  tables
    <3>. QED
      BY <1>1, <3>1, Unmoved
  <2>. QED
    BY <1>1, <2>1, <2>2, <2>3, <2>4, <2>5
     DEF APINext, Requested, ByHand, CreateTransfer
<1>. QED
  BY <1>1, Invariance, PTL DEF APISpec, OnlyOwnersPay
-------------------------------------------------------------------------------
(* The books of the API are those of the ledger.                               *)

\* Every request is a step of the ledger or leaves it alone.
LEMMA StepIsLedgers == IInv /\ [APINext]_vars => [Next]_tables
<1> SUFFICES ASSUME IInv, [APINext]_vars, ~UNCHANGED tables PROVE Next
  OBVIOUS
<1>1. ASSUME NEW u \in Users, NEW k \in Currencies, CreateAccount(u, k) PROVE Next
  BY <1>1, ZeroFits DEF CreateAccount, Next
<1>2. ASSUME NEW r \in TxIDs, CreateTransfer(r) PROVE Next
  <2>1. TransferTx(r)
    BY <1>2 DEF CreateTransfer, ValidFrom, ValidTo, GetAccountFails, TransferTxFails
  <2>2. Args(r) \in Transfer
    BY <2>1 DEF TransferTx, IInv, RequestsOK, Request, Args, Transfer
  <2>. QED
    BY <2>1, <2>2 DEF TransferTx, Next
<1>3. ASSUME NEW a \in AccountIDs, NEW b \in SeedBalances, UpdateAccount(a, b)
      PROVE  Next
  BY <1>3, ValuesAssumption DEF ValuesAssumption, UpdateAccount, Next
<1>4. ASSUME NEW a \in AccountIDs, DeleteAccount(a) PROVE Next
  BY <1>4 DEF DeleteAccount, Next
<1>. QED
  BY <1>1, <1>2, <1>3, <1>4 DEF APINext, Requested, ByHand, Receive, vars

\* Whatever requests and operators do, the ledger sees whole transfers and the
\* changes made by hand.
THEOREM LedgerKept == APISpec => Spec
BY Invariance, StepIsLedgers, PTL DEF APISpec, Init, Spec

\* The books balance behind the API too.
THEOREM BooksBalance == APISpec => []Conservation
BY LedgerKept, LedgerConserves, PTL

\* An account with entries keeps its currency.
LEMMA CurrencyStays ==
  ASSUME IInv, LedgerInv, [APINext]_vars, NEW a \in AccountIDs,
         \E e \in entries : e.account = a
  PROVE  currency'[a] = currency[a]
<1>1. a \in accounts /\ a # nextAccountID /\ Referenced(a)
  BY DEF LedgerInv, EntriesHaveAccounts, TablesOK, AccountIDs, Referenced
<1>2. CASE \E u \in Users, n \in Currencies : CreateAccount(u, n)
  BY <1>1, <1>2 DEF CreateAccount, Open, columns, IInv, TypeOK
<1>3. CASE \E d \in AccountIDs : DeleteAccount(d)
  BY <1>1, <1>3 DEF DeleteAccount, Close
<1>4. CASE currency' = currency
  BY <1>4
<1>. QED
  BY <1>2, <1>3, <1>4 DEF APINext, Requested, ByHand, UpdateAccount, Receive,
     CreateTransfer, ValidFrom, ValidTo, GetAccountFails, TransferTx,
     TransferTxFails, columns, vars

LEMMA ApartStep ==
  ASSUME IInv, LedgerInv, LedgerInv', IInv', CurrenciesApart, [APINext]_vars
  PROVE  CurrenciesApart'
<1> SUFFICES ASSUME NEW k \in Currencies
             PROVE  Total({e \in entries' : currency'[e.account] = k}) = 0
  BY DEF CurrenciesApart, Total
<1> DEFINE F == {a \in AccountIDs : currency[a] = k}
<1>1. entries \subseteq Entry /\ entries' \subseteq Entry /\ IsFiniteSet(entries)
  BY DEF LedgerInv, TablesOK
<1>2. /\ {e \in entries : currency[e.account] = k} = Within(entries, F)
      /\ {e \in entries' : currency[e.account] = k} = Within(entries', F)
  BY <1>1 DEF Within, Entry
<1>3. Total(Within(entries, F)) = 0
  BY <1>2 DEF CurrenciesApart, Total
<1>4. CASE entries' = entries
  <2>1. \A e \in entries : currency'[e.account] = currency[e.account]
    BY <1>1, CurrencyStays DEF Entry
  <2>2. {e \in entries' : currency'[e.account] = k}
          = {e \in entries : currency[e.account] = k}
    BY <1>4, <2>1
  <2>. QED
    BY <1>2, <1>3, <2>2
<1>5. CASE entries' # entries
  <2>1. PICK r \in TxIDs : TransferTx(r)
    BY <1>5 DEF APINext, Requested, ByHand, CreateAccount, UpdateAccount, Open,
       Adjust, Close, DeleteAccount, Receive, CreateTransfer, ValidFrom, ValidTo,
       GetAccountFails, TransferTxFails, tables, vars
  <2> DEFINE t == Args(r)
  <2>2. t \in Transfer /\ Post(t) /\ currency' = currency
    BY <2>1 DEF TransferTx, IInv, RequestsOK, Request, Args, Transfer, columns
  <2>3. t \in transfers'
    BY <2>2 DEF Post
  <2>4. t.from \in F <=> t.to \in F
    BY <2>2, <2>3 DEF IInv, OwnMoney, Transfer
  <2>5. Owed(t, F) = 0
    BY <2>2, <2>4, EntriesTyped DEF Owed
  <2>6. FromEntry(t) \notin entries /\ ToEntry(t) \notin entries
    BY <2>2, NewEntries DEF Post, LedgerInv
  <2>7. Total(Within(entries', F)) = 0
    BY <1>1, <1>3, <2>2, <2>5, <2>6, PostAdds DEF Post
  <2>. QED
    BY <1>2, <2>2, <2>7
<1>. QED
  BY <1>4, <1>5

\* No money changes from one currency into another: the entries of each currency
\* cancel out for ever, whatever is created, deleted and transferred between the
\* two checks and the transfer (api/transfer.go lines 27-47, 66-70).
THEOREM NoExchange == APISpec => []CurrenciesApart
<1>1. Init => CurrenciesApart
  <2>1. \A k : {e \in {} : currency[e.account] = k} = {}
    OBVIOUS
  <2>. QED
    BY <2>1, TotalEmpty DEF Init, TablesInit, CurrenciesApart, Total
<1>2. APISpec => []LedgerInv
  BY LedgerKept, LedgerInvariance, PTL
<1>. QED
  BY <1>1, <1>2, Invariance, ApartStep, PTL DEF APISpec

===============================================================================
