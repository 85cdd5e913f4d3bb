--------------------------- MODULE TransferTx_proofs ---------------------------
(* Proofs about the store: what TLC checks on two or three clients holds for *)
(* any number of clients, accounts, transactions and amounts.                *)
EXTENDS TransferTx, TLAPS, WellFoundedInduction

\* Zero is a bigint.
LEMMA ZeroFits == 0 \in Int64 /\ Int64 \subseteq Int
BY BoundsAssumption DEF BoundsAssumption, Int64

\* What a transfer adds to one account and takes from the other is a bigint.
LEMMA AmountFits == ASSUME NEW m \in Amounts PROVE m \in Int64 /\ -m \in Int64
BY BoundsAssumption, ValuesAssumption DEF BoundsAssumption, ValuesAssumption, Int64

\* The values of a client that has done nothing are well typed.
LEMMA NothingFits == NoBalances \in [AccountIDs -> Int64] /\ NoResult \in Balances
BY ZeroFits DEF NoBalances, NoResult, Balances

\* The database the service starts on satisfies the invariant.
LEMMA InitInv == Init => IInv
<1> SUFFICES ASSUME Init PROVE IInv
  OBVIOUS
<1>1. TypeOK
  <2> USE DEF Init, TablesInit
  <2>1. PICK b \in [1..Seeded -> SeedBalances] : 
         balance = [a \in AccountIDs |-> IF a \in 1..Seeded THEN b[a] ELSE 0]
    OBVIOUS
  <2>2. balance \in [AccountIDs -> Int64] /\ unlogged \in [AccountIDs -> Int]
    BY <2>1, ValuesAssumption, ZeroFits DEF ValuesAssumption
  <2>3. accounts \subseteq AccountIDs /\ nextAccountID \in 1..(MaxAccountID+1)
    BY BoundsAssumption DEF BoundsAssumption, AccountIDs
  <2>4. TablesOK
    BY <2>2, <2>3 DEF TablesOK
  <2>5. nextTx \in 1..(MaxTx + 1)
    BY BoundsAssumption DEF BoundsAssumption
  <2>. QED
    BY <2>4, <2>5, NothingFits DEF TypeOK
<1>2. NumbersOK
  BY BoundsAssumption DEF BoundsAssumption, NumbersOK, Init, TablesInit
<1>. QED
  BY <1>1, <1>2 DEF IInv, ClientOK, StageOK, Idle, Empty, LocksOK, AckedIsPosted,
                    Init, TablesInit

\* What one client has is what it had.
Same(d) ==
  /\ pc'[d] = pc[d]
  /\ call'[d] = call[d]
  /\ txn'[d] = txn[d]
  /\ inserted'[d] = inserted[d]
  /\ posted'[d] = posted[d]
  /\ shared'[d] = shared[d]
  /\ locked'[d] = locked[d]
  /\ pending'[d] = pending[d]
  /\ result'[d] = result[d]

OnlyClient(c) == \A d \in Clients \ {c} : Same(d)

\* A client that a step leaves alone, on the rows it works on too, stays as it
\* was.
LEMMA Frame ==
  ASSUME IInv, NEW d \in Clients, Same(d),
         \A a \in locked[d] : balance'[a] = balance[a]
  PROVE  ClientOK(d)'
<1>1. ClientOK(d)
  BY DEF IInv
<1>2. StageOK(d)'
  BY <1>1 DEF ClientOK, Same, StageOK, Idle, Empty, Running, Failed
<1>3. ASSUME txn[d] = "active" PROVE RowsOK(d)' /\ SumsOK(d)'
  <2>1. RowsOK(d) /\ SumsOK(d)
    BY <1>1, <1>3 DEF ClientOK
  <2>2. RowsOK(d)'
    BY <2>1 DEF RowsOK, Same
  <2>3. CASE pc[d] = "AddSecond"
    BY <2>3, <2>1 DEF RowsOK, SumsOK, Same
  <2>4. CASE pc[d] = "Commit"
    BY <2>4, <2>1 DEF RowsOK, SumsOK, Same
  <2>. QED
    BY <2>2, <2>3, <2>4 DEF SumsOK, Same
<1>. QED
  BY <1>2, <1>3 DEF ClientOK, Same

\* A step of one client that changes no table keeps the invariant if it keeps
\* the parts about that client.
LEMMA LocalStep ==
  ASSUME IInv, NEW c \in Clients, OnlyClient(c), UNCHANGED <<tables, nextTx, acked>>,
         TypeOK', ClientOK(c)', call'[c] \in {call[c], NoCall},
         \A d \in Clients \ {c} : locked'[c] \cap locked[d] = {},
         shared'[c] \subseteq accounts
  PROVE  IInv'
<1>1. \A d \in Clients : ClientOK(d)'
  BY Frame DEF OnlyClient, tables
<1>2. LocksOK'
  BY DEF IInv, LocksOK, OnlyClient, Same, tables
<1>3. NumbersOK'
  BY DEF IInv, NumbersOK, OnlyClient, Same, tables
<1>4. AckedIsPosted'
  BY DEF IInv, AckedIsPosted, tables
<1>. QED
  BY <1>1, <1>2, <1>3, <1>4 DEF IInv

-------------------------------------------------------------------------------

\* The two entries of a transfer are rows of entries.
LEMMA EntriesTyped ==
  ASSUME NEW t \in Transfer
  PROVE  FromEntry(t) \in Entry /\ ToEntry(t) \in Entry
BY AmountFits DEF Transfer, Entry, FromEntry, ToEntry

\* A statement that fails keeps the invariant: its transaction holds nothing.
LEMMA AbortStep ==
  ASSUME IInv, NEW c \in Clients, txn[c] = "active", Abort(c),
         pc' \in {[pc EXCEPT ![c] = "Rollback"], [pc EXCEPT ![c] = "Commit"]},
         UNCHANGED <<tables, call, result, nextTx, acked>>
  PROVE  IInv'
<1> USE DEF Abort, DropWork
<1>1. TypeOK'
  BY NothingFits DEF IInv, TypeOK, TablesOK, tables, Statements
<1>2. OnlyClient(c)
  BY DEF OnlyClient, Same, IInv, TypeOK
<1>3. ClientOK(c)'
  BY DEF IInv, TypeOK, ClientOK, StageOK, Idle, Running, Failed, Empty
<1>4. locked'[c] = {} /\ shared'[c] = {}
  BY DEF IInv, TypeOK
<1>. QED
  BY <1>1, <1>2, <1>3, <1>4, LocalStep

\* A call that returns without a commit keeps the invariant.
LEMMA ReturnStep ==
  ASSUME IInv, NEW c \in Clients, Return(c), UNCHANGED <<tables, nextTx, acked>>
  PROVE  IInv'
<1> USE DEF Return, DropWork
<1>1. TypeOK'
  BY NothingFits DEF IInv, TypeOK, TablesOK, tables, Statements
<1>2. OnlyClient(c)
  BY DEF OnlyClient, Same, IInv, TypeOK
<1>3. ClientOK(c)'
  BY DEF IInv, TypeOK, ClientOK, StageOK, Idle, Running, Failed, Empty
<1>4. locked'[c] = {} /\ shared'[c] = {} /\ call'[c] = NoCall
  BY DEF IInv, TypeOK
<1>. QED
  BY <1>1, <1>2, <1>3, <1>4, LocalStep

\* The insert into transfers keeps the invariant (tx_transfer.go lines 25-32).
LEMMA CreateTransferStep ==
  ASSUME IInv, NEW c \in Clients, CreateTransfer(c)
  PROVE  IInv'
<1> USE DEF CreateTransfer
<1>1. Running(c) /\ RowsOK(c)
  BY DEF IInv, ClientOK, StageOK, Idle, Running, Failed
<1>2. call[c] \in Transfer /\ {call[c].from, call[c].to} \subseteq AccountIDs
  BY <1>1 DEF Running, Transfer
<1>3. TypeOK'
  BY <1>2 DEF IInv, TypeOK, TablesOK, tables, Statements
<1>4. OnlyClient(c)
  BY DEF OnlyClient, Same, IInv, TypeOK
<1>5. ClientOK(c)'
  BY <1>1 DEF IInv, TypeOK, ClientOK, StageOK, Running, RowsOK, SumsOK, Statements
<1>6. locked'[c] = {} /\ shared'[c] \subseteq accounts
  BY <1>1 DEF IInv, TypeOK, RowsOK
<1>. QED
  BY <1>3, <1>4, <1>5, <1>6, LocalStep

\* The inserts into entries keep the invariant (tx_transfer.go lines 33-47).
LEMMA CreateEntryStep ==
  ASSUME IInv, NEW c \in Clients, 
         CreateFromEntry(c) \/ CreateToEntry(c)
  PROVE  IInv'
<1>1. Running(c) /\ RowsOK(c) /\ call[c] \in Transfer
  BY DEF IInv, ClientOK, StageOK, Idle, Running, Failed, CreateFromEntry, CreateToEntry
<1>2. {call[c].from, call[c].to} \subseteq accounts
  BY <1>1 DEF IInv, LocksOK, RowsOK, CreateFromEntry, CreateToEntry
<1> DEFINE e == IF pc[c] = "CreateFromEntry" THEN FromEntry(call[c]) ELSE ToEntry(call[c])
           next == IF pc[c] = "CreateFromEntry" THEN "CreateToEntry" ELSE "AddFirst"
<1>3. /\ posted' = [posted EXCEPT ![c] = @ \cup {e}]
      /\ shared' = [shared EXCEPT ![c] = @ \cup {e.account}]
      /\ pc' = [pc EXCEPT ![c] = next]
      /\ UNCHANGED <<txn, inserted, locked, pending>>
      /\ UNCHANGED <<tables, call, result, nextTx, acked>>
      /\ e.account \in {call[c].from, call[c].to}
      /\ e \in Entry
  BY <1>1, <1>2, EntriesTyped DEF CreateFromEntry, CreateToEntry, CreateEntry, FromEntry, ToEntry
<1>4. TypeOK'
  BY <1>1, <1>3 DEF IInv, TypeOK, TablesOK, tables, Statements, Entry
<1>5. OnlyClient(c)
  BY <1>3 DEF OnlyClient, Same, IInv, TypeOK
<1>6. ClientOK(c)'
  BY <1>1, <1>3 DEF IInv, TypeOK, ClientOK, StageOK, Running, RowsOK, SumsOK, Statements, 
    CreateFromEntry, CreateToEntry
<1>7. locked'[c] = {} /\ shared'[c] \subseteq accounts
  BY <1>1, <1>2, <1>3 DEF IInv, TypeOK, RowsOK, CreateFromEntry, CreateToEntry
<1>. QED
  BY <1>3, <1>4, <1>5, <1>6, <1>7, LocalStep

\* The first AddAccountBalance keeps the invariant: it adds to the committed
\* balance, which nobody else changes as long as the row is locked.
LEMMA AddFirstStep ==
  ASSUME IInv, NEW c \in Clients, AddFirst(c)
  PROVE  IInv'
<1> DEFINE t == call[c]
           leg == FirstLeg(t)
           sum == Current(c, leg.account) + leg.amount
<1>1. Running(c) /\ RowsOK(c) /\ t \in Transfer
  BY DEF IInv, ClientOK, StageOK, Idle, Running, Failed, AddFirst
<1>2. {t.from, t.to} \subseteq accounts /\ locked[c] = {}
  BY <1>1 DEF IInv, LocksOK, RowsOK, AddFirst
<1>3. /\ leg.account \in accounts \cap AccountIDs \cap {t.from, t.to}
      /\ leg.side \in {"from", "to"}
      /\ leg.amount \in Int64
      /\ sum = balance[leg.account] + leg.amount
  BY <1>1, <1>2, AmountFits DEF FirstLeg, FromLeg, ToLeg, Transfer, Current
<1>4. CASE sum \notin Int64
  <2>1. Abort(c) /\ pc' = [pc EXCEPT ![c] = "Commit"]
        /\ UNCHANGED <<tables, call, result, nextTx, acked>>
    BY <1>3, <1>4 DEF AddFirst, AddMoney, InRange
  <2>. QED
    BY <1>1, <2>1, AbortStep DEF Running
<1>5. CASE sum \in Int64
  <2>1. /\ UpdateGranted(c, leg.account)
        /\ locked' = [locked EXCEPT ![c] = @ \cup {leg.account}]
        /\ pending' = [pending EXCEPT ![c][leg.account] = sum]
        /\ result' = [result EXCEPT ![c][leg.side] = sum]
        /\ pc' = [pc EXCEPT ![c] = "AddSecond"]
        /\ UNCHANGED <<txn, inserted, posted, shared>>
        /\ UNCHANGED <<tables, call, nextTx, acked>>
    BY <1>3, <1>5 DEF AddFirst, AddMoney, InRange
  <2>2. TypeOK'
    <3>1. result' \in [Clients -> Balances]
      BY <2>1, <1>3, <1>5 DEF IInv, TypeOK, Balances
    <3>. QED
      BY <3>1, <2>1, <1>3, <1>5 DEF IInv, TypeOK, TablesOK, tables, Statements
  <2>3. OnlyClient(c)
    BY <2>1 DEF OnlyClient, Same, IInv, TypeOK
  <2>4. RowsOK(c)'
    BY <1>1, <1>2, <2>1 DEF RowsOK, IInv, TypeOK, AddFirst
  <2>5. SumsOK(c)'
    <3>1. result'[c][leg.side] = sum
      BY <2>1, <1>3 DEF IInv, TypeOK, Balances
    <3>. QED
      BY <1>3, <2>1, <3>1 DEF SumsOK, IInv, TypeOK, tables
  <2>6. StageOK(c)'
    BY <1>1, <2>1 DEF StageOK, Running, Statements, IInv, TypeOK
  <2>7. locked'[c] = {leg.account} /\ shared'[c] = shared[c]
    BY <1>2, <2>1 DEF IInv, TypeOK
  <2>8. \A d \in Clients \ {c} : locked'[c] \cap locked[d] = {}
    BY <2>1, <2>7 DEF UpdateGranted
  <2>. QED
    BY <2>1, <2>2, <2>3, <2>4, <2>5, <2>6, <2>7, <2>8, LocalStep DEF ClientOK, IInv, LocksOK
<1>. QED
  BY <1>4, <1>5

\* So does the second, also when it finds the row the first one updated.
LEMMA AddSecondStep ==
  ASSUME IInv, NEW c \in Clients, AddSecond(c)
  PROVE  IInv'
<1> DEFINE t == call[c]
           first == FirstLeg(t)
           leg == SecondLeg(t)
           sum == Current(c, leg.account) + leg.amount
<1>1. Running(c) /\ RowsOK(c) /\ SumsOK(c) /\ t \in Transfer
  BY DEF IInv, ClientOK, StageOK, Idle, Running, Failed, AddSecond
<1>2. {t.from, t.to} \subseteq accounts /\ locked[c] = {first.account}
  BY <1>1 DEF IInv, LocksOK, RowsOK, AddSecond
<1>3. /\ leg.account \in accounts \cap AccountIDs
      /\ leg.side \in {"from", "to"}
      /\ leg.amount \in Int64
      /\ {first.account, leg.account} = {t.from, t.to}
  BY <1>1, <1>2, AmountFits DEF FirstLeg, SecondLeg, FromLeg, ToLeg, Transfer
<1>4. CASE sum \notin Int64
  <2>1. Abort(c) /\ pc' = [pc EXCEPT ![c] = "Commit"]
        /\ UNCHANGED <<tables, call, result, nextTx, acked>>
    BY <1>3, <1>4 DEF AddSecond, AddMoney, InRange
  <2>. QED
    BY <1>1, <2>1, AbortStep DEF Running
<1>5. CASE sum \in Int64
  <2>1. /\ UpdateGranted(c, leg.account)
        /\ locked' = [locked EXCEPT ![c] = @ \cup {leg.account}]
        /\ pending' = [pending EXCEPT ![c][leg.account] = sum]
        /\ result' = [result EXCEPT ![c][leg.side] = sum]
        /\ pc' = [pc EXCEPT ![c] = "Commit"]
        /\ UNCHANGED <<txn, inserted, posted, shared>>
        /\ UNCHANGED <<tables, call, nextTx, acked>>
    BY <1>3, <1>5 DEF AddSecond, AddMoney, InRange
  <2>2. TypeOK'
    <3>1. result' \in [Clients -> Balances]
      BY <2>1, <1>3, <1>5 DEF IInv, TypeOK, Balances
    <3>. QED
      BY <3>1, <2>1, <1>3, <1>5 DEF IInv, TypeOK, TablesOK, tables, Statements
  <2>3. OnlyClient(c)
    BY <2>1 DEF OnlyClient, Same, IInv, TypeOK
  <2>4. RowsOK(c)'
    BY <1>1, <1>2, <1>3, <2>1 DEF RowsOK, IInv, TypeOK, AddSecond
  <2>5. SumsOK(c)'
    <3>1. /\ result'[c][leg.side] = sum
          /\ \A s \in {"from", "to"} \ {leg.side} : result'[c][s] = result[c][s]
      BY <2>1, <1>3 DEF IInv, TypeOK, Balances
    <3>2. /\ pending'[c][leg.account] = sum
          /\ \A a \in AccountIDs \ {leg.account} : pending'[c][a] = pending[c][a]
      BY <2>1, <1>3 DEF IInv, TypeOK
    <3>3. /\ pending[c][first.account] = balance[first.account] + first.amount
          /\ result[c][first.side] = pending[c][first.account]
      BY <1>1 DEF SumsOK, AddSecond
    <3>4. /\ t.from \in Int /\ t.to \in Int /\ t.amount \in Int
          /\ t.from \in AccountIDs /\ t.to \in AccountIDs
          /\ balance[t.from] \in Int /\ balance[t.to] \in Int
      <4>1. t.from \in AccountIDs /\ t.to \in AccountIDs /\ t.amount \in Amounts
        BY <1>1 DEF Transfer
      <4>2. balance \in [AccountIDs -> Int]
        BY ZeroFits DEF IInv, TypeOK, TablesOK
      <4>3. t.from \in Int /\ t.to \in Int
        BY <4>1 DEF AccountIDs
      <4>4. t.amount \in Int
        BY <4>1, AmountFits, ZeroFits
      <4>. QED
        BY <4>1, <4>2, <4>3, <4>4
    <3>5. call'[c] = t /\ balance' = balance /\ pc'[c] = "Commit"
      BY <2>1 DEF tables, IInv, TypeOK
    <3>6. CASE t.from < t.to
      <4>1. first = FromLeg(t) /\ leg = ToLeg(t) /\ t.from # t.to
        BY <3>4, <3>6 DEF FirstLeg, SecondLeg, FromFirst
      <4>2. sum = balance[t.to] + t.amount
        BY <1>2, <4>1 DEF FromLeg, ToLeg, Current
      <4>. QED
        BY <3>1, <3>2, <3>3, <3>4, <3>5, <4>1, <4>2 DEF SumsOK, FromLeg, ToLeg
    <3>7. CASE t.to < t.from
      <4>1. first = ToLeg(t) /\ leg = FromLeg(t) /\ t.from # t.to
        BY <3>4, <3>7 DEF FirstLeg, SecondLeg, FromFirst
      <4>2. sum = balance[t.from] + -t.amount
        BY <1>2, <4>1 DEF FromLeg, ToLeg, Current
      <4>. QED
        BY <3>1, <3>2, <3>3, <3>4, <3>5, <4>1, <4>2 DEF SumsOK, FromLeg, ToLeg
    <3>8. CASE t.from = t.to
      <4>1. first = ToLeg(t) /\ leg = FromLeg(t)
        BY <3>4, <3>8 DEF FirstLeg, SecondLeg, FromFirst
      <4>2. sum = balance[t.to] + t.amount + -t.amount
        BY <1>2, <3>3, <3>8, <4>1 DEF FromLeg, ToLeg, Current
      <4>. QED
        BY <3>1, <3>2, <3>4, <3>5, <3>8, <4>1, <4>2 DEF SumsOK, FromLeg, ToLeg
    <3>. QED
      BY <3>4, <3>6, <3>7, <3>8
  <2>6. StageOK(c)'
    BY <1>1, <2>1 DEF StageOK, Running, Statements, IInv, TypeOK
  <2>7. locked'[c] = locked[c] \cup {leg.account} /\ shared'[c] = shared[c]
    BY <1>2, <2>1 DEF IInv, TypeOK
  <2>8. \A d \in Clients \ {c} : locked'[c] \cap locked[d] = {}
    BY <2>1, <2>7 DEF UpdateGranted, IInv, LocksOK
  <2>. QED
    BY <2>1, <2>2, <2>3, <2>4, <2>5, <2>6, <2>7, <2>8, LocalStep DEF ClientOK, IInv, LocksOK
<1>. QED
  BY <1>4, <1>5

\* What COMMIT makes of the tables: exactly what Ledger says of a transfer.
LEMMA PublishIsPost ==
  ASSUME IInv, NEW c \in Clients, pc[c] = "Commit", txn[c] = "active", Publish(c)
  PROVE  /\ call[c] \in Transfer
         /\ L!Post(call[c])
         /\ locked[c] = {call[c].from, call[c].to}
         /\ balance' \in [AccountIDs -> Int64]
         /\ \A a \in AccountIDs \ locked[c] : balance'[a] = balance[a]
         /\ \A a \in locked[c] : balance'[a] = pending[c][a]
<1> DEFINE t == call[c]
<1>1. Running(c) /\ RowsOK(c) /\ SumsOK(c) /\ t \in Transfer
  BY DEF IInv, ClientOK, StageOK, Idle, Running, Failed
<1>2. locked[c] = {t.from, t.to} /\ inserted[c] = {t} /\ posted[c] = {FromEntry(t), ToEntry(t)}
      /\ shared[c] = {t.from, t.to}
  BY <1>1 DEF RowsOK
<1>3. balance' \in [AccountIDs -> Int64]
  BY DEF Publish, Current, IInv, TypeOK, TablesOK
<1>4. /\ \A a \in AccountIDs \ locked[c] : balance'[a] = balance[a]
      /\ \A a \in AccountIDs \cap locked[c] : balance'[a] = pending[c][a]
  BY DEF Publish, Current
<1>5. {t.from, t.to} \subseteq AccountIDs /\ t.amount \in Int
  BY <1>1, AmountFits, ZeroFits DEF Transfer
<1>6. ASSUME NEW a \in AccountIDs PROVE balance'[a] = balance[a] + L!Delta(t, a)
  <2>1. balance[a] \in Int
    BY ZeroFits DEF IInv, TypeOK, TablesOK
  <2>2. CASE a \in {t.from, t.to}
    <3>1. pending[c][a] = balance[a] + (IF a = t.to THEN t.amount ELSE 0)
                                       - (IF a = t.from THEN t.amount ELSE 0)
      BY <1>1, <2>2 DEF SumsOK
    <3>. QED
      BY <1>2, <1>4, <1>5, <2>1, <2>2, <3>1 DEF L!Delta
  <2>3. CASE a \notin {t.from, t.to}
    BY <1>2, <1>4, <1>5, <2>1, <2>3 DEF L!Delta
  <2>. QED
    BY <2>2, <2>3
<1>7. balance' = [a \in AccountIDs |-> balance[a] + L!Delta(t, a)]
  BY <1>3, <1>6
<1>8. {t.from, t.to} \subseteq accounts
  BY <1>2 DEF IInv, LocksOK
<1>9. \A u \in transfers : u.tx # t.tx
  BY <1>1, CallsAssumption DEF IInv, NumbersOK, CallsAssumption, Running
<1>10. L!Post(t)
  BY <1>2, <1>3, <1>7, <1>8, <1>9 DEF L!Post, L!FromEntry, L!ToEntry, L!InRange, L!Int64, L!AccountIDs, 
    FromEntry, ToEntry, AccountIDs, Int64, Publish
<1>. QED
  BY <1>1, <1>2, <1>3, <1>4, <1>5, <1>10

\* COMMIT keeps the invariant: the locks of the transaction keep the accounts of
\* every other one out of its way.
LEMMA CommitStep ==
  ASSUME IInv, NEW c \in Clients, Commit(c) \/ CommitUnacknowledged(c)
  PROVE  IInv'
<1> DEFINE t == call[c]
<1>1. pc[c] = "Commit" /\ txn[c] = "active" /\ Publish(c) /\ Return(c) /\ nextTx' = nextTx
  BY DEF Commit, CommitUnacknowledged
<1>2. /\ t \in Transfer
      /\ locked[c] = {t.from, t.to}
      /\ balance' \in [AccountIDs -> Int64]
      /\ \A a \in AccountIDs \ locked[c] : balance'[a] = balance[a]
  BY <1>1, PublishIsPost
<1>3. transfers' = transfers \cup {t} /\ entries' = entries \cup {FromEntry(t), ToEntry(t)}
  <2>1. RowsOK(c)
    BY <1>1 DEF IInv, ClientOK
  <2>. QED
    BY <1>1, <2>1 DEF Publish, RowsOK
<1>4. acked' \in {acked, acked \cup {[tx |-> t.tx, from |-> result[c].from, to |-> result[c].to]}}
  BY DEF Commit, CommitUnacknowledged
<1>5. TypeOK'
  <2>1. TablesOK'
    BY <1>1, <1>2, <1>3, EntriesTyped DEF IInv, TypeOK, TablesOK, Publish
  <2>2. acked' \subseteq Ack
    BY <1>2, <1>4 DEF IInv, TypeOK, Ack, Transfer, Balances
  <2>. QED
    BY <1>1, <2>1, <2>2, NothingFits DEF IInv, TypeOK, Return, DropWork
<1>6. OnlyClient(c)
  BY <1>1 DEF OnlyClient, Same, IInv, TypeOK, Return, DropWork
<1>7. ASSUME NEW d \in Clients PROVE ClientOK(d)'
  <2>1. CASE d = c
    BY <1>1, <2>1 DEF IInv, TypeOK, ClientOK, StageOK, Idle, Empty, Return, DropWork
  <2>2. CASE d # c
    <3>1. Same(d)
      BY <1>6, <2>2 DEF OnlyClient
    <3>2. \A a \in locked[d] : balance'[a] = balance[a]
      BY <1>2, <2>2 DEF IInv, LocksOK, TypeOK
    <3>. QED
      BY <3>1, <3>2, Frame
  <2>. QED
    BY <2>1, <2>2
<1>8. call'[c] = NoCall /\ locked'[c] = {} /\ shared'[c] = {} /\ accounts' = accounts
  BY <1>1 DEF Return, DropWork, Publish, IInv, TypeOK
<1>9. LocksOK'
  BY <1>6, <1>8 DEF IInv, LocksOK, OnlyClient, Same
<1>10. NumbersOK'
  <2>1. t # NoCall
    BY <1>2, CallsAssumption DEF CallsAssumption
  <2>. QED
    BY <1>1, <1>3, <1>6, <1>8, <2>1
       DEF IInv, NumbersOK, OnlyClient, Same, Publish
<1>11. AckedIsPosted'
  BY <1>3, <1>4 DEF IInv, AckedIsPosted
<1>. QED
  BY <1>5, <1>7, <1>9, <1>10, <1>11 DEF IInv

\* A new call keeps the invariant: its transaction number is new.
LEMMA BeginStep ==
  ASSUME IInv, NEW c \in Clients, NEW from \in AccountIDs, NEW to \in AccountIDs,
         NEW amount \in Amounts, Begin(c, from, to, amount)
  PROVE  IInv'
<1> DEFINE t == [tx |-> nextTx, from |-> from, to |-> to, amount |-> amount]
<1> USE DEF Begin
<1>1. t \in Transfer /\ t # NoCall
  BY CallsAssumption DEF CallsAssumption, Transfer
<1>2. nextTx' = nextTx + 1 /\ nextTx \in Int /\ nextTx' \in 1..(MaxTx + 1)
  BY BoundsAssumption DEF BoundsAssumption, TxIDs
<1>3. TypeOK'
  BY <1>1, <1>2 DEF IInv, TypeOK, TablesOK, work, tables, Statements
<1>4. OnlyClient(c)
  BY DEF OnlyClient, Same, IInv, TypeOK, work
<1>5. Empty(c) /\ txn[c] = "none"
  BY DEF IInv, ClientOK, StageOK, Idle, Running, Failed, Statements
<1>6. ClientOK(c)'
  <2>1. /\ pc'[c] = "CreateTransfer" /\ call'[c] = t /\ txn'[c] = "active"
        /\ inserted'[c] = {} /\ posted'[c] = {} /\ shared'[c] = {} /\ locked'[c] = {}
    BY <1>5 DEF IInv, TypeOK, work, Empty
  <2>. QED
    BY <1>1, <2>1 DEF ClientOK, StageOK, Running, RowsOK, SumsOK, Statements
<1>7. \A d \in Clients : ClientOK(d)'
  BY <1>4, <1>6, Frame DEF OnlyClient, tables
<1>8. LocksOK'
  BY DEF IInv, LocksOK, work, tables
<1>9. NumbersOK'
  <2>1. call'[c] = t /\ t.tx = nextTx /\ \A d \in Clients \ {c} : call'[d] = call[d]
    BY DEF IInv, TypeOK
  <2>2. \A u \in transfers : u.tx \in Int /\ u.tx < nextTx
    BY DEF IInv, TypeOK, TablesOK, Transfer, TxIDs, NumbersOK
  <2>3. \A d \in Clients : call[d] # NoCall => call[d].tx \in Int /\ call[d].tx < nextTx
    BY DEF IInv, TypeOK, Transfer, TxIDs, NumbersOK
  <2>4. \A d, e \in Clients : call[d] # NoCall /\ call[e] # NoCall /\ d # e => call[d].tx # call[e].tx
    BY DEF IInv, NumbersOK
  <2>5. \A d \in Clients, u \in transfers : call[d] # NoCall => u.tx # call[d].tx
    BY DEF IInv, NumbersOK
  <2>6. /\ transfers' = transfers
        /\ \A a \in accounts' : a < nextAccountID'
    BY DEF tables, IInv, NumbersOK
  <2>. QED
    BY <1>2, <2>1, <2>2, <2>3, <2>4, <2>5, <2>6 DEF NumbersOK
<1>10. AckedIsPosted'
  BY DEF IInv, AckedIsPosted, tables
<1>. QED
  BY <1>3, <1>7, <1>8, <1>9, <1>10 DEF IInv

\* Every statement and every failure of a call keeps the invariant.
LEMMA StatementStep ==
  ASSUME IInv, NEW c \in Clients, Statement(c) \/ Failure(c)
  PROVE  IInv'
<1>1. CASE CreateTransfer(c)
  BY <1>1, CreateTransferStep
<1>2. CASE CreateTransferRejected(c)
  <2>1. txn[c] = "active"
    BY <1>2 DEF CreateTransferRejected, IInv, ClientOK, StageOK, Idle, Running, Failed
  <2>. QED
    BY <1>2, <2>1, AbortStep DEF CreateTransferRejected
<1>3. CASE CreateFromEntry(c) \/ CreateToEntry(c)
  BY <1>3, CreateEntryStep
<1>4. CASE AddFirst(c)
  BY <1>4, AddFirstStep
<1>5. CASE AddSecond(c)
  BY <1>5, AddSecondStep
<1>6. CASE Commit(c) \/ CommitUnacknowledged(c)
  BY <1>6, CommitStep
<1>7. CASE CommitRefused(c) \/ Rollback(c) \/ CommitLost(c)
  BY <1>7, ReturnStep DEF CommitRefused, Rollback, CommitLost
<1>8. CASE StatementFails(c)
  BY <1>8, AbortStep DEF StatementFails
<1>. QED
  BY <1>1, <1>2, <1>3, <1>4, <1>5, <1>6, <1>7, <1>8 DEF Statement, Failure

\* A crash keeps the invariant.
LEMMA CrashStep == IInv /\ Crash => IInv'
<1> SUFFICES ASSUME IInv, Crash PROVE IInv'
  OBVIOUS
<1>1. TypeOK'
  BY NothingFits DEF Crash, IInv, TypeOK, TablesOK, tables
<1>. QED
  BY <1>1 DEF Crash, IInv, ClientOK, StageOK, Idle, Empty, LocksOK, NumbersOK, AckedIsPosted, tables

\* A query that leaves every transaction alone, moves no row a transaction
\* works on, and keeps the tables well typed.
LEMMA QueryStep ==
  ASSUME IInv, TablesOK', UNCHANGED <<entries, transfers, pc, call, txn, work, result, nextTx, acked>>,
         \A a \in accounts' : a < nextAccountID',
         \A c \in Clients : shared[c] \subseteq accounts',
         \A c \in Clients : \A a \in locked[c] : balance'[a] = balance[a]
  PROVE  IInv'
<1>1. TypeOK'
  BY DEF IInv, TypeOK, work
<1>2. \A c \in Clients : Same(c)
  BY DEF Same, work
<1>3. \A c \in Clients : ClientOK(c)'
  BY <1>2, Frame
<1>. QED
  BY <1>1, <1>3 DEF IInv, LocksOK, NumbersOK, AckedIsPosted, work

\* A row that is locked for update is one the transaction refers to.
LEMMA LockedAreShared ==
  ASSUME IInv, NEW c \in Clients
  PROVE  locked[c] \subseteq shared[c]
<1>1. ClientOK(c)
  BY DEF IInv
<1>2. CASE Running(c)
  <2>1. RowsOK(c)
    BY <1>1, <1>2 DEF ClientOK, Running
  <2>2. FirstLeg(call[c]).account \in {call[c].from, call[c].to}
    BY DEF FirstLeg, FromLeg, ToLeg
  <2>3. CASE pc[c] = "AddSecond" \/ pc[c] = "Commit"
    BY <2>1, <2>2, <2>3 DEF RowsOK
  <2>4. CASE ~(pc[c] = "AddSecond" \/ pc[c] = "Commit")
    BY <2>1, <2>4 DEF RowsOK
  <2>. QED
    BY <2>3, <2>4
<1>3. CASE Empty(c)
  BY <1>3 DEF Empty
<1>. QED
  BY <1>1, <1>2, <1>3 DEF ClientOK, StageOK

\* The one-statement queries keep the invariant: they wait for row locks, and
\* DELETE for the foreign keys' locks.
LEMMA QueriesStep == IInv /\ Query => IInv'
<1> SUFFICES ASSUME IInv, Query PROVE IInv'
  OBVIOUS
<1>1. /\ TablesOK
      /\ \A c \in Clients : shared[c] \subseteq accounts
      /\ \A c \in Clients : locked[c] \subseteq shared[c]
  BY LockedAreShared DEF IInv, TypeOK, LocksOK
<1>2. ASSUME NEW b \in HandBalances, CreateAccount(b)
      PROVE  IInv'
  <2>1. b \in Int64 /\ b \in Int
    BY CallsAssumption, ZeroFits DEF CallsAssumption
  <2>2. nextAccountID' \in 1..(MaxAccountID + 1)
    BY <1>2, BoundsAssumption DEF CreateAccount, BoundsAssumption, AccountIDs
  <2>3. TablesOK'
    BY <1>1, <1>2, <2>1, <2>2 DEF CreateAccount, TablesOK
  <2>4. \A a \in accounts : a \in Int /\ a < nextAccountID
    BY <1>1 DEF IInv, NumbersOK, TablesOK, AccountIDs
  <2>5. nextAccountID \in Int /\ nextAccountID \notin accounts
    BY <1>1, <2>4 DEF TablesOK
  <2>6. \A a \in accounts' : a < nextAccountID'
    BY <1>2, <2>4, <2>5 DEF CreateAccount
  <2>. QED
    <3>1. \A c \in Clients : shared[c] \subseteq accounts'
      BY <1>1, <1>2 DEF CreateAccount
    <3>2. \A a \in accounts : balance'[a] = balance[a]
      BY <1>1, <1>2, <2>5 DEF CreateAccount, TablesOK
    <3>. QED
      BY <1>1, <1>2, <2>3, <2>6, <3>1, <3>2, QueryStep DEF CreateAccount
<1>3. ASSUME NEW a \in AccountIDs, NEW b \in Int64, SetBalance(a, b)
      PROVE  IInv'
  <2>1. b \in Int /\ balance[a] \in Int /\ unlogged[a] \in Int
    BY <1>1, ZeroFits DEF TablesOK
  <2>2. TablesOK'
    BY <1>1, <1>3, <2>1 DEF SetBalance, TablesOK
  <2>3. \A c \in Clients : \A x \in locked[c] : balance'[x] = balance[x]
    BY <1>1, <1>3 DEF SetBalance, TablesOK
  <2>. QED
    BY <1>1, <1>3, <2>2, <2>3, QueryStep DEF SetBalance, IInv, NumbersOK
<1>4. ASSUME NEW a \in AccountIDs, DeleteAccount(a)
      PROVE  IInv'
  <2>1. TablesOK'
    BY <1>1, <1>4, ZeroFits DEF DeleteAccount, TablesOK
  <2>2. \A c \in Clients : a \notin shared[c] /\ a \notin locked[c]
    BY <1>4 DEF DeleteAccount, DeleteGranted
  <2>3. \A c \in Clients : \A x \in locked[c] : balance'[x] = balance[x]
    BY <1>1, <1>4, <2>2 DEF DeleteAccount, TablesOK
  <2>4. \A c \in Clients : shared[c] \subseteq accounts'
    BY <1>1, <1>4, <2>2 DEF DeleteAccount
  <2>. QED
    BY <1>4, <2>1, <2>3, <2>4, QueryStep DEF DeleteAccount, IInv, NumbersOK
<1>5. ASSUME NEW a \in AccountIDs, NEW b \in HandBalances, UpdateAccount(a, b)
      PROVE  IInv'
  BY <1>3, <1>5, CallsAssumption DEF UpdateAccount, CallsAssumption
<1>6. ASSUME NEW a \in AccountIDs, NEW m \in HandAmounts, AddAccountBalance(a, m)
      PROVE  IInv'
  BY <1>3, <1>6 DEF AddAccountBalance, InRange
<1>. QED
  BY <1>2, <1>4, <1>5, <1>6 DEF Query

\* Every step keeps the invariant.
LEMMA NextStep == IInv /\ [Next]_vars => IInv'
<1> SUFFICES ASSUME IInv, [Next]_vars PROVE IInv'
  OBVIOUS
<1>1. CASE Next
  BY <1>1, BeginStep, StatementStep, CrashStep, QueriesStep DEF Next
<1>2. CASE UNCHANGED vars
  <2>1. TypeOK'
    BY <1>2 DEF IInv, TypeOK, TablesOK, vars, tables, work
  <2>2. \A c \in Clients : ClientOK(c)'
    BY <1>2, Frame DEF Same, vars, tables, work
  <2>. QED
    BY <1>2, <2>1, <2>2 DEF IInv, LocksOK, NumbersOK, AckedIsPosted, vars, tables, work
<1>. QED
  BY <1>1, <1>2

\* The invariant of the store.
THEOREM Invariance == Spec => []IInv
BY InitInv, NextStep, PTL DEF Spec

\* No balance, pending sum or result ever leaves the range of bigint, and no
\* statement is executed out of its place (TransferTx, tx_transfer.go lines
\* 19-82).
THEOREM TypeCorrect == Spec => []TypeOK
<1>1. IInv => TypeOK
  BY DEF IInv
<1>. QED
  BY <1>1, Invariance, PTL

\* A nil error means a committed transfer, although TransferTx drops the error
\* of addMoney (tx_transfer.go line 54) and leaves it to COMMIT to fail.
THEOREM SuccessIsPosted == Spec => []AckedIsPosted
<1>1. IInv => AckedIsPosted
  BY DEF IInv
<1>. QED
  BY <1>1, Invariance, PTL

-------------------------------------------------------------------------------

\* Every statement, failure, crash and query of the store is a step of Ledger,
\* or changes no table.
LEMMA StepRefines == IInv /\ [Next]_vars => [L!Next]_(L!tables)
<1> SUFFICES ASSUME IInv, [Next]_vars, tables' # tables
             PROVE  L!Next
  BY DEF L!tables, tables
<1>1. ASSUME NEW c \in Clients, Commit(c) \/ CommitUnacknowledged(c)
      PROVE  L!Next
  <2>1. call[c] \in Transfer /\ L!Post(call[c])
    BY <1>1, PublishIsPost DEF Commit, CommitUnacknowledged
  <2>. QED
    BY <2>1 DEF L!Next, L!Transfer, Transfer, L!TxIDs, TxIDs, L!AccountIDs, AccountIDs
<1>2. ASSUME NEW b \in HandBalances, CreateAccount(b)
      PROVE  L!Next
  <2>1. b \in Int64 /\ L!Open(b)
    BY <1>2, CallsAssumption DEF CallsAssumption, CreateAccount, L!Open, L!AccountIDs, AccountIDs
  <2>. QED
    BY <2>1 DEF L!Next, L!Int64, Int64
<1>3. ASSUME NEW a \in AccountIDs, NEW b \in Int64, SetBalance(a, b)
      PROVE  L!Next
  <2>1. L!Adjust(a, b)
    BY <1>3 DEF SetBalance, L!Adjust
  <2>. QED
    BY <2>1 DEF L!Next, L!Int64, Int64, L!AccountIDs, AccountIDs
<1>4. ASSUME NEW a \in AccountIDs, DeleteAccount(a)
      PROVE  L!Next
  <2>1. L!Close(a)
    BY <1>4 DEF DeleteAccount, L!Close, L!Referenced, Referenced
  <2>. QED
    BY <2>1 DEF L!Next, L!AccountIDs, AccountIDs
<1>5. CASE Query
  <2>1. ASSUME NEW a \in AccountIDs, NEW b \in HandBalances, UpdateAccount(a, b)
        PROVE  L!Next
    BY <1>3, <2>1, CallsAssumption DEF UpdateAccount, CallsAssumption
  <2>2. ASSUME NEW a \in AccountIDs, NEW m \in HandAmounts, AddAccountBalance(a, m)
        PROVE  L!Next
    BY <1>3, <2>2 DEF AddAccountBalance, InRange
  <2>. QED
    BY <1>2, <1>4, <1>5, <2>1, <2>2 DEF Query
<1>6. ASSUME NEW c \in Clients, Statement(c) \/ Failure(c),
             ~(Commit(c) \/ CommitUnacknowledged(c))
      PROVE  FALSE
  BY <1>6 DEF Statement, Failure, CreateTransfer, CreateTransferRejected,
     CreateFromEntry, CreateToEntry, CreateEntry, AddFirst, AddSecond, AddMoney,
     CommitRefused, Rollback, StatementFails, CommitLost
<1>7. CASE Next
  BY <1>1, <1>5, <1>6, <1>7 DEF Next, Begin, Crash
<1>. QED
  BY <1>7 DEF vars

\* The statements of all the calls add up to whole transfers: each COMMIT is
\* one step of Ledger, each query one too, and no other step shows.
THEOREM Refinement == Spec => ImplementsLedger
<1>1. Init => L!TablesInit
  BY DEF Init, TablesInit, L!TablesInit, L!AccountIDs, AccountIDs
<1>. QED
  BY <1>1, Invariance, StepRefines, PTL DEF Spec, ImplementsLedger, L!Spec

\* The committed entries are the two of every committed transfer and no others
\* (tx_transfer.go lines 25-47), in the abstract ledger and so in the store.
THEOREM DoubleEntryBooks == Spec => []DoubleEntry
<1>1. Init => DoubleEntry
  BY DEF Init, TablesInit, DoubleEntry
<1>2. DoubleEntry /\ [L!Next]_(L!tables) => DoubleEntry'
  BY DEF L!tables, DoubleEntry, L!Next, L!Open, L!Adjust, L!Close, L!Post, tables, L!FromEntry, L!ToEntry, FromEntry, ToEntry
<1>. QED
  BY <1>1, <1>2, Invariance, StepRefines, PTL DEF Spec

-------------------------------------------------------------------------------
(* What is proved of the ledger in Ledger_proofs holds of the store.           *)

LP == INSTANCE Ledger_proofs

LEMMA LedgerIsLedger == ImplementsLedger => LP!Spec
<1>1. L!TablesInit => LP!TablesInit
  BY DEF L!TablesInit, LP!TablesInit, L!AccountIDs, LP!AccountIDs
<1>2. L!Next => LP!Next
  BY DEF L!Next, LP!Next, L!Open, LP!Open, L!Adjust, LP!Adjust, L!Close, LP!Close,
     L!Post, LP!Post, L!Int64, LP!Int64, L!AccountIDs, LP!AccountIDs, L!Transfer,
     LP!Transfer, L!TxIDs, LP!TxIDs, L!InRange, LP!InRange, L!FromEntry,
     LP!FromEntry, L!ToEntry, LP!ToEntry, L!Delta, LP!Delta, L!Referenced,
     LP!Referenced
<1>3. L!tables = LP!tables
  BY DEF L!tables, LP!tables
<1>. QED
  BY <1>1, <1>2, <1>3, PTL
     DEF ImplementsLedger, L!Spec, LP!Spec, L!tables, LP!tables

LEMMA LedgerConserves == LP!Spec => []LP!Conservation
BY LP!LedgerConserves, BoundsAssumption, ValuesAssumption
   DEF BoundsAssumption, ValuesAssumption, Int64, LP!Int64

\* The books balance: after any interleaving of statements, any failure and any
\* crash, a balance is what was put in by hand plus what the entries of the
\* account add up to, the entries of all accounts cancel out, and the bank holds
\* what was put in by hand (tx_transfer.go lines 31-58).
THEOREM BooksBalance == Spec => []Conservation
<1>1. LP!Conservation => Conservation
  BY DEF LP!Conservation, Conservation, LP!EntriesOf, EntriesOf, LP!EntryAmount,
     EntryAmount, LP!MapThenSumSet, MapThenSumSet, LP!MapThenFoldSet,
     MapThenFoldSet, LP!SumFunctionOnSet, SumFunctionOnSet,
     LP!FoldFunctionOnSet, FoldFunctionOnSet
<1>. QED
  BY <1>1, Refinement, LedgerIsLedger, LedgerConserves, PTL

-------------------------------------------------------------------------------

\* The balances a call returns without error are those its COMMIT makes visible
\* (TransferTxResult, tx_transfer.go lines 49-54).
THEOREM ResultsAreCurrent == Spec => AckIsCurrent
<1>1. ASSUME IInv, Next,
             NEW r \in acked' \ acked, NEW t \in transfers', t.tx = r.tx
      PROVE  /\ r.from = balance'[t.from]
             /\ t.from # t.to => r.to = balance'[t.to]
  <2>1. PICK c \in Clients : Commit(c)
    BY <1>1 DEF Next, Begin, Statement, Failure, Query, Crash,
       CreateTransfer, CreateTransferRejected,
     CreateFromEntry, CreateToEntry, CreateEntry, AddFirst, AddSecond, AddMoney,
     CommitRefused, Rollback, StatementFails, CommitLost, CommitUnacknowledged,
     CreateAccount, UpdateAccount, AddAccountBalance, SetBalance, DeleteAccount
  <2>2. r = [tx |-> call[c].tx, from |-> result[c].from, to |-> result[c].to]
    BY <1>1, <2>1 DEF Commit
  <2>3. L!Post(call[c]) /\ locked[c] = {call[c].from, call[c].to}
        /\ \A a \in locked[c] : balance'[a] = pending[c][a]
    BY <1>1, <2>1, PublishIsPost DEF Commit
  <2>4. t = call[c]
    BY <1>1, <2>2, <2>3 DEF L!Post
  <2>5. SumsOK(c)
    BY <1>1, <2>1 DEF IInv, ClientOK, Commit
  <2>. QED
    BY <2>1, <2>2, <2>3, <2>4, <2>5 DEF SumsOK, Commit
<1>2. IInv /\ [Next]_vars =>
        [\A r \in acked' \ acked : \A t \in transfers' :
           t.tx = r.tx =>
             /\ r.from = balance'[t.from]
             /\ t.from # t.to => r.to = balance'[t.to]]_vars
  BY <1>1
<1>. QED
  BY <1>2, Invariance, PTL DEF Spec, AckIsCurrent

-------------------------------------------------------------------------------

\* A non-empty set of numbers that does not go beyond n has a greatest element.
LEMMA Greatest ==
  ASSUME NEW n \in Int, NEW R, R \subseteq Int, R # {}, \A r \in R : r <= n
  PROVE  \E m \in R : \A r \in R : r <= m
<1> DEFINE T == {n - r : r \in R}
<1>1. T \subseteq Nat /\ T # {}
  <2>1. ASSUME NEW r \in R PROVE n - r \in Nat
    <3>1. r \in Int /\ r <= n
      OBVIOUS
    <3>. QED
      BY <3>1
  <2>. QED
    BY <2>1
<1>2. PICK x \in T : \A y \in T : ~(<<y, x>> \in OpToRel(<, Nat))
  BY <1>1, NatLessThanWellFounded, WFMin
<1>3. \A y \in T : ~(y < x)
  BY <1>1, <1>2 DEF OpToRel
<1>4. PICK m \in R : x = n - m
  OBVIOUS
<1>5. \A r \in R : r <= m
  BY <1>3, <1>4
<1>. QED
  BY <1>4, <1>5

\* A client that waits for one that waits itself waits for the account
\* with the smaller id: the order of addMoney.
LEMMA WaitsUpwards ==
  ASSUME IInv, NEW c \in Clients, NEW d \in Clients, NEW e \in Clients,
         Waits(c, d), Waits(d, e)
  PROVE  Target(c) < Target(d)
<1> DEFINE t == call[d]
<1>1. Running(d) /\ RowsOK(d) /\ t \in Transfer
  BY DEF IInv, ClientOK, StageOK, Idle, Running, Failed, Waits
<1>2. pc[d] = "AddSecond" /\ locked[d] = {FirstLeg(t).account}
  BY <1>1 DEF RowsOK, Waits
<1>3. Target(c) = FirstLeg(t).account /\ Target(d) = SecondLeg(t).account
  BY <1>2 DEF Waits, Target
<1>4. Target(d) \notin locked[d]
  BY DEF Waits, IInv, LocksOK
<1>5. FirstLeg(t).account # SecondLeg(t).account
  BY <1>2, <1>3, <1>4
<1>6. t.from \in Int /\ t.to \in Int
  BY <1>1 DEF Transfer, AccountIDs
<1>. QED
  BY <1>3, <1>5, <1>6 DEF FirstLeg, SecondLeg, FromLeg, ToLeg, FromFirst

LEMMA TargetIsAccount ==
  ASSUME IInv, NEW c \in Clients, NEW d \in Clients, Waits(c, d)
  PROVE  Target(c) \in Int /\ Target(c) <= MaxAccountID
<1>1. call[c] \in Transfer
  BY DEF IInv, ClientOK, StageOK, Idle, Running, Failed, Waits
<1>2. Target(c) \in AccountIDs
  BY <1>1 DEF Target, FirstLeg, SecondLeg, FromLeg, ToLeg, Transfer
<1>. QED
  BY <1>2, BoundsAssumption DEF AccountIDs, BoundsAssumption

\* Row locks never form a cycle: in a group whose clients all wait for one
\* another, the client that waits for the greatest account waits for nobody.
THEOREM DeadlockFree == Spec => []NoDeadlock
<1>1. IInv => NoDeadlock
  <2> SUFFICES ASSUME IInv, NEW S \in (SUBSET Clients) \ {{}},
                      \A c \in S : \E d \in S : Waits(c, d)
               PROVE  FALSE
    BY DEF NoDeadlock
  <2> DEFINE R == {Target(c) : c \in S}
  <2>1. MaxAccountID \in Int
    BY BoundsAssumption DEF BoundsAssumption
  <2>2. R \subseteq Int /\ \A r \in R : r <= MaxAccountID
    BY TargetIsAccount
  <2>3. PICK m \in R : \A r \in R : r <= m
    BY <2>1, <2>2, Greatest
  <2>4. PICK c \in S : m = Target(c)
    OBVIOUS
  <2>5. PICK d \in S, e \in S : Waits(c, d) /\ Waits(d, e)
    OBVIOUS
  <2>6. Target(c) < Target(d)
    BY <2>5, WaitsUpwards
  <2>7. Target(c) \in Int /\ Target(d) \in Int /\ Target(d) <= Target(c)
    BY <2>2, <2>3, <2>4
  <2>. QED
    BY <2>6, <2>7
<1>. QED
  BY <1>1, Invariance, PTL

-------------------------------------------------------------------------------
(* What is behind EveryCallReturns, up to fairness: some call can go on, and   *)
(* none goes on for ever.                                                      *)

\* The next statement of c's call has what it waits for.
CanGo(c) ==
  /\ pc[c] # "idle"
  /\ pc[c] \in {"AddFirst", "AddSecond"} => UpdateGranted(c, Target(c))

\* As long as calls are in progress one of them can execute its next statement:
\* a client without a call holds no lock, and those that have one never wait in a
\* circle (tx_transfer.go lines 49-53).
THEOREM SomebodyGoes ==
  Spec => []((\E c \in Clients : pc[c] # "idle") => \E c \in Clients : CanGo(c))
<1>1. ASSUME IInv, NoDeadlock, NEW c0 \in Clients, pc[c0] # "idle"
      PROVE  \E c \in Clients : CanGo(c)
  <2> DEFINE S == {c \in Clients : pc[c] # "idle"}
  <2>1. S \in (SUBSET Clients) \ {{}}
    BY <1>1
  <2>2. PICK c \in S : \A d \in S : ~Waits(c, d)
    BY <1>1, <2>1 DEF NoDeadlock
  <2>3. ASSUME pc[c] \in {"AddFirst", "AddSecond"}, NEW d \in Clients \ {c}
        PROVE  Target(c) \notin locked[d]
    <3>1. CASE d \in S
      <4>1. txn[c] = "active"
        BY <1>1, <2>3 DEF IInv, ClientOK, StageOK, Idle, Running, Failed
      <4>. QED
        BY <2>2, <2>3, <3>1, <4>1 DEF Waits
    <3>2. CASE d \notin S
      <4>1. locked[d] = {}
        BY <1>1, <3>2 DEF IInv, ClientOK, StageOK, Idle, Running, Failed, Empty,
           Statements
      <4>. QED
        BY <4>1
    <3>. QED
      BY <3>1, <3>2
  <2>. QED
    BY <2>3 DEF CanGo, UpdateGranted
<1>2. IInv /\ NoDeadlock =>
        ((\E c \in Clients : pc[c] # "idle") => \E c \in Clients : CanGo(c))
  BY <1>1
<1>. QED
  BY <1>2, Invariance, DeadlockFree, PTL

StatementsLeft(statement) ==
  CASE statement = "CreateTransfer" -> 6
    [] statement = "CreateFromEntry" -> 5
    [] statement = "CreateToEntry" -> 4
    [] statement = "AddFirst" -> 3
    [] statement = "AddSecond" -> 2
    [] statement \in {"Commit", "Rollback"} -> 1
    [] statement = "idle" -> 0

\* Every statement and every failure of a call brings it nearer to its end, no
\* other step takes it back, and a new call uses up a transaction number: there
\* are no retries in TransferTx (tx_transfer.go lines 19-61, store.go).
THEOREM CallsMoveOn ==
  Spec => [][\A c \in Clients :
               /\ StatementsLeft(pc[c]) \in 0..6
               /\ \/ pc'[c] = pc[c] /\ ~Statement(c) /\ ~Failure(c)
                  \/ StatementsLeft(pc'[c]) < StatementsLeft(pc[c])
                  \/ pc[c] = "idle" /\ nextTx' = nextTx + 1]_vars
<1> DEFINE Moves(c) ==
             /\ StatementsLeft(pc[c]) \in 0..6
             /\ \/ pc'[c] = pc[c] /\ ~Statement(c) /\ ~Failure(c)
                \/ StatementsLeft(pc'[c]) < StatementsLeft(pc[c])
                \/ pc[c] = "idle" /\ nextTx' = nextTx + 1
<1>1. /\ StatementsLeft("CreateTransfer") = 6 /\ StatementsLeft("CreateFromEntry") = 5
      /\ StatementsLeft("CreateToEntry") = 4 /\ StatementsLeft("AddFirst") = 3
      /\ StatementsLeft("AddSecond") = 2 /\ StatementsLeft("Commit") = 1
      /\ StatementsLeft("Rollback") = 1 /\ StatementsLeft("idle") = 0
  BY DEF StatementsLeft
<1>2. ASSUME IInv, NEW c \in Clients
      PROVE  /\ pc[c] \in Statements \cup {"idle"}
             /\ StatementsLeft(pc[c]) \in 0..6
             /\ pc[c] # "idle" => StatementsLeft("idle") < StatementsLeft(pc[c])
  BY <1>1, <1>2 DEF IInv, TypeOK, Statements
<1>3. ASSUME IInv, NEW c \in Clients, Statement(c) \/ Failure(c)
      PROVE  /\ StatementsLeft(pc'[c]) < StatementsLeft(pc[c])
             /\ \A d \in Clients \ {c} : pc'[d] = pc[d]
  <2>1. pc \in [Clients -> Statements \cup {"idle"}]
    BY <1>3 DEF IInv, TypeOK
  <2>2. txn[c] = "active" => pc[c] \in Statements \ {"Rollback"}
    BY <1>3 DEF IInv, ClientOK, StageOK, Idle, Running, Failed
  <2>3. CASE Statement(c)
    BY <1>1, <2>1, <2>3 DEF Statement, CreateTransfer, CreateTransferRejected,
       CreateFromEntry, CreateToEntry, CreateEntry, AddFirst, AddSecond, AddMoney,
       Commit, CommitRefused, Rollback, Return
  <2>4. CASE Failure(c)
    BY <1>1, <2>1, <2>2, <2>4 DEF Failure, StatementFails, CommitLost,
       CommitUnacknowledged, Return, Statements
  <2>. QED
    BY <1>3, <2>3, <2>4
<1>4. ASSUME IInv, Next, NEW c \in Clients PROVE Moves(c)
  <2>1. CASE Statement(c) \/ Failure(c)
    BY <1>2, <1>3, <1>4, <2>1
  <2>2. CASE ~Statement(c) /\ ~Failure(c)
    <3>1. ASSUME NEW d \in Clients, Statement(d) \/ Failure(d) PROVE Moves(c)
      BY <1>2, <1>3, <1>4, <2>2, <3>1
    <3>2. ASSUME NEW d \in Clients, NEW from \in AccountIDs, NEW to \in AccountIDs,
                 NEW amount \in Amounts, Begin(d, from, to, amount)
          PROVE  Moves(c)
      BY <1>2, <1>4, <2>2, <3>2 DEF Begin, IInv, TypeOK
    <3>3. CASE Crash
      BY <1>2, <1>4, <2>2, <3>3 DEF Crash
    <3>4. CASE Query
      BY <1>2, <1>4, <2>2, <3>4 DEF Query, CreateAccount, UpdateAccount,
         AddAccountBalance, SetBalance, DeleteAccount
    <3> HIDE DEF Moves
    <3>. QED
      BY <1>4, <3>1, <3>2, <3>3, <3>4 DEF Next
  <2>. QED
    BY <2>1, <2>2
<1>5. IInv /\ [Next]_vars => [\A c \in Clients : Moves(c)]_vars
  BY <1>4
<1>. QED
  BY <1>5, Invariance, PTL DEF Spec
===============================================================================
