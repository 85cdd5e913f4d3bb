---------------------------- MODULE Listing_proofs ----------------------------
(* One page holds all accounts of a user, for any number of users, accounts  *)
(* and currencies and every page size that holds the currencies.             *)
EXTENDS Listing, TransferAPI_proofs, FiniteSetTheorems

\* Every account has an owner and a currency.
LEMMA ColumnsStep == IInv /\ ColumnsOK /\ [APINext]_vars => ColumnsOK'
<1> SUFFICES ASSUME IInv, ColumnsOK, [APINext]_vars PROVE ColumnsOK'
  OBVIOUS
<1>1. CASE \E u \in Users, k \in Currencies : CreateAccount(u, k)
  <2>1. PICK u \in Users, k \in Currencies : CreateAccount(u, k)
    BY <1>1
  <2> DEFINE n == nextAccountID
  <2>2. n \in AccountIDs /\ n \notin accounts
    BY <2>1 DEF CreateAccount, Open, IInv, IdsOK, TypeOK, TablesOK, AccountIDs
  <2>3. CASE n \notin accounts'
    BY <2>1, <2>2, <2>3 DEF CreateAccount, Open, columns, ColumnsOK
  <2>4. CASE n \in accounts'
    <3>1. /\ accounts' = accounts \cup {n}
          /\ owner' = [owner EXCEPT ![n] = u]
          /\ currency' = [currency EXCEPT ![n] = k]
      BY <2>1, <2>2, <2>4 DEF CreateAccount, Open
    <3>. QED
      BY <2>2, <3>1 DEF ColumnsOK, IInv, TypeOK
  <2>. QED
    BY <2>3, <2>4
<1>2. CASE \E a \in AccountIDs : DeleteAccount(a)
  BY <1>2 DEF DeleteAccount, Close, ColumnsOK, IInv, TypeOK
<1>3. CASE UNCHANGED <<accounts, owner, currency>>
  BY <1>3 DEF ColumnsOK
<1>4. CASE \/ \E a \in AccountIDs, b \in SeedBalances : UpdateAccount(a, b)
           \/ \E r \in TxIDs, q \in Request : Receive(r, q)
           \/ \E r \in TxIDs : CreateTransfer(r)
           \/ UNCHANGED vars
  BY <1>3, <1>4 DEF UpdateAccount, Adjust, Receive, CreateTransfer, ValidFrom,
     ValidTo, GetAccountFails, TransferTx, Post, TransferTxFails, vars, tables,
     columns
<1>. QED
  BY <1>1, <1>2, <1>4 DEF APINext, Requested, ByHand

\* ... in every state.
LEMMA ColumnsInv == APISpec => [](IInv /\ ColumnsOK)
<1>1. Init => ColumnsOK
  BY BoundsAssumption DEF BoundsAssumption, Init, TablesInit, ColumnsOK, AccountIDs
<1>. QED
  BY <1>1, ColumnsStep, Invariance, PTL DEF APISpec

\* owner_currency_key: a user has no more accounts than there are currencies.
LEMMA FewAccounts ==
  ASSUME IInv, ColumnsOK, NEW u \in Users
  PROVE  /\ IsFiniteSet(AccountsOf(u))
         /\ Cardinality(AccountsOf(u)) <= Cardinality(Currencies)
<1> DEFINE f == [a \in AccountsOf(u) |-> currency[a]]
<1>1. f \in [AccountsOf(u) -> Currencies]
  BY DEF ColumnsOK, AccountsOf
<1>2. \A a, b \in AccountsOf(u) : f[a] = f[b] => a = b
  BY DEF IInv, OneAccountPerCurrency, AccountsOf
<1>3. f \in Injection(AccountsOf(u), Currencies)
  BY <1>1, <1>2 DEF Injection, IsInjective
<1>. QED
  BY <1>3, FS_Injection, PagesAssumption DEF PagesAssumption

\* A window that starts at 0 and holds the set is the set; one that starts
\* behind its last element is empty.
LEMMA WindowOfFew ==
  ASSUME NEW S, IsFiniteSet(S), S \subseteq Int,
         NEW n \in Nat, Cardinality(S) <= n, NEW o \in Nat
  PROVE  /\ o = 0 => Window(S, n, o) = S
         /\ o >= n => Window(S, n, o) = {}
<1>1. ASSUME NEW a \in S
      PROVE  Cardinality({b \in S : b < a}) \in 0..(n - 1)
  <2> DEFINE R == {b \in S : b < a}
  <2>1. IsFiniteSet(S \ {a}) /\ Cardinality(S \ {a}) = Cardinality(S) - 1
    BY FS_RemoveElement
  <2>2. R \in SUBSET (S \ {a})
    OBVIOUS
  <2>3. IsFiniteSet(R) /\ Cardinality(R) <= Cardinality(S \ {a})
    BY <2>1, <2>2, FS_Subset
  <2>4. Cardinality(R) \in Nat /\ Cardinality(S) \in Nat
    BY <2>3, FS_CardinalityType
  <2>. QED
    BY <2>1, <2>3, <2>4
<1> DEFINE Rank(a) == Cardinality({b \in S : b < a})
<1>2. \A a \in S : Rank(a) \in 0..(n - 1)
  BY <1>1
<1>3. Window(S, n, o) = {a \in S : Rank(a) \in o..(o + n - 1)}
  BY DEF Window
<1> HIDE DEF Rank
<1>4. ASSUME o = 0 PROVE Window(S, n, o) = S
  <2>1. \A a \in S : Rank(a) \in o..(o + n - 1)
    BY <1>2, <1>4
  <2>. QED
    BY <1>3, <2>1
<1>5. ASSUME o >= n PROVE Window(S, n, o) = {}
  <2>1. \A a \in S : Rank(a) \notin o..(o + n - 1)
    BY <1>2, <1>5
  <2>. QED
    BY <1>3, <2>1
<1>. QED
  BY <1>4, <1>5

\* The reads of accounts over HTTP (api/account.go lines 51-102): page one is
\* what getAccount shows, account by account, and there is nothing behind it.
THEOREM OnePageIsEnough == APISpec => []PagesAreRight
<1>1. ASSUME IInv, ColumnsOK PROVE PagesAreRight
  <2> SUFFICES ASSUME NEW u \in Users, NEW q \in ListRequest, Fits(q)
               PROVE  ListAccount(u, q) =
                        Answered("OK", IF q.page = 1 THEN Shown(u) ELSE {})
    BY DEF PagesAreRight
  <2> DEFINE n == q.size
             p == q.page
  <2>1. n \in Nat /\ p \in Nat \ {0} /\ Cardinality(Currencies) \in 1..n
    BY PagesAssumption DEF PagesAssumption, ListRequest
  <2>2. Offset(q) = (p - 1) * n
    BY DEF Offset, Wrapped, Fits
  <2>3. u # NoUser
    BY NamesAssumption DEF NamesAssumption
  <2>4. AccountsOf(u) \subseteq Int
    <3>1. accounts \subseteq AccountIDs
      BY <1>1 DEF IInv, TypeOK, TablesOK
    <3>2. \A a \in AccountIDs : a \in Int
      BY DEF AccountIDs
    <3>. QED
      BY <3>1, <3>2 DEF AccountsOf
  <2>5. IsFiniteSet(AccountsOf(u)) /\ Cardinality(AccountsOf(u)) <= n
    <3>1. /\ IsFiniteSet(AccountsOf(u))
          /\ Cardinality(AccountsOf(u)) <= Cardinality(Currencies)
      BY <1>1, FewAccounts
    <3>2. Cardinality(AccountsOf(u)) \in Nat
      BY <3>1, FS_CardinalityType
    <3>. QED
      BY <2>1, <3>1, <3>2
  <2>6. Shown(u) = AccountsOf(u)
    BY <1>1, <2>3 DEF Shown, GetAccount, Answered, Authenticated, AccountsOf,
       IInv, TypeOK, TablesOK
  <2>7. CASE p = 1
    <3>1. Offset(q) = 0
      BY <2>1, <2>2, <2>7
    <3>2. ListAccounts(u, n, 0) = AccountsOf(u)
      BY <2>1, <2>4, <2>5, WindowOfFew DEF ListAccounts
    <3>. QED
      BY <2>3, <2>6, <2>7, <3>1, <3>2 DEF ListAccount, Authenticated
  <2>8. CASE p # 1
    <3>1. Offset(q) \in Nat /\ Offset(q) >= n
      BY <2>1, <2>2, <2>8
    <3>2. ListAccounts(u, n, Offset(q)) = {}
      BY <2>1, <2>4, <2>5, <3>1, WindowOfFew DEF ListAccounts
    <3>. QED
      BY <2>3, <2>8, <3>1, <3>2 DEF ListAccount, Authenticated
  <2>. QED
    BY <2>7, <2>8
<1>. QED
  BY <1>1, ColumnsInv, PTL
-------------------------------------------------------------------------------
(* The query itself, for tables of any length: what OFFSET (page - 1) * size   *)
(* makes of a set of ids.                                                      *)

Rank(S, a) == Cardinality({b \in S : b < a})

LEMMA RankType ==
  ASSUME NEW S, IsFiniteSet(S), NEW a
  PROVE  Rank(S, a) \in Nat
<1>1. {b \in S : b < a} \in SUBSET S
  OBVIOUS
<1>. QED
  BY <1>1, FS_Subset, FS_CardinalityType DEF Rank

\* Greater ids have greater ranks.
LEMMA RankGrows ==
  ASSUME NEW S, IsFiniteSet(S), S \subseteq Int, NEW a \in S, NEW b \in S, a < b
  PROVE  Rank(S, a) < Rank(S, b)
<1> DEFINE A == {c \in S : c < a}
           B == {c \in S : c < b}
<1>1. A \subseteq B /\ a \in B /\ a \notin A
  <2>1. ASSUME NEW c \in S, c < a PROVE c < b
    <3>1. c \in Int /\ a \in Int /\ b \in Int
      OBVIOUS
    <3>. QED
      BY <2>1, <3>1
  <2>2. a \in Int
    OBVIOUS
  <2>3. ~(a < a)
    BY <2>2
  <2>. QED
    BY <2>1, <2>3
<1>2. IsFiniteSet(B)
  BY FS_Subset
<1>3. IsFiniteSet(A) /\ Cardinality(A) <= Cardinality(B)
      /\ (Cardinality(A) = Cardinality(B) => A = B)
  BY <1>1, <1>2, FS_Subset
<1>4. Cardinality(A) \in Nat /\ Cardinality(B) \in Nat
  BY <1>2, <1>3, FS_CardinalityType
<1> HIDE DEF A, B
<1>5. Cardinality(A) < Cardinality(B)
  BY <1>1, <1>3, <1>4
<1>. QED
  BY <1>5 DEF A, B, Rank

LEMMA WindowIsRanks ==
  ASSUME NEW S, IsFiniteSet(S), NEW n \in Nat, NEW o \in Nat
  PROVE  Window(S, n, o) = {a \in S : o <= Rank(S, a) /\ Rank(S, a) < o + n}
<1>1. \A a \in S : Rank(S, a) \in Nat
  BY RankType
<1>2. Window(S, n, o) = {a \in S : Rank(S, a) \in o..(o + n - 1)}
  BY DEF Window, Rank
<1>. QED
  BY <1>1, <1>2

Page(S, n, p) == Window(S, n, (p - 1) * n)

\* ListAccounts (account.sql.go lines 113-154) with the offset listAccount
\* computes (api/account.go lines 91-95), as long as it fits: every row is on
\* one page and on no other, the pages go up, and none is longer than its size.
THEOREM PagesPartition ==
  ASSUME NEW S, IsFiniteSet(S), S \subseteq Int, NEW n \in Nat \ {0}
  PROVE  /\ \A a \in S : \E p \in Nat \ {0} : a \in Page(S, n, p)
         /\ \A p, q \in Nat \ {0} : p < q =>
              \A a \in Page(S, n, p), b \in Page(S, n, q) : a < b
         /\ \A p \in Nat \ {0} : Cardinality(Page(S, n, p)) <= n
<1>1. ASSUME NEW p \in Nat \ {0}
      PROVE  /\ (p - 1) * n \in Nat
             /\ Page(S, n, p) =
                  {a \in S : (p - 1) * n <= Rank(S, a) /\ Rank(S, a) < p * n}
  <2>1. (p - 1) * n \in Nat /\ (p - 1) * n + n = p * n
    OBVIOUS
  <2>. QED
    BY <2>1, WindowIsRanks DEF Page
<1>2. ASSUME NEW a \in S PROVE \E p \in Nat \ {0} : a \in Page(S, n, p)
  <2> DEFINE r == Rank(S, a)
             P == {p \in Nat : r < p * n}
  <2>1. r \in Nat
    BY RankType
  <2> HIDE DEF r
  <2>2. r + 1 \in P
    BY <2>1
  <2>3. PICK p \in P : \A k \in P : p <= k
    BY <2>2, LeastNumber
  <2>4. p \in Nat /\ r < p * n /\ p # 0
    BY <2>1, <2>3
  <2>5. p - 1 \in Nat /\ p - 1 \notin P
    BY <2>3, <2>4
  <2>6. (p - 1) * n <= r
    BY <2>1, <2>5
  <2>. QED
    BY <1>1, <2>4, <2>6 DEF r
<1>3. ASSUME NEW p \in Nat \ {0}, NEW q \in Nat \ {0}, p < q,
             NEW a \in Page(S, n, p), NEW b \in Page(S, n, q)
      PROVE  a < b
  <2> DEFINE r == Rank(S, a)
             s == Rank(S, b)
  <2>1. a \in S /\ b \in S /\ r < p * n /\ (q - 1) * n <= s
    BY <1>1
  <2>2. r \in Nat /\ s \in Nat
    BY RankType
  <2>3. p * n <= (q - 1) * n
    BY <1>3
  <2>4. p * n \in Nat /\ (q - 1) * n \in Nat
    BY <1>1
  <2> HIDE DEF r, s
  <2>5. r < s
    BY <2>1, <2>2, <2>3, <2>4
  <2>6. a \in Int /\ b \in Int
    BY <2>1
  <2>7. ~(b < a)
    <3> SUFFICES ASSUME b < a PROVE FALSE
      OBVIOUS
    <3>1. s < r
      BY <2>1, RankGrows DEF r, s
    <3>. QED
      BY <2>2, <2>5, <3>1
  <2>8. a # b
    <3> SUFFICES ASSUME a = b PROVE FALSE
      OBVIOUS
    <3>1. r = s
      BY DEF r, s
    <3>. QED
      BY <2>2, <2>5, <3>1
  <2>. QED
    BY <2>6, <2>7, <2>8
<1>4. ASSUME NEW p \in Nat \ {0} PROVE Cardinality(Page(S, n, p)) <= n
  <2> DEFINE o == (p - 1) * n
             W == Page(S, n, p)
             T == o..(o + n - 1)
             f == [a \in W |-> Rank(S, a)]
  <2>1. o \in Nat /\ W \subseteq S /\ W = Window(S, n, o)
    BY <1>1 DEF Page
  <2> HIDE DEF o, W
  <2>2. f \in [W -> T]
    BY <2>1 DEF Window, Rank
  <2>3. \A a, b \in W : f[a] = f[b] => a = b
    <3>1. \A a \in W : a \in S /\ a \in Int /\ Rank(S, a) \in Int
      BY <2>1, RankType
    <3>2. ASSUME NEW a \in W, NEW b \in W, a < b PROVE f[a] # f[b]
      <4>1. Rank(S, a) < Rank(S, b)
        BY <3>1, <3>2, RankGrows
      <4>. QED
        BY <3>1, <4>1
    <3>. QED
      BY <3>1, <3>2
  <2>4. f \in Injection(W, T)
    BY <2>2, <2>3 DEF Injection, IsInjective
  <2>5. IsFiniteSet(T) /\ Cardinality(T) = n
    BY <2>1, FS_Interval
  <2>6. Cardinality(W) <= Cardinality(T)
    BY <2>4, <2>5, FS_Injection
  <2>. QED
    BY <2>5, <2>6 DEF W
<1>. QED
  BY <1>2, <1>3, <1>4
===============================================================================
