-------------------------------- MODULE Listing --------------------------------
(*****************************************************************************)
(* The handlers that read accounts (api/account.go): getAccount and          *)
(* listAccount, behind authMiddleware.  Each makes one query and changes     *)
(* nothing, so it is an operator on the state that TransferAPI is in.        *)
(*                                                                           *)
(* listAccount computes its OFFSET in int32, which wraps.  That a user never *)
(* needs a second page follows from three places that do not know of each    *)
(* other: the currencies of util/currency.go, owner_currency_key, and the    *)
(* smallest page size the binding allows.                                    *)
(*****************************************************************************)
EXTENDS TransferAPI

CONSTANTS
  MaxInt32,     \* the greatest int32, 2^31 - 1 in the real program
  MinPageSize,  \* api/account.go line 81: 5
  MaxPageSize   \* api/account.go line 81: 10

ASSUME PagesAssumption ==
  /\ MaxInt32 \in Nat
  /\ MinPageSize \in Nat
  /\ MaxPageSize \in MinPageSize..MaxInt32
  /\ IsFiniteSet(Currencies)
  /\ Cardinality(Currencies) \in 1..MinPageSize  \* 3, and 5

\* What the binding lets through.
ListRequest == [page : 1..MaxInt32, size : MinPageSize..MaxPageSize]

\* The user of a request, or NoUser when authMiddleware refuses its header or
\* its token.
Authenticated(u) == u # NoUser

\* A product of two int32: one that does not fit loses its high bits.
Wrapped(n) ==
  IF n <= MaxInt32 THEN n
  ELSE ((n + MaxInt32 + 1) % (2 * (MaxInt32 + 1))) - (MaxInt32 + 1)

\* Mutant of Offset: pages are counted from zero.
OffsetFromZero(q) == Wrapped(q.page * q.size)

Offset(q) == Wrapped((q.page - 1) * q.size)

AccountsOf(u) == {a \in accounts : owner[a] = u}

\* ORDER BY id LIMIT limit OFFSET offset
Window(rows, limit, offset) ==
  {a \in rows :
     Cardinality({b \in rows : b < a}) \in offset..(offset + limit - 1)}

ListAccounts(u, limit, offset) == Window(AccountsOf(u), limit, offset)

Answered(s, as) == [status |-> s, accounts |-> as]

\* PostgreSQL refuses a negative OFFSET.
ListAccount(u, q) ==
  IF ~Authenticated(u) THEN Answered("Unauthorized", {})
  ELSE IF Offset(q) < 0 THEN Answered("InternalServerError", {})
  ELSE Answered("OK", ListAccounts(u, q.size, Offset(q)))

\* getAccount looks at the owner after it has found the row.
GetAccount(u, a) ==
  IF ~Authenticated(u) THEN Answered("Unauthorized", {})
  ELSE IF a \notin accounts THEN Answered("NotFound", {})
  ELSE IF owner[a] # u THEN Answered("Unauthorized", {})
  ELSE Answered("OK", {a})

-------------------------------------------------------------------------------
(* Properties.                                                               *)

\* What getAccount shows a user, account by account.
Shown(u) == UNION {GetAccount(u, a).accounts : a \in AccountIDs}

Fits(q) == (q.page - 1) * q.size <= MaxInt32

\* Whoever creates or deletes accounts meanwhile, the first page of any size
\* holds exactly the accounts getAccount shows its user, and every later page
\* is empty, as long as its offset is an int32 (api/account.go lines 91-95).
\* Beyond that a page may be refused, or show the first page again.
PagesAreRight ==
  \A u \in Users, q \in ListRequest :
     Fits(q) => ListAccount(u, q) =
                  Answered("OK", IF q.page = 1 THEN Shown(u) ELSE {})

\* Why one page is enough: every account is some user's, in some currency.
ColumnsOK ==
  \A a \in accounts : owner[a] \in Users /\ currency[a] \in Currencies
===============================================================================
