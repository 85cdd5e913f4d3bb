\* Two requests for a transfer between accounts that are created and deleted.
CONSTANTS
  ann = ann
  bob = bob
  usd = usd
  eur = eur
  Users = {ann, bob}
  Currencies = {usd, eur}
  NoUser = NoUser
  NoCurrency = NoCurrency
  NoRequest = NoRequest
  MaxAccountID = 3
  Seeded = 2
  MaxTx = 2
  MaxInt64 = 1
  MaxInt32 = 7
  MinPageSize = 2
  MaxPageSize = 4
  Amounts <- One
  SeedBalances <- Zero
SPECIFICATION APISpec
SYMMETRY NameSymmetry
INVARIANTS
  IInv
  OwnMoney
  CurrenciesApart
  AnswersAreTrue
  PagesAreRight
PROPERTIES
  OnlyOwnersPay
CHECK_DEADLOCK FALSE
