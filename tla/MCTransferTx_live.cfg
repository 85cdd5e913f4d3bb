CONSTANTS
  c1 = c1
  c2 = c2
  Clients = {c1, c2}
  NoCall = NoCall
  MaxAccountID = 3
  Seeded = 2
  MaxTx = 2
  MaxInt64 = 2
  Amounts <- One
  SeedBalances <- Zero
  HandBalances <- NoValues
  HandAmounts <- NoValues
SPECIFICATION FairSpec

PROPERTIES
  EveryCallReturns
CHECK_DEADLOCK FALSE
