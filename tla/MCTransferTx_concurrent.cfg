\* Three clients on three accounts: cycles of three, opposite transfers,
\* an account that pays itself.
CONSTANTS
  c1 = c1
  c2 = c2
  c3 = c3
  Clients = {c1, c2, c3}
  NoCall = NoCall
  MaxAccountID = 3
  Seeded = 3
  MaxTx = 3
  MaxInt64 = 1
  Amounts <- One
  SeedBalances <- Zero
  HandBalances <- NoValues
  HandAmounts <- NoValues
SPECIFICATION Spec
SYMMETRY ClientSymmetry
INVARIANTS
  TypeOK
  NoDeadlock
CHECK_DEADLOCK FALSE
