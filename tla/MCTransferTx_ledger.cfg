\* Two clients against every query of the store, with sums at the limit of
\* bigint, constraint violations, crashes and lost connections.
CONSTANTS
  c1 = c1
  c2 = c2
  Clients = {c1, c2}
  NoCall = NoCall
  MaxAccountID = 3
  Seeded = 2
  MaxTx = 2
  MaxInt64 = 2
  Amounts <- Two
  SeedBalances <- Zero
  HandBalances <- One
  HandAmounts <- One
SPECIFICATION Spec
SYMMETRY ClientSymmetry
INVARIANTS
  IInv
  DoubleEntry
  Conservation
  AckedIsPosted
PROPERTIES
  ImplementsLedger
  AckIsCurrent
CHECK_DEADLOCK FALSE
