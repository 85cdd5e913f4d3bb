\* Two calls, two retries, one crash or shutdown after which the service may
\* stay down.
CONSTANTS
  c1 = c1
  c2 = c2
  ann = ann
  bob = bob
  x = x
  Calls = {c1, c2}
  Names = {ann, bob}
  Emails = {x}
  NoUser = NoUser
  MaxRetry = 2
  MaxStarts = 1
  MaxDamaged = 1
SPECIFICATION FairSpec
PROPERTIES
  TasksEnd
CHECK_DEADLOCK FALSE
