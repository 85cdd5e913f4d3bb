\* Three calls that race for two names and two addresses.
CONSTANTS
  c1 = c1
  c2 = c2
  c3 = c3
  ann = ann
  bob = bob
  x = x
  y = y
  Calls = {c1, c2, c3}
  Names = {ann, bob}
  Emails = {x, y}
  NoUser = NoUser
  MaxRetry = 1
  MaxStarts = 1
  MaxDamaged = 1
SPECIFICATION Spec
SYMMETRY Symmetry
INVARIANTS
  UserHasTask
  RepliesAreTrue
  OneWinner
  MailGoesToUsers
  IInv
PROPERTIES
  ImplementsRegistration
CHECK_DEADLOCK FALSE
