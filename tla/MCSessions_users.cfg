\* Two threads, two users, two log-ins, a free address; the clock stands still.
CONSTANTS
  c1 = c1
  c2 = c2
  ann = ann
  bob = bob
  pw1 = pw1
  pw2 = pw2
  x = x
  y = y
  z = z
  Calls = {c1, c2}
  Users = {ann, bob}
  Stranger = Stranger
  Passwords = {pw1, pw2}
  Emails = {x, y, z}
  Unchanged = Unchanged
  AccessTokenDuration = 1
  RefreshTokenDuration = 2
  Rounding = 0
  MaxToken = 4
  MaxNow = 1
SPECIFICATION Spec
SYMMETRY Symmetry
INVARIANTS
  IInv
  LoginKnowsPassword
PROPERTIES
  OnlyOwnersChange
CHECK_DEADLOCK FALSE
