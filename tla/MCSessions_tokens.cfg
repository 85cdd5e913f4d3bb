\* Two threads, one user and two passwords, a log-in and a renewal, time for
\* their tokens and a tick of rounding.
CONSTANTS
  c1 = c1
  c2 = c2
  ann = ann
  pw1 = pw1
  pw2 = pw2
  x = x
  Calls = {c1, c2}
  Users = {ann}
  Stranger = Stranger
  Passwords = {pw1, pw2}
  Emails = {x}
  Unchanged = Unchanged
  AccessTokenDuration = 1
  RefreshTokenDuration = 2
  Rounding = 1
  MaxToken = 3
  MaxNow = 6
SPECIFICATION Spec
SYMMETRY Symmetry
INVARIANTS
  BlockedStaysOut
  RefusedForCause
PROPERTIES
  ImplementsAccess
CHECK_DEADLOCK FALSE
