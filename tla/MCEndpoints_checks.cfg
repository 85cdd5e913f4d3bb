\* Two requests at a time, at every door, valid or not.
CONSTANTS
  c1 = c1
  c2 = c2
  Calls = {c1, c2}
  Usernames <- MCUsernames
  Passwords <- MCPasswords
  FullNames <- MCFullNames
  Emails <- MCEmails
  Absent = Absent
  MaxBcrypt = 72
  NoRow = NoRow
  NoRecord = NoRecord
SPECIFICATION Spec
SYMMETRY Symmetry
INVARIANTS
  IInv
  SignedUpCanLogIn
  LogTellsTruth
CHECK_DEADLOCK FALSE
