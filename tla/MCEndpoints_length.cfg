\* One request at a time, with passwords around what bcrypt takes.
CONSTANTS
  c1 = c1
  Calls = {c1}
  Usernames <- MCUsernames
  Passwords <- LongPasswords
  FullNames <- MCFullNames
  Emails <- MCEmails
  Absent = Absent
  MaxBcrypt = 72
  NoRow = NoRow
  NoRecord = NoRecord
SPECIFICATION Spec
INVARIANTS
  ValidIsServed
CHECK_DEADLOCK FALSE
