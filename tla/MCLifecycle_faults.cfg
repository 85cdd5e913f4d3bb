\* Two requests, every fault, a signal at any time.
CONSTANTS
  r1 = r1
  r2 = r2
  Requests = {r1, r2}
  Faults <- AllFaults
SPECIFICATION FairSpec
INVARIANTS
  IInv
  Drains
  Unstuck
  FailureIsFatal
PROPERTIES
  Ends
CHECK_DEADLOCK FALSE
