\* Nothing fails; a signal arrives.
CONSTANTS
  r1 = r1
  Requests = {r1}
  Faults <- NoFaults
SPECIFICATION Spec
INVARIANTS
  FatalIsFailure
CHECK_DEADLOCK FALSE
