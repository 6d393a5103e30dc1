SPECIFICATION Spec
CONSTANTS
  q1 = q1
  q2 = q2
  q3 = q3
  Reqs = {q1, q2, q3}
  MaxFailed = 3
SYMMETRY ReqSymmetry
INVARIANTS
  FailuresLock
  ConfirmedTotp
CHECK_DEADLOCK FALSE
