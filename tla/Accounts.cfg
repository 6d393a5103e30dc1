SPECIFICATION Spec
CONSTANTS
  o1 = o1
  u1 = u1
  q1 = q1
  q2 = q2
  s0 = s0
  s1 = s1
  s2 = s2
  None = None
  l1 = l1
  Logins = {l1}
  Users = {o1, u1}
  Owner = o1
  OwnerSession = s0
  SessionIds = {s1, s2}
  Reqs = {q1, q2}
SYMMETRY Symmetry
INVARIANTS
  OwnerKept
  OutdatedIsRevoked
  OneLiveSessionPerLogin
  TemporaryMustChange
  SessionsHaveUsers
CHECK_DEADLOCK FALSE
