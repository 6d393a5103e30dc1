SPECIFICATION Spec
CONSTANTS
  q1 = q1
  q2 = q2
  q3 = q3
  Reqs = {q1, q2, q3}
  MaxUses = 3
SYMMETRY ReqSymmetry
INVARIANTS
  TokenBounded
  InviteBounded
  InviteUsedUp
CHECK_DEADLOCK FALSE
