SPECIFICATION Spec
CONSTANTS
  r1 = r1
  r2 = r2
  m1 = m1
  Replicas = {r1, r2}
  Signed = {m1}
  Stamp <- MCStamp
  Skew = 1
  Limit = 1
  Window = 2
  Backoff = 1
  LastTime = 3
  MaxLost = 1
SYMMETRY ReplicaSymmetry
INVARIANTS
  PassedBounded
  GrantedBounded
CHECK_DEADLOCK FALSE
