SPECIFICATION Spec
CONSTANTS
  r1 = r1
  r2 = r2
  None = None
  Replicas = {r1, r2}
  Databases <- AllDatabases
  Settings <- Setting
  MaxCrashes = 1
INVARIANT
  AdoptedIsAtHead
CHECK_DEADLOCK FALSE
