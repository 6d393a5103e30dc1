SPECIFICATION Spec
CONSTANTS
  r1 = r1
  r2 = r2
  None = None
  Replicas = {r1, r2}
  Databases <- AllDatabases
  Settings <- Setting
  MaxCrashes = 1
INVARIANTS
  SchemaServed
  OnlyOldSchemasFail
  LockedWhileMigrating
  PrintedIsOwners
  SignsAsItVerifies
PROPERTY
  EveryReplicaServes
CHECK_DEADLOCK FALSE
