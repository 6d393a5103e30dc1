SPECIFICATION Spec
CONSTANTS
  u1 = u1
  u2 = u2
  u3 = u3
  q1 = q1
  q2 = q2
  d1 = d1
  h1 = h1
  h2 = h2
  NoHost = NoHost
  Users = {u1,u2,u3}
  Admins = {}
  Reqs = {q1}
  Desks = {d1}
  Hosts = {h1,h2}
  GpuHosts = {h1,h2}
  Profiles = {TRUE}
  MaxRuns = 3
  MaxBoosts = 1
  MaxRows = 4
  MaxGpus = 2
  Unsteady = {h1}
  Limited = {}
  Managed = {}
  Leaving = {}
  Outages = FALSE
  Maintained = FALSE
SYMMETRY UserReqSymmetry
INVARIANTS OneActiveRun WholeNodeWasFree SharersTold BoostWithinGrant
  ToldByFew
PROPERTIES SharesOnlyWhenFull QueueInOrder GrantsAsPromised
