SPECIFICATION Spec
CONSTANTS
  u2 = u2
  q1 = q1
  d1 = d1
  d2 = d2
  h1 = h1
  NoHost = NoHost
  Users = {u2}
  Admins = {}
  Reqs = {q1}
  Desks = {d1,d2}
  Hosts = {h1}
  GpuHosts = {h1}
  Profiles = {TRUE, FALSE}
  MaxRuns = 3
  MaxBoosts = 2
  MaxRows = 4
  MaxGpus = 1
  Unsteady = {}
  Limited = {u2}
  Managed = {u2}
  Leaving = {u2}
  Outages = TRUE
  Maintained = TRUE
SYMMETRY ReqSymmetry
INVARIANTS TypeOK IInv GrantUsesBounded
