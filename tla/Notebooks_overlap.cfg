SPECIFICATION Spec
CONSTANTS
  u1 = u1
  u2 = u2
  u3 = u3
  q1 = q1
  q2 = q2
  h1 = h1
  h2 = h2
  NoHost = NoHost
  Users = {u1,u2,u3}
  Admins = {}
  Reqs = {q1,q2}
  Desks = {}
  Hosts = {h1,h2}
  GpuHosts = {h1,h2}
  Profiles = {TRUE}
  MaxRuns = 3
  MaxBoosts = 0
  MaxRows = 3
  MaxGpus = 1
  Unsteady = {}
  Limited = {}
  Managed = {u3}
  Leaving = {}
  Outages = FALSE
  Maintained = FALSE
SYMMETRY RestSymmetry
INVARIANTS PromotedWasTold WholeNodeOfFew DeletedLeavesNothing
