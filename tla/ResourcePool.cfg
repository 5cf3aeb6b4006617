SPECIFICATION Spec
CONSTANTS
  a1 = a1
  a2 = a2
  a3 = a3
  r1 = r1
  r2 = r2
  Clients = {t1, t2, t3}
  Algs = {a1, a2, a3}
  InstanceIds = {1, 2}
  Instances <- MCInstances
  Reentrant = {a3}
  Resources = {r1, r2}
  Requires <- MCRequires
  None = None
INVARIANTS
  PoolInv
  MutualExclusion
  NothingLeaks
