SPECIFICATION PoolFairSpec
CONSTANTS
  t1 = t1
  t2 = t2
  u1 = u1
  u2 = u2
  u3 = u3
  c1 = c1
  c2 = c2
  c3 = c3
  c4 = c4
  Tenants = {t1, t2}
  Units = {u1, u2, u3}
  Requests = {c1, c2, c3, c4}
  TenantOf <- MCTenantOf
  UnitOf <- CouncilUnitOf
  MaxProcs = 2
  TenantCap = 1
  BatchLow = 2
  BatchHigh = 1
  BatchThreshold = 2
  MaxWait = 2
INVARIANTS
  TypeOK
  PermitsInOrder
  HostCap
PROPERTIES
  EveryUnitLeaves
