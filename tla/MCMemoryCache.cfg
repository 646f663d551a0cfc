SPECIFICATION Spec
CONSTANTS
  None = None
  Keys = {k1, k2, k3, k4}
  Procs = {p1, p2}
  Costs = {1, 2, 5}
  Capacities <- SomeCapacities
SYMMETRY CacheSymmetry
INVARIANTS
  TypeOK
  CostIsSum
  LimitsKept
PROPERTIES
  EvictsOldest
