SPECIFICATION Spec
CONSTANTS
  None = None
  Keys = {k1}
  Temp = temp
  Captures = {c1}
  Instances = {g1, g2}
  Budgets <- Either
SYMMETRY ReloadSymmetry
CHECK_DEADLOCK FALSE
INVARIANTS
  GaugesCurrent
  ServedWhole
  PurgedNotServed
  IndexInStep
  LeftoversEvictable
