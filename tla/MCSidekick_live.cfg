SPECIFICATION Spec
CONSTANTS
  None = None
  Keys = {k1, k2}
  Requests = {r1, r2}
  Kinds <- EveryKind
  MaxVersion = 0
PROPERTIES
  FollowerNeverBlocks
  AllAnswered
