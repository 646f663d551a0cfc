SPECIFICATION Spec
CONSTANTS
  None = None
  Keys = {k1}
  Requests = {r1, r2, r3}
  Kinds <- FillingKinds
  MaxVersion = 1
INVARIANT FreshAfterPurge
