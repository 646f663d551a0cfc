SPECIFICATION Spec
CONSTANTS
  None = None
  Evictor = Evictor
  Keys = {k1, k2}
  Readers = {r1, r2}
  Streams = {x1}
  Sizes = {1, 2, 3}
  Configs <- Limited
  Faults = {"write", "flush", "crash"}
  MaxWrites = 2
  MaxRestarts = 1
SYMMETRY StorageSymmetry
INVARIANTS
  TypeOK
  CountersMatchIndex
  IndexMatchesFiles
PROPERTIES
  StoreMakesRoom
  ImplementsCache
